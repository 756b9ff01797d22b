----------------------- MODULE CoDispatcherLifeProofs -----------------------
(***************************************************************************)
(* Proofs about the life of a connection on the worker thread: a pooled    *)
(* connection is clean, a coroutine is entered by what it waits for, and a *)
(* suspended one always has something that will wake it.                   *)
(***************************************************************************)
EXTENDS CoDispatcherProofs

USE DEF loop, queues, request, accept, control, budget

-----------------------------------------------------------------------------
(* A pooled connection is clean.                                           *)

(* What the queues hold of c was queued under this use or an earlier one.  *)
QueuedOf(c) ==
    /\ \A d \in delay : d[1] # Blk(c) /\ (d[1] = Orig(c) => d[2] <= version[c])
    /\ \A r \in resumes \cup tokens : r[1] = c => r[2] <= version[c]
    /\ \A e \in batch : e.item = Orig(c) => e.ver <= version[c]

TimersNamed == \A t \in timer.map : \E c \in Conn : t \in EventsOf(c)

(* Nothing points at this use of c and nothing was started for it.         *)
Unused(c) ==
    /\ pc[c] = "idle" /\ ep.ev[Orig(c)] = {}
    /\ timer.map \cap EventsOf(c) = {}
    /\ cur.item \notin Owned(c)
    /\ <<c, version[c]>> \notin tokens \cup resumes
    /\ \A e \in batch : e.item = Orig(c) => e.again \/ e.ver # version[c]
    /\ Orig(c) \notin flags.timedOut \cup flags.dying
    /\ ~Flagged(Blk(c)) /\ c \notin flags.third \cup flags.useBlock

(* A connection is unused in the pool, and from accept until the entry     *)
(* init_connection queued for it is taken, if no stop comes in between.    *)
Entry0(c) == <<Orig(c), version[c]>>
Fresh(c)  == c \in free \/ (Entry0(c) \in delay /\ Orig(c) \notin flags.pendingEof)
CleanOf(c) ==
    /\ c \in free => Entry0(c) \notin delay /\ Orig(c) \notin flags.pendingEof
    /\ Fresh(c) => Unused(c)
CleanInv == TimersNamed /\ \A c \in Conn : QueuedOf(c) /\ CleanOf(c)

-----------------------------------------------------------------------------
LEMMA EventsNamed ==
    ASSUME NEW c \in Conn, NEW t \in EventsOf(c)
    PROVE  t[1] \in Owned(c) /\ t[1][1] = c /\ t \in Event
           /\ (t[2] = "sleep" => t = Sleep(c) /\ t[1] = Orig(c))
           /\ \A d \in Conn \ {c} : t \notin EventsOf(d) /\ t[1] \notin Owned(d)
BY DEF EventsOf, Rd, Wr, Sleep, BRd, Orig, Blk, Owned, Event, Item

(* The rows change timers of their own connection only.                    *)
LEMMA RowTimers ==
    ASSUME NEW c \in Conn, Row(c)
    PROVE  \A t \in timer'.map : t \in timer.map \/ t \in EventsOf(c)
<1>1. \A off, on : Timed(off, on) /\ on \subseteq EventsOf(c)
          => \A t \in timer'.map : t \in timer.map \/ t \in EventsOf(c)
  BY DEF Timed
<1>2. {} \subseteq EventsOf(c) /\ {Rd(c)} \subseteq EventsOf(c) /\ {Wr(c)} \subseteq EventsOf(c)
      /\ {Sleep(c)} \subseteq EventsOf(c) /\ {BRd(c)} \subseteq EventsOf(c)
  BY Apart
<1> QED BY <1>1, <1>2
  DEF Row, SleepsOn, Enters, ReadRow, Begins, Reads, ReadsMore, ReadFails, ReadWaits,
      UserRow, Sleeps, SleepEnds, ThirdWaits, ThirdEnds, Yields, YieldEnds, Returns,
      WriteRow, WriteEnds, WritesPart, WriteWaits, EndRow, Closes, Keeps

LEMMA NamedStep ==
    ASSUME TypeOK, TimerInv, TimersNamed, [Next]_vars PROVE TimersNamed'
<1>0. ASSUME timer'.map \subseteq timer.map PROVE TimersNamed'
  BY <1>0, Rigid DEF TimersNamed
<1>1. CASE Loop
  <2>1. UNCHANGED timer
    BY <1>1 DEF Loop, Start, StartWait, CloseAllConnections, EpollWait, StaleEvent,
         ReadEvent, WriteEvent, EventsDone, DelayDone, LoopAgain, LoopEnd, LookAtTimers,
         TimersDone, NextPhase, TakeDelay, TakeResume
  <2> QED BY <2>1, <1>0
<1>2. CASE Timers
  BY <1>2, <1>0 DEF Timers, ProcessTimer
<1>3. CASE Resumer \/ World BY <1>3, <1>0, WorldFrame
<1>4. CASE ListenEnter \/ Limit \/ Accept BY <1>4, <1>0, ListenFrame
<1>5. CASE \E c \in Conn : Row(c)
  <2> PICK c \in Conn : Row(c)
    BY <1>5
  <2>1. \A t \in timer'.map : t \in timer.map \/ t \in EventsOf(c)
    BY RowTimers
  <2> QED BY <2>1, Rigid DEF TimersNamed
<1>6. CASE UNCHANGED vars BY <1>6, <1>0 DEF vars
<1> QED BY <1>1, <1>2, <1>3, <1>4, <1>5, <1>6, HandlerRows DEF Next

-----------------------------------------------------------------------------
(* The end of a use gives a connection its next version, and only that.    *)
LEMMA RowVersion ==
    ASSUME TypeOK, NEW c \in Conn, Row(c)
    PROVE  \/ EndRow(c) /\ version'[c] = version[c] + 1
           \/ /\ UNCHANGED <<version, free>>
              /\ Orig(c) \in flags'.pendingEof <=> Orig(c) \in flags.pendingEof
<1> USE DEF Stage
<1>m. Orig(c) # Blk(c)
  BY Apart
<1>1. CASE SleepsOn(c) \/ Enters(c)
  BY <1>1 DEF SleepsOn, Enters, DyingIs, FlagsAre
<1>2. CASE ReadRow(c)
  BY <1>2 DEF ReadRow, Begins, Reads, ReadsMore, ReadFails, ReadWaits
<1>3. CASE Sleeps(c) \/ SleepEnds(c) \/ ThirdWaits(c) \/ ThirdEnds(c)
  BY <1>3, <1>m DEF Sleeps, SleepEnds, ThirdWaits, ThirdEnds, BlockingIs, FlagsAre
<1>4. CASE Yields(c) \/ YieldEnds(c) \/ Returns(c)
  BY <1>4 DEF Yields, YieldEnds, Returns
<1>5. CASE WriteRow(c)
  BY <1>5 DEF WriteRow, WriteEnds, WritesPart, WriteWaits
<1>6. CASE EndRow(c)
  BY <1>6 DEF EndRow, Closes, Keeps, Reset
<1> QED BY <1>1, <1>2, <1>3, <1>4, <1>5, <1>6 DEF Row, UserRow


-----------------------------------------------------------------------------
(* What is queued for a connection is of this use of it or an earlier one. *)
LEMMA QueuedFrame ==
    ASSUME NEW c \in Conn, QueuedOf(c), TypeOK, version'[c] >= version[c], version'[c] \in Nat,
           \A d \in delay' : d \in delay \/ d[1] \notin Owned(c) \/ d = Entry0(c),
           \A r \in resumes' \cup tokens' :
                r \in resumes \cup tokens \/ r[1] # c \/ r = <<c, version[c]>>,
           \A e \in batch' : e.item # Orig(c) \/ e.ver = version[c]
                             \/ \E f \in batch : f.item = e.item /\ f.ver = e.ver
    PROVE  QueuedOf(c)'
<1>1. \A d \in delay' : d[1] # Blk(c) /\ (d[1] = Orig(c) => d[2] <= version'[c])
  BY Apart DEF QueuedOf, Entry0, TypeOK
<1>2. \A r \in resumes' \cup tokens' : r[1] = c => r[2] <= version'[c]
  BY DEF QueuedOf, TypeOK
<1>3. \A e \in batch' : e.item = Orig(c) => e.ver <= version'[c]
  <2> SUFFICES ASSUME NEW e \in batch', e.item = Orig(c) PROVE e.ver <= version'[c]
    OBVIOUS
  <2>1. \A f \in batch : f.item = Orig(c) => f.ver <= version[c] /\ f.ver \in Nat
    BY DEF QueuedOf, TypeOK, Entry
  <2>2. version[c] \in Nat
    BY DEF TypeOK
  <2> QED BY <2>1, <2>2
<1> QED BY <1>1, <1>2, <1>3, Rigid DEF QueuedOf

LEMMA QueuedStep ==
    ASSUME Base, [Next]_vars, NEW c \in Conn, QueuedOf(c) PROVE QueuedOf(c)'
<1>t. TypeOK /\ version[c] \in Nat
  BY DEF Base, Safe, TypeOK
<1> USE <1>t
<1>1. CASE Loop \/ Timers
  <2>1. version' = version /\ tokens' = tokens
    BY <1>1, LoopFrame
  <2>2. \A r \in resumes' : r \in resumes
    BY <1>1 DEF Loop, Timers, ProcessTimer, Start, StartWait, CloseAllConnections, EpollWait,
         StaleEvent, ReadEvent, WriteEvent, EventsDone, DelayDone, LoopAgain, LoopEnd,
         LookAtTimers, TimersDone, NextPhase, TakeDelay, TakeResume
  <2>3. \A d \in delay' : d \in delay \/ d[1] \notin Owned(c) \/ d = Entry0(c)
    <3>1. CASE CloseAllConnections
      <4> SUFFICES ASSUME NEW d \in Conn \ free
                   PROVE  \/ <<Orig(d), VersionOf(Orig(d))>>[1] \notin Owned(c)
                          \/ <<Orig(d), VersionOf(Orig(d))>> = Entry0(c)
        BY <3>1, ListenApart DEF CloseAllConnections
      <4>1. VersionOf(Orig(d)) = version[d] /\ (d # c => Orig(d) \notin Owned(c))
        BY Apart DEF VersionOf, Orig
      <4> QED BY <4>1 DEF Entry0
    <3>2. CASE ~CloseAllConnections
      BY <1>1, <3>2 DEF Loop, Timers, ProcessTimer, Start, StartWait, EpollWait,
         StaleEvent, ReadEvent, WriteEvent, EventsDone, DelayDone, LoopAgain, LoopEnd,
         LookAtTimers, TimersDone, NextPhase, TakeDelay, TakeResume
    <3> QED BY <3>1, <3>2
  <2>4. \A e \in batch' : e.item # Orig(c) \/ e.ver = version[c]
                          \/ \E f \in batch : f.item = e.item /\ f.ver = e.ver
    <3>1. CASE EpollWait
      <4>1. ep.ev[Orig(c)] # {} => ep.ver[Orig(c)] = version[c]
        BY DEF Base, WatchInv, WatchOf
      <4>2. Orig(c) # Lsn
        BY ListenApart, Names
      <4> QED BY <3>1, <4>1, <4>2 DEF EpollWait
    <3>2. CASE \E e \in batch : ReadEvent(e)
      <4> PICK e \in batch : ReadEvent(e)
        BY <3>2
      <4>1. e \in Entry
        BY DEF TypeOK
      <4>2. [e EXCEPT !.again = TRUE].item = e.item /\ [e EXCEPT !.again = TRUE].ver = e.ver
        BY <4>1 DEF Entry
      <4> QED BY <4>2 DEF ReadEvent
    <3>3. CASE ~EpollWait /\ ~\E e \in batch : ReadEvent(e)
      <4>1. batch' \subseteq batch
        BY <1>1, <3>3 DEF Loop, Timers, ProcessTimer, Start, StartWait, CloseAllConnections,
           StaleEvent, WriteEvent, EventsDone, DelayDone, LoopAgain, LoopEnd,
           LookAtTimers, TimersDone, NextPhase, TakeDelay, TakeResume
      <4> QED BY <4>1
    <3> QED BY <3>1, <3>2, <3>3
  <2> QED BY <2>1, <2>2, <2>3, <2>4, QueuedFrame
<1>2. CASE Resumer \/ World
  <2>1. resumes' \cup tokens' \subseteq resumes \cup tokens
    BY <1>2, WorldFrame DEF ResumeAsync
  <2> QED BY <1>2, <2>1, WorldFrame, QueuedFrame
<1>3. CASE ListenEnter \/ Limit \/ Accept
  <2>1. \A d \in delay' : d \in delay \/ d[1] \notin Owned(c) \/ d = Entry0(c)
    BY <1>3, ListenFrame, Apart DEF InitConnection, Entry0
  <2> QED BY <1>3, <2>1, ListenFrame, QueuedFrame
<1>4. CASE \E d \in Conn : Row(d)
  <2> PICK d \in Conn : Row(d)
    BY <1>4
  <2>1. UNCHANGED <<batch, delay, resumes>> /\ (tokens' = tokens \/ Yields(d))
        /\ (d # c => version'[c] = version[c])
    BY RowFrame DEF SameOf, SameCall
  <2>2. version'[c] \in Nat /\ version'[c] >= version[c]
    BY <2>1, RowVersion
  <2>3. \A r \in tokens' : r \in tokens \/ r[1] # c \/ r = <<c, version[c]>>
    BY <2>1 DEF Yields
  <2> QED BY <2>1, <2>2, <2>3, QueuedFrame
<1>5. CASE UNCHANGED vars
  BY <1>5, QueuedFrame DEF vars
<1> QED BY <1>1, <1>2, <1>3, <1>4, <1>5, HandlerRows DEF Next, Base


-----------------------------------------------------------------------------
(* A step that starts nothing for c leaves an unused connection unused.    *)
Quiet(c) ==
    /\ pc'[c] = pc[c] /\ ep'.ev[Orig(c)] = ep.ev[Orig(c)]
    /\ timer'.map \cap EventsOf(c) \subseteq timer.map
    /\ cur'.item \notin Owned(c)
    /\ \A r \in resumes' \cup tokens' : r \in resumes \cup tokens \/ r[1] # c
    /\ \A e \in batch' : e.item # Orig(c) \/ e.again \/ e \in batch
    /\ Orig(c) \in flags'.timedOut \cup flags'.dying
           => Orig(c) \in flags.timedOut \cup flags.dying
    /\ Blk(c) \in flags'.timedOut \cup flags'.pendingEof \cup flags'.dying => Flagged(Blk(c))
    /\ c \in flags'.third \cup flags'.useBlock => c \in flags.third \cup flags.useBlock

LEMMA QuietUnused ==
    ASSUME TypeOK, NEW c \in Conn, Unused(c), Quiet(c), version'[c] = version[c]
    PROVE  Unused(c)'
<1>1. <<c, version'[c]>> \notin tokens' \cup resumes'
  BY DEF Unused, Quiet
<1>2. \A e \in batch' : e.item = Orig(c) => e.again \/ e.ver # version'[c]
  BY DEF Unused, Quiet
<1>3. timer'.map \cap EventsOf(c) = {}
  BY DEF Unused, Quiet
<1>4. ~Flagged(Blk(c))'
  BY Rigid DEF Unused, Quiet, Flagged
<1> QED BY <1>1, <1>2, <1>3, <1>4, Rigid DEF Unused, Quiet

(* A connection comes to be unused only by the end of a use.               *)
LEMMA CleanFrame ==
    ASSUME TypeOK, NEW c \in Conn, CleanOf(c), version'[c] = version[c],
           c \in free' => c \in free,
           Entry0(c) \in delay' =>
               \/ Entry0(c) \in delay
               \/ c \in free \ free'
               \/ c \notin free' /\ Orig(c) \in flags'.pendingEof,
           Orig(c) \in flags.pendingEof => Orig(c) \in flags'.pendingEof,
           Orig(c) \in flags'.pendingEof => c \notin free' \/ Orig(c) \in flags.pendingEof,
           Unused(c) => Quiet(c) \/ (c \notin free /\ Entry0(c) \notin delay')
    PROVE  CleanOf(c)'
<1>1. Entry0(c)' = Entry0(c)
  BY DEF Entry0, Orig
<1>2. c \in free' => Entry0(c) \notin delay' /\ Orig(c) \notin flags'.pendingEof
  BY DEF CleanOf
<1>3. Fresh(c)' => Fresh(c)
  BY <1>1, Rigid DEF Fresh
<1>4. Fresh(c)' => Unused(c)'
  BY <1>1, <1>3, QuietUnused DEF CleanOf, Fresh
<1> QED BY <1>1, <1>2, <1>4, Rigid DEF CleanOf


LEMMA CleanLoop ==
    ASSUME Base, TimersNamed, Loop \/ Timers, NEW c \in Conn, QueuedOf(c), CleanOf(c)
    PROVE  CleanOf(c)'
<1>t. TypeOK /\ WatchOf(c) /\ flags \in FlagSet
  BY DEF Base, Safe, WatchInv, TypeOK
<1>f. /\ UNCHANGED <<free, version, pc, tokens>> /\ ep'.ev = ep.ev
  BY <1>t, LoopFrame
<1>u. Unused(c) => ep.ev[Orig(c)] = {} /\ ep.ev[Blk(c)] = {} /\ cur.item \notin Owned(c)
  BY <1>t DEF Unused, WatchOf, ThirdPC
<1>n. Lsn \notin Owned(c) /\ Orig(c) # Blk(c) /\ Orig(c) # Lsn
  BY ListenApart, Apart, Names
<1> USE <1>t, <1>f
<1>0. ASSUME UNCHANGED <<cur, delay, resumes, flags, timer>>,
             \A e \in batch' : e.item # Orig(c) \/ e \in batch \/ ep.ev[Orig(c)] # {}
      PROVE  CleanOf(c)'
  <2>1. Unused(c) => Quiet(c)
    BY <1>0, <1>u DEF Quiet, Flagged
  <2> QED BY <1>0, <2>1, CleanFrame
<1>1. CASE \/ Start \/ StartWait \/ EventsDone \/ DelayDone \/ LoopAgain \/ LoopEnd
           \/ LookAtTimers \/ TimersDone
  BY <1>1, <1>0 DEF Start, StartWait, EventsDone, DelayDone, LoopAgain, LoopEnd,
       LookAtTimers, TimersDone, NextPhase
<1>2. CASE EpollWait
  BY <1>2, <1>0, <1>n DEF EpollWait
<1>3. CASE \E e \in batch : StaleEvent(e)
  BY <1>3, <1>0 DEF StaleEvent
<1>4. CASE CloseAllConnections
  <2> DEFINE open == {Orig(d) : d \in Conn \ free} \cup {Lsn}
  <2>1. /\ flags'.pendingEof = flags.pendingEof \cup open
        /\ flags'.timedOut = flags.timedOut /\ flags'.dying = flags.dying
        /\ flags'.third = flags.third /\ flags'.useBlock = flags.useBlock
        /\ delay' = delay \cup {<<i, VersionOf(i)>> : i \in open}
        /\ UNCHANGED <<cur, batch, resumes, timer>>
    BY <1>4 DEF CloseAllConnections, FlagSet
  <2>2. Blk(c) \notin open /\ (Orig(c) \in open <=> c \notin free)
    BY <1>n, Apart
  <2>3. Entry0(c) \in delay' => Entry0(c) \in delay \/ Orig(c) \in open
    BY <2>1 DEF Entry0
  <2> HIDE DEF open
  <2>4. Unused(c) => Quiet(c)
    BY <2>1, <2>2, <1>u DEF Quiet, Flagged
  <2> QED BY <2>1, <2>2, <2>3, <2>4, CleanFrame
<1>5. CASE \E e \in batch : ReadEvent(e)
  <2> PICK e \in batch : ReadEvent(e)
    BY <1>5
  <2>1. e \in Entry
    BY DEF TypeOK
  <2>2. /\ e.item # Lsn => ep.ev[e.item] # {}
        /\ cur'.item = e.item
        /\ UNCHANGED <<delay, resumes, timer>>
        /\ flags'.pendingEof \in {flags.pendingEof, flags.pendingEof \cup {e.item}}
        /\ flags'.timedOut = flags.timedOut /\ flags'.dying = flags.dying
        /\ flags'.third = flags.third /\ flags'.useBlock = flags.useBlock
    BY DEF ReadEvent, IsReadable, ReadActive, Dispatch, FlagSet
  <2>3. \A f \in batch' : f.item # Orig(c) \/ f.again \/ f \in batch
    BY <2>1 DEF ReadEvent, Entry
  <2>4. Unused(c) => Quiet(c)
    BY <2>2, <2>3, <1>u, <1>n, Apart DEF Quiet, Flagged
  <2>5. c \in free => Orig(c) \notin flags'.pendingEof
    <3>1. c \in free => e.item \notin Owned(c)
      BY <2>2, <1>u, <1>n, Apart DEF CleanOf, Fresh
    <3> QED BY <2>2, <3>1, Apart DEF CleanOf
  <2> QED BY <2>2, <2>4, <2>5, CleanFrame
<1>6. CASE \E e \in batch : WriteEvent(e)
  <2> PICK e \in batch : WriteEvent(e)
    BY <1>6
  <2>1. /\ cur' = cur \/ (cur'.item = e.item /\ e.item # Lsn /\ ep.ev[e.item] # {})
        /\ UNCHANGED <<delay, resumes, flags, timer>> /\ batch' \subseteq batch
    BY DEF WriteEvent, IsWritable, WriteActive, Dispatch
  <2>2. Unused(c) => Quiet(c)
    BY <2>1, <1>u, Apart DEF Quiet, Flagged
  <2> QED BY <2>1, <2>2, CleanFrame
<1>7. CASE \E d \in delay : TakeDelay(d)
  <2> PICK d \in delay : TakeDelay(d)
    BY <1>7
  <2>1. /\ cur' = cur \/ (cur'.item = d[1] /\ d[2] = VersionOf(d[1]))
        /\ delay' = delay \ {d} /\ UNCHANGED <<batch, resumes, flags, timer>>
    BY DEF TakeDelay, ResumeProcess, Dispatch
  <2>2. cur'.item \in Owned(c) => cur' = cur \/ d = Entry0(c)
    <3>1. d[1] # Blk(c) /\ VersionOf(Orig(c)) = version[c] /\ d = <<d[1], d[2]>>
      BY DEF QueuedOf, VersionOf, Orig, TypeOK
    <3> QED BY <2>1, <3>1, Apart DEF Entry0
  <2>3. Unused(c) => Quiet(c) \/ (c \notin free /\ Entry0(c) \notin delay')
    BY <2>1, <2>2, <1>u DEF Quiet, Flagged, CleanOf
  <2> QED BY <2>1, <2>3, CleanFrame
<1>8. CASE \E r \in resumes : TakeResume(r)
  <2> PICK r \in resumes : TakeResume(r)
    BY <1>8
  <2>1. /\ cur' = cur \/ (cur'.item = Orig(r[1]) /\ r[2] = version[r[1]])
        /\ resumes' \subseteq resumes /\ UNCHANGED <<batch, delay, flags, timer>>
        /\ r[1] \in Conn /\ r = <<r[1], r[2]>>
    BY DEF TakeResume, ResumeProcess, Dispatch, VersionOf, Orig, TypeOK
  <2>2. Unused(c) => cur'.item \notin Owned(c)
    BY <2>1, <1>u, Apart DEF Unused
  <2>3. Unused(c) => Quiet(c)
    BY <2>1, <2>2, <1>u DEF Quiet, Flagged
  <2> QED BY <2>1, <2>3, CleanFrame
<1>9. CASE Timers
  <2> PICK t \in timer.map : ProcessTimer(t)
    BY <1>9 DEF Timers
  <2> PICK d \in Conn : t \in EventsOf(d)
    BY DEF TimersNamed
  <2>1. /\ cur'.item = t[1] /\ timer'.map \subseteq timer.map
        /\ UNCHANGED <<batch, delay, resumes>>
        /\ flags'.timedOut \subseteq flags.timedOut \cup {t[1]}
        /\ flags'.pendingEof = flags.pendingEof /\ flags'.dying = flags.dying
        /\ flags'.third \subseteq flags.third /\ flags'.useBlock = flags.useBlock
    BY DEF ProcessTimer, Dispatch, SleepPreHandler, FlagSet
  <2>2. Unused(c) => d # c /\ t[1] \notin Owned(c)
    BY EventsNamed DEF Unused
  <2>3. Unused(c) => Quiet(c)
    BY <2>1, <2>2, <1>u, Apart DEF Quiet, Flagged
  <2> QED BY <2>1, <2>3, CleanFrame
<1> QED BY <1>1, <1>2, <1>3, <1>4, <1>5, <1>6, <1>7, <1>8, <1>9 DEF Loop

(* The end of a use leaves a closed connection unused and a kept one in    *)
(* use; the other steps of a handler neither take nor release it.          *)
LEMMA CleanRow ==
    ASSUME TypeOK, NEW c \in Conn, Row(c), QueuedOf(c), CleanOf(c), WatchOf(c)
    PROVE  CleanOf(c)'
<1>1. cur.item \in Owned(c) /\ UNCHANGED <<batch, delay, resumes>>
  BY RowFrame
<1>2. ~Fresh(c) /\ c \notin free
  BY <1>1 DEF CleanOf, Unused, Fresh
<1>3. CASE ~(EndRow(c) /\ version'[c] = version[c] + 1)
  <2>1. /\ UNCHANGED <<version, free>>
        /\ Orig(c) \in flags'.pendingEof <=> Orig(c) \in flags.pendingEof
    BY <1>3, RowVersion
  <2>2. Entry0(c)' = Entry0(c)
    BY <2>1 DEF Entry0, Orig
  <2> QED BY <1>1, <1>2, <2>1, <2>2, Rigid DEF CleanOf, Fresh
<1>4. CASE EndRow(c) /\ version'[c] = version[c] + 1
  <2>1. version[c] \in Nat /\ Entry0(c)' = <<Orig(c), version[c] + 1>>
    BY <1>4 DEF TypeOK, Entry0, Orig
  <2>2. /\ Entry0(c)' \notin delay' /\ <<c, version'[c]>> \notin tokens \cup resumes'
        /\ \A e \in batch' : e.item = Orig(c) => e.ver # version'[c]
    BY <1>1, <1>4, <2>1 DEF QueuedOf, TypeOK, Entry
  <2>3. CASE Closes(c)
    <3>1. Reset(c) /\ UNCHANGED tokens
      BY <2>3 DEF Closes, Reset
    <3>2. /\ pc'[c] = "idle" /\ cur' = Nobody
          /\ FlagsAre(flags.timedOut \ Owned(c), flags.pendingEof \ Owned(c),
                      flags.dying \ Owned(c), flags.third \ {c}, flags.useBlock \ {c})
      BY <3>1 DEF Reset
    <3>3. ep'.ev[Orig(c)] = {} /\ timer'.map \cap EventsOf(c) = {}
      BY <2>3 DEF Closes, Timed
    <3>4. ~Flagged(Blk(c))' /\ Orig(c) \notin flags'.timedOut \cup flags'.pendingEof \cup flags'.dying
      BY <3>2, Apart, Rigid DEF Flagged, FlagsAre
    <3>5. c \notin flags'.third \cup flags'.useBlock /\ cur'.item \notin Owned(c)
      BY <3>2, ListenApart DEF FlagsAre
    <3>6. Unused(c)'
      BY <2>2, <3>1, <3>2, <3>3, <3>4, <3>5, Rigid DEF Unused
    <3> QED BY <2>2, <3>4, <3>6, Rigid DEF CleanOf
  <2>4. CASE Keeps(c)
    <3>1. c \notin free'
      BY <2>4, <1>2 DEF Keeps
    <3> QED BY <2>2, <3>1, Rigid DEF CleanOf, Fresh
  <2> QED BY <1>4, <2>3, <2>4 DEF EndRow
<1> QED BY <1>3, <1>4


LEMMA CleanStep ==
    ASSUME Base, CleanInv, [Next]_vars PROVE CleanInv'
<1>t. TypeOK /\ TimerInv /\ WatchInv /\ TimersNamed
  BY DEF Base, Safe, CleanInv
<1>1. TimersNamed' /\ \A c \in Conn : QueuedOf(c)'
  BY <1>t, NamedStep, QueuedStep DEF CleanInv
<1>2. ASSUME NEW c \in Conn PROVE CleanOf(c)'
  <2> QueuedOf(c) /\ CleanOf(c) /\ WatchOf(c) /\ TypeOK
    BY <1>t DEF CleanInv, WatchInv
  <2>0. ASSUME UNCHANGED <<batch, delay, version, pc, flags, timer, cur, free>>,
               resumes' \cup tokens' \subseteq resumes \cup tokens, ep'.ev = ep.ev
        PROVE  CleanOf(c)'
    <3>1. Unused(c) => Quiet(c)
      BY <2>0 DEF Quiet, Unused, Flagged
    <3> QED BY <2>0, <3>1, CleanFrame
  <2>1. CASE Loop \/ Timers BY <1>t, <2>1, CleanLoop
  <2>2. CASE Resumer \/ World
    <3>1. resumes' \cup tokens' \subseteq resumes \cup tokens
      BY <2>2, WorldFrame DEF ResumeAsync
    <3> QED BY <2>0, <2>2, <3>1, WorldFrame
  <2>3. CASE ListenEnter \/ Limit \/ Accept
    <3>1. UNCHANGED <<batch, resumes, tokens, pc, flags, timer, version>>
          /\ ep'.ev = ep.ev /\ cur' \in {cur, Nobody}
      BY <2>3, ListenFrame
    <3>2. Unused(c) => Quiet(c)
      BY <3>1, ListenApart DEF Quiet, Unused, Flagged
    <3>3. CASE UNCHANGED <<delay, free>>
      BY <3>1, <3>2, <3>3, CleanFrame
    <3>4. CASE \E d \in Conn : InitConnection(d)
      <4> PICK d \in Conn : InitConnection(d)
        BY <3>4
      <4>1. d \in free /\ free' = free \ {d} /\ delay' = delay \cup {<<Orig(d), version[d]>>}
        BY DEF InitConnection
      <4>2. Entry0(c) \in delay' => Entry0(c) \in delay \/ c = d
        BY <4>1, Apart DEF Entry0
      <4> QED BY <3>1, <3>2, <4>1, <4>2, CleanFrame
    <3> QED BY <2>3, <3>3, <3>4, ListenFrame
  <2>4. CASE \E d \in Conn : Row(d)
    <3> PICK d \in Conn : Row(d)
      BY <2>4
    <3>1. CASE d = c BY <3>1, CleanRow
    <3>2. CASE d # c
      <4>1. /\ cur.item \in Owned(d) /\ cur' \in {cur, Nobody} /\ SameOf(c)
            /\ UNCHANGED <<batch, delay, resumes>> /\ (tokens' = tokens \/ Yields(d))
        BY <3>2, RowFrame
      <4>2. cur'.item \notin Owned(c)
        BY <3>2, <4>1, Apart, ListenApart
      <4>3. \A r \in resumes' \cup tokens' : r \in resumes \cup tokens \/ r[1] # c
        BY <3>2, <4>1 DEF Yields
      <4>4. timer'.map \cap EventsOf(c) \subseteq timer.map
        BY <4>1, Apart DEF SameOf, SameTimers
      <4>5. Quiet(c)
        BY <4>1, <4>2, <4>3, <4>4 DEF Quiet, SameOf, SameCall, SameItem, SameEpoll, SameWatch,
             SameMarks, SameBlocking, Flagged
      <4> QED BY <4>1, <4>5, CleanFrame DEF SameOf, SameCall, SameItem, SameMarks
    <3> QED BY <3>1, <3>2
  <2>5. CASE UNCHANGED vars BY <2>0, <2>5 DEF vars
  <2> QED BY <1>t, <2>1, <2>2, <2>3, <2>4, <2>5, HandlerRows DEF Next
<1> QED BY <1>1, <1>2 DEF CleanInv

LEMMA CleanInit == Init => CleanInv
<1> SUFFICES ASSUME Init PROVE CleanInv
  OBVIOUS
<1>1. TimersNamed
  BY DEF Init, TimersNamed
<1>2. ASSUME NEW c \in Conn PROVE QueuedOf(c) /\ CleanOf(c)
  BY Names, ListenApart DEF Init, QueuedOf, CleanOf, Unused, Entry0, Flagged, NoFlags
<1> QED BY <1>1, <1>2 DEF CleanInv

LEMMA CleanImplies == Base /\ CleanInv => FreeIsClean
<1> SUFFICES ASSUME Base, CleanInv, NEW c \in free
             PROVE  /\ timer.map \cap EventsOf(c) = {}
                    /\ \A i \in Owned(c) : ep.ev[i] = {} /\ ~Flagged(i)
                    /\ pc[c] = "idle" /\ c \notin flags.third \cup flags.useBlock
                    /\ cur.item \notin Owned(c)
                    /\ <<Orig(c), version[c]>> \notin delay
                    /\ \A e \in batch : e.item = Orig(c) /\ ~e.again => e.ver # version[c]
  BY DEF FreeIsClean
<1>1. c \in Conn /\ CleanOf(c) /\ WatchOf(c)
  BY DEF Base, Safe, TypeOK, CleanInv, WatchInv
<1>2. Unused(c) /\ Entry0(c) \notin delay /\ Orig(c) \notin flags.pendingEof
  BY <1>1 DEF CleanOf, Fresh
<1>3. \A i \in Owned(c) : ep.ev[i] = {} /\ ~Flagged(i)
  BY <1>1, <1>2, Apart DEF Unused, WatchOf, ThirdPC, Flagged
<1> QED BY <1>2, <1>3 DEF Unused, Entry0

(* A connection in the pool has no timer, no registration, no coroutine,   *)
(* no flag and nothing queued under its version: free_request_connection   *)
(* and CoConnection::reset leave nothing behind for its next client.       *)
THEOREM PoolIsClean == Spec => []FreeIsClean
<1>1. Init => Base /\ CleanInv
  BY BaseInit, CleanInit
<1>2. Base /\ CleanInv /\ [Next]_vars => Base' /\ CleanInv'
  BY BaseStep, CleanStep
<1> QED BY <1>1, <1>2, CleanImplies, PTL DEF Spec


-----------------------------------------------------------------------------
(* Scheduling: who has the CPU, and why.                                   *)

(* One thing at a time: the queues belong to their phases, an item has one *)
(* entry in a batch, and nobody is dispatched outside the queues.          *)
LoopInv ==
    /\ WorkerFree => cur = Nobody
    /\ phase \in {"boot", "top", "wait", "exit"} => WorkerFree
    /\ batch # {} => phase = "events"
    /\ \A e, f \in batch : e.item = f.item => e = f
    /\ phase \in {"boot", "top", "resume", "timer"} => delay = {} /\ ~Dispatched(Lsn)

(* The loop takes something from a queue only while no coroutine runs, and *)
(* dispatches at most one connection.                                      *)
LEMMA LoopTakes ==
    ASSUME TypeOK, LoopInv, Loop \/ Timers
    PROVE  /\ WorkerFree /\ cur = Nobody
           /\ cur' = Nobody \/ (cur'.item \in Item \cup {Lsn} /\ cur'.by \in By \ {"none"}
                                /\ phase' = phase /\ phase \in {"events", "delay", "resume", "timer"}
                                /\ (phase \in {"resume", "timer"} => cur'.item # Lsn))
<1>1. WorkerFree /\ cur = Nobody
  BY DEF LoopInv, Loop, Timers, ProcessTimer, Start, StartWait, CloseAllConnections, EpollWait,
         StaleEvent, ReadEvent, WriteEvent, EventsDone, DelayDone, LoopAgain, LoopEnd,
         LookAtTimers, TimersDone, NextPhase, TakeDelay, TakeResume
<1>2. CASE \/ Start \/ StartWait \/ CloseAllConnections \/ EpollWait \/ EventsDone \/ DelayDone
           \/ LoopAgain \/ LoopEnd \/ LookAtTimers \/ TimersDone \/ \E e \in batch : StaleEvent(e)
  BY <1>1, <1>2 DEF Start, StartWait, CloseAllConnections, EpollWait, StaleEvent, EventsDone,
         DelayDone, LoopAgain, LoopEnd, LookAtTimers, TimersDone, NextPhase
<1>3. CASE \E e \in batch : ReadEvent(e) \/ WriteEvent(e)
  BY <1>1, <1>3 DEF ReadEvent, WriteEvent, Dispatch, TypeOK, Entry, By
<1>4. CASE \E d \in delay : TakeDelay(d)
  BY <1>1, <1>4 DEF TakeDelay, ResumeProcess, Dispatch, TypeOK, By
<1>5. CASE \E r \in resumes : TakeResume(r)
  <2> PICK r \in resumes : TakeResume(r)
    BY <1>5
  <2>1. Orig(r[1]) \in Item /\ Orig(r[1]) # Lsn
    BY Names, ListenApart DEF TypeOK
  <2> QED BY <1>1, <2>1 DEF TakeResume, ResumeProcess, Dispatch, By
<1>6. CASE Timers
  <2> PICK t \in timer.map : ProcessTimer(t)
    BY <1>6 DEF Timers
  <2>1. t[1] \in Item /\ t[1] # Lsn /\ t[2] \in By \ {"none"}
    BY ListenApart DEF TypeOK, TimerSet, Event, By
  <2> QED BY <1>1, <2>1 DEF ProcessTimer, Dispatch
<1> QED BY <1>1, <1>2, <1>3, <1>4, <1>5, <1>6 DEF Loop

(* What epoll_wait hands over: the registered events of an item that hold. *)
Handed(i) == [item |-> i, ver |-> ep.ver[i], ev |-> ep.ev[i] \cap Cond(i), again |-> FALSE]
HandedLsn == [item |-> Lsn, ver |-> 0, ev |-> {"in"}, again |-> FALSE]

LEMMA Hands ==
    ASSUME EpollWait
    PROVE  \A e \in batch' :
              \/ e.item \in Item /\ e = Handed(e.item) /\ ep.ev[e.item] \cap Cond(e.item) # {}
              \/ e.item = Lsn /\ e = HandedLsn
<1>1. \A e \in batch' : (\E i \in Item : ep.ev[i] \cap Cond(i) # {} /\ e = Handed(i))
                        \/ e = HandedLsn
  BY DEF EpollWait, Handed, HandedLsn
<1>2. (\A i : Handed(i).item = i) /\ HandedLsn.item = Lsn
  BY DEF Handed, HandedLsn
<1> QED BY <1>1, <1>2

LEMMA LoopStep ==
    ASSUME Base, LoopInv, [Next]_vars PROVE LoopInv'
<1>t. TypeOK /\ TimerInv
  BY DEF Base, Safe
<1>1. CASE Loop \/ Timers
  <2>1. /\ WorkerFree /\ cur = Nobody
        /\ cur' = Nobody \/ (cur'.item \in Item \cup {Lsn} /\ cur'.by \in By \ {"none"}
                             /\ phase' = phase /\ phase \in {"events", "delay", "resume", "timer"}
                             /\ (phase \in {"resume", "timer"} => cur'.item # Lsn))
    BY <1>t, <1>1, LoopTakes
  <2>2. /\ WorkerFree' => cur' = Nobody
        /\ phase' \in {"boot", "top", "wait", "exit"} => WorkerFree'
        /\ phase' \in {"boot", "top", "resume", "timer"} => ~Dispatched(Lsn)'
    BY <2>1, ListenApart DEF WorkerFree, Dispatched, Lsn, Nobody
  <2>3. batch' # {} => phase' = "events"
    BY <1>1 DEF LoopInv, Loop, Timers, ProcessTimer, Start, StartWait, CloseAllConnections,
         EpollWait, StaleEvent, ReadEvent, WriteEvent, EventsDone, DelayDone, LoopAgain,
         LoopEnd, LookAtTimers, TimersDone, NextPhase, TakeDelay, TakeResume
  <2>4. phase' \in {"boot", "top", "resume", "timer"} => delay' = {}
    BY <1>1 DEF LoopInv, Loop, Timers, ProcessTimer, Start, StartWait, CloseAllConnections,
         EpollWait, StaleEvent, ReadEvent, WriteEvent, EventsDone, DelayDone, LoopAgain,
         LoopEnd, LookAtTimers, TimersDone, NextPhase, TakeDelay, TakeResume
  <2>5. \A e, f \in batch' : e.item = f.item => e = f
    <3>1. CASE EpollWait
      BY <3>1, Hands, ListenApart
    <3>2. CASE \E e \in batch : ReadEvent(e)
      <4> PICK e \in batch : ReadEvent(e)
        BY <3>2
      <4>1. [e EXCEPT !.again = TRUE].item = e.item
        BY <1>t DEF TypeOK, Entry
      <4> QED BY <4>1 DEF ReadEvent, LoopInv
    <3>3. CASE ~EpollWait /\ ~\E e \in batch : ReadEvent(e)
      <4>1. batch' \subseteq batch
        BY <1>1, <3>3 DEF Loop, Timers, ProcessTimer, Start, StartWait, CloseAllConnections,
           StaleEvent, WriteEvent, EventsDone, DelayDone, LoopAgain, LoopEnd,
           LookAtTimers, TimersDone, NextPhase, TakeDelay, TakeResume
      <4> QED BY <4>1 DEF LoopInv
    <3> QED BY <3>1, <3>2, <3>3
  <2> QED BY <2>2, <2>3, <2>4, <2>5 DEF LoopInv
<1>0. ASSUME UNCHANGED <<phase, batch>>, cur' \in {cur, Nobody},
             delay' = delay \/ Dispatched(Lsn)
      PROVE  LoopInv'
  BY <1>0 DEF LoopInv, WorkerFree, Dispatched, Lsn, Nobody
<1>2. CASE Resumer \/ World BY <1>t, <1>2, <1>0, WorldFrame
<1>3. CASE ListenEnter \/ Limit \/ Accept
  BY <1>t, <1>3, <1>0, ListenFrame DEF Dispatched
<1>4. CASE \E c \in Conn : Row(c) BY <1>4, <1>0, RowFrame
<1>5. CASE UNCHANGED vars BY <1>5, <1>0 DEF vars
<1> QED BY <1>t, <1>1, <1>2, <1>3, <1>4, <1>5, HandlerRows DEF Next


-----------------------------------------------------------------------------
(* The coroutine of c, the CPU and the flags of blocking agree.            *)
CallOf(c) ==
    /\ pc[c] \in Active => ~WorkerFree /\ cur.item \in Owned(c)
    /\ c \in flags.useBlock <=> pc[c] \in ThirdPC
    /\ c \in flags.third => pc[c] \in SleepPC
    /\ pc[c] = "sleepWait" => c \in flags.third \/ cur = [item |-> Orig(c), by |-> "sleep"]
    /\ cur = [item |-> Orig(c), by |-> "sleep"] => c \notin flags.third
    /\ Flagged(Blk(c)) => pc[c] \in ThirdPC

(* An unprocessed event of this use is what its coroutine waits for, and   *)
(* still true; the write edge of an entry whose read edge was dispatched   *)
(* finds a connection that is being given up.                              *)
Current(e, c) == e.item = Orig(c) /\ ~e.again /\ e.ver = version[c]
Leaves(c) == /\ cur.item = Orig(c)
             /\ \/ pc[c] = "sendWait" /\ Flagged(Orig(c))
                \/ pc[c] = "sendWoken" /\ Dying(c)
                \/ pc[c] = "final"
EntryOf(e, c) ==
    /\ Current(e, c) /\ "in" \in e.ev
         => cur.item \notin Owned(c) /\ pc[c] \in {"idle", "recvWait"} /\ ~NothingToRecv(c)
    /\ Current(e, c) /\ "out" \in e.ev
         => cur.item \notin Owned(c) /\ pc[c] = "sendWait" /\ Orig(c) \in sock.room
    /\ e.item = Orig(c) /\ e.again
         => (pc[c] = "idle" /\ cur.item \notin Owned(c)) \/ Leaves(c)
    /\ e.item = Blk(c) => "out" \notin e.ev /\ ~e.again
BatchOf(c) == \A e \in batch : EntryOf(e, c)

(* Coroutine data of this use that another thread holds or has given back  *)
(* is of a coroutine that waits in its yield, or of a dying connection.    *)
Now(c)  == <<c, version[c]>>
Gone(c) == Orig(c) \in flags.pendingEof \cup flags.dying
TokenOf(c) ==
    Now(c) \in tokens \cup resumes =>
        \/ Gone(c)
        \/ /\ pc[c] = "yieldWait" /\ Now(c) \notin tokens \cap resumes
           /\ cur.item \notin Owned(c) \/ Flagged(Orig(c))

(* A coroutine about to be entered is entered by what it waits for.        *)
Wanted(c) ==
    \/ Flagged(Orig(c))
    \/ pc[c] = "idle"
    \/ pc[c] = "recvWait" /\ cur.by = "event" /\ ~NothingToRecv(c)
    \/ pc[c] = "sendWait" /\ cur.by = "out" /\ Orig(c) \in sock.room
    \/ pc[c] = "sleepWait" /\ cur.by = "sleep"
    \/ pc[c] = "yieldWait" /\ cur.by = "resume"
ReasonOf(c) ==
    ~WorkerFree /\ cur.item \in Owned(c) /\ pc[c] \notin Active =>
    /\ cur.item = Blk(c) => pc[c] = "thirdWait" /\ (Flagged(Blk(c)) \/ cur.by = "event")
    /\ cur.item = Orig(c) => Wanted(c)
    /\ cur.item = Orig(c) /\ cur.by = "sleep" => pc[c] = "sleepWait"

SchedOf(c) == CallOf(c) /\ BatchOf(c) /\ TokenOf(c) /\ ReasonOf(c)
SchedInv == LoopInv /\ \A c \in Conn : SchedOf(c)

(* A step that passes c by.                                                *)
Passes(c) ==
    /\ pc'[c] = pc[c] /\ version'[c] = version[c] /\ SameBlocking(c)
    /\ SameMarks(Blk(c))
    /\ Orig(c) \in flags'.timedOut <=> Orig(c) \in flags.timedOut
    /\ Orig(c) \in flags'.dying <=> Orig(c) \in flags.dying
    /\ Orig(c) \in flags.pendingEof => Orig(c) \in flags'.pendingEof
    /\ Orig(c) \in sock.data \cup sock.eof => Orig(c) \in sock'.data \cup sock'.eof
    /\ Orig(c) \in sock.room => Orig(c) \in sock'.room
    /\ cur' = cur \/ (cur.item \notin Owned(c) /\ cur'.item \notin Owned(c))
    /\ Now(c) \in tokens' \cup resumes' => Now(c) \in tokens \cup resumes
    /\ Now(c) \in tokens' \cap resumes' => Now(c) \in tokens \cap resumes

LEMMA Passed ==
    ASSUME NEW c \in Conn, SchedOf(c), Passes(c)
    PROVE  /\ CallOf(c)' /\ TokenOf(c)' /\ ReasonOf(c)'
           /\ \A e \in batch : EntryOf(e, c)'
<1> USE Rigid DEF SchedOf, Passes
<1>n. Now(c)' = Now(c)
  BY DEF Now
<1>f. /\ Flagged(Blk(c))' <=> Flagged(Blk(c))
      /\ Flagged(Orig(c)) => Flagged(Orig(c))'
      /\ Gone(c) => Gone(c)'
      /\ ~NothingToRecv(c) => ~NothingToRecv(c)'
      /\ Dying(c) <=> Dying(c)'
  BY DEF Flagged, Gone, NothingToRecv, SameMarks, Dying
<1>o. Orig(c) \in Owned(c) /\ Blk(c) \in Owned(c)
  BY DEF Owned
<1>c. cur.item \in Owned(c) <=> cur'.item \in Owned(c)
  OBVIOUS
<1>1. CallOf(c)'
  <2>1. pc'[c] \in Active => ~WorkerFree' /\ cur'.item \in Owned(c)
    BY <1>c DEF CallOf, WorkerFree
  <2>2. /\ pc'[c] = "sleepWait" => c \in flags'.third \/ cur' = [item |-> Orig(c), by |-> "sleep"]
        /\ cur' = [item |-> Orig(c), by |-> "sleep"] => c \notin flags'.third
    <3>1. cur' # cur => /\ cur # [item |-> Orig(c), by |-> "sleep"]
                        /\ cur' # [item |-> Orig(c), by |-> "sleep"]
      BY <1>o
    <3> QED BY <3>1 DEF CallOf, SameBlocking
  <2> QED BY <2>1, <2>2, <1>f DEF CallOf, SameBlocking
<1>2. TokenOf(c)'
  BY <1>n, <1>f, <1>c DEF TokenOf
<1>3. ReasonOf(c)'
  <2>1. cur'.item \in Owned(c) => cur' = cur
    OBVIOUS
  <2>2. cur' = cur /\ Wanted(c) => Wanted(c)'
    BY <1>f DEF Wanted
  <2> QED BY <1>f, <1>o, <2>1, <2>2 DEF ReasonOf, WorkerFree
<1>4. ASSUME NEW e \in batch PROVE EntryOf(e, c)'
  <2>1. EntryOf(e, c)
    BY DEF BatchOf
  <2>2. Current(e, c)' <=> Current(e, c)
    BY DEF Current
  <2>3. Leaves(c) => Leaves(c)'
    BY <1>f, <1>o DEF Leaves
  <2> QED BY <1>f, <1>c, <2>1, <2>2, <2>3 DEF EntryOf
<1> QED BY <1>1, <1>2, <1>3, <1>4


(* A step of the loop passes c by, fills the batch, or dispatches c.       *)
Calm(c) == Passes(c) /\ \A e \in batch' : e.item \in Owned(c) => e \in batch
Hit(c) ==
    \/ \E e \in batch : e.item \in Owned(c) /\ ReadEvent(e)
    \/ \E e \in batch : /\ e.item \in Owned(c) /\ WriteEvent(e) /\ Dispatch(e.item, "out")
                        /\ "out" \in e.ev
    \/ Entry0(c) \in delay /\ TakeDelay(Entry0(c)) /\ Dispatch(Orig(c), "delay")
    \/ Now(c) \in resumes /\ TakeResume(Now(c)) /\ Dispatch(Orig(c), "resume")
    \/ \E t \in timer.map \cap EventsOf(c) : ProcessTimer(t)

LEMMA LoopSplit ==
    ASSUME TypeOK, TimersNamed, LoopInv, Loop \/ Timers, NEW c \in Conn, QueuedOf(c)
    PROVE  Calm(c) \/ (EpollWait /\ Passes(c)) \/ Hit(c)
<1>f. /\ UNCHANGED <<version, pc, sock, tokens>>
  BY LoopFrame
<1>c. cur.item \notin Owned(c) /\ cur = Nobody
  BY LoopTakes, ListenApart
<1>n. Lsn \notin Owned(c) /\ Orig(c) # Blk(c) /\ Orig(c) # Lsn /\ Blk(c) # Lsn
      /\ Owned(c) = {Orig(c), Blk(c)}
  BY ListenApart, Apart, Names
<1>0. ASSUME cur' = cur \/ cur'.item \notin Owned(c), resumes' \subseteq resumes, SameBlocking(c),
             SameMarks(Blk(c)),
             Orig(c) \in flags'.timedOut <=> Orig(c) \in flags.timedOut,
             Orig(c) \in flags'.dying <=> Orig(c) \in flags.dying,
             Orig(c) \in flags.pendingEof => Orig(c) \in flags'.pendingEof
      PROVE  Passes(c)
  BY <1>0, <1>f, <1>c DEF Passes
<1>m. flags' = flags => SameBlocking(c) /\ SameMarks(Blk(c)) /\ SameMarks(Orig(c))
  BY DEF SameBlocking, SameMarks
<1>1. CASE \/ Start \/ StartWait \/ EventsDone \/ DelayDone \/ LoopAgain \/ LoopEnd
           \/ LookAtTimers \/ TimersDone \/ \E e \in batch : StaleEvent(e)
  <2>1. UNCHANGED <<cur, resumes, flags>> /\ batch' \subseteq batch
    BY <1>1 DEF Start, StartWait, EventsDone, DelayDone, LoopAgain, LoopEnd,
         LookAtTimers, TimersDone, NextPhase, StaleEvent
  <2> QED BY <2>1, <1>0, <1>m DEF Calm, SameMarks
<1>2. CASE EpollWait
  <2>1. UNCHANGED <<cur, resumes, flags>>
    BY <1>2 DEF EpollWait
  <2> QED BY <1>2, <2>1, <1>0, <1>m DEF SameMarks
<1>3. CASE CloseAllConnections
  <2>1. /\ UNCHANGED <<cur, batch, resumes>>
        /\ flags' = [flags EXCEPT !.pendingEof = @ \cup ({Orig(d) : d \in Conn \ free} \cup {Lsn})]
    BY <1>3 DEF CloseAllConnections
  <2>2. /\ flags'.pendingEof = flags.pendingEof \cup ({Orig(d) : d \in Conn \ free} \cup {Lsn})
        /\ flags'.timedOut = flags.timedOut /\ flags'.dying = flags.dying
        /\ flags'.third = flags.third /\ flags'.useBlock = flags.useBlock
    BY <2>1 DEF TypeOK, FlagSet
  <2>3. Blk(c) \notin {Orig(d) : d \in Conn \ free} \cup {Lsn}
    BY <1>n, Apart
  <2>4. SameMarks(Blk(c)) /\ SameBlocking(c)
    BY <2>2, <2>3 DEF SameMarks, SameBlocking
  <2> QED BY <2>1, <2>2, <2>4, <1>0 DEF Calm
<1>4. CASE \E e \in batch : ReadEvent(e)
  <2> PICK e \in batch : ReadEvent(e)
    BY <1>4
  <2>0. e \in Entry
    BY DEF TypeOK
  <2>1. /\ cur'.item = e.item /\ UNCHANGED resumes
        /\ flags'.pendingEof \in {flags.pendingEof, flags.pendingEof \cup {e.item}}
        /\ flags'.timedOut = flags.timedOut /\ flags'.dying = flags.dying
        /\ flags'.third = flags.third /\ flags'.useBlock = flags.useBlock
        /\ \A f \in batch' : f \in batch \/ f.item = e.item
    BY <2>0 DEF ReadEvent, Dispatch, TypeOK, FlagSet, Entry
  <2>2. CASE e.item \in Owned(c) BY <2>2 DEF Hit
  <2>3. CASE e.item \notin Owned(c)
    <3>1. SameMarks(Blk(c)) /\ SameBlocking(c)
      BY <2>1, <2>3, <1>n DEF SameMarks, SameBlocking
    <3> QED BY <2>1, <2>3, <3>1, <1>0 DEF Calm
  <2> QED BY <2>2, <2>3
<1>5. CASE \E e \in batch : WriteEvent(e)
  <2> PICK e \in batch : WriteEvent(e)
    BY <1>5
  <2>1. /\ cur' = cur \/ (Dispatch(e.item, "out") /\ "out" \in e.ev)
        /\ UNCHANGED <<resumes, flags>> /\ batch' \subseteq batch
    BY DEF WriteEvent
  <2>2. CASE e.item \in Owned(c) /\ cur' # cur BY <2>1, <2>2 DEF Hit
  <2>3. CASE e.item \notin Owned(c) \/ cur' = cur
    <3>1. cur' = cur \/ cur'.item \notin Owned(c)
      BY <2>1, <2>3 DEF Dispatch
    <3> QED BY <2>1, <3>1, <1>0, <1>m DEF Calm, SameMarks
  <2> QED BY <2>2, <2>3
<1>6. CASE \E d \in delay : TakeDelay(d)
  <2> PICK d \in delay : TakeDelay(d)
    BY <1>6
  <2>1. /\ cur' = cur \/ (Dispatch(d[1], "delay") /\ d[2] = VersionOf(d[1]))
        /\ UNCHANGED <<batch, resumes, flags>>
    BY DEF TakeDelay, ResumeProcess
  <2>2. d[1] # Blk(c) /\ VersionOf(Orig(c)) = version[c] /\ d = <<d[1], d[2]>>
    BY DEF QueuedOf, VersionOf, Orig, TypeOK
  <2>3. CASE cur' # cur /\ d[1] = Orig(c)
    <3>1. d = Entry0(c)
      BY <2>1, <2>2, <2>3 DEF Entry0
    <3> QED BY <2>1, <2>3, <3>1 DEF Hit
  <2>4. CASE cur' = cur \/ d[1] # Orig(c)
    <3>1. cur' = cur \/ cur'.item \notin Owned(c)
      BY <2>1, <2>2, <2>4, <1>n DEF Dispatch
    <3> QED BY <2>1, <3>1, <1>0, <1>m DEF Calm, SameMarks
  <2> QED BY <2>3, <2>4
<1>7. CASE \E r \in resumes : TakeResume(r)
  <2> PICK r \in resumes : TakeResume(r)
    BY <1>7
  <2>1. /\ r[1] \in Conn /\ r = <<r[1], r[2]>>
        /\ cur' = cur \/ (Dispatch(Orig(r[1]), "resume") /\ r[2] = version[r[1]])
        /\ UNCHANGED <<batch, flags>> /\ resumes' \subseteq resumes
    BY DEF TakeResume, ResumeProcess, VersionOf, Orig, TypeOK
  <2>2. CASE cur' # cur /\ r[1] = c
    <3>1. r = Now(c)
      BY <2>1, <2>2 DEF Now
    <3> QED BY <2>1, <2>2, <3>1 DEF Hit
  <2>3. CASE cur' = cur \/ r[1] # c
    <3>1. cur' = cur \/ cur'.item \notin Owned(c)
      BY <2>1, <2>3, Apart DEF Dispatch
    <3> QED BY <2>1, <3>1, <1>0, <1>m DEF Calm, SameMarks
  <2> QED BY <2>2, <2>3
<1>8. CASE Timers
  <2> PICK t \in timer.map : ProcessTimer(t)
    BY <1>8 DEF Timers
  <2> PICK d \in Conn : t \in EventsOf(d)
    BY DEF TimersNamed
  <2>1. CASE d = c BY <2>1 DEF Hit
  <2>2. CASE d # c
    <3>1. t[1] \notin Owned(c) /\ t[1][1] = d /\ (t[2] = "sleep" => t[1] = Orig(d))
      BY <2>2, EventsNamed
    <3>2. /\ cur'.item = t[1] /\ UNCHANGED <<batch, resumes>>
          /\ flags'.timedOut \in {flags.timedOut \cup {t[1]}, flags.timedOut \ {Orig(d)}}
          /\ flags'.third \in {flags.third, flags.third \ {d}}
          /\ flags'.dying = flags.dying /\ flags'.pendingEof = flags.pendingEof
          /\ flags'.useBlock = flags.useBlock
      BY <3>1 DEF ProcessTimer, Dispatch, SleepPreHandler, TypeOK, FlagSet
    <3>3. SameMarks(Blk(c)) /\ SameMarks(Orig(c)) /\ SameBlocking(c)
      BY <2>2, <3>1, <3>2, <1>n, Apart DEF SameMarks, SameBlocking
    <3> QED BY <3>1, <3>2, <3>3, <1>0 DEF Calm, SameMarks
  <2> QED BY <2>1, <2>2
<1> QED BY <1>1, <1>2, <1>3, <1>4, <1>5, <1>6, <1>7, <1>8 DEF Loop


-----------------------------------------------------------------------------
(* A dispatch of c by the loop.                                            *)

(* After a dispatch of the client's connection c, all but its reason is    *)
(* what it was.                                                            *)
LEMMA HitOrig ==
    ASSUME NEW c \in Conn, SchedOf(c), TypeOK, WorkerFree, cur = Nobody, NEW by \in By \ {"none"},
           Dispatch(Orig(c), by), UNCHANGED <<pc, version, tokens>>, resumes' \subseteq resumes,
           SameMarks(Blk(c)), Gone(c) => Gone(c)',
           c \in flags'.useBlock <=> c \in flags.useBlock,
           IF by = "sleep" THEN pc[c] = "sleepWait" /\ c \notin flags'.third
                           ELSE c \in flags'.third <=> c \in flags.third,
           Wanted(c)',
           \A e \in batch' : EntryOf(e, c)',
           Now(c) \in tokens' \cup resumes' => Gone(c)' \/ Flagged(Orig(c))'
    PROVE  SchedOf(c)'
<1> USE Rigid DEF SchedOf
<1>n. Now(c)' = Now(c) /\ cur' = [item |-> Orig(c), by |-> by] /\ cur'.item = Orig(c)
      /\ Orig(c) \in Owned(c) /\ Orig(c) # Blk(c) /\ cur'.by = by /\ cur.item \notin Owned(c)
  BY Apart, ListenApart DEF Now, Dispatch
<1>1. CallOf(c)'
  <2>1. pc[c] \notin Active /\ ~WorkerFree'
    BY <1>n DEF CallOf, WorkerFree
  <2>2. Flagged(Blk(c))' <=> Flagged(Blk(c))
    BY DEF Flagged, SameMarks
  <2>3. pc[c] = "sleepWait" => c \in flags.third
    BY <1>n DEF CallOf
  <2>4. by # "sleep" => cur' # [item |-> Orig(c), by |-> "sleep"]
    BY <1>n
  <2>5. pc[c] = "sleepWait" => pc[c] \in SleepPC
    BY DEF SleepPC
  <2> QED BY <1>n, <2>1, <2>2, <2>3, <2>4, <2>5 DEF CallOf
<1>2. TokenOf(c)'
  BY <1>n DEF TokenOf
<1>3. ReasonOf(c)'
  BY <1>n DEF ReasonOf
<1>4. BatchOf(c)'
  BY DEF BatchOf
<1> QED BY <1>1, <1>2, <1>3, <1>4

(* ... and of its block connection.                                        *)
LEMMA HitBlk ==
    ASSUME NEW c \in Conn, SchedOf(c), TypeOK, WorkerFree, cur = Nobody,
           NEW by \in By \ {"none", "sleep"},
           Dispatch(Blk(c), by), UNCHANGED <<pc, version, tokens>>, resumes' \subseteq resumes,
           SameBlocking(c), SameMarks(Orig(c)), pc[c] = "thirdWait", 
           by = "event" \/ Flagged(Blk(c))',
           batch' \subseteq batch
    PROVE  SchedOf(c)'
<1> USE Rigid DEF SchedOf
<1>n. Now(c)' = Now(c) /\ cur' = [item |-> Blk(c), by |-> by] /\ cur'.item = Blk(c)
      /\ Blk(c) \in Owned(c) /\ Orig(c) # Blk(c) /\ cur'.by = by /\ cur.item \notin Owned(c)
      /\ Orig(c) \in Owned(c) /\ pc[c] \in ThirdPC
  BY Apart, ListenApart DEF Now, Dispatch, ThirdPC
<1>1. CallOf(c)'
  <2>1. pc[c] \notin Active /\ ~WorkerFree'
    BY <1>n DEF CallOf, WorkerFree
  <2>2. cur' # [item |-> Orig(c), by |-> "sleep"]
    BY <1>n
  <2> QED BY <1>n, <2>1, <2>2 DEF CallOf, SameBlocking
<1>2. TokenOf(c)'
  BY <1>n DEF TokenOf, Gone, SameMarks
<1>3. ReasonOf(c)'
  BY <1>n DEF ReasonOf
<1>4. ASSUME NEW e \in batch PROVE EntryOf(e, c)'
  <2>1. EntryOf(e, c)
    BY DEF BatchOf
  <2>2. ~Leaves(c) /\ (Current(e, c)' <=> Current(e, c))
    BY <1>n DEF Leaves, Current
  <2> QED BY <1>n, <2>1, <2>2 DEF EntryOf
<1> QED BY <1>1, <1>2, <1>3, <1>4 DEF BatchOf

LEMMA SchedHit ==
    ASSUME Base, CleanInv, LoopInv, Loop \/ Timers, NEW c \in Conn, SchedOf(c), Hit(c)
    PROVE  SchedOf(c)'
<1>t. TypeOK /\ TimerInv /\ WatchOf(c) /\ CleanOf(c)
  BY DEF Base, Safe, WatchInv, CleanInv
<1>f. UNCHANGED <<version, pc, sock, tokens>>
  BY <1>t, LoopFrame
<1>c. cur.item \notin Owned(c) /\ cur = Nobody /\ WorkerFree
  BY <1>t, LoopTakes, ListenApart
<1>n. /\ Orig(c) \in Owned(c) /\ Blk(c) \in Owned(c) /\ Orig(c) # Blk(c)
      /\ Owned(c) = {Orig(c), Blk(c)} /\ Orig(c) # Lsn /\ Blk(c) # Lsn
  BY Apart, Names, ListenApart
<1>p. pc[c] \notin Active
  BY <1>c DEF SchedOf, CallOf
<1>b. /\ {"event", "out", "delay", "resume", "read", "write", "sleep"} \subseteq By \ {"none"}
      /\ "event" # "sleep" /\ "out" # "sleep"
  BY DEF By
<1> USE <1>t, <1>f, <1>c, Rigid
<1>m. flags' = flags => /\ SameBlocking(c) /\ SameMarks(Blk(c)) /\ (Gone(c) => Gone(c)')
                        /\ (Flagged(Orig(c)) <=> Flagged(Orig(c))')
                        /\ (Dying(c) <=> Dying(c)')
  BY DEF SameBlocking, SameMarks, Gone, Flagged, Dying
<1>w. (pc[c] \in {"idle"} \/ Flagged(Orig(c))') => Wanted(c)'
  BY DEF Wanted
<1>g. Gone(c) => Flagged(Orig(c))
  BY DEF Gone, Flagged
<1>gp. Gone(c)' => Flagged(Orig(c))'
  BY DEF Gone, Flagged
<1>1. ASSUME NEW e \in batch, e.item \in Owned(c), ReadEvent(e) PROVE SchedOf(c)'
  <2>0. e \in Entry
    BY DEF TypeOK
  <2>1. /\ ~e.again /\ e.ver = VersionOf(e.item) /\ e.ev \cap READ # {}
        /\ Dispatch(e.item, "event") /\ UNCHANGED resumes
        /\ flags'.pendingEof = IF "rdhup" \in e.ev THEN flags.pendingEof \cup {e.item}
                               ELSE flags.pendingEof
        /\ flags'.timedOut = flags.timedOut /\ flags'.dying = flags.dying
        /\ flags'.third = flags.third /\ flags'.useBlock = flags.useBlock
    BY <1>1 DEF ReadEvent, TypeOK, FlagSet
  <2>3. EntryOf(e, c)
    BY DEF SchedOf, BatchOf
  <2>4. \A f \in batch' : (f \in batch /\ f.item # e.item)
                          \/ (f.item = e.item /\ f.again /\ f.ev = e.ev /\ "out" \in e.ev)
    BY <1>1, <2>0 DEF ReadEvent, LoopInv, Entry
  <2>5. CASE e.item = Orig(c)
    <3>1. Current(e, c)
      BY <2>1, <2>5 DEF Current, VersionOf, Orig
    <3>2. CASE "in" \in e.ev
      <4>1. pc[c] \in {"idle", "recvWait"} /\ ~NothingToRecv(c) /\ "out" \notin e.ev
        BY <2>3, <3>1, <3>2 DEF EntryOf
      <4>2. Wanted(c)'
        BY <2>1, <2>5, <4>1 DEF Wanted, Dispatch, NothingToRecv
      <4>3. \A f \in batch' : EntryOf(f, c)'
        <5> SUFFICES ASSUME NEW f \in batch' PROVE EntryOf(f, c)'
          OBVIOUS
        <5>1. f \in batch /\ f.item # Orig(c) /\ EntryOf(f, c)
          BY <2>4, <2>5, <4>1 DEF SchedOf, BatchOf
        <5> QED BY <5>1 DEF EntryOf, Current
      <4>4. SameMarks(Blk(c)) /\ (Gone(c) => Gone(c)')
        BY <2>1, <2>5, <1>n DEF SameMarks, Gone
      <4>5. Now(c) \in tokens' \cup resumes' => Gone(c)' \/ Flagged(Orig(c))'
        BY <2>1, <4>1, <4>4 DEF SchedOf, TokenOf, Now
      <4> QED BY <2>1, <2>5, <4>2, <4>3, <4>4, <4>5, <1>b, HitOrig
    <3>3. CASE "in" \notin e.ev
      <4>1. Orig(c) \in flags'.pendingEof
        BY <2>1, <2>5, <3>3 DEF READ
      <4>2. Flagged(Orig(c))' /\ Gone(c)' /\ SameMarks(Blk(c))
        BY <2>1, <2>5, <4>1, <1>n DEF Flagged, Gone, SameMarks
      <4>3. \A f \in batch' : EntryOf(f, c)'
        <5> SUFFICES ASSUME NEW f \in batch' PROVE EntryOf(f, c)'
          OBVIOUS
        <5>1. CASE f \in batch /\ f.item # Orig(c)
          <6>1. EntryOf(f, c)
            BY <5>1 DEF SchedOf, BatchOf
          <6> QED BY <5>1, <6>1 DEF EntryOf, Current
        <5>2. CASE f.item = Orig(c) /\ f.again /\ "out" \in e.ev
          <6>1. pc[c] = "sendWait" /\ cur'.item = Orig(c)
            BY <2>1, <2>3, <2>5, <3>1, <5>2 DEF EntryOf, Dispatch
          <6> QED BY <4>2, <5>2, <6>1, <1>n DEF EntryOf, Leaves, Current
        <5> QED BY <2>4, <2>5, <5>1, <5>2
      <4> QED BY <2>1, <2>5, <4>2, <4>3, <1>w, <1>b, HitOrig
    <3> QED BY <3>2, <3>3
  <2>6. CASE e.item = Blk(c)
    <3>1. pc[c] = "thirdWait"
      BY <1>1, <2>6, <1>n, <1>p DEF ReadEvent, IsReadable, ReadActive, WatchOf, ThirdPC, Active, Woken
    <3>2. batch' \subseteq batch
      BY <2>3, <2>4, <2>6 DEF EntryOf
    <3>3. SameMarks(Orig(c)) /\ SameBlocking(c)
      BY <2>1, <2>6, <1>n DEF SameMarks, SameBlocking
    <3> QED BY <2>1, <2>6, <3>1, <3>2, <3>3, <1>b, HitBlk
  <2> QED BY <1>1, <2>5, <2>6, <1>n
<1>2. ASSUME NEW e \in batch, e.item \in Owned(c), WriteEvent(e), Dispatch(e.item, "out"), "out" \in e.ev
      PROVE  SchedOf(c)'
  <2>1. EntryOf(e, c) /\ UNCHANGED <<flags, resumes>> /\ batch' = batch \ {e}
    BY <1>2 DEF SchedOf, BatchOf, WriteEvent
  <2>2. e.item = Orig(c)
    BY <1>2, <2>1, <1>n DEF EntryOf
  <2>3. \/ pc[c] = "idle"
        \/ pc[c] = "sendWait" /\ Orig(c) \in sock.room
    <3>1. CASE e.again
      BY <2>1, <2>2, <3>1, <1>n DEF EntryOf, Leaves
    <3>2. CASE ~e.again
      <4>1. Current(e, c)
        BY <1>2, <2>2, <3>2 DEF WriteEvent, Current, VersionOf, Orig
      <4> QED BY <1>2, <2>1, <4>1 DEF EntryOf
    <3> QED BY <3>1, <3>2
  <2>4. Wanted(c)'
    BY <1>2, <2>2, <2>3 DEF Wanted, Dispatch
  <2>5. \A f \in batch' : EntryOf(f, c)'
    <3> SUFFICES ASSUME NEW f \in batch' PROVE EntryOf(f, c)'
      OBVIOUS
    <3>1. f \in batch /\ f.item # Orig(c) /\ EntryOf(f, c)
      BY <2>1, <2>2 DEF LoopInv, SchedOf, BatchOf
    <3> QED BY <3>1 DEF EntryOf, Current
  <2>6. Now(c) \in tokens' \cup resumes' => Gone(c)' \/ Flagged(Orig(c))'
    BY <2>1, <2>3, <1>m DEF SchedOf, TokenOf, Now
  <2> QED BY <1>2, <2>1, <2>2, <2>4, <2>5, <2>6, <1>m, <1>b, HitOrig DEF SameBlocking
<1>3. ASSUME Entry0(c) \in delay, TakeDelay(Entry0(c)), Dispatch(Orig(c), "delay")
      PROVE  SchedOf(c)'
  <2>1. UNCHANGED <<flags, resumes, batch>> /\ batch = {}
    BY <1>3 DEF TakeDelay, LoopInv
  <2>2. Unused(c) \/ Orig(c) \in flags.pendingEof
    BY <1>3 DEF CleanOf, Fresh
  <2>3. Wanted(c)'
    BY <2>1, <2>2, <1>w DEF Unused, Flagged
  <2>4. Now(c) \in tokens' \cup resumes' => Gone(c)' \/ Flagged(Orig(c))'
    BY <2>1, <2>2, <1>m DEF Unused, Gone, Now
  <2> QED BY <1>3, <2>1, <2>3, <2>4, <1>m, <1>b, HitOrig DEF SameBlocking
<1>4. ASSUME Now(c) \in resumes, TakeResume(Now(c)), Dispatch(Orig(c), "resume")
      PROVE  SchedOf(c)'
  <2>1. UNCHANGED <<flags, batch>> /\ batch = {} /\ resumes' = resumes \ {Now(c)}
    BY <1>4 DEF TakeResume, LoopInv
  <2>2. Gone(c) \/ (pc[c] = "yieldWait" /\ Now(c) \notin tokens)
    BY <1>4 DEF SchedOf, TokenOf
  <2>3. Wanted(c)'
    BY <1>4, <2>1, <2>2, <1>w, <1>g, <1>m DEF Wanted, Dispatch
  <2>4. Now(c) \in tokens' \cup resumes' => Gone(c)' \/ Flagged(Orig(c))'
    BY <2>1, <2>2, <1>m
  <2> QED BY <1>4, <2>1, <2>3, <2>4, <1>m, <1>b, HitOrig DEF SameBlocking
<1>5. ASSUME NEW t \in timer.map \cap EventsOf(c), ProcessTimer(t) PROVE SchedOf(c)'
  <2>1. UNCHANGED <<resumes, batch>> /\ batch = {} /\ Dispatch(t[1], t[2])
    BY <1>5 DEF ProcessTimer, LoopInv
  <2>2. t \in {Rd(c), Wr(c), Sleep(c), BRd(c)}
    BY Apart
  <2>3. CASE t = Sleep(c)
    <3>1. t[1] = Orig(c) /\ t[2] = "sleep" /\ t[1][1] = c
      BY <2>3 DEF Sleep, Orig
    <3>2. pc[c] = "sleepWait"
      BY <2>3, <1>p DEF TimerInv, SleepPC, Active, Woken
    <3>3. /\ flags'.timedOut = flags.timedOut \ {Orig(c)} /\ flags'.third = flags.third \ {c}
          /\ flags'.pendingEof = flags.pendingEof /\ flags'.dying = flags.dying
          /\ flags'.useBlock = flags.useBlock
      BY <1>5, <3>1 DEF ProcessTimer, SleepPreHandler, TypeOK, FlagSet
    <3>4. SameMarks(Blk(c)) /\ (Gone(c) => Gone(c)')
      BY <3>3, <1>n DEF SameMarks, Gone
    <3>5. Wanted(c)'
      BY <2>1, <3>1, <3>2 DEF Wanted, Dispatch
    <3>6. Now(c) \in tokens' \cup resumes' => Gone(c)' \/ Flagged(Orig(c))'
      BY <2>1, <3>2, <3>4 DEF SchedOf, TokenOf, Now
    <3> QED BY <2>1, <3>1, <3>2, <3>3, <3>4, <3>5, <3>6, <1>b, HitOrig
  <2>4. CASE t \in {Rd(c), Wr(c)}
    <3>1. t[1] = Orig(c) /\ t[2] \in {"read", "write"} /\ t[2] # "sleep"
      BY <2>4 DEF Rd, Wr, Orig
    <3>3. /\ flags'.timedOut = flags.timedOut \cup {Orig(c)} /\ flags'.third = flags.third
          /\ flags'.pendingEof = flags.pendingEof /\ flags'.dying = flags.dying
          /\ flags'.useBlock = flags.useBlock
      BY <1>5, <3>1 DEF ProcessTimer, TypeOK, FlagSet
    <3>4. SameMarks(Blk(c)) /\ (Gone(c) => Gone(c)') /\ Flagged(Orig(c))'
      BY <3>3, <1>n DEF SameMarks, Gone, Flagged
    <3> QED BY <2>1, <3>1, <3>3, <3>4, <1>w, <1>b, HitOrig
  <2>5. CASE t = BRd(c)
    <3>1. t[1] = Blk(c) /\ t[2] = "read"
      BY <2>5 DEF BRd, Blk
    <3>2. pc[c] = "thirdWait"
      BY <2>5, <1>p DEF TimerInv, ThirdPC, Active, Woken
    <3>3. /\ flags'.timedOut = flags.timedOut \cup {Blk(c)} /\ flags'.third = flags.third
          /\ flags'.pendingEof = flags.pendingEof /\ flags'.dying = flags.dying
          /\ flags'.useBlock = flags.useBlock
      BY <1>5, <3>1 DEF ProcessTimer, TypeOK, FlagSet
    <3>4. SameMarks(Orig(c)) /\ SameBlocking(c) /\ Flagged(Blk(c))'
      BY <3>3, <1>n DEF SameMarks, SameBlocking, Flagged
    <3> QED BY <2>1, <3>1, <3>2, <3>4, <1>b, HitBlk
  <2> QED BY <2>2, <2>3, <2>4, <2>5
<1> QED BY <1>1, <1>2, <1>3, <1>4, <1>5 DEF Hit


-----------------------------------------------------------------------------
(* A step of the coroutine of c.                                           *)

(* A coroutine runs on, or gives the CPU back.                             *)
LEMMA RowRuns ==
    ASSUME TypeOK, NEW c \in Conn, Row(c)
    PROVE  \/ cur' = cur /\ pc'[c] \in Active
           \/ cur' = Nobody /\ pc'[c] \notin Active
<1>1. CASE Enters(c)
  BY <1>1 DEF Enters, Stage, Wake, PC, Waiting, Active, Woken
<1>2. CASE SleepsOn(c)
  BY <1>2 DEF SleepsOn, Stage
<1>3. CASE ReadRow(c)
  BY <1>3 DEF ReadRow, Begins, Reads, ReadsMore, ReadFails, ReadWaits, Stage, Active, Woken
<1>4. CASE UserRow(c)
  BY <1>4 DEF UserRow, Sleeps, SleepEnds, ThirdWaits, ThirdEnds, Yields, YieldEnds, Returns,
       Stage, Active, Woken
<1>5. CASE WriteRow(c)
  BY <1>5 DEF WriteRow, WriteEnds, WritesPart, WriteWaits, Stage, Active, Woken
<1>6. CASE EndRow(c)
  BY <1>6 DEF EndRow, Closes, Keeps, Reset, Active, Woken
<1> QED BY <1>1, <1>2, <1>3, <1>4, <1>5, <1>6 DEF Row

(* What a coroutine that is entered finds: who was marked dying.           *)
LEMMA EnterMarks ==
    ASSUME TypeOK, NEW c \in Conn, CallOf(c), ReasonOf(c), Enters(c)
    PROVE  /\ flags'.timedOut = flags.timedOut /\ flags'.pendingEof = flags.pendingEof
           /\ flags'.third = flags.third /\ flags'.useBlock = flags.useBlock
           /\ flags.dying \subseteq flags'.dying
           /\ cur.item = Orig(c) /\ Flagged(Orig(c)) => Orig(c) \in flags'.dying \/ pc[c] = "idle"
           /\ Blk(c) \in flags'.dying => Blk(c) \in flags.dying \/ pc[c] = "thirdWait"
           /\ Orig(c) \in flags'.dying => Orig(c) \in flags.dying \/ cur.item = Orig(c)
<1>n. /\ Owned(c) = {Orig(c), Blk(c)} /\ Orig(c) # Blk(c) /\ Orig(c)[1] = c /\ Blk(c)[1] = c
  BY Apart, Names
<1>1. CASE UNCHANGED flags /\ ~Flagged(cur.item)
  BY <1>1
<1>2. CASE Flagged(cur.item) /\ DyingIs(DyingAfter(cur.item))
  <2>1. cur.item \in Owned(c) /\ ~WorkerFree /\ pc[c] \notin Active
    BY DEF Enters, Stage
  <2>2. cur.item = Blk(c) => pc[c] = "thirdWait"
    BY <2>1 DEF ReasonOf
  <2>3. c \in flags.useBlock => pc[c] = "thirdWait"
    BY <2>1 DEF CallOf, ThirdPC, Active, Woken
  <2>4. DyingAfter(cur.item) \subseteq flags.dying \cup {cur.item}
            \cup (IF cur.item = Orig(c) /\ c \in flags.useBlock THEN {Blk(c)} ELSE {})
        /\ flags.dying \cup {cur.item} \subseteq DyingAfter(cur.item)
    BY <1>n, <2>1 DEF DyingAfter
  <2> QED BY <1>2, <1>n, <2>1, <2>2, <2>3, <2>4 DEF DyingIs, FlagsAre
<1> QED BY <1>1, <1>2 DEF Enters

LEMMA CallRow ==
    ASSUME TypeOK, NEW c \in Conn, Row(c), CallOf(c), ReasonOf(c) PROVE CallOf(c)'
<1> USE Rigid DEF Stage, BlockingIs, FlagsAre
<1>n. /\ Orig(c) # Blk(c) /\ Nobody.item = Lsn /\ Lsn # Orig(c) /\ Owned(c) = {Orig(c), Blk(c)}
      /\ Nobody.by = "none"
  BY Apart, ListenApart, Names
<1>r. /\ ~WorkerFree /\ cur.item \in Owned(c)
      /\ (cur' = cur /\ pc'[c] \in Active) \/ (cur' = Nobody /\ pc'[c] \notin Active)
  BY RowFrame, RowRuns
<1>1. pc'[c] \in Active => ~WorkerFree' /\ cur'.item \in Owned(c)
  BY <1>r DEF WorkerFree
<1>s. cur' = [item |-> Orig(c), by |-> "sleep"] => cur' = cur
  BY <1>r, <1>n
<1>2. CASE Enters(c)
  <2>1. pc[c] \in PC \ Active /\ pc'[c] = Wake(pc[c]) /\ cur' = cur
    BY <1>2 DEF Enters
  <2>2. (pc'[c] \in ThirdPC <=> pc[c] \in ThirdPC) /\ (pc[c] \in SleepPC => pc'[c] \in SleepPC)
        /\ pc'[c] # "sleepWait"
    BY <2>1 DEF PC, Waiting, Active, Woken, Wake, ThirdPC, SleepPC
  <2>3. Flagged(Blk(c))' => Flagged(Blk(c)) \/ pc[c] \in ThirdPC
    BY <1>2, EnterMarks DEF Flagged, ThirdPC
  <2> QED BY <1>1, <1>2, <2>1, <2>2, <2>3, EnterMarks DEF CallOf
<1>3. CASE SleepsOn(c)
  <2>1. Flagged(Blk(c))' => Flagged(Blk(c))
    BY <1>3, <1>n DEF SleepsOn, DyingIs, Flagged
  <2> QED BY <1>1, <1>s, <1>3, <2>1 DEF SleepsOn, DyingIs, CallOf
<1>4. CASE ReadRow(c)
  <2>1. /\ pc[c] \notin ThirdPC \cup SleepPC /\ pc'[c] \notin ThirdPC \cup SleepPC
        /\ UNCHANGED flags
    BY <1>4 DEF ReadRow, Begins, Reads, ReadsMore, ReadFails, ReadWaits, ThirdPC, SleepPC
  <2> QED BY <1>1, <1>s, <2>1 DEF CallOf, SleepPC, Flagged
<1>5. CASE Sleeps(c)
  BY <1>1, <1>r, <1>n, <1>s, <1>5 DEF Sleeps, CallOf, SleepPC, ThirdPC, Flagged
<1>6. CASE SleepEnds(c)
  BY <1>1, <1>s, <1>6 DEF SleepEnds, CallOf, SleepPC, ThirdPC, Flagged
<1>7. CASE ThirdWaits(c)
  BY <1>1, <1>s, <1>7 DEF ThirdWaits, CallOf, SleepPC, ThirdPC, Flagged
<1>8. CASE ThirdEnds(c)
  BY <1>1, <1>s, <1>8, <1>n DEF ThirdEnds, CallOf, SleepPC, ThirdPC, Flagged
<1>9. CASE Yields(c) \/ YieldEnds(c) \/ Returns(c)
  <2>1. /\ pc[c] \notin ThirdPC \cup SleepPC /\ pc'[c] \notin ThirdPC \cup SleepPC
        /\ UNCHANGED flags
    BY <1>9 DEF Yields, YieldEnds, Returns, ThirdPC, SleepPC
  <2> QED BY <1>1, <1>s, <2>1 DEF CallOf, SleepPC, Flagged
<1>10. CASE WriteRow(c)
  <2>1. /\ pc[c] \notin ThirdPC \cup SleepPC /\ pc'[c] \notin ThirdPC \cup SleepPC
        /\ UNCHANGED flags
    BY <1>10 DEF WriteRow, WriteEnds, WritesPart, WriteWaits, ThirdPC, SleepPC
  <2> QED BY <1>1, <1>s, <2>1 DEF CallOf, SleepPC, Flagged
<1>11. CASE EndRow(c)
  <2>1. /\ pc'[c] = "idle" /\ c \notin flags'.third \cup flags'.useBlock
        /\ ~Flagged(Blk(c))'
    BY <1>11, <1>n DEF EndRow, Closes, Keeps, Reset, Flagged
  <2> QED BY <1>1, <2>1 DEF CallOf, SleepPC, ThirdPC
<1> QED BY <1>2, <1>3, <1>4, <1>5, <1>6, <1>7, <1>8, <1>9, <1>10, <1>11 DEF Row, UserRow


(* What a step of c does to its being gone, and to a wait in yield.        *)
LEMMA GoneRow ==
    ASSUME TypeOK, NEW c \in Conn, Row(c), ~EndRow(c), CallOf(c), ReasonOf(c)
    PROVE  /\ version'[c] = version[c]
           /\ Gone(c) => Gone(c)'
           /\ pc[c] = "yieldWait" => Enters(c)
           /\ pc'[c] = "yieldWait" => Yields(c)
<1> USE Rigid DEF Stage, BlockingIs, FlagsAre
<1>1. version'[c] = version[c]
  BY RowVersion
<1>2. CASE Enters(c)
  <2>1. pc'[c] # "yieldWait"
    BY <1>2 DEF Enters, Wake, PC, Waiting, Active, Woken
  <2> QED BY <1>1, <1>2, <2>1, EnterMarks DEF Gone
<1>3. CASE SleepsOn(c)
  <2>1. pc[c] # "yieldWait" /\ pc'[c] # "yieldWait"
    BY <1>3 DEF SleepsOn, CallOf, SleepPC
  <2> QED BY <1>1, <1>3, <2>1 DEF SleepsOn, DyingIs, Gone
<1>4. CASE ReadRow(c)
  BY <1>1, <1>4 DEF ReadRow, Begins, Reads, ReadsMore, ReadFails, ReadWaits, Gone
<1>5. CASE UserRow(c)
  BY <1>1, <1>5, Apart DEF UserRow, Sleeps, SleepEnds, ThirdWaits, ThirdEnds, Yields, YieldEnds,
       Returns, Gone
<1>6. CASE WriteRow(c)
  BY <1>1, <1>6 DEF WriteRow, WriteEnds, WritesPart, WriteWaits, Gone
<1> QED BY <1>2, <1>3, <1>4, <1>5, <1>6 DEF Row

LEMMA TokenRow ==
    ASSUME TypeOK, NEW c \in Conn, Row(c), SchedOf(c), QueuedOf(c) PROVE TokenOf(c)'
<1>r. /\ ~WorkerFree /\ cur.item \in Owned(c) /\ UNCHANGED resumes
      /\ tokens' = tokens \/ Yields(c)
  BY RowFrame
<1>1. CASE EndRow(c)
  <2>1. version'[c] = version[c] + 1 /\ version[c] \in Nat
    BY <1>1 DEF EndRow, Closes, Keeps, Reset, TypeOK
  <2>2. tokens' = tokens
    BY <1>1 DEF EndRow, Closes, Keeps, Reset
  <2>3. <<c, version[c] + 1>> \notin tokens \cup resumes
    BY <2>1 DEF QueuedOf, TypeOK
  <2>4. Now(c)' = <<c, version[c] + 1>>
    BY <2>1 DEF Now
  <2> QED BY <1>r, <2>2, <2>3, <2>4 DEF TokenOf
<1>2. CASE ~EndRow(c)
  <2>g. /\ version'[c] = version[c] /\ (Gone(c) => Gone(c)')
        /\ (pc[c] = "yieldWait" => Enters(c)) /\ (pc'[c] = "yieldWait" => Yields(c))
    BY <1>2, GoneRow DEF SchedOf
  <2>n. Now(c)' = Now(c)
    BY <2>g DEF Now
  <2>1. CASE Enters(c)
    <3>1. tokens' = tokens /\ pc[c] \notin Active
      BY <2>1 DEF Enters, Stage
    <3>2. cur.item = Blk(c) => pc[c] = "thirdWait"
      BY <1>r, <3>1 DEF SchedOf, ReasonOf
    <3>3. pc[c] = "yieldWait" /\ Flagged(Orig(c)) => Gone(c)'
      BY <1>r, <2>1, <3>2, Apart, Rigid, EnterMarks DEF SchedOf, Gone
    <3> QED BY <1>r, <2>g, <2>n, <3>1, <3>3 DEF TokenOf, SchedOf
  <2>2. CASE Yields(c)
    <3>1. /\ pc[c] = "user" /\ pc'[c] = "yieldWait" /\ cur' = Nobody
          /\ tokens' = tokens \cup {Now(c)}
      BY <2>2 DEF Yields, Stage, Now
    <3>2. Now(c) \in tokens \cup resumes => Gone(c)'
      BY <2>g, <3>1 DEF SchedOf, TokenOf
    <3>3. cur'.item \notin Owned(c)
      BY <3>1, ListenApart
    <3> QED BY <1>r, <2>n, <3>1, <3>2, <3>3, Rigid DEF TokenOf
  <2>3. CASE ~Enters(c) /\ ~Yields(c)
    <3>1. Now(c) \in tokens \cup resumes => Gone(c)
      BY <2>g, <2>3 DEF SchedOf, TokenOf
    <3> QED BY <1>r, <2>g, <2>n, <2>3, <3>1 DEF TokenOf
  <2> QED BY <2>1, <2>2, <2>3
<1> QED BY <1>1, <1>2

(* A connection given up between the two edges of an entry stays so.       *)
LEMMA LeavesRow ==
    ASSUME TypeOK, NEW c \in Conn, Row(c), SchedOf(c), Leaves(c)
    PROVE  (pc'[c] = "idle" /\ cur' = Nobody) \/ Leaves(c)'
<1> USE Rigid DEF Stage
<1>1. CASE EndRow(c)
  BY <1>1 DEF EndRow, Closes, Keeps, Reset
<1>2. CASE Enters(c)
  <2>1. pc[c] = "sendWait" /\ Flagged(Orig(c)) /\ cur.item = Orig(c)
    BY <1>2 DEF Enters, Leaves, PC, Active, Woken
  <2>2. cur' = cur /\ pc'[c] = "sendWoken"
    BY <1>2, <2>1 DEF Enters, Wake
  <2>3. Orig(c) \in flags'.dying
    BY <1>2, <2>1, EnterMarks DEF SchedOf
  <2> QED BY <2>1, <2>2, <2>3 DEF Leaves, Dying
<1>3. CASE WriteRow(c)
  <2>1. pc[c] = "sendWoken" /\ Dying(c) /\ cur.item = Orig(c)
    BY <1>3 DEF WriteRow, WriteEnds, WritesPart, WriteWaits, Leaves
  <2>2. WriteEnds(c)
    BY <1>3, <2>1 DEF WriteRow, WritesPart, WriteWaits
  <2> QED BY <2>1, <2>2 DEF WriteEnds, Leaves
<1>4. ~SleepsOn(c)
  BY DEF SleepsOn, Leaves, SchedOf, CallOf, SleepPC
<1>5. ~ReadRow(c) /\ ~UserRow(c)
  BY DEF ReadRow, Begins, Reads, ReadsMore, ReadFails, ReadWaits, UserRow, Sleeps, SleepEnds,
         ThirdWaits, ThirdEnds, Yields, YieldEnds, Returns, Leaves
<1> QED BY <1>1, <1>2, <1>3, <1>4, <1>5 DEF Row

LEMMA SchedRow ==
    ASSUME TypeOK, NEW c \in Conn, Row(c), SchedOf(c), QueuedOf(c) PROVE SchedOf(c)'
<1>r. /\ ~WorkerFree /\ cur.item \in Owned(c) /\ UNCHANGED batch
      /\ (cur' = cur /\ pc'[c] \in Active) \/ (cur' = Nobody /\ pc'[c] \notin Active)
  BY RowFrame, RowRuns
<1>n. Nobody.item = Lsn /\ Nobody.by = "none" /\ Lsn \notin Owned(c)
  BY ListenApart
<1>1. ReasonOf(c)'
  BY <1>r, <1>n DEF ReasonOf, WorkerFree
<1>2. ASSUME NEW e \in batch PROVE EntryOf(e, c)'
  <2>1. EntryOf(e, c)
    BY DEF SchedOf, BatchOf
  <2>2. Current(e, c)' => Current(e, c)
    <3>1. version'[c] = version[c] \/ (version'[c] = version[c] + 1 /\ version[c] \in Nat)
      BY RowVersion DEF TypeOK
    <3>2. e.item = Orig(c) => e.ver <= version[c] /\ e.ver \in Nat
      BY DEF QueuedOf, TypeOK, Entry
    <3> QED BY <3>1, <3>2, Rigid DEF Current
  <2>3. Leaves(c) => (pc'[c] = "idle" /\ cur'.item \notin Owned(c)) \/ Leaves(c)'
    BY <1>n, LeavesRow
  <2> QED BY <1>r, <2>1, <2>2, <2>3, Rigid DEF EntryOf
<1> QED BY <1>r, <1>1, <1>2, CallRow, TokenRow DEF SchedOf, BatchOf

-----------------------------------------------------------------------------
(* The events epoll hands over are what the coroutines wait for.           *)
LEMMA SchedEpoll ==
    ASSUME TypeOK, LoopInv, EpollWait, NEW c \in Conn, SchedOf(c), WatchOf(c), Passes(c)
    PROVE  SchedOf(c)'
<1>c. cur = Nobody /\ cur' = Nobody /\ cur.item \notin Owned(c) /\ WorkerFree
  BY LoopTakes, ListenApart DEF EpollWait, Loop
<1>f. UNCHANGED <<pc, version, sock>>
  BY LoopFrame DEF Loop
<1>p. pc[c] \notin Active /\ pc[c] \in PC
  BY <1>c DEF SchedOf, CallOf, TypeOK
<1>n. Orig(c) \in Item /\ Blk(c) \in Item /\ Orig(c) # Lsn /\ Blk(c) # Lsn /\ Orig(c) # Blk(c)
  BY Names, ListenApart
<1>1. ASSUME NEW e \in batch' PROVE EntryOf(e, c)'
  <2>1. CASE e.item = Orig(c)
    <3>1. e = Handed(Orig(c))
      BY <2>1, <1>n, Hands
    <3>2. /\ ~e.again /\ e.ev \subseteq ep.ev[Orig(c)]
          /\ "in" \in e.ev => ~NothingToRecv(c)
          /\ "out" \in e.ev => Orig(c) \in sock.room
      BY <3>1 DEF Handed, Cond, NothingToRecv
    <3>3. /\ "in" \in ep.ev[Orig(c)] => pc[c] \in {"idle", "recvWait"}
          /\ "out" \in ep.ev[Orig(c)] => pc[c] = "sendWait"
      <4>1. pc[c] \in {"idle", "recvWait", "sendWait"} \cup UserPC
        BY <1>p DEF PC, Waiting, UserPC
      <4> QED BY <1>p, <4>1 DEF WatchOf, RecvPC, SendPC, Active, Woken, READ
    <3> QED BY <2>1, <1>c, <1>f, <1>n, <3>2, <3>3, Rigid DEF EntryOf, NothingToRecv
  <2>2. CASE e.item = Blk(c)
    <3>1. e = Handed(Blk(c))
      BY <2>2, <1>n, Hands
    <3>2. ~e.again /\ "out" \notin e.ev
      BY <3>1 DEF Handed, WatchOf, READ
    <3> QED BY <2>2, <1>n, <3>2, Rigid DEF EntryOf, Current
  <2>3. CASE e.item \notin {Orig(c), Blk(c)}
    BY <2>3, Rigid DEF EntryOf, Current
  <2> QED BY <2>1, <2>2, <2>3
<1> QED BY <1>1, Passed DEF SchedOf, BatchOf


-----------------------------------------------------------------------------
LEMMA SameSched ==
    ASSUME NEW c \in Conn, SameOf(c), cur.item \notin Owned(c), cur' \in {cur, Nobody},
           resumes' = resumes, \A r \in tokens' : r \in tokens \/ r[1] # c
    PROVE  Passes(c)
<1>1. cur'.item \notin Owned(c)
  BY ListenApart
<1>2. SameSocket(Orig(c)) /\ SameMarks(Orig(c)) /\ SameMarks(Blk(c)) /\ SameCall(c)
      /\ SameBlocking(c)
  BY DEF SameOf, SameItem
<1>3. Now(c) \in tokens' => Now(c) \in tokens
  BY DEF Now
<1> QED BY <1>1, <1>2, <1>3 DEF Passes, SameSocket, SameMarks, SameCall

LEMMA SchedStep ==
    ASSUME Base, CleanInv, SchedInv, [Next]_vars PROVE SchedInv'
<1>t. TypeOK /\ TimerInv /\ LoopInv /\ TimersNamed
  BY DEF Base, Safe, SchedInv, CleanInv
<1>1. LoopInv'
  BY <1>t, LoopStep
<1>2. ASSUME NEW c \in Conn PROVE SchedOf(c)'
  <2> SchedOf(c) /\ QueuedOf(c) /\ WatchOf(c)
    BY DEF SchedInv, CleanInv, Base, WatchInv
  <2>0. ASSUME Passes(c), \A e \in batch' : e.item \in Owned(c) => e \in batch
        PROVE  SchedOf(c)'
    <3>1. \A e \in batch' : EntryOf(e, c)'
      <4> SUFFICES ASSUME NEW e \in batch' PROVE EntryOf(e, c)'
        OBVIOUS
      <4>1. CASE e \in batch BY <2>0, <4>1, Passed
      <4>2. CASE e.item \notin Owned(c)
        BY <4>2, Rigid DEF EntryOf, Current, Owned
      <4> QED BY <2>0, <4>1, <4>2
    <3> QED BY <2>0, <3>1, Passed DEF SchedOf, BatchOf
  <2>1. CASE Loop \/ Timers
    BY <1>t, <2>0, <2>1, LoopSplit, SchedEpoll, SchedHit DEF Calm
  <2>2. CASE Resumer \/ World
    <3>1. /\ UNCHANGED <<cur, batch, version, pc, flags>>
          /\ sock.data \subseteq sock'.data /\ sock.eof \subseteq sock'.eof
          /\ sock.room \subseteq sock'.room
          /\ UNCHANGED <<tokens, resumes>> \/ \E t \in tokens : ResumeAsync(t)
      BY <1>t, <2>2, WorldFrame
    <3>2. /\ Now(c) \in tokens' \cup resumes' => Now(c) \in tokens \cup resumes
          /\ Now(c) \in tokens' \cap resumes' => Now(c) \in tokens \cap resumes
      BY <3>1 DEF ResumeAsync
    <3>3. Passes(c)
      BY <3>1, <3>2 DEF Passes, SameBlocking, SameMarks
    <3> QED BY <3>1, <3>3, <2>0
  <2>3. CASE ListenEnter \/ Limit \/ Accept
    <3>1. /\ UNCHANGED <<batch, resumes, tokens, pc, flags, version>>
          /\ cur.item \notin Owned(c) /\ cur'.item \notin Owned(c)
      BY <1>t, <2>3, ListenFrame, ListenApart
    <3>2. /\ Orig(c) \in sock.data \cup sock.eof => Orig(c) \in sock'.data \cup sock'.eof
          /\ Orig(c) \in sock.room => Orig(c) \in sock'.room
      <4>1. UNCHANGED sock \/ \E d \in Conn : InitConnection(d)
        BY <1>t, <2>3, ListenFrame
      <4> QED BY <4>1 DEF InitConnection
    <3>3. Passes(c)
      BY <3>1, <3>2 DEF Passes, SameBlocking, SameMarks
    <3> QED BY <3>1, <3>3, <2>0
  <2>4. CASE \E d \in Conn : Row(d)
    <3> PICK d \in Conn : Row(d)
      BY <2>4
    <3>1. CASE d = c BY <1>t, <3>1, SchedRow
    <3>2. CASE d # c
      <4>1. /\ cur.item \in Owned(d) /\ cur' \in {cur, Nobody} /\ SameOf(c)
            /\ UNCHANGED <<batch, resumes>> /\ (tokens' = tokens \/ Yields(d))
        BY <3>2, RowFrame
      <4>2. cur.item \notin Owned(c)
        BY <3>2, <4>1, Apart
      <4>3. \A r \in tokens' : r \in tokens \/ r[1] # c
        BY <3>2, <4>1 DEF Yields
      <4> QED BY <4>1, <4>2, <4>3, <2>0, SameSched
    <3> QED BY <3>1, <3>2
  <2>5. CASE UNCHANGED vars
    <3>1. Passes(c)
      BY <2>5 DEF vars, Passes, SameBlocking, SameMarks
    <3> QED BY <2>5, <3>1, <2>0 DEF vars
  <2> QED BY <1>t, <2>1, <2>2, <2>3, <2>4, <2>5, HandlerRows DEF Next
<1> QED BY <1>1, <1>2 DEF SchedInv

LEMMA SchedInit == Init => SchedInv
<1> SUFFICES ASSUME Init PROVE SchedInv
  OBVIOUS
<1>1. LoopInv
  BY DEF Init, LoopInv, WorkerFree, Dispatched, Nobody
<1>2. ASSUME NEW c \in Conn PROVE SchedOf(c)
  <2>1. CallOf(c)
    BY <1>2, Names, ListenApart
    DEF Init, CallOf, Active, Woken, ThirdPC, SleepPC, Flagged, NoFlags
  <2>2. BatchOf(c) /\ TokenOf(c) /\ ReasonOf(c)
    BY <1>2, ListenApart DEF Init, BatchOf, TokenOf, ReasonOf, WorkerFree
  <2> QED BY <2>1, <2>2 DEF SchedOf
<1> QED BY <1>1, <1>2 DEF SchedInv

(* All of it together.                                                     *)
Ruled == Base /\ CleanInv /\ SchedInv

LEMMA RuledInit == Init => Ruled
BY BaseInit, CleanInit, SchedInit DEF Ruled

LEMMA RuledStep == ASSUME Ruled, [Next]_vars PROVE Ruled'
BY BaseStep, CleanStep, SchedStep DEF Ruled

LEMMA RuledWaker == Ruled => RightWaker
<1> SUFFICES ASSUME Ruled, NEW c \in Conn, ~WorkerFree, cur.item \in Owned(c)
             PROVE  /\ c \notin free
                    /\ pc[c] = "recvWait" => \/ Flagged(cur.item)
                                             \/ cur.by = "event" /\ ~NothingToRecv(c)
                    /\ pc[c] = "sendWait" => \/ Flagged(cur.item)
                                             \/ cur.by = "out" /\ Orig(c) \in sock.room
                    /\ pc[c] = "sleepWait" => cur.by = "sleep" \/ c \in flags.third
                    /\ pc[c] = "yieldWait" => cur.by = "resume" \/ Flagged(cur.item)
                    /\ pc[c] = "thirdWait" => \/ Flagged(cur.item)
                                              \/ cur.item = Blk(c) /\ cur.by = "event"
                    /\ cur.item = Blk(c) => pc[c] \in {"thirdWait"} \cup Active
  BY DEF RightWaker
<1>1. CallOf(c) /\ ReasonOf(c) /\ CleanOf(c)
  BY DEF Ruled, SchedInv, SchedOf, CleanInv
<1>2. c \notin free
  BY <1>1 DEF CleanOf, Fresh, Unused
<1>3. pc[c] \in Waiting => pc[c] \notin Active
  BY DEF Waiting, Active, Woken
<1>4. pc[c] = "sleepWait" => c \in flags.third \/ cur.by = "sleep"
  BY <1>1 DEF CallOf
<1>5. cur.item = Orig(c) \/ cur.item = Blk(c)
  BY Apart
<1> QED BY <1>1, <1>2, <1>3, <1>4, <1>5, Apart DEF ReasonOf, Wanted, Waiting

(* A suspended coroutine is entered by what it waits for or by an          *)
(* exception, never by a queued entry of an earlier use of its connection, *)
(* and the call the hook retries then finds its socket ready.              *)
THEOREM WokenByItsWaker == Spec => []RightWaker
<1> QED BY RuledInit, RuledStep, RuledWaker, PTL DEF Spec

LEMMA SleepStep ==
    ASSUME Ruled, [Next]_vars, NEW c \in Conn, pc[c] = "sleepWait", pc'[c] # "sleepWait"
    PROVE  cur = [item |-> Orig(c), by |-> "sleep"]
<1>t. TypeOK /\ TimerInv /\ CallOf(c) /\ ReasonOf(c)
  BY DEF Ruled, Base, Safe, SchedInv, SchedOf
<1>1. ASSUME NEW d \in Conn, Row(d) PROVE d = c
  BY <1>1, RowFrame DEF SameOf, SameCall
<1>2. (\E d \in Conn : Row(d))
  BY <1>t, LoopFrame, WorldFrame, ListenFrame, HandlerRows DEF Next, vars
<1>3. Row(c)
  BY <1>1, <1>2
<1>4. Enters(c)
  BY <1>3 DEF Row, SleepsOn, ReadRow, Begins, Reads, ReadsMore, ReadFails, ReadWaits,
       UserRow, Sleeps, SleepEnds, ThirdWaits, ThirdEnds, Yields, YieldEnds, Returns,
       WriteRow, WriteEnds, WritesPart, WriteWaits, EndRow, Closes, Keeps, Stage
<1>5. ~WorkerFree /\ cur.item \in Owned(c) /\ pc[c] \notin Active
  BY <1>4 DEF Enters, Stage
<1>6. cur.item = Orig(c)
  BY <1>t, <1>5, Apart DEF ReasonOf
<1>7. Orig(c)[1] = c
  BY Names
<1>8. cur.by = "sleep" \/ c \notin flags.third
  BY <1>t, <1>4, <1>5, <1>6, <1>7 DEF Enters, InSleep, ReasonOf, Wanted
<1>9. cur = [item |-> cur.item, by |-> cur.by]
  BY <1>t DEF TypeOK
<1> QED BY <1>t, <1>6, <1>8, <1>9 DEF CallOf

(* A hooked sleep runs out: whatever happens to the client meanwhile, the  *)
(* coroutine leaves its sleep through the timer of that sleep only.        *)
THEOREM SleepsRunOut == Spec => SleepRunsOut
<1>1. Ruled /\ [Next]_vars =>
        [\A c \in Conn : pc[c] = "sleepWait" /\ pc'[c] # "sleepWait"
            => cur = [item |-> Orig(c), by |-> "sleep"]]_vars
  BY SleepStep
<1> QED BY <1>1, RuledInit, RuledStep, PTL DEF Spec, SleepRunsOut
=============================================================================
