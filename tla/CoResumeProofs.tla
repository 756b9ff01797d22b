---------------------------- MODULE CoResumeProofs ----------------------------
(***************************************************************************)
(* For any threads, any size of the socketpair and any number of bytes per *)
(* read: the worker does not sleep on queued work.  A byte that finds the  *)
(* socketpair full is not needed, because then the read end is reported,   *)
(* or the worker has just been woken and looks at its queues next.         *)
(***************************************************************************)
EXTENDS CoResumeProperties, TLAPS

USE ResumeAssumption

(* A full socketpair is in the ready list, but for the moment between the  *)
(* event and its handler.                                                  *)
FullIsReported == bytes = Room /\ at # "event" => edge

(* The queues found empty since the worker last woke up or looped.         *)
Passed == {k \in Queue : \/ at \in {"timers", "epoll"}
                         \/ at = "singles" /\ k = "resumes"}

(* What came into one of them since then is announced.                     *)
Announced == \A k \in Passed \ silent : queue[k] > 0 => WakeUp

ResumeInv == TypeOK /\ FullIsReported /\ Announced

-----------------------------------------------------------------------------
(* Only EpollWait, ReadEvent and WriteByte can end a wake-up.              *)
LEMMA WakeUpStays ==
    ASSUME WakeUp, caller' = caller, bytes' = bytes, edge' = edge
    PROVE  WakeUp'
  BY DEF WakeUp

(* Steps that leave the socketpair alone keep it reported when full.       *)
LEMMA ReportStays ==
    ASSUME FullIsReported, bytes' = bytes, edge' = edge,
           at' # "event" => at # "event"
    PROVE  FullIsReported'
  BY DEF FullIsReported

(* The initial states satisfy the invariant.                               *)
LEMMA ResumeInit == Init => ResumeInv
<1> SUFFICES ASSUME Init PROVE ResumeInv
  OBVIOUS
<1>1. TypeOK
  <2>1. bytes \in 0 .. Room
    BY DEF Init
  <2>2. edge \in BOOLEAN /\ needContinue \in BOOLEAN
    BY DEF Init
  <2>3. queue \in [Queue -> Nat] /\ caller \in [Thread -> {"idle", "write"}]
    BY DEF Init
  <2>4. full \in Nat
    BY DEF Init
  <2> QED BY <2>1, <2>2, <2>3, <2>4 DEF Init, TypeOK
<1>2. FullIsReported /\ Announced
  BY DEF Init, FullIsReported, Announced, Passed
<1> QED BY <1>1, <1>2 DEF ResumeInv

(* A call announces what it puts into an empty queue.                      *)
LEMMA PushStep ==
    ASSUME ResumeInv, NEW t \in Thread, NEW k \in Queue, Push(t, k)
    PROVE  ResumeInv'
<1>1. TypeOK'
  BY DEF ResumeInv, TypeOK, Push, MayCall
<1>2. FullIsReported'
  BY ReportStays DEF ResumeInv, Push
<1>3. Announced'
  <2> SUFFICES ASSUME NEW j \in Passed \ silent', queue'[j] > 0
               PROVE  WakeUp'
    BY DEF Announced, Passed, Push
  <2>1. CASE queue[k] = 0 /\ caller' = [caller EXCEPT ![t] = "write"]
    BY <2>1 DEF WakeUp, ResumeInv, TypeOK
  <2>2. CASE \/ queue[k] > 0 /\ UNCHANGED <<caller, silent>>
             \/ silent' = silent \cup {k} /\ UNCHANGED caller
    <3>1. j \in Queue /\ j \notin silent
      BY <2>2 DEF Passed, Queue
    <3>2. queue[j] > 0
      BY <2>2, <3>1 DEF Push, ResumeInv, TypeOK
    <3> QED BY <2>2, <3>1, <3>2, WakeUpStays DEF ResumeInv, Announced, Push
  <2> QED BY <2>1, <2>2 DEF Push
<1> QED BY <1>1, <1>2, <1>3 DEF ResumeInv

(* A byte that does not fit is not missed.                                 *)
LEMMA WriteByteStep ==
    ASSUME ResumeInv, NEW t \in Thread, WriteByte(t)
    PROVE  ResumeInv'
<1>1. TypeOK'
  <2>1. edge' \in BOOLEAN /\ needContinue' \in BOOLEAN
    BY DEF ResumeInv, TypeOK, WriteByte, ByteSent
  <2>2. bytes' \in 0 .. Room
    BY DEF ResumeInv, TypeOK, WriteByte, ByteSent
  <2>3. caller' \in [Thread -> {"idle", "write"}]
    BY DEF ResumeInv, TypeOK, WriteByte, ByteSent
  <2>4. full' \in Nat
    BY DEF ResumeInv, TypeOK, WriteByte
  <2> QED BY <2>1, <2>2, <2>3, <2>4 DEF ResumeInv, TypeOK, WriteByte
<1>2. FullIsReported'
  BY DEF ResumeInv, FullIsReported, WriteByte, ByteSent
<1>3. Announced'
  <2>1. CASE at = "event"
    BY <2>1 DEF Announced, Passed, WriteByte, ByteSent
  <2>2. CASE at # "event"
    <3>1. edge' /\ bytes' > 0
      BY <2>2 DEF ResumeInv, TypeOK, FullIsReported, WriteByte, ByteSent
    <3> QED BY <3>1 DEF Announced, WakeUp
  <2> QED BY <2>1, <2>2
<1> QED BY <1>1, <1>2, <1>3 DEF ResumeInv

(* A suspended handler of the worker tries again, which can only add a     *)
(* reported byte.                                                          *)
LEMMA SendResumedStep ==
    ASSUME ResumeInv, SendResumed
    PROVE  ResumeInv'
<1>1. CASE ByteSent
  <2>1. TypeOK'
    BY <1>1 DEF ResumeInv, TypeOK, SendResumed, ByteSent
  <2>2. edge' /\ bytes' > 0
    BY <1>1 DEF ResumeInv, TypeOK, ByteSent
  <2>3. FullIsReported' /\ Announced'
    BY <2>2 DEF FullIsReported, Announced, WakeUp
  <2> QED BY <2>1, <2>3 DEF ResumeInv
<1>2. CASE UNCHANGED <<bytes, edge>>
  <2>1. TypeOK'
    BY <1>2 DEF ResumeInv, TypeOK, SendResumed
  <2>2. FullIsReported'
    BY <1>2, ReportStays DEF ResumeInv, SendResumed
  <2>3. Announced'
    BY <1>2, WakeUpStays DEF ResumeInv, Announced, Passed, SendResumed
  <2> QED BY <2>1, <2>2, <2>3 DEF ResumeInv
<1> QED BY <1>1, <1>2 DEF SendResumed

(* The worker wakes up and reads: nothing is passed yet.                   *)
LEMMA WakeStep ==
    ASSUME ResumeInv, EpollWait \/ ReadEvent \/ OtherEvent
    PROVE  ResumeInv'
<1>1. TypeOK'
  <2>1. edge' \in BOOLEAN /\ needContinue' \in BOOLEAN
    BY DEF ResumeInv, TypeOK, EpollWait, ReadEvent, OtherEvent
  <2>2. bytes' \in 0 .. Room
    BY DEF ResumeInv, TypeOK, EpollWait, ReadEvent, OtherEvent
  <2>3. at' \in {"epoll", "event", "timers"} \cup Queue
    BY DEF EpollWait, ReadEvent, OtherEvent, Step, Queue
  <2> QED BY <2>1, <2>2, <2>3
          DEF ResumeInv, TypeOK, EpollWait, ReadEvent, OtherEvent
<1>2. FullIsReported'
  BY DEF ResumeInv, TypeOK, FullIsReported, EpollWait, ReadEvent, OtherEvent,
         Step
<1>3. Announced'
  BY DEF Announced, Passed, EpollWait, ReadEvent, OtherEvent, Step
<1> QED BY <1>1, <1>2, <1>3 DEF ResumeInv

(* A round of the loop passes only queues that it found empty.             *)
LEMMA RoundStep ==
    ASSUME ResumeInv,
           \/ \E k \in Queue : Take(k)
           \/ Leave("resumes", "singles") \/ Leave("singles", "timers")
           \/ \E ticked \in BOOLEAN : LoopEnd(ticked)
    PROVE  ResumeInv'
<1>1. CASE \E k \in Queue : Take(k)
  <2>1. PICK k \in Queue : Take(k)
    BY <1>1
  <2>2. TypeOK'
    BY <2>1 DEF ResumeInv, TypeOK, Take, Step
  <2>3. FullIsReported'
    BY <2>1, ReportStays DEF ResumeInv, Take, Step
  <2>4. Announced'
    <3>1. Passed' = Passed /\ k \notin Passed
      BY <2>1 DEF Take, Step, Passed, Queue
    <3>2. \A j \in Passed : queue'[j] = queue[j]
      BY <2>1, <3>1 DEF Take, ResumeInv, TypeOK, Passed, Queue
    <3> QED BY <2>1, <3>1, <3>2, WakeUpStays
            DEF ResumeInv, Announced, Take
  <2> QED BY <2>2, <2>3, <2>4 DEF ResumeInv
<1>2. ASSUME NEW from \in Queue, NEW to \in {"singles", "timers"},
             Leave(from, to), from = "resumes" <=> to = "singles"
      PROVE  ResumeInv'
  <2>1. TypeOK'
    BY <1>2 DEF ResumeInv, TypeOK, Leave, Step, Queue
  <2>2. FullIsReported'
    <3>1. at' # "event"
      BY <1>2 DEF Leave, Step
    <3>2. at # "event"
      BY <1>2 DEF Leave, Step, Queue
    <3> QED BY <1>2, <3>1, <3>2, ReportStays DEF ResumeInv, Leave
  <2>3. Passed' \subseteq Passed \cup {from}
    BY <1>2 DEF Leave, Step, Passed, Queue
  <2>4. Announced'
    BY <1>2, <2>3, WakeUpStays DEF ResumeInv, TypeOK, Announced, Leave
  <2> QED BY <2>1, <2>2, <2>4 DEF ResumeInv
<1>3. CASE \E ticked \in BOOLEAN : LoopEnd(ticked)
  <2>1. PICK ticked \in BOOLEAN : LoopEnd(ticked)
    BY <1>3
  <2>2. TypeOK'
    BY <2>1 DEF ResumeInv, TypeOK, LoopEnd, Step, Queue
  <2>3. FullIsReported'
    BY <2>1, ReportStays DEF ResumeInv, LoopEnd, Step
  <2>4. Passed' \subseteq Passed
    BY <2>1 DEF LoopEnd, Step, Passed
  <2>5. Announced'
    BY <2>1, <2>4, WakeUpStays DEF ResumeInv, Announced, LoopEnd
  <2> QED BY <2>2, <2>3, <2>5 DEF ResumeInv
<1>4. Leave("resumes", "singles") => ResumeInv'
  BY <1>2 DEF Queue
<1>5. Leave("singles", "timers") => ResumeInv'
  BY <1>2 DEF Queue
<1> QED BY <1>1, <1>3, <1>4, <1>5

(* Every step keeps the invariant.                                         *)
LEMMA ResumeStep == ResumeInv /\ [Next]_vars => ResumeInv'
<1> SUFFICES ASSUME ResumeInv, [Next]_vars PROVE ResumeInv'
  OBVIOUS
<1>1. CASE UNCHANGED vars
  BY <1>1 DEF vars, ResumeInv, TypeOK, FullIsReported, Announced, Passed, WakeUp
<1>2. CASE Next
  BY <1>2, PushStep, WriteByteStep, SendResumedStep, WakeStep, RoundStep DEF Next, WorkerStep
<1> QED BY <1>1, <1>2

(* Types hold; in particular the socketpair never holds more than Room.    *)
THEOREM ResumeTypeCorrect == Spec => []TypeOK
<1>1. ResumeInv => TypeOK
  BY DEF ResumeInv
<1> QED BY <1>1, ResumeInit, ResumeStep, PTL DEF Spec

(* The worker never waits in epoll on a queue with entries unless a byte   *)
(* is reported or about to be written (co_dispatcher.cpp:162).             *)
THEOREM NeverSleepsOnWork == Spec => []NoSleepOnWork
<1>1. ResumeInv => NoSleepOnWork
  BY DEF ResumeInv, Announced, Passed, NoSleepOnWork, Queue
<1> QED BY <1>1, ResumeInit, ResumeStep, PTL DEF Spec
=============================================================================
