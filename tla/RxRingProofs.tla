---------------------------- MODULE RxRingProofs ----------------------------
(***************************************************************************)
(* Theorems about RxRing, for every ring size, number of fragments, queue  *)
(* length and number of starts and failures.                               *)
(***************************************************************************)
EXTENDS RxRing, Functions, FiniteSetTheorems, TLAPS

(* The semaphore of the channel is the RxDone task's.                      *)
Holding == {"loop", "put", "give", "trigger", "resume", "recover", "unlock"}

(* The descriptor at cur_idx was given back to the hardware and has not    *)
(* been announced yet; a packet cut short is being passed on.              *)
Unannounced == rd_pc = "resume" \/ (rd_pc \in {"put", "give", "trigger"} /\ rx_complete)

Cut == rd_pc = "recover" \/ (rd_pc \in {"put", "give", "trigger"} /\ ~rx_complete)

(* Descriptors from the one the RxDone task takes next.                    *)
First  == IF Unannounced THEN 1 ELSE 0
Off(k) == Wrap(cur_idx + k)

Taken(s)   == hwo[s] = "HW"
Filled(s)  == hwo[s] = "SW"
FilledSet  == {s \in Slots : Filled(s)}

(* Before reception is started for the first time nothing happens.         *)
Untouched ==
    starts = 0 =>
      /\ rd_pc = "wait" /\ ~event /\ ~irq /\ ~hw_run
      /\ l2_status = 0 /\ err_pc = "wait"
      /\ ~err_flag /\ ctl_pc = "idle" /\ ~running
      /\ sw_gpds = << >> /\ queue = << >>
      /\ \A s \in Slots : Filled(s) /\ ~addr[s] /\ frag[s] = NoFrag

Locks == sema = "task" <=> rd_pc \in Holding

(* The engine's count and the filled descriptors share the ring, and what  *)
(* is announced next is the descriptor at cur_idx.                         *)
Window ==
    /\ hw_avail + Cardinality(FilledSet) + First <= GpdNum
    /\ Unannounced => Taken(cur_idx) /\ addr[cur_idx] /\ loop_cnt > 0
    /\ hw_run => cur_idx = Wrap(hw_idx + hw_avail)

Emptied ==
    /\ \A s \in Slots : Taken(s) => frag[s] = NoFrag
    /\ rd_pc \in {"trigger", "recover"} => sw_gpds = << >>

(* With one error bit for a fault the error task is never at a bit of a    *)
(* fault that was repaired.                                                *)
OneBit == err_pc # "wait" => err_todo = 1

Halted ==
    /\ Cut => err_flag
    /\ OneBit
    /\ starts <= 1 =>
         /\ err_flag => ~hw_run
         /\ err_pc = "set" => ~hw_run /\ ~err_flag
         /\ l2_status > 0 => ~hw_run /\ ~err_flag /\ err_pc # "set"

(* rxStart has filled the ring and rxStop has not emptied it.              *)
Live == ctl_pc \in {"enable", "stop"} \/ (ctl_pc = "idle" /\ running)

Buffers ==
    /\ ctl_pc = "release" => ~running
    /\ fails = 0 =>
         /\ Live => \A s \in Slots : addr[s]
         /\ ~Live => /\ ~hw_run
                     /\ \A s \in Slots : ~addr[s]
                     /\ starts > 0 => \A s \in Slots : Taken(s)

(* The number of the fragment after the one in a descriptor, and of the    *)
(* one the list being built goes on with.                                  *)
After(s) == IF frag[s].last THEN 0 ELSE frag[s].pos + 1
Expected == IF rd_pc \in {"put", "give"} THEN 0 ELSE Len(sw_gpds)

InOrder(gpds) == \A k \in DOMAIN gpds : gpds[k] = k - 1

(* Fragments not taken yet, in the order the task will take them.          *)
Chain ==
    /\ \A k \in 1 .. GpdNum - 1 :
         Filled(Off(k - 1)) /\ Filled(Off(k)) => frag[Off(k)].pos = After(Off(k - 1))
    /\ First < GpdNum /\ Filled(Off(First)) =>
         Cut \/ frag[Off(First)].pos = Expected

(* What the engine has filled lies between cur_idx and hw_idx.             *)
Region ==
    /\ \A j, k \in First .. GpdNum - 1 :
         j <= k /\ Filled(Off(k)) /\ frag[Off(k)] # NoFrag => Filled(Off(j))
    /\ hw_run =>
         /\ \A k \in First .. GpdNum - hw_avail - 1 : Filled(Off(k))
         /\ IF First + hw_avail = GpdNum THEN Cut \/ hw_pos = Expected
            ELSE hw_pos = After(Off(GpdNum - hw_avail - 1))
    /\ hw_run \/ (\E s \in Slots : Filled(s) /\ frag[s] # NoFrag)
         => \A s \in Slots : addr[s]

Order == starts <= 1 => InOrder(sw_gpds) /\ Chain /\ Region

Inv ==
    /\ TypeOK /\ Untouched /\ Locks /\ Window /\ HwHasBuffers /\ Emptied
    /\ Buffers /\ BuffersConserved /\ Order /\ WholePackets


USE DEF descs, engine, task, intr, err_task, cb, bufs

-----------------------------------------------------------------------------
(* Types.                                                                  *)

LEMMA Constants ==
    /\ GpdNum \in Nat /\ GpdNum > 0 /\ MaxFrag \in Nat /\ MaxFrag > 0
    /\ QueueLen \in Nat /\ MaxErrBits \in Nat /\ MaxEvents \in Nat
    /\ Slots = 0 .. GpdNum - 1 /\ Positions = 0 .. MaxFrag - 1
    /\ 0 \in Slots /\ 0 \in Positions
BY RxConstants DEF Slots, Positions

LEMMA WrapInSlots ==
    ASSUME NEW i \in 0 .. 2 * GpdNum - 1
    PROVE  Wrap(i) \in Slots
BY Constants DEF Wrap

LEMMA OffsetInSlots ==
    ASSUME NEW i \in Slots, NEW k \in 0 .. GpdNum - 1
    PROVE  Wrap(i + k) \in Slots
BY Constants DEF Wrap

LEMMA NoFragType == NoFrag \in Frags
BY Constants DEF NoFrag, Frags

(* Sets of descriptors are finite.                                         *)
LEMMA SlotSets ==
    ASSUME NEW S \in SUBSET Slots
    PROVE  IsFiniteSet(S) /\ Cardinality(S) \in 0 .. GpdNum
<1>1. IsFiniteSet(Slots) /\ Cardinality(Slots) = GpdNum
  BY Constants, FS_Interval
<1>2. IsFiniteSet(S) /\ Cardinality(S) <= GpdNum
  BY <1>1, FS_Subset
<1> QED
  BY <1>2, FS_CardinalityType, Constants

LEMMA TypeInit == Init => TypeOK
<1> SUFFICES ASSUME Init PROVE TypeOK
  OBVIOUS
<1>1. TypeDescs
  BY NoFragType DEF Init, TypeDescs
<1>2. TypeIndices
  BY Constants DEF Init, TypeIndices
<1>3. TypeFlags
  BY DEF Init, TypeFlags
<1>4. TypeTasks
  <2>1. 0 \in 0 .. MaxErrBits
    BY Constants
  <2> QED
    BY <2>1 DEF Init, TypeTasks
<1>5. TypePackets
  BY DEF Init, TypePackets
<1>6. TypeCounts
  BY Constants DEF Init, TypeCounts
<1> QED
  BY <1>1, <1>2, <1>3, <1>4, <1>5, <1>6 DEF TypeOK

LEMMA TypeHardware ==
    ASSUME TypeOK, Hardware \/ Dispatch \/ ErrTask
    PROVE  TypeOK'
<1> USE DEF TypeOK
<1>1. ASSUME NEW l \in BOOLEAN, HwReceive(l)
      PROVE  TypeOK'
  <2>1. TypeDescs'
    BY <1>1 DEF HwReceive, TypeDescs, TypeIndices, Frags
  <2>2. TypeIndices'
    BY <1>1, Constants, WrapInSlots DEF HwReceive, TypeIndices
  <2>3. TypeFlags'
    BY <1>1 DEF HwReceive, TypeFlags
  <2>4. TypeTasks'
    BY <1>1 DEF HwReceive, TypeTasks
  <2>5. TypePackets' /\ TypeCounts'
    BY <1>1 DEF HwReceive, TypePackets, TypeCounts
  <2> QED
    BY <2>1, <2>2, <2>3, <2>4, <2>5
<1>2. CASE HwFault
  <2>1. TypeIndices'
    BY <1>2, Constants DEF HwFault, StopEngine, TypeIndices
  <2>2. TypeFlags'
    BY <1>2 DEF HwFault, StopEngine, TypeFlags
  <2>3. TypeDescs' /\ TypeTasks' /\ TypePackets' /\ TypeCounts'
    BY <1>2 DEF HwFault, StopEngine, TypeDescs, TypeTasks, TypePackets, TypeCounts
  <2> QED
    BY <2>1, <2>2, <2>3
<1>3. CASE Dispatch \/ ErrTask
  <2>1. UNCHANGED << descs, engine, cur_idx, loop_cnt, sw_gpds, queue, starts, fails, out >>
    BY <1>3 DEF Dispatch, ErrTask, ErrRead, ErrSet, ErrNext, ErrTrigger
  <2>2. TypeDescs' /\ TypeIndices' /\ TypePackets' /\ TypeCounts'
    BY <2>1 DEF TypeDescs, TypeIndices, TypePackets, TypeCounts
  <2>3. TypeFlags'
    BY <1>3 DEF Dispatch, ErrTask, ErrRead, ErrSet, ErrNext, ErrTrigger, TypeFlags
  <2>4. TypeTasks'
    <3>1. CASE Dispatch
      BY <1>3, <3>1 DEF Dispatch, TypeTasks
    <3>2. CASE ErrRead
      BY <3>2, Constants DEF ErrRead, TypeTasks
    <3>3. CASE ErrSet
      BY <3>3 DEF ErrSet, TypeTasks
    <3>4. CASE ErrTrigger
      BY <3>4, Constants DEF ErrTrigger, ErrNext, TypeTasks
    <3> QED
      BY <1>3, <3>1, <3>2, <3>3, <3>4 DEF ErrTask
  <2> QED
    BY <2>2, <2>3, <2>4
<1> QED
  BY <1>1, <1>2, <1>3 DEF Hardware

LEMMA TypeControl ==
    ASSUME TypeOK, Control
    PROVE  TypeOK'
<1> USE DEF TypeOK
<1>1. ASSUME NEW n \in 0 .. GpdNum, StartChannel(n)
      PROVE  TypeOK'
  <2>1. TypeDescs'
    BY <1>1, NoFragType DEF StartChannel, TypeDescs
  <2>2. TypeIndices'
    <3>1. CASE Complete(n)
      BY <1>1, <3>1, Constants DEF StartChannel, StartEngine, TypeIndices
    <3>2. CASE ~Complete(n)
      BY <1>1, <3>2 DEF StartChannel, TypeIndices
    <3> QED
      BY <3>1, <3>2
  <2>3. TypeFlags'
    BY <1>1 DEF StartChannel, StartEngine, TypeFlags
  <2>4. TypeTasks'
    BY <1>1 DEF StartChannel, StartEngine, TypeTasks
  <2>5. TypePackets'
    BY <1>1 DEF StartChannel, TypePackets
  <2>6. TypeCounts'
    BY <1>1, Constants DEF StartChannel, Allocated, Failure, TypeCounts
  <2> QED
    BY <2>1, <2>2, <2>3, <2>4, <2>5, <2>6
<1>2. CASE StopChannel
  <2>1. TypeDescs'
    BY <1>2, NoFragType DEF StopChannel, TypeDescs
  <2>2. TypeIndices'
    BY <1>2, Constants DEF StopChannel, StopEngine, TypeIndices
  <2>3. TypeFlags'
    BY <1>2 DEF StopChannel, StopEngine, TypeFlags
  <2>4. TypeTasks'
    BY <1>2 DEF StopChannel, StopEngine, TypeTasks
  <2>5. TypePackets'
    BY <1>2 DEF StopChannel, TypePackets
  <2>6. TypeCounts'
    BY <1>2, SlotSets, Freed \in SUBSET Slots DEF StopChannel, TypeCounts, Freed
  <2> QED
    BY <2>1, <2>2, <2>3, <2>4, <2>5, <2>6
<1>3. CASE StopFlush
  <2>1. TypeDescs' /\ TypeIndices' /\ TypeFlags' /\ TypeTasks'
    BY <1>3 DEF StopFlush, TypeDescs, TypeIndices, TypeFlags, TypeTasks
  <2>2. TypePackets' /\ TypeCounts'
    BY <1>3 DEF StopFlush, TypePackets, TypeCounts, Packets
  <2> QED
    BY <2>1, <2>2
<1>4. CASE StartDone \/ StopRequest \/ StopDisable \/ StopRelease
  <2>1. TypeDescs' /\ TypeIndices' /\ TypePackets' /\ TypeCounts'
    BY <1>4 DEF StartDone, StopRequest, StopDisable, StopRelease,
                TypeDescs, TypeIndices, TypePackets, TypeCounts
  <2>2. TypeFlags'
    BY <1>4 DEF StartDone, StopRequest, StopDisable, StopRelease, TypeFlags
  <2>3. TypeTasks'
    BY <1>4 DEF StartDone, StopRequest, StopDisable, StopRelease, TypeTasks
  <2> QED
    BY <2>1, <2>2, <2>3
<1> QED
  BY <1>1, <1>2, <1>3, <1>4 DEF Control, Stop

LEMMA TypeUser ==
    ASSUME TypeOK, User
    PROVE  TypeOK'
<1> USE DEF TypeOK, UsrMove
<1>1. CASE UsrCall \/ UsrWake \/ UsrClear \/ UsrRecount
  <2>1. TypeDescs' /\ TypeIndices' /\ TypePackets' /\ TypeCounts'
    BY <1>1 DEF UsrCall, UsrWake, UsrClear, UsrRecount,
                TypeDescs, TypeIndices, TypePackets, TypeCounts
  <2>2. TypeFlags'
    <3>1. CASE UsrCall \/ UsrWake
      BY <3>1 DEF UsrCall, UsrWake, TypeFlags
    <3>2. CASE UsrClear \/ UsrRecount
      BY <3>2 DEF UsrClear, UsrRecount, TypeFlags
    <3> QED
      BY <1>1, <3>1, <3>2
  <2>3. TypeTasks'
    BY <1>1 DEF UsrCall, UsrWake, UsrClear, UsrRecount, TypeTasks
  <2> QED
    BY <2>1, <2>2, <2>3
<1>2. CASE UsrDeque
  <2>1. TypeDescs' /\ TypeIndices' /\ TypeFlags' /\ TypeTasks'
    BY <1>2 DEF UsrDeque, TypeDescs, TypeIndices, TypeFlags, TypeTasks
  <2>2. TypePackets'
    <3>1. queue # << >> => Tail(queue) \in Seq(Packets)
      BY DEF TypePackets
    <3> QED
      BY <1>2, <3>1 DEF UsrDeque, TypePackets
  <2>3. TypeCounts'
    <3>1. queue # << >> => Len(Head(queue).gpds) \in Nat
      BY DEF TypePackets, Packets
    <3> QED
      BY <1>2, <3>1 DEF UsrDeque, TypeCounts
  <2> QED
    BY <2>1, <2>2, <2>3
<1> QED
  BY <1>1, <1>2 DEF User

LEMMA TypeTask ==
    ASSUME TypeOK, Window, RxDoneTask
    PROVE  TypeOK'
<1> USE DEF TypeOK, RdMove
<1>1. CASE RdWake \/ RdClear \/ RdLock \/ RdLoopEnd \/ RdUnlock \/ RdUnmask
  <2>1. TypeDescs' /\ TypePackets' /\ TypeCounts'
    BY <1>1 DEF RdWake, RdClear, RdLock, RdLoopEnd, RdUnlock, RdUnmask,
                TypeDescs, TypePackets, TypeCounts
  <2>2. TypeIndices'
    BY <1>1, Constants DEF RdWake, RdClear, RdLock, RdLoopEnd, RdUnlock, RdUnmask, TypeIndices
  <2>3. TypeFlags'
    <3>1. CASE RdWake \/ RdClear \/ RdLock
      BY <3>1 DEF RdWake, RdClear, RdLock, TypeFlags
    <3>2. CASE RdLoopEnd \/ RdUnlock \/ RdUnmask
      BY <3>2 DEF RdLoopEnd, RdUnlock, RdUnmask, TypeFlags
    <3> QED
      BY <1>1, <3>1, <3>2
  <2>4. TypeTasks'
    BY <1>1 DEF RdWake, RdClear, RdLock, RdLoopEnd, RdUnlock, RdUnmask, TypeTasks
  <2> QED
    BY <2>1, <2>2, <2>3, <2>4
<1>2. CASE RdTake
  <2>1. TypeDescs'
    BY <1>2, NoFragType DEF RdTake, TypeDescs
  <2>2. TypeIndices' /\ TypeFlags' /\ TypeTasks'
    BY <1>2 DEF RdTake, TypeIndices, TypeFlags, TypeTasks
  <2>3. TypePackets' /\ TypeCounts'
    BY <1>2 DEF RdTake, TypePackets, TypeCounts, TypeDescs, TypeIndices, Frags
  <2> QED
    BY <2>1, <2>2, <2>3
<1>3. CASE RdPut \/ RdTrigger \/ RdIncomplete
  <2>1. TypeDescs' /\ TypeIndices' /\ TypeCounts'
    BY <1>3 DEF RdPut, RdTrigger, RdIncomplete, TypeDescs, TypeIndices, TypeCounts
  <2>2. TypeFlags'
    BY <1>3 DEF RdPut, RdTrigger, RdIncomplete, TypeFlags
  <2>3. TypeTasks'
    BY <1>3 DEF RdPut, RdTrigger, RdIncomplete, AfterEnQueue, TypeTasks
  <2>4. TypePackets'
    <3>1. [gpds |-> sw_gpds, complete |-> rx_complete] \in Packets
      BY DEF TypePackets, TypeFlags, Packets
    <3>2. CASE RdPut
      BY <3>1, <3>2 DEF RdPut, TypePackets
    <3>3. CASE RdTrigger \/ RdIncomplete
      BY <3>3 DEF RdTrigger, RdIncomplete, TypePackets
    <3> QED
      BY <1>3, <3>2, <3>3
  <2> QED
    BY <2>1, <2>2, <2>3, <2>4
<1>4. CASE RdGive
  <2>1. TypeDescs' /\ TypeIndices' /\ TypeFlags' /\ TypeTasks'
    BY <1>4 DEF RdGive, AfterEnQueue, TypeDescs, TypeIndices, TypeFlags, TypeTasks
  <2>2. TypePackets'
    BY <1>4 DEF RdGive, TypePackets
  <2>3. TypeCounts'
    BY <1>4, Constants DEF RdGive, TypePackets, TypeCounts, Failure
  <2> QED
    BY <2>1, <2>2, <2>3
<1>5. CASE RdResume
  <2>1. Cardinality(FilledSet) \in 0 .. GpdNum
    BY SlotSets, FilledSet \in SUBSET Slots DEF FilledSet
  <2>2. loop_cnt' \in 0 .. GpdNum
    BY <1>5, Constants DEF RdResume, TypeIndices, Window, Unannounced
  <2>3. hw_avail' \in 0 .. GpdNum
    BY <1>5, <2>1, Constants DEF RdResume, Window, First, Unannounced, TypeIndices
  <2>4. TypeIndices'
    BY <1>5, <2>2, <2>3, Constants, WrapInSlots DEF RdResume, TypeIndices
  <2>5. TypeDescs' /\ TypeFlags' /\ TypeTasks' /\ TypePackets' /\ TypeCounts'
    BY <1>5 DEF RdResume, TypeDescs, TypeFlags, TypeTasks, TypePackets, TypeCounts
  <2> QED
    BY <2>1, <2>2, <2>3, <2>4, <2>5
<1>6. ASSUME NEW n \in 0 .. GpdNum, RdRecover(n)
      PROVE  TypeOK'
  <2>1. TypeDescs'
    <3>1. hwo' \in [Slots -> {"HW", "SW"}]
      BY <1>6 DEF RdRecover, TypeDescs
    <3>2. addr' \in [Slots -> BOOLEAN]
      <4>1. CASE DeinitOK
        <5>1. addr' = [s \in Slots |-> s < n]
          BY <1>6, <4>1 DEF RdRecover
        <5>2. \A s \in Slots : (s < n) \in BOOLEAN
          BY Constants
        <5> QED
          BY <5>1, <5>2, Zenon
      <4>2. CASE ~DeinitOK
        BY <1>6, <4>2 DEF RdRecover
      <4> QED
        BY <4>1, <4>2
    <3>3. frag' \in [Slots -> Frags]
      BY <1>6, NoFragType DEF RdRecover, TypeDescs
    <3> QED
      BY <3>1, <3>2, <3>3 DEF TypeDescs
  <2>2. TypeIndices'
    BY <1>6, Constants DEF RdRecover, Repaired, StartEngine, StopEngine, TypeIndices
  <2>3. TypeFlags'
    BY <1>6 DEF RdRecover, Repaired, StartEngine, StopEngine, TypeFlags
  <2>4. TypeTasks'
    BY <1>6 DEF RdRecover, Repaired, StartEngine, StopEngine, TypeTasks
  <2>5. TypePackets'
    BY <1>6 DEF RdRecover, TypePackets
  <2>6. TypeCounts'
    <3>1. Cardinality(Freed) \in 0 .. GpdNum
      BY SlotSets, Freed \in SUBSET Slots DEF Freed
    <3> QED
      BY <1>6, <3>1, Constants DEF RdRecover, Allocated, Failure, TypeCounts
  <2> QED
    BY <2>1, <2>2, <2>3, <2>4, <2>5, <2>6
<1> QED
  BY <1>1, <1>2, <1>3, <1>4, <1>5, <1>6 DEF RxDoneTask

-----------------------------------------------------------------------------
(* A step either moves the ring, the engine or cur_idx, or leaves all of   *)
(* them alone and keeps what is expected next.                             *)

RingStep ==
    \/ \E l \in BOOLEAN : HwReceive(l)
    \/ HwFault \/ RdTake \/ RdResume \/ StopChannel
    \/ \E n \in 0 .. GpdNum : RdRecover(n) \/ StartChannel(n)

QuietTask == RdWake \/ RdClear \/ RdLock \/ RdPut \/ RdGive \/ RdTrigger
             \/ RdIncomplete \/ RdLoopEnd \/ RdUnlock \/ RdUnmask

QuietOther == Dispatch \/ ErrTask \/ StartDone \/ StopRequest
              \/ StopFlush \/ StopDisable \/ StopRelease \/ User
              \/ UNCHANGED vars

QuietStep == QuietTask \/ QuietOther

LEMMA Steps ==
    ASSUME [Next]_vars
    PROVE  RingStep \/ QuietStep
BY DEF Next, RxDoneTask, Control, Stop, Hardware, RingStep, QuietStep, QuietTask, QuietOther

LEMMA QuietRing ==
    ASSUME QuietStep
    PROVE  UNCHANGED << descs, engine, cur_idx, starts >>
<1>1. CASE QuietTask
  BY <1>1 DEF QuietTask, RdWake, RdClear, RdLock, RdPut, RdGive, RdTrigger,
              RdIncomplete, RdLoopEnd, RdUnlock, RdUnmask
<1>2. CASE QuietOther
  BY <1>2 DEF QuietOther, Dispatch, ErrTask, ErrRead, ErrSet, ErrNext, ErrTrigger, StartDone, StopRequest,
              StopFlush, StopDisable, StopRelease, User, UsrCall, UsrWake,
              UsrClear, UsrRecount, UsrDeque, UsrMove, vars
<1> QED
  BY <1>1, <1>2 DEF QuietStep

LEMMA OtherTask ==
    ASSUME QuietOther
    PROVE  UNCHANGED << task, sema, rx_complete >>
BY DEF QuietOther, Dispatch, ErrTask, ErrRead, ErrSet, ErrNext, ErrTrigger, StartDone, StopRequest,
       StopFlush, StopDisable, StopRelease, User, UsrCall, UsrWake, UsrClear,
       UsrRecount, UsrDeque, UsrMove, vars

LEMMA QuietPhase ==
    ASSUME TypeOK, Emptied, QuietStep
    PROVE  /\ Unannounced' <=> Unannounced
           /\ Unannounced' => loop_cnt' = loop_cnt
           /\ Cut' => Cut \/ RdIncomplete
           /\ Cut => Cut'
           /\ Expected' = Expected \/ Cut'
<1>1. CASE QuietOther
  BY <1>1, OtherTask DEF Unannounced, Cut, Expected
<1>2. CASE QuietTask
  <2> USE DEF RdMove, Unannounced, Cut, Expected
  <2>1. CASE RdWake \/ RdClear \/ RdLock \/ RdLoopEnd \/ RdUnlock \/ RdUnmask
    BY <2>1 DEF RdWake, RdClear, RdLock, RdLoopEnd, RdUnlock, RdUnmask
  <2>2. CASE RdPut
    BY <2>2 DEF RdPut
  <2>3. CASE RdGive
    BY <2>3 DEF RdGive, AfterEnQueue
  <2>4. CASE RdTrigger
    BY <2>4 DEF RdTrigger, AfterEnQueue
  <2>5. CASE RdIncomplete
    BY <2>5 DEF RdIncomplete
  <2> QED
    BY <1>2, <2>1, <2>2, <2>3, <2>4, <2>5 DEF QuietTask
<1> QED
  BY <1>1, <1>2 DEF QuietStep

-----------------------------------------------------------------------------
(* Before the first start; the semaphore.                                  *)

LEMMA UntouchedStep ==
    ASSUME TypeOK, Untouched, [Next]_vars
    PROVE  Untouched'
<1> SUFFICES ASSUME starts' = 0 PROVE Untouched'
  BY DEF Untouched
<1>1. CASE \E n \in 0 .. GpdNum : StartChannel(n)
  BY <1>1 DEF StartChannel, TypeOK, TypeCounts
<1>2. CASE ~(\E n \in 0 .. GpdNum : StartChannel(n))
  <2>1. starts = 0
    <3>1. CASE RingStep
      BY <3>1, <1>2 DEF RingStep, HwReceive, HwFault, RdTake, RdResume, StopChannel, RdRecover
    <3>2. CASE QuietStep
      BY <3>2, QuietRing
    <3> QED
      BY <3>1, <3>2, Steps
  <2>2. ~RingStep
    <3>1. ~(\E n \in 0 .. GpdNum : RdRecover(n) \/ StartChannel(n))
      BY <1>2, <2>1 DEF Untouched, RdRecover
    <3>2. ~(HwFault \/ RdTake \/ RdResume \/ StopChannel)
      BY <2>1 DEF Untouched, HwFault, RdTake, RdResume, RdMove, StopChannel
    <3>3. ~(\E l \in BOOLEAN : HwReceive(l))
      BY <2>1 DEF Untouched, HwReceive
    <3> QED
      BY <3>1, <3>2, <3>3 DEF RingStep
  <2>3. CASE QuietTask
    BY <2>1, <2>3 DEF QuietTask, Untouched, RdMove, RdWake, RdClear, RdLock, RdPut,
       RdGive, RdTrigger, RdIncomplete, RdLoopEnd, RdUnlock, RdUnmask
  <2>4. CASE QuietOther
    <3>1. UNCHANGED << rd_pc, sw_gpds, hwo, frag, addr, hw_run >>
      BY <2>4, OtherTask, QuietRing DEF QuietStep
    <3>2. UNCHANGED << event, irq, l2_status, err_pc, err_flag, ctl_pc, running, queue >>
      BY <2>1, <2>4 DEF QuietOther, Untouched, Dispatch, ErrTask, ErrRead, ErrSet, ErrNext, ErrTrigger,
         StartDone, StopRequest, StopFlush, StopDisable, StopRelease, User, UsrCall,
         UsrWake, UsrClear, UsrRecount, UsrDeque, UsrMove, vars
    <3> QED
      BY <2>1, <3>1, <3>2 DEF Untouched, Filled
  <2> QED
    BY <2>2, <2>3, <2>4, Steps DEF QuietStep
<1> QED
  BY <1>1, <1>2

LEMMA LocksStep ==
    ASSUME TypeOK, Locks, [Next]_vars
    PROVE  Locks'
<1> USE DEF Locks, Holding, RdMove
<1>1. CASE RingStep
  <2>1. CASE RdTake \/ RdResume \/ (\E n \in 0 .. GpdNum : RdRecover(n))
    <3>1. CASE RdTake
      BY <3>1 DEF RdTake
    <3>2. CASE RdResume
      BY <3>2 DEF RdResume
    <3>3. CASE \E n \in 0 .. GpdNum : RdRecover(n)
      BY <3>3 DEF RdRecover
    <3> QED
      BY <2>1, <3>1, <3>2, <3>3
  <2>2. CASE HwFault \/ StopChannel \/ (\E l \in BOOLEAN : HwReceive(l))
             \/ (\E n \in 0 .. GpdNum : StartChannel(n))
    BY <2>2 DEF HwReceive, HwFault, StopChannel, StartChannel
  <2> QED
    BY <1>1, <2>1, <2>2 DEF RingStep
<1>2. CASE QuietTask
  <2>1. CASE RdWake \/ RdClear \/ RdLock \/ RdLoopEnd \/ RdUnlock \/ RdUnmask
    BY <2>1 DEF RdWake, RdClear, RdLock, RdLoopEnd, RdUnlock, RdUnmask, TypeOK, TypeTasks
  <2>2. CASE RdPut \/ RdGive \/ RdTrigger \/ RdIncomplete
    BY <2>2 DEF RdPut, RdGive, RdTrigger, RdIncomplete, AfterEnQueue
  <2> QED
    BY <1>2, <2>1, <2>2 DEF QuietTask
<1>3. CASE QuietOther
  BY <1>3, OtherTask
<1> QED
  BY <1>1, <1>2, <1>3, Steps DEF QuietStep

-----------------------------------------------------------------------------
(* The engine's window into the ring.                                      *)

LEMMA FilledCount == FilledSet \in SUBSET Slots /\ Cardinality(FilledSet) \in 0 .. GpdNum
BY SlotSets DEF FilledSet

LEMMA FreeFirst ==
    ASSUME TypeOK, Locks, sema = "free"
    PROVE  First = 0 /\ ~Unannounced /\ ~Cut /\ rd_pc \notin {"put", "give"}
BY DEF Locks, Holding, First, Unannounced, Cut

LEMMA WindowStep ==
    ASSUME TypeOK, Locks, Window, Emptied, [Next]_vars
    PROVE  Window'
<1> USE DEF Window, TypeOK
<1>1. ASSUME NEW l \in BOOLEAN, HwReceive(l)
      PROVE  Window'
  <2>1. First' = First /\ (Unannounced' <=> Unannounced)
    BY <1>1 DEF HwReceive, First, Unannounced
  <2>2. FilledSet' = FilledSet \cup {hw_idx} /\ hw_idx \notin FilledSet
    BY <1>1 DEF HwReceive, FilledSet, Filled, TypeDescs, TypeIndices
  <2>3. Cardinality(FilledSet') = Cardinality(FilledSet) + 1
    BY <2>2, FS_AddElement, SlotSets, FilledCount
  <2>4. cur_idx' = Wrap(hw_idx' + hw_avail')
    BY <1>1, Constants DEF HwReceive, Wrap, TypeIndices
  <2>5. Unannounced => cur_idx # hw_idx
    BY <1>1, Constants, FilledCount DEF HwReceive, Wrap, TypeIndices, First
  <2>6. hw_avail' + Cardinality(FilledSet') + First' <= GpdNum
    BY <1>1, <2>1, <2>3, Constants, FilledCount DEF HwReceive, TypeIndices, First
  <2>7. Unannounced' => Taken(cur_idx)' /\ addr'[cur_idx'] /\ loop_cnt' > 0
    BY <1>1, <2>1, <2>5 DEF HwReceive, TypeIndices, TypeDescs, Taken
  <2> QED
    BY <2>4, <2>6, <2>7
<1>2. CASE HwFault
  <2>1. First' = First /\ (Unannounced' <=> Unannounced) /\ FilledSet' = FilledSet
    BY <1>2 DEF HwFault, First, Unannounced, FilledSet, Filled
  <2> QED
    BY <1>2, <2>1, Constants, FilledCount DEF HwFault, StopEngine, Taken, First, TypeIndices
<1>3. CASE RdTake
  <2>1. First = 0 /\ First' \in {0, 1}
    BY <1>3 DEF RdTake, First, Unannounced
  <2>2. FilledSet' = FilledSet \ {cur_idx} /\ cur_idx \in FilledSet
    BY <1>3 DEF RdTake, FilledSet, Filled, TypeDescs, TypeIndices
  <2>3. Cardinality(FilledSet') = Cardinality(FilledSet) - 1
    BY <2>2, FS_RemoveElement, SlotSets, FilledCount
  <2>4. Taken(cur_idx)' /\ addr'[cur_idx]
    BY <1>3 DEF RdTake, Taken, TypeDescs, TypeIndices
  <2> QED
    BY <1>3, <2>1, <2>3, <2>4, Constants, FilledCount DEF RdTake, TypeIndices
<1>4. CASE RdResume
  <2>1. First = 1 /\ First' = 0 /\ ~Unannounced' /\ FilledSet' = FilledSet
    BY <1>4 DEF RdResume, RdMove, First, Unannounced, FilledSet, Filled
  <2>2. hw_avail < GpdNum
    BY <2>1, FilledCount, Constants DEF TypeIndices
  <2>3. hw_run => cur_idx' = Wrap(hw_idx' + hw_avail')
    BY <1>4, <2>2, Constants DEF RdResume, Wrap, TypeIndices
  <2> QED
    BY <1>4, <2>1, <2>3, Constants, FilledCount DEF RdResume, TypeIndices
<1>5. ASSUME NEW n \in 0 .. GpdNum, RdRecover(n)
      PROVE  Window'
  <2>1. First' = 0 /\ ~Unannounced'
    BY <1>5 DEF RdRecover, First, Unannounced
  <2>2. Cardinality(FilledSet') \in 0 .. GpdNum
    BY SlotSets, FilledSet' \in SUBSET Slots DEF FilledSet
  <2>3. CASE hw_run'
    <3>1. DeinitOK /\ n = GpdNum /\ StartEngine /\ cur_idx' = 0
          /\ hwo' = [s \in Slots |-> IF s < n THEN "HW" ELSE "SW"]
      BY <1>5, <2>3 DEF RdRecover, Complete, Repaired, StopEngine
    <3>2. FilledSet' = {}
      BY <3>1, Constants DEF FilledSet, Filled
    <3> QED
      BY <2>1, <3>1, <3>2, FS_EmptySet, Constants DEF StartEngine, Wrap
  <2>4. CASE ~hw_run'
    <3>1. hw_avail' = 0
      BY <1>5, <2>4 DEF RdRecover, Repaired, StartEngine, StopEngine
    <3> QED
      BY <2>1, <2>2, <2>4, <3>1, Constants
  <2> QED
    BY <2>3, <2>4
<1>6. ASSUME NEW n \in 0 .. GpdNum, StartChannel(n)
      PROVE  Window'
  <2>1. First = 0 /\ First' = 0 /\ ~Unannounced'
    BY <1>6, FreeFirst DEF StartChannel, First, Unannounced
  <2>2. CASE n = GpdNum
    <3>1. FilledSet' = {}
      BY <1>6, <2>2, Constants DEF StartChannel, FilledSet, Filled
    <3> QED
      BY <1>6, <2>1, <2>2, <3>1, FS_EmptySet, Constants
         DEF StartChannel, Complete, StartEngine, Wrap
  <2>3. CASE n # GpdNum
    <3>1. FilledSet' \in SUBSET FilledSet
      BY <1>6 DEF StartChannel, FilledSet, Filled, TypeDescs
    <3>2. Cardinality(FilledSet') <= Cardinality(FilledSet)
      BY <3>1, FS_Subset, SlotSets, FilledCount
    <3>3. Cardinality(FilledSet') \in 0 .. GpdNum
      BY SlotSets, FilledSet' \in SUBSET Slots DEF FilledSet
    <3> QED
      BY <1>6, <2>1, <2>3, <3>2, <3>3, FilledCount, Constants
         DEF StartChannel, Complete, TypeIndices
  <2> QED
    BY <2>2, <2>3
<1>7. CASE StopChannel
  <2>1. First' = 0 /\ ~Unannounced'
    BY <1>7, FreeFirst DEF StopChannel, First, Unannounced
  <2>2. Cardinality(FilledSet') \in 0 .. GpdNum
    BY SlotSets, FilledSet' \in SUBSET Slots DEF FilledSet
  <2> QED
    BY <1>7, <2>1, <2>2, Constants DEF StopChannel, StopEngine
<1>8. CASE QuietStep
  BY <1>8, QuietRing, QuietPhase DEF FilledSet, Filled, Taken, First
<1> QED
  BY <1>1, <1>2, <1>3, <1>4, <1>5, <1>6, <1>7, <1>8, Steps DEF RingStep

LEMMA HwHasBuffersStep ==
    ASSUME TypeOK, Window, HwHasBuffers, [Next]_vars
    PROVE  HwHasBuffers'
<1> SUFFICES ASSUME hw_run', NEW k \in 0 .. hw_avail' - 1
             PROVE  hwo'[Wrap(hw_idx' + k)] = "HW" /\ addr'[Wrap(hw_idx' + k)]
  BY DEF HwHasBuffers
<1> USE DEF TypeOK, TypeDescs, TypeIndices
<1> DEFINE s == Wrap(hw_idx' + k)
<1>1. ASSUME NEW l \in BOOLEAN, HwReceive(l)
      PROVE  hwo'[s] = "HW" /\ addr'[s]
  <2>1. k + 1 \in 0 .. hw_avail - 1
    BY <1>1, Constants DEF HwReceive
  <2>2. s = Wrap(hw_idx + (k + 1)) /\ s \in Slots /\ s # hw_idx
    BY <1>1, <2>1, Constants DEF HwReceive, Wrap
  <2> QED
    <3>1. hwo[s] = "HW" /\ addr[s]
      BY <1>1, <2>1, <2>2, Zenon DEF HwReceive, HwHasBuffers
    <3> QED
      BY <1>1, <2>2, <3>1 DEF HwReceive
<1>2. CASE RdTake
  <2>1. k \in 0 .. hw_avail - 1 /\ s = Wrap(hw_idx + k) /\ s \in Slots
    BY <1>2, Constants DEF RdTake, Wrap
  <2> QED
    BY <1>2, <2>1 DEF RdTake, HwHasBuffers
<1>3. CASE RdResume
  <2>1. CASE k = hw_avail
    BY <1>3, <2>1, Constants DEF RdResume, RdMove, Window, Unannounced, Taken
  <2>2. CASE k # hw_avail
    <3>1. k \in 0 .. hw_avail - 1
      BY <1>3, <2>2, Constants DEF RdResume
    <3> QED
      BY <1>3, <3>1 DEF RdResume, HwHasBuffers
  <2> QED
    BY <2>1, <2>2
<1>4. ASSUME NEW n \in 0 .. GpdNum, RdRecover(n)
      PROVE  hwo'[s] = "HW" /\ addr'[s]
  <2>1. DeinitOK /\ n = GpdNum /\ StartEngine
    BY <1>4 DEF RdRecover, Complete, Repaired, StopEngine
  <2>2. s \in Slots /\ s < n
    BY <2>1, Constants DEF StartEngine, Wrap
  <2>3. /\ hwo' = [u \in Slots |-> IF u < n THEN "HW" ELSE "SW"]
        /\ addr' = [u \in Slots |-> u < n]
    BY <1>4, <2>1 DEF RdRecover
  <2> QED
    BY <2>2, <2>3
<1>5. ASSUME NEW n \in 0 .. GpdNum, StartChannel(n)
      PROVE  hwo'[s] = "HW" /\ addr'[s]
  <2>1. CASE n = GpdNum
    <3>1. hw_idx' = 0 /\ hw_avail' = GpdNum
      BY <1>5, <2>1 DEF StartChannel, Complete, StartEngine
    <3>2. s \in Slots
      BY <3>1, Constants DEF Wrap
    <3> QED
      <4>1. s < n
        BY <2>1, <3>2, Constants
      <4> QED
        BY <1>5, <3>2, <4>1 DEF StartChannel
  <2>2. CASE n # GpdNum
    <3>1. UNCHANGED engine
      BY <1>5, <2>2 DEF StartChannel, Complete
    <3>2. k \in 0 .. hw_avail - 1 /\ s = Wrap(hw_idx + k) /\ s \in Slots /\ hw_run
      BY <3>1, Constants DEF Wrap
    <3>3. hwo[s] = "HW" /\ addr[s]
      BY <3>2, Zenon DEF HwHasBuffers
    <3> QED
      BY <1>5, <3>2, <3>3 DEF StartChannel
  <2> QED
    BY <2>1, <2>2
<1>6. CASE HwFault \/ StopChannel
  BY <1>6 DEF HwFault, StopChannel, StopEngine
<1>7. CASE QuietStep
  BY <1>7, QuietRing DEF HwHasBuffers
<1> QED
  BY <1>1, <1>2, <1>3, <1>4, <1>5, <1>6, <1>7, Steps DEF RingStep

-----------------------------------------------------------------------------
(* What is taken off the ring; what the error flag says.                   *)

LEMMA EmptiedStep ==
    ASSUME TypeOK, Emptied, [Next]_vars
    PROVE  Emptied'
<1> USE DEF TypeOK, TypeDescs, TypeIndices
<1>1. \A s \in Slots : Taken(s)' => frag'[s] = NoFrag
  <2> USE DEF Emptied, Taken
  <2>1. ASSUME NEW l \in BOOLEAN, HwReceive(l)
        PROVE  \A s \in Slots : hwo'[s] = "HW" => frag'[s] = NoFrag
    BY <2>1 DEF HwReceive
  <2>2. CASE RdTake
    BY <2>2 DEF RdTake
  <2>3. ASSUME NEW n \in 0 .. GpdNum, RdRecover(n)
        PROVE  \A s \in Slots : hwo'[s] = "HW" => frag'[s] = NoFrag
    BY <2>3 DEF RdRecover
  <2>4. ASSUME NEW n \in 0 .. GpdNum, StartChannel(n)
        PROVE  \A s \in Slots : hwo'[s] = "HW" => frag'[s] = NoFrag
    BY <2>4 DEF StartChannel
  <2>5. CASE StopChannel
    BY <2>5 DEF StopChannel
  <2>6. CASE HwFault \/ RdResume \/ QuietStep
    BY <2>6, QuietRing DEF HwFault, RdResume
  <2> QED
    BY <2>1, <2>2, <2>3, <2>4, <2>5, <2>6, Steps DEF RingStep
<1>2. rd_pc' \in {"trigger", "recover"} => sw_gpds' = << >>
  <2> USE DEF Emptied, RdMove
  <2>1. CASE RingStep
    <3>1. CASE RdTake
      BY <3>1 DEF RdTake
    <3>2. CASE RdResume \/ (\E n \in 0 .. GpdNum : RdRecover(n))
      BY <3>2 DEF RdResume, RdRecover
    <3>3. CASE \/ HwFault \/ StopChannel
               \/ (\E l \in BOOLEAN : HwReceive(l))
               \/ (\E n \in 0 .. GpdNum : StartChannel(n))
      BY <3>3 DEF HwReceive, HwFault, StopChannel, StartChannel
    <3> QED
      BY <2>1, <3>1, <3>2, <3>3 DEF RingStep
  <2>2. CASE QuietTask
    <3>1. CASE RdWake \/ RdClear \/ RdLock \/ RdLoopEnd \/ RdUnlock \/ RdUnmask
      BY <3>1 DEF RdWake, RdClear, RdLock, RdLoopEnd, RdUnlock, RdUnmask
    <3>2. CASE RdPut \/ RdGive
      BY <3>2 DEF RdPut, RdGive
    <3>3. CASE RdTrigger \/ RdIncomplete
      BY <3>3 DEF RdTrigger, RdIncomplete
    <3> QED
      BY <2>2, <3>1, <3>2, <3>3 DEF QuietTask
  <2>3. CASE QuietOther
    BY <2>3, OtherTask
  <2> QED
    BY <2>1, <2>2, <2>3, Steps DEF QuietStep
<1> QED
  BY <1>1, <1>2 DEF Emptied

LEMMA HaltedStep ==
    ASSUME TypeOK, Untouched, Emptied, Halted, [Next]_vars, MaxErrBits <= 1
    PROVE  Halted'
<1> USE DEF Halted, OneBit, TypeOK, TypeCounts, TypeTasks
<1>1. ASSUME NEW l \in BOOLEAN, HwReceive(l)
      PROVE  Halted'
  BY <1>1 DEF HwReceive, Cut
<1>2. CASE HwFault
  BY <1>2 DEF HwFault, StopEngine, Cut
<1>3. CASE RdTake
  BY <1>3 DEF RdTake, Cut
<1>4. CASE RdResume
  BY <1>4 DEF RdResume, RdMove, Cut
<1>5. ASSUME NEW n \in 0 .. GpdNum, RdRecover(n)
      PROVE  Halted'
  <2>1. err_flag /\ ~Cut' /\ UNCHANGED << l2_status, err_todo, err_pc, starts >>
    BY <1>5 DEF RdRecover, Broken, Cut
  <2>2. (hw_run' /\ ~err_flag') \/ (~hw_run' /\ err_flag' = err_flag)
    BY <1>5 DEF RdRecover, Repaired, StartEngine, StopEngine
  <2> QED
    BY <2>1, <2>2
<1>6. ASSUME NEW n \in 0 .. GpdNum, StartChannel(n)
      PROVE  Halted'
  <2>1. (Cut' <=> Cut) /\ UNCHANGED << err_flag, l2_status, err_todo, err_pc >>
        /\ starts' = starts + 1
    BY <1>6 DEF StartChannel, Cut
  <2>2. starts' <= 1 => starts = 0
    BY <2>1, Constants
  <2> QED
    BY <2>1, <2>2 DEF Untouched
<1>7. CASE StopChannel
  BY <1>7 DEF StopChannel, StopEngine, Cut
<1>8. CASE QuietStep
  <2>1. UNCHANGED << hw_run, starts >> /\ (Cut' => Cut \/ RdIncomplete)
    BY <1>8, QuietRing, QuietPhase
  <2>2. CASE QuietTask
    <3>1. UNCHANGED << err_flag, l2_status, err_todo, err_pc >>
      BY <2>2 DEF QuietTask, RdWake, RdClear, RdLock, RdPut, RdGive, RdTrigger,
                  RdIncomplete, RdLoopEnd, RdUnlock, RdUnmask
    <3> QED
      BY <2>1, <3>1 DEF RdIncomplete, Broken
  <2>3. CASE QuietOther
    <3>1. Cut' <=> Cut
      BY <2>3, OtherTask DEF Cut
    <3>2. CASE ErrSet
      BY <3>1, <3>2, <2>1 DEF ErrSet
    <3>3. CASE ErrTrigger
      BY <3>1, <3>3, <2>1 DEF ErrTrigger, ErrNext
    <3>4. CASE ErrRead
      BY <3>1, <3>4, <2>1, Constants DEF ErrRead
    <3>5. CASE ~ErrTask
      <4>1. UNCHANGED << err_flag, l2_status, err_todo, err_pc >>
        BY <2>3, <3>5 DEF QuietOther, Dispatch, StartDone, StopRequest, StopFlush,
           StopDisable, StopRelease, User, UsrCall, UsrWake, UsrClear, UsrRecount,
           UsrDeque, UsrMove, vars
      <4> QED
        BY <2>1, <3>1, <4>1
    <3> QED
      BY <3>2, <3>3, <3>4, <3>5 DEF ErrTask
  <2> QED
    BY <1>8, <2>2, <2>3 DEF QuietStep
<1> QED
  BY <1>1, <1>2, <1>3, <1>4, <1>5, <1>6, <1>7, <1>8, Steps DEF RingStep

-----------------------------------------------------------------------------
(* Buffers in the queue.                                                   *)

LEMMA UpTo ==
    ASSUME NEW n \in Nat
    PROVE  IsFiniteSet(1 .. n) /\ Cardinality(1 .. n) = n
BY FS_Interval

LEMMA InQueue ==
    ASSUME NEW q \in Seq(Packets), NEW i \in DOMAIN q
    PROVE  /\ Len(q[i].gpds) \in Nat /\ DOMAIN q[i].gpds = 1 .. Len(q[i].gpds)
           /\ IsFiniteSet({i} \X DOMAIN q[i].gpds)
           /\ Cardinality({i} \X DOMAIN q[i].gpds) = Len(q[i].gpds)
<1>1. q[i] \in Packets
  OBVIOUS
<1>2. Len(q[i].gpds) \in Nat /\ DOMAIN q[i].gpds = 1 .. Len(q[i].gpds)
  BY <1>1 DEF Packets
<1>3. /\ IsFiniteSet(1 .. Len(q[i].gpds))
      /\ Cardinality(1 .. Len(q[i].gpds)) = Len(q[i].gpds)
  BY <1>2, UpTo
<1>4. IsFiniteSet({i}) /\ Cardinality({i}) = 1
  BY FS_Singleton
<1>5. /\ IsFiniteSet({i} \X (1 .. Len(q[i].gpds)))
      /\ Cardinality({i} \X (1 .. Len(q[i].gpds))) = 1 * Len(q[i].gpds)
  <2> DEFINE g == 1 .. Len(q[i].gpds)
  <2>1. IsFiniteSet(g) /\ Cardinality(g) = Len(q[i].gpds)
    BY <1>3
  <2> HIDE DEF g
  <2>2. IsFiniteSet({i} \X g) /\ Cardinality({i} \X g) = Cardinality({i}) * Cardinality(g)
    BY <1>4, <2>1, FS_Product
  <2> QED
    BY <1>4, <2>1, <2>2 DEF g
<1> QED
  BY <1>2, <1>5

LEMMA BuffersFinite ==
    ASSUME NEW q \in Seq(Packets)
    PROVE  IsFiniteSet(BuffersIn(q)) /\ Cardinality(BuffersIn(q)) \in Nat
<1> DEFINE parts == {{i} \X DOMAIN q[i].gpds : i \in DOMAIN q}
           f == [i \in DOMAIN q |-> {i} \X DOMAIN q[i].gpds]
<1>1. IsFiniteSet(DOMAIN q)
  BY FS_Interval
<1>2. f \in Surjection(DOMAIN q, parts)
  BY DEF Surjection
<1>3. IsFiniteSet(parts)
  BY <1>1, <1>2, FS_Surjection
<1>4. \A T \in parts : IsFiniteSet(T)
  BY InQueue
<1>5. IsFiniteSet(UNION parts)
  BY <1>3, <1>4, FS_UNION
<1> QED
  BY <1>5, FS_CardinalityType DEF BuffersIn

LEMMA BuffersAppend ==
    ASSUME NEW q \in Seq(Packets), NEW p \in Packets
    PROVE  Cardinality(BuffersIn(Append(q, p))) = Cardinality(BuffersIn(q)) + Len(p.gpds)
<1> DEFINE r == Append(q, p)
           n == Len(q) + 1
           last == {n} \X DOMAIN r[n].gpds
<1>1. r \in Seq(Packets) /\ n \in DOMAIN r /\ r[n] = p /\ Len(r) = n /\ Len(q) \in Nat
      /\ DOMAIN q = 1 .. Len(q) /\ DOMAIN r = DOMAIN q \cup {n}
      /\ \A i \in DOMAIN q : r[i] = q[i]
  OBVIOUS
<1>2. BuffersIn(r) = BuffersIn(q) \cup last
  BY <1>1 DEF BuffersIn
<1>3. BuffersIn(q) \cap last = {}
  BY <1>1 DEF BuffersIn
<1>4. IsFiniteSet(last) /\ Cardinality(last) = Len(p.gpds) /\ Len(p.gpds) \in Nat
  BY <1>1, InQueue
<1>5. Cardinality(BuffersIn(r)) = Cardinality(BuffersIn(q)) + Cardinality(last) - Cardinality({})
  BY <1>2, <1>3, <1>4, BuffersFinite, FS_Union
<1> QED
  BY <1>4, <1>5, BuffersFinite, FS_EmptySet

LEMMA BuffersTail ==
    ASSUME NEW q \in Seq(Packets), q # << >>
    PROVE  Cardinality(BuffersIn(Tail(q))) = Cardinality(BuffersIn(q)) - Len(Head(q).gpds)
<1> DEFINE t == Tail(q)
           head == {1} \X DOMAIN q[1].gpds
           rest == BuffersIn(q) \ head
           f == [b \in BuffersIn(t) |-> << b[1] + 1, b[2] >>]
<1>1. /\ t \in Seq(Packets) /\ Len(q) \in Nat /\ Len(q) > 0 /\ Head(q) = q[1]
      /\ DOMAIN q = 1 .. Len(q) /\ DOMAIN t = 1 .. Len(q) - 1 /\ 1 \in DOMAIN q
      /\ \A i \in DOMAIN t : i + 1 \in DOMAIN q /\ t[i] = q[i + 1]
  OBVIOUS
<1>2. f \in Bijection(BuffersIn(t), rest)
  <2>1. \A b \in BuffersIn(t) : \E i \in DOMAIN t : \E k \in DOMAIN t[i].gpds : b = << i, k >>
    BY DEF BuffersIn
  <2>2. \A i \in DOMAIN t : \A k \in DOMAIN t[i].gpds : << i, k >> \in BuffersIn(t)
    BY DEF BuffersIn
  <2>3. \A c \in rest : \E i \in DOMAIN q : \E k \in DOMAIN q[i].gpds : c = << i, k >> /\ i # 1
    BY DEF BuffersIn
  <2>4. \A i \in DOMAIN q : \A k \in DOMAIN q[i].gpds : i # 1 => << i, k >> \in rest
    BY DEF BuffersIn
  <2>5. f \in [BuffersIn(t) -> rest]
    <3> SUFFICES ASSUME NEW b \in BuffersIn(t) PROVE << b[1] + 1, b[2] >> \in rest
      OBVIOUS
    <3>1. PICK i \in DOMAIN t : \E k \in DOMAIN t[i].gpds : b = << i, k >>
      BY <2>1
    <3>2. PICK k \in DOMAIN t[i].gpds : b = << i, k >>
      BY <3>1
    <3>3. i + 1 \in DOMAIN q /\ k \in DOMAIN q[i + 1].gpds /\ i + 1 # 1
      BY <1>1, <3>2
    <3> QED
      BY <2>4, <3>2, <3>3
  <2>6. ASSUME NEW b \in BuffersIn(t), NEW c \in BuffersIn(t), f[b] = f[c]
        PROVE  b = c
    <3>1. PICK i \in DOMAIN t : \E k \in DOMAIN t[i].gpds : b = << i, k >>
      BY <2>1
    <3>2. PICK j \in DOMAIN t : \E k \in DOMAIN t[j].gpds : c = << j, k >>
      BY <2>1
    <3>3. i \in Nat /\ j \in Nat /\ i + 1 = j + 1 /\ b[2] = c[2]
      BY <1>1, <2>6, <3>1, <3>2
    <3> QED
      BY <3>1, <3>2, <3>3
  <2>7. ASSUME NEW c \in rest
        PROVE  \E b \in BuffersIn(t) : f[b] = c
    <3>1. PICK i \in DOMAIN q : \E k \in DOMAIN q[i].gpds : c = << i, k >> /\ i # 1
      BY <2>3
    <3>2. PICK k \in DOMAIN q[i].gpds : c = << i, k >>
      BY <3>1
    <3>3. i - 1 \in DOMAIN t /\ t[i - 1] = q[i] /\ (i - 1) + 1 = i
      BY <1>1, <3>1
    <3>4. << i - 1, k >> \in BuffersIn(t)
      BY <2>2, <3>2, <3>3
    <3> QED
      BY <3>2, <3>3, <3>4
  <2> QED
    BY <2>5, <2>6, <2>7 DEF Bijection, Injection, Surjection, IsInjective
<1>3. ExistsBijection(BuffersIn(t), rest)
  BY <1>2 DEF ExistsBijection
<1>4. Cardinality(rest) = Cardinality(BuffersIn(t))
  BY <1>1, <1>3, BuffersFinite, FS_Bijection
<1>5. BuffersIn(q) \cap head = head
  <2>1. head \in {{i} \X DOMAIN q[i].gpds : i \in DOMAIN q}
    BY <1>1
  <2> QED
    BY <2>1 DEF BuffersIn
<1>6. Cardinality(rest) = Cardinality(BuffersIn(q)) - Cardinality(head)
  <2>1. IsFiniteSet(BuffersIn(q))
    BY BuffersFinite
  <2>2. Cardinality(rest) = Cardinality(BuffersIn(q)) - Cardinality(BuffersIn(q) \cap head)
    BY <2>1, FS_Difference, Zenon
  <2> QED
    BY <1>5, <2>2
<1>7. Cardinality(head) = Len(Head(q).gpds)
  BY <1>1, InQueue
<1> QED
  BY <1>4, <1>6, <1>7

-----------------------------------------------------------------------------
(* No buffer is lost until something fails.                                *)

LEMMA FailsGrow ==
    ASSUME TypeOK, [Next]_vars, fails' = 0
    PROVE  fails = 0
<1> USE Constants DEF TypeOK, TypeCounts
<1>1. CASE \/ HwFault \/ RdTake \/ RdResume \/ StopChannel
           \/ (\E l \in BOOLEAN : HwReceive(l))
  BY <1>1 DEF HwReceive, HwFault, RdTake, RdResume, StopChannel
<1>2. ASSUME NEW n \in 0 .. GpdNum, RdRecover(n) \/ StartChannel(n)
      PROVE  fails = 0
  BY <1>2 DEF RdRecover, StartChannel, Allocated, Failure
<1>3. CASE QuietTask
  <2>1. CASE RdGive
    BY <2>1 DEF RdGive, Failure
  <2>2. CASE ~RdGive
    BY <1>3, <2>2 DEF QuietTask, RdWake, RdClear, RdLock, RdPut, RdTrigger,
                      RdIncomplete, RdLoopEnd, RdUnlock, RdUnmask
  <2> QED
    BY <2>1, <2>2
<1>4. CASE QuietOther
  BY <1>4 DEF QuietOther, Dispatch, ErrTask, ErrRead, ErrSet, ErrNext, ErrTrigger, StartDone, StopRequest,
     StopFlush, StopDisable, StopRelease, User, UsrCall, UsrWake, UsrClear,
     UsrRecount, UsrDeque, UsrMove, vars
<1> QED
  BY <1>1, <1>2, <1>3, <1>4, Steps DEF RingStep, QuietStep

(* The ring has all its buffers or none.                                   *)
LEMMA AllOrNone ==
    ASSUME TypeOK, Buffers, fails = 0
    PROVE  /\ Live => /\ Mapped = Slots /\ Freed = Slots /\ Visited = Slots
                      /\ DeinitOK
           /\ ~Live => Mapped = {} /\ Freed = {} /\ ~DeinitOK
<1>1. CASE Live
  <2>1. \A s \in Slots : s \in Nat /\ 0 .. s \subseteq Slots /\ 0 .. s - 1 \subseteq Slots
    BY Constants
  <2> QED
    BY <1>1, <2>1 DEF Buffers, Mapped, Freed, Visited, DeinitOK
<1>2. CASE ~Live
  <2>1. \A s \in Slots : 0 \in 0 .. s
    BY Constants
  <2>2. ~addr[0]
    BY <1>2, Constants DEF Buffers
  <2>3. Freed = {}
    BY <2>1, <2>2 DEF Freed
  <2> QED
    BY <1>2, <2>3, Constants DEF Buffers, Mapped, DeinitOK
<1> QED
  BY <1>1, <1>2

LEMMA TakesWhenLive ==
    ASSUME Untouched, Buffers, TypeOK, fails = 0, rd_pc = "loop", hwo[cur_idx] = "SW"
    PROVE  Live
BY Constants DEF Untouched, Buffers, Taken, TypeOK, TypeIndices, TypeCounts

LEMMA SlotCount == Cardinality(Slots) = GpdNum /\ Cardinality({}) = 0
BY Constants, FS_Interval, FS_EmptySet

(* Between starts the ring keeps its state; a start and a stop change it.  *)
LEMMA StartFills ==
    ASSUME TypeOK, Buffers, fails = 0, fails' = 0,
           NEW n \in 0 .. GpdNum, StartChannel(n)
    PROVE  ~Live /\ Live' /\ n = GpdNum /\ \A s \in Slots : addr'[s]
<1>1. n = GpdNum
  BY DEF StartChannel, Allocated, Failure
<1>2. \A s \in Slots : s < n
  BY <1>1, Constants
<1>3. \A s \in Slots : addr'[s]
  BY <1>2 DEF StartChannel
<1> QED
  BY <1>1, <1>3 DEF StartChannel, Live

LEMMA StopEmpties ==
    ASSUME TypeOK, Buffers, fails = 0, StopChannel
    PROVE  /\ Live /\ ~Live' /\ ~hw_run'
           /\ \A s \in Slots : ~addr'[s] /\ hwo'[s] = "HW"
<1>1. Live /\ ~Live' /\ ~hw_run'
  BY DEF StopChannel, StopEngine, Live
<1>2. Freed = Slots /\ Visited = Slots
  BY <1>1, AllOrNone
<1> QED
  BY <1>1, <1>2 DEF StopChannel

LEMMA RecoverKeeps ==
    ASSUME TypeOK, Buffers, fails = 0, fails' = 0,
           NEW n \in 0 .. GpdNum, RdRecover(n)
    PROVE  /\ Live' <=> Live
           /\ Live => /\ n = GpdNum /\ out' = out
                      /\ \A s \in Slots : addr'[s]
           /\ ~Live => /\ out' = out - Cardinality({}) /\ ~hw_run'
                       /\ \A s \in Slots : ~addr'[s] /\ (Taken(s) => Taken(s)')
<1>1. Live' <=> Live
  BY DEF RdRecover, Live
<1>2. CASE Live
  <2>1. n = GpdNum /\ addr' = [s \in Slots |-> s < n] /\ out' = out - GpdNum + n
    BY <1>2, AllOrNone DEF RdRecover, Allocated, Failure
  <2>2. \A s \in Slots : s < n
    BY <2>1, Constants
  <2>3. \A s \in Slots : addr'[s]
    BY <2>1, <2>2, Zenon
  <2>4. out' = out
    BY <2>1, Constants DEF TypeOK, TypeCounts
  <2> QED
    BY <1>1, <1>2, <2>1, <2>3, <2>4
<1>3. CASE ~Live
  <2>1. ~DeinitOK /\ Freed = {} /\ \A s \in Slots : ~addr[s]
    BY <1>3, AllOrNone DEF Buffers
  <2> QED
    BY <1>1, <1>3, <2>1 DEF RdRecover, StopEngine, Taken
<1> QED
  BY <1>2, <1>3

LEMMA BuffersStep ==
    ASSUME TypeOK, Untouched, Buffers, [Next]_vars
    PROVE  Buffers'
<1>1. ctl_pc' = "release" => ~running'
  <2> USE DEF Buffers
  <2>1. CASE RingStep
    BY <2>1 DEF RingStep, HwReceive, HwFault, RdTake, RdResume, RdRecover, StartChannel, StopChannel
  <2>2. CASE QuietTask
    BY <2>2 DEF QuietTask, RdWake, RdClear, RdLock, RdPut, RdGive, RdTrigger,
                RdIncomplete, RdLoopEnd, RdUnlock, RdUnmask
  <2>3. CASE QuietOther
    BY <2>3 DEF QuietOther, Dispatch, ErrTask, ErrRead, ErrSet, ErrNext, ErrTrigger, StartDone, StopRequest,
       StopFlush, StopDisable, StopRelease, User, UsrCall, UsrWake, UsrClear,
       UsrRecount, UsrDeque, UsrMove, vars
  <2> QED
    BY <2>1, <2>2, <2>3, Steps DEF QuietStep
<1> SUFFICES ASSUME fails' = 0
             PROVE  /\ Live' => \A s \in Slots : addr'[s]
                    /\ ~Live' => /\ ~hw_run'
                                 /\ \A s \in Slots : ~addr'[s]
                                 /\ starts' > 0 => \A s \in Slots : Taken(s)'
  BY <1>1 DEF Buffers
<1>2. fails = 0
  BY FailsGrow
<1> DEFINE Goal == /\ Live' => \A s \in Slots : addr'[s]
                   /\ ~Live' => /\ ~hw_run'
                                /\ \A s \in Slots : ~addr'[s]
                                /\ starts' > 0 => \A s \in Slots : Taken(s)'
<1>3. ASSUME NEW l \in BOOLEAN, HwReceive(l)
      PROVE  Goal
  <2>1. Live /\ Live' /\ addr' = addr
    BY <1>2, <1>3 DEF HwReceive, Buffers, Live
  <2> QED
    BY <1>2, <2>1 DEF Buffers
<1>4. CASE HwFault \/ RdResume
  <2>1. UNCHANGED << hwo, addr, starts, ctl_pc, running >> /\ (hw_run' => hw_run)
    BY <1>4 DEF HwFault, RdResume, StopEngine
  <2> QED
    BY <1>2, <2>1 DEF Buffers, Live, Taken
<1>5. CASE RdTake
  <2>1. Live /\ Live'
    BY <1>2, <1>5, TakesWhenLive DEF RdTake, Live
  <2>2. \A s \in Slots : addr[s]
    BY <1>2, <2>1 DEF Buffers
  <2>3. \A s \in Slots : addr'[s]
    BY <1>5, <2>2 DEF RdTake, TypeOK, TypeDescs
  <2> QED
    BY <2>1, <2>3
<1>6. ASSUME NEW n \in 0 .. GpdNum, RdRecover(n)
      PROVE  Goal
  <2>1. starts' = starts
    BY <1>6 DEF RdRecover
  <2> QED
    BY <1>2, <1>6, <2>1, RecoverKeeps DEF Buffers
<1>7. ASSUME NEW n \in 0 .. GpdNum, StartChannel(n)
      PROVE  Goal
  BY <1>2, <1>7, StartFills
<1>8. CASE StopChannel
  BY <1>2, <1>8, StopEmpties DEF Taken
<1>9. CASE QuietStep
  <2>1. UNCHANGED << hwo, addr, hw_run, starts >>
    BY <1>9, QuietRing
  <2>2. Live' <=> Live
    <3>1. CASE QuietTask
      BY <3>1 DEF Live, QuietTask, RdWake, RdClear, RdLock, RdPut, RdGive, RdTrigger,
                  RdIncomplete, RdLoopEnd, RdUnlock, RdUnmask
    <3>2. CASE StartDone \/ StopRequest \/ StopDisable \/ StopRelease
      BY <3>2 DEF Live, Buffers, StartDone, StopRequest, StopDisable, StopRelease
    <3>3. CASE QuietOther /\ ~(StartDone \/ StopRequest \/ StopDisable \/ StopRelease)
      BY <3>3 DEF Live, QuietOther, Dispatch, ErrTask, ErrRead, ErrSet, ErrNext, ErrTrigger, StopFlush, User, UsrCall,
                  UsrWake, UsrClear, UsrRecount, UsrDeque, UsrMove, vars
    <3> QED
      BY <1>9, <3>1, <3>2, <3>3 DEF QuietStep
  <2> QED
    BY <1>2, <2>1, <2>2 DEF Buffers, Taken
<1> QED
  BY <1>3, <1>4, <1>5, <1>6, <1>7, <1>8, <1>9, Steps DEF RingStep

(* A dequeue frees the buffers of the packet it takes.                     *)
LEMMA DequeueConserves ==
    ASSUME TypeOK, BuffersConserved, fails = 0, queue # << >>,
           queue' = Tail(queue), out' = out - Len(Head(queue).gpds),
           UNCHANGED << addr, sw_gpds >>
    PROVE  Lost' = 0
<1>1. Len(Head(queue).gpds) \in Nat
  BY DEF TypeOK, TypePackets, Packets
<1>2. Queued' = Queued - Len(Head(queue).gpds) /\ Queued \in Nat
  BY BuffersTail, BuffersFinite DEF Queued, TypeOK, TypePackets
<1>3. Cardinality(Mapped) \in Nat /\ Mapped' = Mapped /\ Len(sw_gpds) \in Nat
  BY SlotSets, Mapped \in SUBSET Slots, Constants DEF Mapped, TypeOK, TypePackets
<1> QED
  BY <1>1, <1>2, <1>3 DEF BuffersConserved, Lost, TypeOK, TypeCounts

LEMMA ConservedStep ==
    ASSUME TypeOK, Untouched, Buffers, BuffersConserved, [Next]_vars
    PROVE  BuffersConserved'
<1> SUFFICES ASSUME fails' = 0 PROVE Lost' = 0
  BY DEF BuffersConserved
<1>1. fails = 0 /\ Lost = 0
  BY FailsGrow DEF BuffersConserved
<1>2. /\ out \in Int /\ Len(sw_gpds) \in Nat /\ Queued \in Nat /\ queue \in Seq(Packets)
      /\ Cardinality(Mapped) \in Nat
  BY SlotSets, Mapped \in SUBSET Slots, Constants, BuffersFinite
     DEF Mapped, Queued, TypeOK, TypePackets, TypeCounts
<1>3. CASE UNCHANGED << addr, sw_gpds, queue, out >>
  BY <1>1, <1>3 DEF Lost, Mapped, Queued
<1>4. CASE HwFault \/ RdResume \/ (\E l \in BOOLEAN : HwReceive(l))
  BY <1>3, <1>4 DEF HwFault, RdResume, HwReceive
<1>5. CASE RdTake
  <2>1. Mapped = Slots
    BY <1>1, <1>5, TakesWhenLive, AllOrNone DEF RdTake
  <2>2. Mapped' = Slots
    BY <1>5, <2>1 DEF RdTake, Mapped, TypeOK, TypeDescs
  <2>3. Len(sw_gpds') = Len(sw_gpds) + 1
    BY <1>5 DEF RdTake, TypeOK, TypePackets
  <2> QED
    BY <1>1, <1>2, <1>5, <2>1, <2>2, <2>3 DEF RdTake, Lost, Queued
<1>6. ASSUME NEW n \in 0 .. GpdNum, RdRecover(n)
      PROVE  Lost' = 0
  <2>1. UNCHANGED << sw_gpds, queue >>
    BY <1>6 DEF RdRecover
  <2>2. Mapped' = Mapped
    BY <1>1, <1>6, AllOrNone, RecoverKeeps DEF Mapped
  <2>3. out' = out
    BY <1>1, <1>2, <1>6, RecoverKeeps, SlotCount
  <2> QED
    BY <1>1, <2>1, <2>2, <2>3 DEF Lost, Queued
<1>7. ASSUME NEW n \in 0 .. GpdNum, StartChannel(n)
      PROVE  Lost' = 0
  <2>1. Mapped = {} /\ Mapped' = Slots /\ n = GpdNum
    BY <1>1, <1>7, StartFills, AllOrNone DEF Mapped
  <2>2. out' = out + GpdNum /\ UNCHANGED << sw_gpds, queue >>
    BY <1>7, <2>1 DEF StartChannel
  <2> QED
    BY <1>1, <1>2, <2>1, <2>2, SlotCount, Constants DEF Lost, Queued
<1>8. CASE StopChannel
  <2>1. Mapped = Slots /\ Freed = Slots /\ Mapped' = {}
    BY <1>1, <1>8, StopEmpties, AllOrNone DEF Mapped
  <2>2. out' = out - GpdNum /\ UNCHANGED << sw_gpds, queue >>
    BY <1>8, <2>1, SlotCount DEF StopChannel
  <2> QED
    BY <1>1, <1>2, <2>1, <2>2, SlotCount, Constants DEF Lost, Queued
<1>9. CASE QuietTask
  <2>1. CASE RdPut
    <3>1. [gpds |-> sw_gpds, complete |-> rx_complete] \in Packets
      BY DEF Packets, TypeOK, TypePackets, TypeFlags
    <3>2. Queued' = Queued + Len(sw_gpds)
      BY <1>2, <2>1, <3>1, BuffersAppend DEF RdPut, Queued
    <3>3. UNCHANGED << addr, out >> /\ Len(sw_gpds') = 0
      BY <2>1 DEF RdPut
    <3> QED
      BY <1>1, <1>2, <3>2, <3>3 DEF Lost, Mapped
  <2>2. CASE RdGive
    <3>1. out' = out - Len(sw_gpds) /\ Len(sw_gpds') = 0 /\ UNCHANGED << addr, queue >>
      BY <1>1, <2>2 DEF RdGive, Failure
    <3> QED
      BY <1>1, <1>2, <3>1 DEF Lost, Mapped, Queued
  <2>3. CASE ~RdPut /\ ~RdGive
    BY <1>3, <1>9, <2>3 DEF QuietTask, RdWake, RdClear, RdLock, RdTrigger,
                RdIncomplete, RdLoopEnd, RdUnlock, RdUnmask
  <2> QED
    BY <2>1, <2>2, <2>3
<1>10. CASE QuietOther
  <2>1. CASE StopFlush
    BY <1>1, <2>1, DequeueConserves DEF StopFlush
  <2>2. CASE UsrDeque
    BY <1>1, <1>3, <2>2, DequeueConserves DEF UsrDeque, UsrMove
  <2>3. CASE ~StopFlush /\ ~UsrDeque
    BY <1>3, <1>10, <2>3 DEF QuietOther, Dispatch, ErrTask, ErrRead, ErrSet, ErrNext, ErrTrigger, StartDone, StopRequest,
       StopDisable, StopRelease, User, UsrCall, UsrWake, UsrClear, UsrRecount, UsrMove, vars
  <2> QED
    BY <2>1, <2>2, <2>3
<1> QED
  BY <1>4, <1>5, <1>6, <1>7, <1>8, <1>9, <1>10, Steps DEF RingStep, QuietStep

-----------------------------------------------------------------------------
(* Fragments come off the ring in order.                                   *)

LEMMA Offsets ==
    ASSUME TypeOK
    PROVE  /\ \A k \in 0 .. GpdNum - 1 : Off(k) \in Slots
           /\ \A s \in Slots : \E k \in 0 .. GpdNum - 1 : s = Off(k)
           /\ \A j, k \in 0 .. GpdNum - 1 : Off(j) = Off(k) => j = k
           /\ Off(0) = cur_idx
<1> USE Constants DEF Off, Wrap, TypeOK, TypeIndices
<1>1. ASSUME NEW s \in Slots
      PROVE  \E k \in 0 .. GpdNum - 1 : s = Off(k)
  <2>1. CASE s >= cur_idx
    <3>1. s - cur_idx \in 0 .. GpdNum - 1 /\ s = Off(s - cur_idx)
      BY <2>1
    <3> QED
      BY <3>1
  <2>2. CASE s < cur_idx
    <3>1. s + GpdNum - cur_idx \in 0 .. GpdNum - 1 /\ s = Off(s + GpdNum - cur_idx)
      BY <2>2
    <3> QED
      BY <3>1
  <2> QED
    BY <2>1, <2>2
<1> QED
  BY <1>1

LEMMA FirstRange == First \in {0, 1} /\ (First = 1 <=> Unannounced)
BY DEF First

LEMMA OrderQuiet ==
    ASSUME TypeOK, Emptied, Order, QuietStep, starts' <= 1
    PROVE  Order'
<1>1. UNCHANGED << descs, engine, cur_idx, starts >>
  BY QuietRing
<1>2. InOrder(sw_gpds) /\ Chain /\ Region
  BY <1>1 DEF Order
<1>3. First' = First
  BY QuietPhase DEF First
<1>4. Cut' \/ (Expected' = Expected /\ ~Cut)
  BY QuietPhase
<1>8. InOrder(sw_gpds')
  <2>1. CASE QuietTask
    <3>1. CASE RdPut \/ RdGive
      BY <3>1 DEF RdPut, RdGive, InOrder
    <3>2. CASE ~(RdPut \/ RdGive)
      BY <1>2, <2>1, <3>2 DEF QuietTask, RdWake, RdClear, RdLock, RdTrigger,
                              RdIncomplete, RdLoopEnd, RdUnlock, RdUnmask
    <3> QED
      BY <3>1, <3>2
  <2>2. CASE QuietOther
    BY <1>2, <2>2, OtherTask
  <2> QED
    BY <2>1, <2>2 DEF QuietStep
<1>9. Chain'
  <2>1. ASSUME Filled(Off(First))', First' < GpdNum, ~Cut'
        PROVE  frag'[Off(First)'].pos = Expected'
    BY <1>1, <1>2, <1>3, <1>4, <2>1 DEF Chain, Filled, Off
  <2> QED
    BY <1>1, <1>2, <1>3, <2>1 DEF Chain, Filled, After, Off
<1>10. Region'
  BY <1>1, <1>2, <1>3, <1>4 DEF Region, Filled, After, Off
<1> QED
  BY <1>8, <1>9, <1>10 DEF Order

LEMMA OrderReceive ==
    ASSUME TypeOK, Window, HwHasBuffers, Order, starts' <= 1,
           NEW l \in BOOLEAN, HwReceive(l)
    PROVE  Order'
<1> DEFINE e == GpdNum - hw_avail
           fill(k) == hwo'[Off(k)] = "SW"
           next(k) == IF frag'[Off(k)].last THEN 0 ELSE frag'[Off(k)].pos + 1
<1>1. /\ InOrder(sw_gpds) /\ Chain /\ Region
      /\ hw_run /\ hw_avail > 0
      /\ UNCHANGED << sw_gpds, cur_idx, addr, First, Expected, Cut >>
  BY DEF HwReceive, Order, First, Expected, Unannounced, Cut
<1>2. First \in {0, 1} /\ e \in First .. GpdNum - 1 /\ hw_idx = Off(e)
  BY <1>1, FirstRange, FilledCount, Constants DEF Window, Off, Wrap, TypeOK, TypeIndices
<1>3. \A k \in e .. GpdNum - 1 : ~Filled(Off(k))
  <2> TAKE k \in e .. GpdNum - 1
  <2>1. k - e \in 0 .. hw_avail - 1 /\ Off(k) = Wrap(hw_idx + (k - e))
    BY <1>2, Constants DEF Off, Wrap, TypeOK, TypeIndices
  <2> QED
    BY <1>1, <2>1 DEF HwHasBuffers, Filled
<1>4. \A k \in 0 .. GpdNum - 1 :
        /\ fill(k) <=> k = e \/ Filled(Off(k))
        /\ k # e => frag'[Off(k)] = frag[Off(k)] /\ next(k) = After(Off(k))
  <2> TAKE k \in 0 .. GpdNum - 1
  <2>1. Off(k) \in Slots /\ (Off(k) = hw_idx <=> k = e)
    <3>1. e \in 0 .. GpdNum - 1
      BY <1>2, Constants DEF TypeOK, TypeIndices
    <3> QED
      BY <1>2, <3>1, Offsets
  <2>2. fill(k) <=> k = e \/ Filled(Off(k))
    <3>1. CASE k = e
      BY <2>1, <3>1 DEF HwReceive, TypeOK, TypeDescs
    <3>2. CASE k # e
      BY <2>1, <3>2 DEF HwReceive, Filled, TypeOK, TypeDescs
    <3> QED
      BY <3>1, <3>2
  <2>3. k # e => frag'[Off(k)] = frag[Off(k)]
    BY <1>2, <2>1 DEF HwReceive, TypeOK, TypeDescs
  <2> QED
    BY <2>2, <2>3 DEF After
<1>5. frag'[Off(e)] = [pos |-> hw_pos, last |-> l] /\ next(e) = hw_pos'
  BY <1>2, Offsets DEF HwReceive, TypeOK, TypeDescs
<1>6. IF First = e THEN Cut \/ hw_pos = Expected ELSE hw_pos = After(Off(e - 1))
  BY <1>1, <1>2, Constants DEF Region, TypeOK, TypeIndices
<1>7. First = 1 => ~Filled(Off(0))
  BY Offsets, FirstRange DEF Window, Filled, Taken
<1>8. Chain'
  <2>1. ASSUME NEW k \in 1 .. GpdNum - 1, fill(k - 1), fill(k)
        PROVE  frag'[Off(k)].pos = next(k - 1)
    <3>1. k - 1 \in 0 .. GpdNum - 1 /\ k \in 0 .. GpdNum - 1 /\ k - 1 # k
      BY Constants
    <3>2. CASE k = e
      <4>1. Filled(Off(k - 1))
        BY <1>4, <2>1, <3>1, <3>2
      <4>2. First # e
        BY <1>2, <1>7, <3>2, <4>1
      <4> QED
        BY <1>4, <1>5, <1>6, <3>1, <3>2, <4>2
    <3>3. CASE k # e
      <4>1. Filled(Off(k))
        BY <1>4, <2>1, <3>1, <3>3
      <4>2. k < e
        BY <1>2, <1>3, <4>1, Constants DEF TypeOK, TypeIndices
      <4>3. Filled(Off(k - 1)) /\ k - 1 # e
        BY <1>4, <2>1, <3>1, <4>2, Constants DEF TypeOK, TypeIndices
      <4>4. frag[Off(k)].pos = After(Off(k - 1))
        BY <1>1, <4>1, <4>3 DEF Chain
      <4> QED
        BY <1>4, <3>1, <3>3, <4>3, <4>4
    <3> QED
      BY <3>2, <3>3
  <2>2. ASSUME First < GpdNum, fill(First), ~Cut
        PROVE  frag'[Off(First)].pos = Expected
    <3>1. First \in 0 .. GpdNum - 1
      BY <1>2, <2>2, Constants
    <3>2. CASE First = e
      BY <1>5, <1>6, <2>2, <3>2
    <3>3. CASE First # e
      BY <1>1, <1>4, <2>2, <3>1, <3>3 DEF Chain
    <3> QED
      BY <3>2, <3>3
  <2> QED
    BY <1>1, <2>1, <2>2 DEF Chain, Filled, After, Off
<1>9. Region'
  <2>1. ASSUME NEW j \in First .. GpdNum - 1, NEW k \in First .. GpdNum - 1, j <= k,
               fill(k), frag'[Off(k)] # NoFrag
        PROVE  fill(j)
    <3>1. j \in 0 .. GpdNum - 1 /\ k \in 0 .. GpdNum - 1
      BY <1>2, Constants
    <3>2. k <= e
      BY <1>2, <1>3, <1>4, <2>1, <3>1, Constants DEF TypeOK, TypeIndices
    <3>3. CASE j = e
      BY <1>4, <3>1, <3>3
    <3>4. CASE k # e
      BY <1>1, <1>4, <2>1, <3>1, <3>4 DEF Region
    <3>5. CASE j # e /\ k = e
      <4>1. j \in First .. GpdNum - hw_avail - 1
        BY <1>2, <2>1, <3>5, Constants DEF TypeOK, TypeIndices
      <4> QED
        BY <1>1, <1>4, <3>1, <4>1 DEF Region
    <3> QED
      BY <3>3, <3>4, <3>5
  <2>2. ASSUME NEW k \in First .. GpdNum - hw_avail' - 1
        PROVE  fill(k)
    <3>1. k \in 0 .. GpdNum - 1 /\ (k = e \/ k \in First .. GpdNum - hw_avail - 1)
      BY <1>2, Constants DEF HwReceive, TypeOK, TypeIndices
    <3> QED
      BY <1>1, <1>4, <3>1 DEF Region
  <2>3. First + hw_avail' # GpdNum /\ GpdNum - hw_avail' - 1 = e
    BY <1>2, Constants DEF HwReceive, TypeOK, TypeIndices
  <2>4. hw_pos' = next(GpdNum - hw_avail' - 1)
    BY <1>5, <2>3
  <2>5. \A s \in Slots : addr'[s]
    BY <1>1 DEF Region
  <2> QED
    BY <1>1, <2>1, <2>2, <2>3, <2>4, <2>5 DEF Region, Filled, After, Off
<1> QED
  BY <1>1, <1>8, <1>9 DEF Order

LEMMA OrderTake ==
    ASSUME TypeOK, HwHasBuffers, Order, starts' <= 1, RdTake
    PROVE  Order'
<1> DEFINE fill(k) == hwo'[Off(k)] = "SW"
           next(k) == IF frag'[Off(k)].last THEN 0 ELSE frag'[Off(k)].pos + 1
<1>1. /\ InOrder(sw_gpds) /\ Chain /\ Region
      /\ First = 0 /\ First' = 1 /\ ~Cut /\ ~Cut' /\ Expected = Len(sw_gpds)
      /\ UNCHANGED << cur_idx, engine >>
  BY DEF RdTake, Order, First, Expected, Unannounced, Cut
<1>2. Filled(Off(0)) /\ Off(0) = cur_idx /\ frag[Off(0)].pos = Len(sw_gpds)
  BY <1>1, Offsets, Constants DEF RdTake, Filled, Chain
<1>3. \A k \in 0 .. GpdNum - 1 :
        /\ fill(k) <=> k # 0 /\ Filled(Off(k))
        /\ k # 0 => frag'[Off(k)] = frag[Off(k)] /\ next(k) = After(Off(k))
  <2> TAKE k \in 0 .. GpdNum - 1
  <2>1. Off(k) \in Slots /\ (Off(k) = Off(0) => k = 0)
    BY Offsets, Constants
  <2>2. fill(k) <=> k # 0 /\ Filled(Off(k))
    BY <1>2, <2>1 DEF RdTake, Filled, TypeOK, TypeDescs
  <2>3. k # 0 => frag'[Off(k)] = frag[Off(k)]
    BY <1>2, <2>1 DEF RdTake, TypeOK, TypeDescs
  <2> QED
    BY <2>2, <2>3 DEF After
<1>4. Expected' = After(Off(0)) /\ InOrder(sw_gpds')
  <2>1. sw_gpds' = Append(sw_gpds, Len(sw_gpds)) /\ sw_gpds \in Seq(Positions)
    BY <1>2 DEF RdTake, TypeOK, TypePackets
  <2>2. Len(sw_gpds') = Len(sw_gpds) + 1 /\ InOrder(sw_gpds')
    BY <1>1, <2>1 DEF InOrder
  <2> QED
    BY <1>2, <2>2 DEF RdTake, Expected, After
<1>5. Chain'
  <2>1. ASSUME NEW k \in 1 .. GpdNum - 1, fill(k - 1), fill(k)
        PROVE  frag'[Off(k)].pos = next(k - 1)
    <3>1. k - 1 \in 0 .. GpdNum - 1 /\ k \in 0 .. GpdNum - 1 /\ k # 0
      BY Constants
    <3>2. Filled(Off(k)) /\ Filled(Off(k - 1)) /\ k - 1 # 0
      BY <1>3, <2>1, <3>1
    <3>3. frag[Off(k)].pos = After(Off(k - 1))
      BY <1>1, <3>2 DEF Chain
    <3> QED
      BY <1>3, <3>1, <3>2, <3>3
  <2>2. ASSUME 1 < GpdNum, fill(1)
        PROVE  frag'[Off(1)].pos = Expected'
    <3>1. 1 \in 1 .. GpdNum - 1 /\ 1 \in 0 .. GpdNum - 1 /\ 1 # 0 /\ 1 - 1 = 0
      BY <2>2, Constants
    <3>2. frag[Off(1)].pos = After(Off(1 - 1))
      BY <1>1, <1>2, <1>3, <2>2, <3>1 DEF Chain
    <3> QED
      BY <1>3, <1>4, <3>1, <3>2
  <2> QED
    BY <1>1, <2>1, <2>2 DEF Chain, Filled, After, Off
<1>6. Region'
  <2>1. ASSUME NEW j \in 1 .. GpdNum - 1, NEW k \in 1 .. GpdNum - 1, j <= k,
               fill(k), frag'[Off(k)] # NoFrag
        PROVE  fill(j)
    <3>1. /\ j \in 0 .. GpdNum - 1 /\ k \in 0 .. GpdNum - 1 /\ j # 0 /\ k # 0
          /\ j \in First .. GpdNum - 1 /\ k \in First .. GpdNum - 1
      BY <1>1, Constants
    <3>2. Filled(Off(k)) /\ frag[Off(k)] # NoFrag
      BY <1>3, <2>1, <3>1
    <3>3. Filled(Off(j))
      BY <1>1, <2>1, <3>1, <3>2 DEF Region
    <3> QED
      BY <1>3, <3>1, <3>3
  <2>2. ASSUME hw_run'
        PROVE  /\ \A k \in 1 .. GpdNum - hw_avail' - 1 : fill(k)
               /\ hw_pos' = IF 1 + hw_avail' = GpdNum THEN Expected'
                            ELSE next(GpdNum - hw_avail' - 1)
    <3>1. hw_run /\ hw_avail' = hw_avail /\ hw_pos' = hw_pos
      BY <1>1, <2>2
    <3>2. hw_avail # GpdNum
      <4>1. SUFFICES ASSUME hw_avail = GpdNum PROVE FALSE
        OBVIOUS
      <4>2. PICK k \in 0 .. GpdNum - 1 : cur_idx = Wrap(hw_idx + k)
        <5>1. CASE cur_idx >= hw_idx
          <6>1. cur_idx - hw_idx \in 0 .. GpdNum - 1 /\ cur_idx = Wrap(hw_idx + (cur_idx - hw_idx))
            BY <5>1, Constants DEF Wrap, TypeOK, TypeIndices
          <6> QED
            BY <6>1
        <5>2. CASE cur_idx < hw_idx
          <6>1. /\ cur_idx + GpdNum - hw_idx \in 0 .. GpdNum - 1
                /\ cur_idx = Wrap(hw_idx + (cur_idx + GpdNum - hw_idx))
            BY <5>2, Constants DEF Wrap, TypeOK, TypeIndices
          <6> QED
            BY <6>1
        <5> QED
          BY <5>1, <5>2, Constants DEF TypeOK, TypeIndices
      <4> QED
        BY <1>2, <3>1, <4>1, <4>2 DEF HwHasBuffers, Filled
    <3>3. hw_pos = After(Off(GpdNum - hw_avail - 1))
      BY <1>1, <3>1, <3>2, Constants DEF Region, TypeOK, TypeIndices
    <3>4. GpdNum - hw_avail - 1 \in 0 .. GpdNum - 1
          /\ (1 + hw_avail = GpdNum <=> GpdNum - hw_avail - 1 = 0)
      BY <3>2, Constants DEF TypeOK, TypeIndices
    <3>5. ASSUME NEW k \in 1 .. GpdNum - hw_avail' - 1
          PROVE  fill(k)
      <4>1. k \in First .. GpdNum - hw_avail - 1 /\ k \in 0 .. GpdNum - 1 /\ k # 0
        BY <1>1, <3>1, Constants DEF TypeOK, TypeIndices
      <4> QED
        BY <1>1, <1>3, <3>1, <4>1 DEF Region
    <3>6. CASE 1 + hw_avail = GpdNum
      BY <1>4, <3>1, <3>3, <3>4, <3>5, <3>6
    <3>7. CASE 1 + hw_avail # GpdNum
      BY <1>3, <3>1, <3>3, <3>4, <3>5, <3>7
    <3> QED
      BY <3>6, <3>7
  <2>3. ASSUME hw_run' \/ (\E s \in Slots : hwo'[s] = "SW" /\ frag'[s] # NoFrag)
        PROVE  \A s \in Slots : addr'[s]
    <3>1. hw_run \/ (\E s \in Slots : Filled(s) /\ frag[s] # NoFrag)
      BY <1>1, <2>3 DEF RdTake, Filled, TypeOK, TypeDescs
    <3>2. \A s \in Slots : addr[s]
      BY <1>1, <3>1 DEF Region
    <3> QED
      BY <3>2 DEF RdTake, TypeOK, TypeDescs
  <2> QED
    BY <1>1, <2>1, <2>2, <2>3 DEF Region, Filled, After, Off
<1> QED
  BY <1>1, <1>4, <1>5, <1>6 DEF Order

LEMMA OrderResume ==
    ASSUME TypeOK, Window, Order, starts' <= 1, RdResume
    PROVE  Order'
<1> DEFINE old(k) == IF k = GpdNum - 1 THEN 0 ELSE k + 1
           new(k) == Wrap(cur_idx' + k)
<1>1. /\ InOrder(sw_gpds) /\ Chain /\ Region
      /\ First = 1 /\ First' = 0 /\ ~Cut /\ ~Cut' /\ Expected' = Expected
      /\ UNCHANGED << sw_gpds, descs, hw_run, hw_pos >>
  BY DEF RdResume, RdMove, Order, First, Expected, Unannounced, Cut
<1>2. \A k \in 0 .. GpdNum - 1 : new(k) = Off(old(k))
  BY Constants DEF RdResume, Off, Wrap, TypeOK, TypeIndices
<1>3. ~Filled(Off(0))
  BY <1>1, Offsets, FirstRange DEF Window, Filled, Taken
<1>4. Chain'
  <2>1. ASSUME NEW k \in 1 .. GpdNum - 1, hwo[new(k - 1)] = "SW", hwo[new(k)] = "SW"
        PROVE  frag[new(k)].pos = After(new(k - 1))
    <3>1. k # GpdNum - 1
      BY <1>2, <1>3, <2>1, Constants DEF Filled
    <3>2. /\ k \in 0 .. GpdNum - 1 /\ k - 1 \in 0 .. GpdNum - 1 /\ k - 1 # GpdNum - 1
          /\ (k - 1) + 1 = k /\ k + 1 \in 1 .. GpdNum - 1 /\ (k + 1) - 1 = k
      BY <3>1, Constants
    <3>3. new(k) = Off(k + 1) /\ new(k - 1) = Off(k)
      BY <1>2, <3>1, <3>2
    <3>4. Filled(Off(k + 1)) /\ Filled(Off((k + 1) - 1))
      BY <2>1, <3>2, <3>3 DEF Filled
    <3>5. frag[Off(k + 1)].pos = After(Off((k + 1) - 1))
      BY <1>1, <3>2, <3>4 DEF Chain
    <3> QED
      BY <3>2, <3>3, <3>5
  <2>2. ASSUME hwo[new(0)] = "SW"
        PROVE  frag[new(0)].pos = Expected
    <3>1. GpdNum # 1 /\ new(0) = Off(1)
      BY <1>2, <1>3, <2>2, Constants DEF Filled
    <3> QED
      BY <1>1, <2>2, <3>1, Constants DEF Chain, Filled
  <2> QED
    BY <1>1, <2>1, <2>2 DEF Chain, Filled, After, Off
<1>5. Region'
  <2>1. ASSUME NEW j \in 0 .. GpdNum - 1, NEW k \in 0 .. GpdNum - 1, j <= k,
               hwo[new(k)] = "SW", frag[new(k)] # NoFrag
        PROVE  hwo[new(j)] = "SW"
    <3>1. k # GpdNum - 1
      BY <1>2, <1>3, <2>1, Constants DEF Filled
    <3>2. /\ j # GpdNum - 1 /\ j + 1 <= k + 1
          /\ j + 1 \in First .. GpdNum - 1 /\ k + 1 \in First .. GpdNum - 1
      BY <1>1, <2>1, <3>1, Constants
    <3>3. new(k) = Off(k + 1) /\ new(j) = Off(j + 1)
      BY <1>2, <3>1, <3>2
    <3>4. Filled(Off(j + 1))
      BY <1>1, <2>1, <3>2, <3>3 DEF Region, Filled
    <3> QED
      BY <3>3, <3>4 DEF Filled
  <2>2. ASSUME hw_run
        PROVE  /\ \A k \in 0 .. GpdNum - hw_avail' - 1 : hwo[new(k)] = "SW"
               /\ hw_pos = IF 0 + hw_avail' = GpdNum THEN Expected
                           ELSE After(new(GpdNum - hw_avail' - 1))
    <3>1. hw_avail' = hw_avail + 1 /\ hw_avail < GpdNum
      BY <1>1, FilledCount, Constants DEF RdResume, Window, TypeOK, TypeIndices
    <3>2. ASSUME NEW k \in 0 .. GpdNum - hw_avail' - 1
          PROVE  hwo[new(k)] = "SW"
      <4>1. /\ k \in 0 .. GpdNum - 1 /\ k # GpdNum - 1
            /\ k + 1 \in First .. GpdNum - hw_avail - 1
        BY <1>1, <3>1, Constants DEF TypeOK, TypeIndices
      <4> QED
        BY <1>1, <1>2, <2>2, <4>1 DEF Region, Filled
    <3>3. CASE hw_avail' = GpdNum
      BY <1>1, <2>2, <3>1, <3>2, <3>3, Constants DEF Region, TypeOK, TypeIndices
    <3>4. CASE hw_avail' # GpdNum
      <4>1. /\ GpdNum - hw_avail' - 1 \in 0 .. GpdNum - 1
            /\ GpdNum - hw_avail' - 1 # GpdNum - 1
            /\ (GpdNum - hw_avail' - 1) + 1 = GpdNum - hw_avail - 1
        BY <3>1, <3>4, Constants DEF TypeOK, TypeIndices
      <4>2. new(GpdNum - hw_avail' - 1) = Off(GpdNum - hw_avail - 1)
        BY <1>2, <4>1
      <4>3. hw_pos = After(Off(GpdNum - hw_avail - 1))
        BY <1>1, <2>2, <3>1, <3>4, Constants DEF Region, TypeOK, TypeIndices
      <4> QED
        BY <3>1, <3>2, <3>4, <4>2, <4>3, Constants DEF TypeOK, TypeIndices
    <3> QED
      BY <3>3, <3>4
  <2>3. hw_run \/ (\E s \in Slots : hwo[s] = "SW" /\ frag[s] # NoFrag)
          => \A s \in Slots : addr[s]
    BY <1>1 DEF Region, Filled
  <2>4. \A j, k \in First' .. GpdNum - 1 :
          j <= k /\ hwo'[new(k)] = "SW" /\ frag'[new(k)] # NoFrag => hwo'[new(j)] = "SW"
    BY <1>1, <2>1 DEF Filled
  <2>5. hw_run' =>
          /\ \A k \in First' .. GpdNum - hw_avail' - 1 : hwo'[new(k)] = "SW"
          /\ hw_pos' = IF First' + hw_avail' = GpdNum THEN Expected'
                       ELSE IF frag'[new(GpdNum - hw_avail' - 1)].last THEN 0
                            ELSE frag'[new(GpdNum - hw_avail' - 1)].pos + 1
    BY <1>1, <2>2 DEF After
  <2>6. hw_run' \/ (\E s \in Slots : Filled(s)' /\ frag'[s] # NoFrag)
          => \A s \in Slots : addr'[s]
    BY <1>1, <2>3 DEF Filled
  <2> QED
    BY <2>4, <2>5, <2>6 DEF Region, Filled, After, Off
<1> QED
  BY <1>1, <1>4, <1>5 DEF Order

(* A ring that holds no fragment.                                          *)
LEMMA OrderFresh ==
    ASSUME TypeOK', \A s \in Slots : frag'[s] = NoFrag, sw_gpds' = << >>,
           First' = 0, ~Cut',
           hw_run' => /\ hw_avail' = GpdNum /\ hw_pos' = 0
                      /\ \A s \in Slots : addr'[s]
    PROVE  Order'
<1>1. InOrder(sw_gpds') /\ Expected' = 0
  BY DEF InOrder, Expected
<1>2. \A k \in 0 .. GpdNum - 1 : Off(k)' \in Slots
  <2>1. cur_idx' \in Slots
    BY DEF TypeOK, TypeIndices
  <2>2. \A k \in 0 .. GpdNum - 1 : Wrap(cur_idx' + k) \in Slots
    BY <2>1, OffsetInSlots
  <2> QED
    BY <2>2 DEF Off
<1>3. \A k \in 0 .. GpdNum - 1 : frag'[Off(k)'].pos = 0 /\ After(Off(k))' = 0
  BY <1>2 DEF After, NoFrag
<1>4. Chain'
  <2>1. \A k \in 1 .. GpdNum - 1 : frag'[Off(k)'].pos = After(Off(k - 1))'
    BY <1>3, Constants
  <2>2. frag'[Off(0)'].pos = Expected'
    BY <1>1, <1>3, Constants
  <2> QED
    BY <2>1, <2>2 DEF Chain
<1>5. Region'
  <2>1. \A k \in First' .. GpdNum - 1 : frag'[Off(k)'] = NoFrag
    BY <1>2
  <2>2. hw_run' =>
          /\ First' .. GpdNum - hw_avail' - 1 = {}
          /\ hw_pos' = Expected' /\ First' + hw_avail' = GpdNum
    BY <1>1, Constants
  <2> QED
    BY <2>1, <2>2 DEF Region
<1> QED
  BY <1>1, <1>4, <1>5 DEF Order

LEMMA OrderRecover ==
    ASSUME TypeOK, TypeOK', Emptied, Order, starts' <= 1,
           NEW n \in 0 .. GpdNum, RdRecover(n)
    PROVE  Order'
<1>1. Chain /\ Region /\ First = 0
  BY DEF RdRecover, Order, First, Unannounced
<1>2. sw_gpds = << >>
  BY DEF RdRecover, Emptied
<1>3. ASSUME ~DeinitOK, NEW s \in Slots
      PROVE  frag[s] = NoFrag
  <2>1. ~(\A u \in Slots : addr[u])
    BY <1>3, Constants DEF DeinitOK, Freed
  <2>2. CASE Taken(s)
    BY <2>2 DEF Emptied
  <2>3. CASE Filled(s)
    BY <1>1, <2>1, <2>3 DEF Region
  <2> QED
    BY <2>2, <2>3 DEF Taken, Filled, TypeOK, TypeDescs
<1>4. \A s \in Slots : frag'[s] = NoFrag
  BY <1>3 DEF RdRecover
<1>5. sw_gpds' = << >> /\ First' = 0 /\ ~Cut'
  BY <1>2 DEF RdRecover, First, Unannounced, Cut
<1>6. hw_run' => /\ hw_avail' = GpdNum /\ hw_pos' = 0
                 /\ \A s \in Slots : addr'[s]
  <2> SUFFICES ASSUME hw_run'
               PROVE  hw_avail' = GpdNum /\ hw_pos' = 0 /\ \A s \in Slots : addr'[s]
    OBVIOUS
  <2>1. StartEngine /\ n = GpdNum /\ addr' = [s \in Slots |-> s < n]
    BY DEF RdRecover, Complete, Repaired, StopEngine
  <2>2. \A s \in Slots : s < n
    BY <2>1, Constants
  <2> QED
    BY <2>1, <2>2, Zenon DEF StartEngine
<1> QED
  BY <1>4, <1>5, <1>6, OrderFresh

LEMMA OrderStart ==
    ASSUME TypeOK, TypeOK', Untouched, Locks, starts' <= 1,
           NEW n \in 0 .. GpdNum, StartChannel(n)
    PROVE  Order'
<1>1. starts = 0
  BY DEF StartChannel, TypeOK, TypeCounts
<1>2. sw_gpds = << >> /\ ~hw_run /\ \A s \in Slots : frag[s] = NoFrag
  BY <1>1 DEF Untouched
<1>3. \A s \in Slots : frag'[s] = NoFrag
  BY <1>2 DEF StartChannel
<1>4. sw_gpds' = << >> /\ First' = 0 /\ ~Cut'
  BY <1>2, FreeFirst DEF StartChannel, First, Unannounced, Cut
<1>5. hw_run' => /\ hw_avail' = GpdNum /\ hw_pos' = 0
                 /\ \A s \in Slots : addr'[s]
  <2> SUFFICES ASSUME hw_run'
               PROVE  hw_avail' = GpdNum /\ hw_pos' = 0 /\ \A s \in Slots : addr'[s]
    OBVIOUS
  <2>1. StartEngine /\ n = GpdNum
    BY <1>2 DEF StartChannel, Complete
  <2>2. \A s \in Slots : s < n
    BY <2>1, Constants
  <2> QED
    BY <2>1, <2>2 DEF StartChannel, StartEngine
<1> QED
  BY <1>3, <1>4, <1>5, OrderFresh

LEMMA OrderStop ==
    ASSUME TypeOK, Locks, Order, starts' <= 1, StopChannel
    PROVE  Order'
<1>1. InOrder(sw_gpds) /\ Chain /\ Region
  BY DEF StopChannel, Order
<1>2. /\ First = 0 /\ First' = 0 /\ ~Cut /\ ~Cut' /\ ~hw_run' /\ Expected' = Expected
      /\ UNCHANGED << sw_gpds, cur_idx >>
  BY FreeFirst DEF StopChannel, StopEngine, First, Unannounced, Cut, Expected
<1>3. \A s \in Slots : hwo'[s] = "SW" => Filled(s) /\ frag'[s] = frag[s] /\ s \notin Visited
  BY DEF StopChannel, Filled
<1>4. \A s \in Slots : hwo'[s] = "SW" => frag'[s] = NoFrag
  <2>1. CASE \A s \in Slots : addr[s]
    <3>1. \A s \in Slots : 0 .. s - 1 \subseteq Slots
      BY Constants
    <3>2. Visited = Slots
      BY <2>1, <3>1 DEF Visited
    <3> QED
      BY <1>3, <3>2
  <2>2. CASE ~(\A s \in Slots : addr[s])
    BY <1>1, <1>3, <2>2 DEF Region
  <2> QED
    BY <2>1, <2>2
<1>5. \A k \in 0 .. GpdNum - 1 : Off(k) \in Slots
  BY Offsets
<1>6. Chain'
  <2>1. ASSUME NEW k \in 1 .. GpdNum - 1, hwo'[Off(k - 1)] = "SW", hwo'[Off(k)] = "SW"
        PROVE  /\ frag'[Off(k)].pos = 0
               /\ (IF frag'[Off(k - 1)].last THEN 0 ELSE frag'[Off(k - 1)].pos + 1) = 0
    <3>1. k \in 0 .. GpdNum - 1 /\ k - 1 \in 0 .. GpdNum - 1
      BY Constants
    <3>2. frag'[Off(k)] = NoFrag /\ frag'[Off(k - 1)] = NoFrag
      BY <1>4, <1>5, <2>1, <3>1
    <3> QED
      BY <3>2 DEF NoFrag
  <2>2. ASSUME hwo'[Off(0)] = "SW"
        PROVE  frag'[Off(0)].pos = Expected
    BY <1>1, <1>2, <1>3, <1>5, <2>2, Constants DEF Chain
  <2> QED
    BY <1>2, <2>1, <2>2 DEF Chain, Filled, After, Off
<1>7. Region'
  <2>1. \A k \in 0 .. GpdNum - 1 : hwo'[Off(k)] = "SW" => frag'[Off(k)] = NoFrag
    BY <1>4, <1>5
  <2>2. \A j, k \in First' .. GpdNum - 1 :
          j <= k /\ Filled(Off(k))' /\ frag'[Off(k)'] # NoFrag => Filled(Off(j))'
    BY <1>2, <2>1 DEF Filled, Off
  <2>3. ~(\E s \in Slots : Filled(s)' /\ frag'[s] # NoFrag)
    BY <1>4 DEF Filled
  <2> QED
    BY <1>2, <2>2, <2>3 DEF Region
<1> QED
  BY <1>1, <1>2, <1>6, <1>7 DEF Order

LEMMA OrderStep ==
    ASSUME TypeOK, TypeOK', Untouched, Locks, Window, HwHasBuffers, Emptied,
           Order, [Next]_vars
    PROVE  Order'
<1> SUFFICES ASSUME starts' <= 1 PROVE Order'
  BY DEF Order
<1>1. ASSUME NEW l \in BOOLEAN, HwReceive(l)
      PROVE  Order'
  BY <1>1, OrderReceive
<1>2. CASE HwFault
  <2>1. /\ UNCHANGED << descs, cur_idx, sw_gpds >> /\ ~hw_run'
        /\ First' = First /\ Expected' = Expected /\ (Cut' <=> Cut)
        /\ InOrder(sw_gpds) /\ Chain /\ Region /\ hw_run
    BY <1>2 DEF HwFault, StopEngine, First, Unannounced, Expected, Cut, Order
  <2>2. Chain'
    BY <2>1 DEF Chain, Filled, Taken, After, Off
  <2>3. Region'
    BY <2>1 DEF Region, Filled, After, Off
  <2> QED
    BY <2>1, <2>2, <2>3 DEF Order
<1>3. CASE RdTake
  BY <1>3, OrderTake
<1>4. CASE RdResume
  BY <1>4, OrderResume
<1>5. CASE StopChannel
  BY <1>5, OrderStop
<1>6. ASSUME NEW n \in 0 .. GpdNum, RdRecover(n) \/ StartChannel(n)
      PROVE  Order'
  BY <1>6, OrderRecover, OrderStart
<1>7. CASE QuietStep
  BY <1>7, OrderQuiet
<1> QED
  BY <1>1, <1>2, <1>3, <1>4, <1>5, <1>6, <1>7, Steps DEF RingStep

LEMMA WholePacketsStep ==
    ASSUME TypeOK, Order, WholePackets, [Next]_vars
    PROVE  WholePackets'
<1> SUFFICES ASSUME starts' <= 1, NEW i \in DOMAIN queue', NEW k \in DOMAIN queue'[i].gpds
             PROVE  queue'[i].gpds[k] = k - 1
  BY DEF WholePackets
<1>1. starts <= 1
  <2>1. CASE \E n \in 0 .. GpdNum : StartChannel(n)
    BY <2>1 DEF StartChannel, TypeOK, TypeCounts
  <2>2. CASE RingStep /\ ~(\E n \in 0 .. GpdNum : StartChannel(n))
    BY <2>2 DEF RingStep, HwReceive, HwFault, RdTake, RdResume, StopChannel, RdRecover
  <2>3. CASE QuietStep
    BY <2>3, QuietRing
  <2> QED
    BY <2>1, <2>2, <2>3, Steps
<1>2. CASE UNCHANGED queue
  BY <1>1, <1>2 DEF WholePackets
<1>3. CASE queue # << >> /\ queue' = Tail(queue)
  <2>1. i + 1 \in DOMAIN queue /\ queue'[i] = queue[i + 1]
    BY <1>3 DEF TypeOK, TypePackets
  <2> QED
    BY <1>1, <2>1 DEF WholePackets
<1>4. CASE RingStep
  BY <1>2, <1>4 DEF RingStep, HwReceive, HwFault, RdTake, RdResume, StopChannel,
                    RdRecover, StartChannel
<1>5. CASE QuietTask
  <2>1. CASE RdPut
    <3>1. /\ queue \in Seq(Packets)
          /\ queue' = Append(queue, [gpds |-> sw_gpds, complete |-> rx_complete])
      BY <2>1 DEF RdPut, TypeOK, TypePackets
    <3>2. CASE i \in DOMAIN queue
      <4>1. queue'[i] = queue[i]
        BY <3>1, <3>2
      <4> QED
        BY <1>1, <3>2, <4>1 DEF WholePackets
    <3>3. CASE i \notin DOMAIN queue
      <4>1. queue'[i].gpds = sw_gpds
        BY <3>1, <3>3
      <4> QED
        BY <1>1, <4>1 DEF Order, InOrder
    <3> QED
      BY <3>2, <3>3
  <2>2. CASE ~RdPut
    BY <1>2, <1>5, <2>2 DEF QuietTask, RdWake, RdClear, RdLock, RdGive, RdTrigger,
                            RdIncomplete, RdLoopEnd, RdUnlock, RdUnmask
  <2> QED
    BY <2>1, <2>2
<1>6. CASE QuietOther
  <2>1. CASE StopFlush \/ UsrDeque
    BY <1>2, <1>3, <2>1 DEF StopFlush, UsrDeque
  <2>2. CASE ~(StopFlush \/ UsrDeque)
    BY <1>2, <1>6, <2>2 DEF QuietOther, Dispatch, ErrTask, ErrRead, ErrSet, ErrNext, ErrTrigger, StartDone, StopRequest,
       StopDisable, StopRelease, User, UsrCall, UsrWake, UsrClear, UsrRecount, vars
  <2> QED
    BY <2>1, <2>2
<1> QED
  BY <1>4, <1>5, <1>6, Steps DEF QuietStep

-----------------------------------------------------------------------------
(* The invariant, and what follows from it.                                *)

LEMMA InitInv == Init => Inv
<1> SUFFICES ASSUME Init PROVE Inv
  OBVIOUS
<1>1. TypeOK
  BY TypeInit
<1>2. Untouched /\ Locks /\ HwHasBuffers /\ Emptied /\ WholePackets
  BY DEF Init, Untouched, Filled, Taken, Locks, Holding, HwHasBuffers, Emptied,
         WholePackets
<1>3. First = 0 /\ ~Unannounced /\ ~Cut /\ Expected = 0
  BY DEF Init, First, Unannounced, Cut, Expected
<1>4. Window
  BY <1>3, FilledCount, Constants DEF Init, Window
<1>5. Buffers
  BY DEF Init, Buffers, Live
<1>6. BuffersConserved
  <2>1. Mapped = {} /\ BuffersIn(queue) = {} /\ Len(sw_gpds) = 0 /\ out = 0
    BY DEF Init, Mapped, BuffersIn
  <2> QED
    BY <2>1, SlotCount DEF BuffersConserved, Lost, Queued
<1>7. Order
  <2>1. \A k \in 0 .. GpdNum - 1 : Off(k) \in Slots
    BY <1>1, Offsets
  <2>2. \A k \in 0 .. GpdNum - 1 : frag[Off(k)] = NoFrag
    BY <2>1 DEF Init
  <2>3. \A k \in 0 .. GpdNum - 1 : frag[Off(k)].pos = 0 /\ After(Off(k)) = 0
    BY <2>2 DEF After, NoFrag
  <2>4. Chain
    BY <1>3, <2>3, Constants DEF Chain
  <2>5. Region
    BY <1>3, <2>2 DEF Init, Region
  <2> QED
    BY <2>4, <2>5 DEF Init, Order, InOrder
<1> QED
  BY <1>1, <1>2, <1>4, <1>5, <1>6, <1>7 DEF Inv

LEMMA NextInv ==
    ASSUME Inv, [Next]_vars
    PROVE  Inv'
<1> USE DEF Inv
<1>1. TypeOK'
  <2>1. CASE UNCHANGED vars
    BY <2>1 DEF vars, TypeOK, TypeDescs, TypeIndices, TypeFlags, TypeTasks,
                TypePackets, TypeCounts
  <2> QED
    BY <2>1, TypeHardware, TypeControl, TypeUser, TypeTask DEF Next
<1>2. Untouched' /\ Locks'
  BY UntouchedStep, LocksStep
<1>3. Window' /\ HwHasBuffers'
  BY WindowStep, HwHasBuffersStep
<1>4. Emptied'
  BY EmptiedStep
<1>5. Buffers' /\ BuffersConserved'
  BY BuffersStep, ConservedStep
<1>6. Order' /\ WholePackets'
  BY <1>1, <1>4, OrderStep, WholePacketsStep
<1> QED
  BY <1>1, <1>2, <1>3, <1>4, <1>5, <1>6

(* The inductive invariant holds in every reachable state.                 *)
THEOREM Invariance == Spec => []Inv
<1>1. Init => Inv
  BY InitInv
<1>2. Inv /\ [Next]_vars => Inv'
  BY NextInv
<1> QED
  BY <1>1, <1>2, PTL DEF Spec

(* Every variable of the receive channel keeps its type.                   *)
THEOREM TypeCorrect == Spec => []TypeOK
<1>1. Inv => TypeOK
  BY DEF Inv
<1> QED
  BY <1>1, Invariance, PTL

(* Allocations and frees of socket buffers in the ring, the RxDone task,   *)
(* the queue and rxStop balance: while nothing fails, no buffer is lost or *)
(* freed twice, however often reception is stopped and started.            *)
THEOREM ConservedCorrect == Spec => []BuffersConserved
<1>1. Inv => BuffersConserved
  BY DEF Inv
<1> QED
  BY <1>1, Invariance, PTL

(* rxReceive: while nothing fails, no descriptor without buffer is passed  *)
(* on.                                                                     *)
THEOREM TakesBuffersCorrect == Spec => []TakesBuffers
<1>1. Inv => TakesBuffers
  <2> SUFFICES ASSUME Inv, fails = 0, rd_pc = "loop", hwo[cur_idx] = "SW"
               PROVE  addr[cur_idx]
    BY DEF TakesBuffers
  <2>1. Live
    BY TakesWhenLive DEF Inv
  <2> QED
    BY <2>1 DEF Inv, Buffers, TypeOK, TypeIndices
<1> QED
  BY <1>1, Invariance, PTL

(* Whatever fails, what has been announced to the running engine is the    *)
(* engine's own and has a buffer to write to.                              *)
THEOREM HwHasBuffersCorrect == Spec => []HwHasBuffers
<1>1. Inv => HwHasBuffers
  BY DEF Inv
<1> QED
  BY <1>1, Invariance, PTL

(* handleRxErrStat: where a fault sets one error bit only, err_flag is     *)
(* seen only while the engine stands still, until reception is started     *)
(* again.  Where it sets two, the second may be handled after the repair.  *)
THEOREM HaltedCorrect ==
    ASSUME MaxErrBits <= 1
    PROVE  Spec => []ErrorMeansHalted
<1>1. Init => Halted
  BY DEF Init, Halted, OneBit, Cut
<1>2. Inv /\ Halted /\ [Next]_vars => Halted'
  BY HaltedStep DEF Inv
<1>3. Halted => ErrorMeansHalted
  BY DEF Halted, ErrorMeansHalted
<1> QED
  BY <1>1, <1>2, <1>3, Invariance, PTL DEF Spec

(* Until reception is started again, a packet in the queue is the first    *)
(* fragments of one packet in order, through faults and recoveries.        *)
THEOREM WholePacketsCorrect == Spec => []WholePackets
<1>1. Inv => WholePackets
  BY DEF Inv
<1> QED
  BY <1>1, Invariance, PTL

=============================================================================
