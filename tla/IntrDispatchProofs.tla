------------------------- MODULE IntrDispatchProofs -------------------------
(***************************************************************************)
(* Theorems about IntrDispatch, for every set of channels and status bits. *)
(***************************************************************************)
EXTENDS IntrDispatch, TLAPS

(* The error task leaves its source masked when it finds no cause.  That   *)
(* is no loss: without a cause, a source masked before the task has read   *)
(* was masked by a dispatcher that saw no error and will unmask it.        *)
Early == err_pc \in {"wait", "reset", "read"}

CauseInv ==
    Err \in masked /\ Early =>
      \/ ErrIntStat # {}
      \/ \E d \in Contexts : disp_pc[d] = "give" /\ Err \notin disp_stat[d]

(* The error task has a channel exactly while it handles its bits, else    *)
(* L2Bit would report the break-down of no channel.                        *)
ChannelInv ==
    /\ err_pc = "l2_bits" => l2_ch \in Channels
    /\ err_pc # "l2_bits" => l2_ch = NoChannel

(* A channel the error task has still to look at has a status.             *)
SoundInv == \A c \in err_stat : c # l2_ch /\ l2stat[c] # {}

Inv == TypeOK /\ CauseInv /\ MaskedMeansPending /\ ChannelInv /\ SoundInv
       /\ L2MaskedMeansBusy

USE IntrConstants DEF hw, disp, tasks, error

-----------------------------------------------------------------------------
LEMMA InitInv == Init => Inv
BY DEF Init, Inv, TypeOK, CauseInv, MaskedMeansPending, ChannelInv,
   SoundInv, L2MaskedMeansBusy

LEMMA StatTypes == TypeOK => ErrIntStat \subseteq Channels /\ L1Stat \subseteq Sources
BY DEF TypeOK, ErrIntStat, L1Stat, Sources

LEMMA TypeStep == TypeOK /\ ChannelInv /\ [Next]_vars => TypeOK'
<1> SUFFICES ASSUME TypeOK, ChannelInv, [Next]_vars PROVE TypeOK'
  OBVIOUS
<1> USE DEF TypeOK
<1>1. CASE UNCHANGED vars
  BY <1>1 DEF vars
<1>2. CASE Chip
  BY <1>2 DEF Chip, HwDone, HwError
<1>3. CASE \E d \in Contexts : DispTake(d)
  BY <1>3, StatTypes DEF DispTake
<1>4. CASE \E d \in Contexts : DispGive(d)
  BY <1>4 DEF DispGive
<1>5. CASE \E c \in Channels : TaskWake(c) \/ TaskReset(c)
  BY <1>5 DEF TaskWake, TaskReset
<1>6. CASE \E c \in Channels : TaskWork(c) \/ TaskUnmask(c)
  BY <1>6 DEF TaskWork, TaskUnmask
<1>7. CASE ErrWake \/ ErrReset \/ ErrUnmask
  BY <1>7 DEF ErrWake, ErrReset, ErrUnmask
<1>8. CASE ErrRead
  BY <1>8, StatTypes DEF ErrRead
<1>9. CASE \E c \in Channels : L2Read(c)
  BY <1>9 DEF L2Read
<1>10. CASE \E b \in Bits : L2Bit(b)
  <2> PICK b \in Bits : L2Bit(b)
    BY <1>10
  <2>1. l2_ch \in Channels
    BY DEF L2Bit, ChannelInv
  <2>2. l2stat' \in [Channels -> SUBSET Bits] /\ l2_read' \subseteq Bits
    BY <2>1 DEF L2Bit
  <2>3. err_flag' \subseteq Channels /\ event' \subseteq Sources
    BY <2>1 DEF L2Bit, Sources
  <2> QED
    BY <2>2, <2>3 DEF L2Bit
<1>11. CASE L2Unmask
  BY <1>11 DEF L2Unmask
<1> QED
  BY <1>1, <1>2, <1>3, <1>4, <1>5, <1>6, <1>7, <1>8, <1>9, <1>10, <1>11
     DEF Next, Dispatcher, Task, ErrorTask

-----------------------------------------------------------------------------
(* The L2 registers.                                                       *)

LEMMA BusyStep ==
    ASSUME TypeOK, ChannelInv, SoundInv, L2MaskedMeansBusy, [Next]_vars
    PROVE  ChannelInv' /\ SoundInv' /\ L2MaskedMeansBusy'
<1> USE DEF TypeOK, ChannelInv, SoundInv, L2MaskedMeansBusy
<1>1. CASE UNCHANGED vars \/ Chip
  BY <1>1 DEF vars, Chip, HwDone, HwError
<1>2. CASE \E d \in Contexts : Dispatcher(d)
  BY <1>2 DEF Dispatcher, DispTake, DispGive
<1>3. CASE \E c \in Channels : Task(c)
  BY <1>3 DEF Task, TaskWake, TaskReset, TaskWork, TaskUnmask
<1>4. CASE ErrWake \/ ErrReset \/ ErrRead \/ ErrUnmask
  BY <1>4 DEF ErrWake, ErrReset, ErrRead, ErrUnmask, ErrIntStat
<1>5. CASE \E c \in Channels : L2Read(c)
  BY <1>5 DEF L2Read
<1>6. CASE (\E b \in Bits : L2Bit(b)) \/ L2Unmask
  BY <1>6 DEF L2Bit, L2Unmask
<1> QED
  BY <1>1, <1>2, <1>3, <1>4, <1>5, <1>6 DEF Next, ErrorTask

-----------------------------------------------------------------------------
(* The L1 mask.                                                            *)

(* A step that leaves the mask and the dispatchers alone, wakes nobody's   *)
(* condition and lets no task go to sleep.                                 *)
LEMMA MaskUntouched ==
    ASSUME MaskedMeansPending, UNCHANGED << masked, disp >>,
           event \subseteq event',
           \A c \in Channels : task_pc[c] # "wait" => task_pc'[c] # "wait",
           err_pc # "wait" => err_pc' # "wait"
    PROVE  MaskedMeansPending'
BY DEF MaskedMeansPending, Dispatched

LEMMA CauseDispatch ==
    ASSUME TypeOK, CauseInv, NEW d \in Contexts, Dispatcher(d)
    PROVE  CauseInv'
<1> USE DEF TypeOK, CauseInv, Early
<1>1. ErrIntStat' = ErrIntStat /\ UNCHANGED err_pc
  BY DEF Dispatcher, DispTake, DispGive, ErrIntStat
<1>2. CASE DispTake(d)
  <2>1. Err \in L1Stat <=> ErrIntStat # {}
    BY DEF L1Stat
  <2>2. disp_pc'[d] = "give" /\ disp_stat'[d] = L1Stat
    BY <1>2 DEF DispTake
  <2> QED
    BY <1>1, <2>1, <2>2
<1>3. CASE DispGive(d)
  <2>1. masked' = masked \ (Sources \ disp_stat[d])
    BY <1>3 DEF DispGive
  <2>2. \A e \in Contexts \ {d} : /\ disp_pc'[e] = disp_pc[e]
                                  /\ disp_stat'[e] = disp_stat[e]
    BY <1>3 DEF DispGive
  <2>3. Err \in masked' => Err \in masked /\ Err \in disp_stat[d]
    BY <2>1 DEF Sources
  <2> QED
    BY <1>1, <2>2, <2>3
<1> QED
  BY <1>2, <1>3 DEF Dispatcher

LEMMA CauseStep == TypeOK /\ CauseInv /\ [Next]_vars => CauseInv'
<1> SUFFICES ASSUME TypeOK, CauseInv, [Next]_vars PROVE CauseInv'
  OBVIOUS
<1> USE DEF CauseInv, Early
<1>1. CASE UNCHANGED vars
  BY <1>1 DEF vars, ErrIntStat
<1>2. CASE Chip
  <2>1. ErrIntStat \subseteq ErrIntStat'
    BY <1>2 DEF Chip, HwDone, HwError, ErrIntStat, TypeOK
  <2>2. UNCHANGED << masked, err_pc, disp >>
    BY <1>2 DEF Chip, HwDone, HwError
  <2> QED
    BY <2>1, <2>2
<1>3. CASE \E d \in Contexts : Dispatcher(d)
  BY <1>3, CauseDispatch
<1>4. CASE \E c \in Channels : Task(c)
  BY <1>4 DEF Task, TaskWake, TaskReset, TaskWork, TaskUnmask, ErrIntStat
<1>5. CASE ErrWake \/ ErrReset \/ ErrRead
  BY <1>5 DEF ErrWake, ErrReset, ErrRead, ErrIntStat
<1>6. CASE ErrUnmask
  BY <1>6 DEF ErrUnmask
<1>7. CASE \E c \in Channels : L2Read(c)
  BY <1>7 DEF L2Read
<1>8. CASE (\E b \in Bits : L2Bit(b)) \/ L2Unmask
  BY <1>8 DEF L2Bit, L2Unmask
<1> QED
  BY <1>1, <1>2, <1>3, <1>4, <1>5, <1>6, <1>7, <1>8 DEF Next, ErrorTask

LEMMA PendingDispatch ==
    ASSUME TypeOK, MaskedMeansPending, NEW d \in Contexts, Dispatcher(d)
    PROVE  MaskedMeansPending'
<1> USE DEF TypeOK, MaskedMeansPending, Dispatched
<1>1. CASE DispTake(d)
  BY <1>1 DEF DispTake
<1>2. CASE DispGive(d)
  <2>1. /\ masked' = masked \ (Sources \ disp_stat[d])
        /\ event' = event \cup disp_stat[d]
        /\ UNCHANGED << task_pc, err_pc >>
    BY <1>2 DEF DispGive
  <2>2. \A s \in Sources : s \in masked' => s \in event'
    BY <2>1
  <2> QED
    BY <2>1, <2>2 DEF Sources
<1> QED
  BY <1>1, <1>2 DEF Dispatcher

LEMMA PendingStep ==
    ASSUME TypeOK, CauseInv, MaskedMeansPending, [Next]_vars
    PROVE  MaskedMeansPending'
<1> USE DEF TypeOK
<1>1. CASE UNCHANGED vars \/ Chip
  BY <1>1, MaskUntouched DEF vars, Chip, HwDone, HwError
<1>2. CASE \E d \in Contexts : Dispatcher(d)
  BY <1>2, PendingDispatch
<1>3. CASE \E c \in Channels : TaskWake(c) \/ TaskWork(c)
  BY <1>3, MaskUntouched DEF TaskWake, TaskWork
<1>4. CASE \E c \in Channels : TaskReset(c) \/ TaskUnmask(c)
  BY <1>4 DEF TaskReset, TaskUnmask, MaskedMeansPending, Dispatched
<1>5. CASE ErrWake
  BY <1>5, MaskUntouched DEF ErrWake
<1>6. CASE ErrReset \/ ErrUnmask
  BY <1>6 DEF ErrReset, ErrUnmask, MaskedMeansPending, Dispatched
<1>7. CASE ErrRead
  <2>1. CASE ErrIntStat = {}
    BY <1>7, <2>1 DEF ErrRead, CauseInv, Early, MaskedMeansPending, Dispatched
  <2>2. CASE ErrIntStat # {}
    BY <1>7, <2>2, MaskUntouched DEF ErrRead
  <2> QED
    BY <2>1, <2>2
<1>8. CASE \E c \in Channels : L2Read(c)
  BY <1>8, MaskUntouched DEF L2Read
<1>9. CASE \E b \in Bits : L2Bit(b)
  BY <1>9, MaskUntouched DEF L2Bit
<1>10. CASE L2Unmask
  BY <1>10, MaskUntouched DEF L2Unmask
<1> QED
  BY <1>1, <1>2, <1>3, <1>4, <1>5, <1>6, <1>7, <1>8, <1>9, <1>10
     DEF Next, Task, ErrorTask

-----------------------------------------------------------------------------
THEOREM Invariance == Spec => []Inv
<1>1. Inv /\ [Next]_vars => Inv'
  BY TypeStep, BusyStep, CauseStep, PendingStep DEF Inv
<1> QED
  BY <1>1, InitInv, PTL DEF Spec

(* Every variable keeps its type.                                          *)
THEOREM TypeCorrect == Spec => []TypeOK
<1>1. Inv => TypeOK
  BY DEF Inv
<1> QED
  BY <1>1, Invariance, PTL

(* No source stays masked with nobody left to unmask it, whatever the two  *)
(* dispatchers do, for any number of channels.                             *)
THEOREM MaskedMeansPendingCorrect == Spec => []MaskedMeansPending
<1>1. Inv => MaskedMeansPending
  BY DEF Inv
<1> QED
  BY <1>1, Invariance, PTL

(* Only the channel the error task is at has its L2 interrupts masked.     *)
THEOREM L2MaskedMeansBusyCorrect == Spec => []L2MaskedMeansBusy
<1>1. Inv => L2MaskedMeansBusy
  BY DEF Inv
<1> QED
  BY <1>1, Invariance, PTL

(* A fatal bit is never cleared without its channel's task being told.     *)
THEOREM FatalIsToldCorrect == Spec => FatalIsTold
<1> DEFINE Told == \A c \in Channels : \A b \in Fatal \cap l2stat[c] :
                     b \notin l2stat'[c] => c \in err_flag' /\ c \in event'
<1>1. Inv /\ [Next]_vars => [Told]_vars
  <2> SUFFICES ASSUME TypeOK, ChannelInv, Next PROVE Told
    BY DEF vars, Inv
  <2>1. CASE \E b \in Bits : L2Bit(b)
    <3> PICK b \in Bits : L2Bit(b)
      BY <2>1
    <3>1. l2_ch \in Channels
      BY DEF L2Bit, ChannelInv
    <3>2. \A c \in Channels : c # l2_ch => l2stat'[c] = l2stat[c]
      BY <3>1 DEF L2Bit, TypeOK
    <3>3. l2stat'[l2_ch] = l2stat[l2_ch] \ {b}
      BY <3>1 DEF L2Bit, TypeOK
    <3> QED
      BY <3>1, <3>2, <3>3 DEF L2Bit
  <2>2. CASE Chip
    BY <2>2 DEF Chip, HwDone, HwError, TypeOK
  <2>3. CASE (\E d \in Contexts : Dispatcher(d)) \/ (\E c \in Channels : Task(c))
    BY <2>3 DEF Dispatcher, DispTake, DispGive, Task, TaskWake, TaskReset,
       TaskWork, TaskUnmask
  <2>4. CASE \/ ErrWake \/ ErrReset \/ ErrRead \/ ErrUnmask \/ L2Unmask
             \/ \E c \in Channels : L2Read(c)
    BY <2>4 DEF ErrWake, ErrReset, ErrRead, ErrUnmask, L2Unmask, L2Read
  <2> QED
    BY <2>1, <2>2, <2>3, <2>4 DEF Next, ErrorTask
<1> QED
  BY <1>1, Invariance, PTL DEF Spec, FatalIsTold
=============================================================================
