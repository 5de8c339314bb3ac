---------------------------- MODULE IntrDispatch ----------------------------
(***************************************************************************)
(* The interrupts of the Lightning packet driver: the L1 status and mask   *)
(* registers, one source per PDMA channel and one for errors; the L2       *)
(* registers of each channel behind the error source; the dispatcher; the  *)
(* done tasks and the error task with their events.                        *)
(*                                                                         *)
(* The dispatcher runs in the interrupt handler and, when read() of the    *)
(* MDC driver times out, in the process that reads (osal_mdc.c 1685), so   *)
(* there are two of it.  What a task does with its ring is TxRing and      *)
(* RxRing; here it takes what the channel has completed.                   *)
(*                                                                         *)
(* The error source is level triggered: its status bits follow the bits    *)
(* below them that are set and not masked, and clearing a status bit whose *)
(* cause is still there has no effect.  A channel's done bit is latched.   *)
(***************************************************************************)
EXTENDS FiniteSets

CONSTANTS
    Channels, \* PDMA channels, also their sources in the L1 registers
    Err,      \* the error source
    Bits,     \* L2 status bits
    Fatal     \* those handleTxErrStat and handleRxErrStat are called for

NoChannel == "none"

ASSUME IntrConstants ==
    Err \notin Channels /\ NoChannel \notin Channels /\ Fatal \subseteq Bits

Sources == Channels \cup {Err}   \* intr_bitmap

Contexts == {"irq", "poll"}      \* where the dispatcher runs

VARIABLES
    latched, masked,     \* L1: latched done bits; mask
    l2stat, l2masked,    \* L2 status and mask of each channel
    done,                \* channels with completed descriptors
    disp_pc, disp_stat,  \* dispatcher
    event,               \* sources whose event is triggered
    task_pc, err_flag,   \* done tasks
    err_pc, err_stat,    \* error task, what it read of ERR_INT_STAT
    l2_ch, l2_read       \* ... its channel and that one's status

hw    == << latched, masked, l2stat, l2masked, done >>
disp  == << disp_pc, disp_stat >>
tasks == << task_pc, err_flag >>
error == << err_pc, err_stat, l2_ch, l2_read >>
vars  == << hw, disp, event, tasks, error >>

(* ERR_INT_STAT and the L1 status register.                                *)
ErrIntStat == {c \in Channels : l2stat[c] # {} /\ c \notin l2masked}
L1Stat == latched \cup {s \in {Err} : ErrIntStat # {}}

(* After initTask and initL2Isr.                                           *)
Init ==
    /\ latched = {} /\ masked = {}
    /\ l2stat = [c \in Channels |-> {}] /\ l2masked = {} /\ done = {}
    /\ disp_pc = [d \in Contexts |-> "idle"]
    /\ disp_stat = [d \in Contexts |-> {}]
    /\ event = {}
    /\ task_pc = [c \in Channels |-> "wait"] /\ err_flag = {}
    /\ err_pc = "wait" /\ err_stat = {} /\ l2_ch = NoChannel /\ l2_read = {}

-----------------------------------------------------------------------------
(* The chip.                                                               *)

HwDone(c) ==
    /\ c \notin done
    /\ done' = done \cup {c} /\ latched' = latched \cup {c}
    /\ UNCHANGED << masked, l2stat, l2masked, disp, event, tasks, error >>

HwError(c, b) ==
    /\ b \notin l2stat[c]
    /\ l2stat' = [l2stat EXCEPT ![c] = @ \cup {b}]
    /\ UNCHANGED << latched, masked, l2masked, done, disp, event, tasks,
                    error >>

-----------------------------------------------------------------------------
(* The dispatcher.                                                         *)

(* Mask all sources of the driver, read and clear what they signal.        *)
DispTake(d) ==
    /\ disp_pc[d] = "idle"
    /\ d = "irq" => L1Stat \ masked # {}
    /\ masked' = masked \cup Sources
    /\ disp_stat' = [disp_stat EXCEPT ![d] = L1Stat]
    /\ latched' = {}
    /\ disp_pc' = [disp_pc EXCEPT ![d] = "give"]
    /\ UNCHANGED << l2stat, l2masked, done, event, tasks, error >>

(* Trigger the events of the sources that signalled, unmask the others.    *)
DispGive(d) ==
    /\ disp_pc[d] = "give"
    /\ event' = event \cup disp_stat[d]
    /\ masked' = masked \ (Sources \ disp_stat[d])
    /\ disp_pc' = [disp_pc EXCEPT ![d] = "idle"]
    /\ disp_stat' = [disp_stat EXCEPT ![d] = {}]
    /\ UNCHANGED << latched, l2stat, l2masked, done, tasks, error >>

-----------------------------------------------------------------------------
(* The task of a channel.  osal_waitEvent sees the condition first and     *)
(* resets it later.                                                        *)

TaskWake(c) ==
    /\ task_pc[c] = "wait" /\ c \in event
    /\ task_pc' = [task_pc EXCEPT ![c] = "reset"]
    /\ UNCHANGED << hw, disp, event, err_flag, error >>

TaskReset(c) ==
    /\ task_pc[c] = "reset"
    /\ event' = event \ {c}
    /\ task_pc' = [task_pc EXCEPT ![c] = "work"]
    /\ UNCHANGED << hw, disp, err_flag, error >>

(* Takes what is completed, recovers the channel if it broke down.         *)
TaskWork(c) ==
    /\ task_pc[c] = "work"
    /\ done' = done \ {c} /\ err_flag' = err_flag \ {c}
    /\ task_pc' = [task_pc EXCEPT ![c] = "unmask"]
    /\ UNCHANGED << latched, masked, l2stat, l2masked, disp, event, error >>

(* Mutant: the event is reset after the work.                              *)
TaskUnmaskReset(c) ==
    /\ task_pc[c] = "unmask"
    /\ masked' = masked \ {c} /\ event' = event \ {c}
    /\ task_pc' = [task_pc EXCEPT ![c] = "wait"]
    /\ UNCHANGED << latched, l2stat, l2masked, done, disp, err_flag, error >>

(* Mutant: only with something left to do.                                 *)
TaskUnmaskLeft(c) ==
    /\ task_pc[c] = "unmask"
    /\ masked' = IF c \in done THEN masked \ {c} ELSE masked
    /\ task_pc' = [task_pc EXCEPT ![c] = "wait"]
    /\ UNCHANGED << latched, l2stat, l2masked, done, disp, event, err_flag,
                    error >>

TaskUnmask(c) ==
    /\ task_pc[c] = "unmask"
    /\ masked' = masked \ {c}
    /\ task_pc' = [task_pc EXCEPT ![c] = "wait"]
    /\ UNCHANGED << latched, l2stat, l2masked, done, disp, event, err_flag,
                    error >>

-----------------------------------------------------------------------------
(* The error task.                                                         *)

ErrWake ==
    /\ err_pc = "wait" /\ Err \in event
    /\ err_pc' = "reset"
    /\ UNCHANGED << hw, disp, event, tasks, err_stat, l2_ch, l2_read >>

ErrReset ==
    /\ err_pc = "reset"
    /\ event' = event \ {Err}
    /\ err_pc' = "read"
    /\ UNCHANGED << hw, disp, tasks, err_stat, l2_ch, l2_read >>

(* With nothing in ERR_INT_STAT the source is left as it is.               *)
ErrRead ==
    /\ err_pc = "read"
    /\ err_stat' = ErrIntStat
    /\ err_pc' = IF err_stat' = {} THEN "wait" ELSE "l2"
    /\ UNCHANGED << hw, disp, event, tasks, l2_ch, l2_read >>

(* handleTxL2Isr, handleRxL2Isr: read the status, mask the channel (and    *)
(* leave it so if there was none), ...                                     *)
L2Read(c) ==
    /\ err_pc = "l2" /\ c \in err_stat
    /\ err_stat' = err_stat \ {c}
    /\ l2_read' = l2stat[c] /\ l2masked' = l2masked \cup {c}
    /\ IF l2stat[c] # {}
       THEN l2_ch' = c /\ err_pc' = "l2_bits"
       ELSE /\ l2_ch' = NoChannel
            /\ err_pc' = IF err_stat' = {} THEN "unmask" ELSE "l2"
    /\ UNCHANGED << latched, masked, l2stat, done, disp, event, tasks >>

(* Mutant: clears all bits with the first.                                 *)
L2BitAll(b) ==
    /\ err_pc = "l2_bits" /\ b \in l2_read
    /\ l2stat' = [l2stat EXCEPT ![l2_ch] = {}]
    /\ l2_read' = l2_read \ {b}
    /\ IF b \in Fatal
       THEN err_flag' = err_flag \cup {l2_ch} /\ event' = event \cup {l2_ch}
       ELSE UNCHANGED << err_flag, event >>
    /\ UNCHANGED << latched, masked, l2masked, done, disp, task_pc, err_pc,
                    err_stat, l2_ch >>

(* ... clear the bits that were read, one after another, and tell the      *)
(* channel's task of a fatal one ...                                       *)
L2Bit(b) ==
    /\ err_pc = "l2_bits" /\ b \in l2_read
    /\ l2stat' = [l2stat EXCEPT ![l2_ch] = @ \ {b}]
    /\ l2_read' = l2_read \ {b}
    /\ IF b \in Fatal
       THEN err_flag' = err_flag \cup {l2_ch} /\ event' = event \cup {l2_ch}
       ELSE UNCHANGED << err_flag, event >>
    /\ UNCHANGED << latched, masked, l2masked, done, disp, task_pc, err_pc,
                    err_stat, l2_ch >>

(* Mutant: not for a channel that broke down.                              *)
L2UnmaskSound ==
    /\ err_pc = "l2_bits" /\ l2_read = {}
    /\ l2masked' = IF l2_ch \in err_flag THEN l2masked ELSE l2masked \ {l2_ch}
    /\ l2_ch' = NoChannel
    /\ err_pc' = IF err_stat = {} THEN "unmask" ELSE "l2"
    /\ UNCHANGED << latched, masked, l2stat, done, disp, event, tasks,
                    err_stat, l2_read >>

(* ... and unmask it.                                                      *)
L2Unmask ==
    /\ err_pc = "l2_bits" /\ l2_read = {}
    /\ l2masked' = l2masked \ {l2_ch}
    /\ l2_ch' = NoChannel
    /\ err_pc' = IF err_stat = {} THEN "unmask" ELSE "l2"
    /\ UNCHANGED << latched, masked, l2stat, done, disp, event, tasks,
                    err_stat, l2_read >>

(* Mutant: only if no channel signals any more.                            *)
ErrUnmaskQuiet ==
    /\ err_pc = "unmask"
    /\ masked' = IF ErrIntStat = {} THEN masked \ {Err} ELSE masked
    /\ err_pc' = "wait"
    /\ UNCHANGED << latched, l2stat, l2masked, done, disp, event, tasks,
                    err_stat, l2_ch, l2_read >>

(* The write to ERR_INT_CLR has no effect on a level; then unmask.         *)
ErrUnmask ==
    /\ err_pc = "unmask"
    /\ masked' = masked \ {Err}
    /\ err_pc' = "wait"
    /\ UNCHANGED << latched, l2stat, l2masked, done, disp, event, tasks,
                    err_stat, l2_ch, l2_read >>

-----------------------------------------------------------------------------
Chip ==
    \E c \in Channels : HwDone(c) \/ \E b \in Bits : HwError(c, b)

Dispatcher(d) == DispTake(d) \/ DispGive(d)

Task(c) == TaskWake(c) \/ TaskReset(c) \/ TaskWork(c) \/ TaskUnmask(c)

ErrorTask ==
    \/ ErrWake \/ ErrReset \/ ErrRead \/ ErrUnmask
    \/ \E c \in Channels : L2Read(c)
    \/ (\E b \in Bits : L2Bit(b)) \/ L2Unmask

Next ==
    \/ Chip
    \/ \E d \in Contexts : Dispatcher(d)
    \/ \E c \in Channels : Task(c)
    \/ ErrorTask

Spec == Init /\ [][Next]_vars

(* Interrupts are delivered, a dispatcher that was begun goes on, the      *)
(* kernel threads run.  The poll need not happen, nor anything of the chip.*)
FairSpec ==
    /\ Spec
    /\ WF_vars(Dispatcher("irq"))
    /\ WF_vars(DispGive("poll"))
    /\ \A c \in Channels : WF_vars(Task(c))
    /\ WF_vars(ErrorTask)

-----------------------------------------------------------------------------
(* One type for each variable.                                             *)
TypeOK ==
    /\ latched \subseteq Channels
    /\ masked \subseteq Sources
    /\ l2stat \in [Channels -> SUBSET Bits] /\ l2masked \subseteq Channels
    /\ done \subseteq Channels /\ err_flag \subseteq Channels
    /\ disp_pc \in [Contexts -> {"idle", "give"}]
    /\ disp_stat \in [Contexts -> SUBSET Sources]
    /\ event \subseteq Sources
    /\ task_pc \in [Channels -> {"wait", "reset", "work", "unmask"}]
    /\ err_pc \in {"wait", "reset", "read", "l2", "l2_bits", "unmask"}
    /\ err_stat \subseteq Channels /\ l2_ch \in Channels \cup {NoChannel}
    /\ l2_read \subseteq Bits

Dispatched == \E d \in Contexts : disp_pc[d] = "give"

(* Whatever the two dispatchers, the tasks and the chip do to the one mask *)
(* register, a source that is masked has somebody on the way to unmask it: *)
(* a dispatcher, or its task.                                              *)
MaskedMeansPending ==
    /\ \A c \in Channels \cap masked :
        Dispatched \/ c \in event \/ task_pc[c] # "wait"
    /\ Err \in masked => Dispatched \/ Err \in event \/ err_pc # "wait"

(* A channel's L2 interrupts are masked only while the error task is at it.*)
L2MaskedMeansBusy == l2masked \subseteq {l2_ch}

(* What a channel completes is taken, though the dispatcher unmasks it     *)
(* while its task is still at work and triggers are swallowed meanwhile.   *)
CompletionsTaken == \A c \in Channels : c \in done ~> c \notin done

(* Every error bit is seen by the error task, also one that comes while it *)
(* handles an earlier one of the same channel.                             *)
ErrorsSeen == \A c \in Channels, b \in Bits : b \in l2stat[c] ~> b \notin l2stat[c]

(* A fatal bit is cleared only by telling the channel's task.              *)
FatalIsTold ==
    [][\A c \in Channels : \A b \in Fatal \cap l2stat[c] :
          b \notin l2stat'[c] => c \in err_flag' /\ c \in event']_vars
=============================================================================
