------------------------------- MODULE RxRing -------------------------------
(***************************************************************************)
(* One receive PDMA channel of the Lightning packet driver: the descriptor *)
(* ring with its socket buffers, the RxDone task, the error task, the      *)
(* software queue towards the user process, the ioctl of its receive       *)
(* thread, and the ioctls that start and stop reception.                   *)
(*                                                                         *)
(* The channel's semaphore is held by the RxDone task from RdLock to       *)
(* RdUnlock, across every wait in between; the others hold it for one      *)
(* action.  The queue is a FIFO here: OsalQueue has its memory accesses.   *)
(* A socket buffer is not named, it is counted: "out" is what was          *)
(* allocated and not yet freed.                                            *)
(***************************************************************************)
EXTENDS Integers, Sequences, FiniteSets

CONSTANTS
    GpdNum,        \* descriptors in the ring
    MaxFrag,       \* descriptors a packet needs at most
    QueueLen,      \* capacity of the software queue
    MaxErrBits,    \* error bits one fault sets in the channel's L2 status
    MaxEvents      \* bound: starts of reception and failures together

ASSUME RxConstants ==
    /\ GpdNum \in Nat \ {0} /\ MaxFrag \in Nat \ {0} /\ QueueLen \in Nat \ {0}
    /\ MaxErrBits \in Nat /\ MaxEvents \in Nat

Slots == 0 .. GpdNum - 1

Wrap(i) == IF i >= GpdNum THEN i - GpdNum ELSE i

(* What a descriptor holds: the number of the fragment in its packet and   *)
(* whether it is the last (ch = 0).                                        *)
Positions == 0 .. MaxFrag - 1

Frags == [pos : Positions, last : BOOLEAN]

(* A packet in the software queue: its chain of software GPDs.             *)
Packets == [gpds : Seq(Positions), complete : BOOLEAN]

VARIABLES
    hwo, frag, addr,                  \* HW descriptors: owner, content, buffer?
    hw_run, hw_idx, hw_avail, hw_pos, \* PDMA engine
    cur_idx, err_flag, sema,          \* HAL_LIGHTNING_PKT_RX_PDMA_T
    rd_pc, loop_cnt,                  \* RxDone task
    sw_gpds, rx_complete,             \* ... the packet at ptr_sw_first_gpd
    irq, masked, event,               \* L1 interrupt of the channel, its event
    l2_status, err_todo, err_pc,      \* error bits latched; locals of the error task
    queue, rx_event, running, starts, \* HAL_LIGHTNING_PKT_RX_CB_T
    ctl_pc,                           \* the user's rx-init and rx-deinit ioctls
    usr_pc,                           \* the user's dequeue ioctl
    out,                              \* socket buffers allocated and not freed
    fails                             \* how often memory or net device missed

descs  == << hwo, frag, addr >>
engine == << hw_run, hw_idx, hw_avail, hw_pos >>
task   == << rd_pc, loop_cnt, sw_gpds, rx_complete >>
intr   == << irq, masked, event >>
err_task == << l2_status, err_todo, err_pc >>
cb     == << queue, rx_event, running, starts >>
bufs   == << out, fails >>
vars   == << descs, engine, cur_idx, err_flag, sema, task, intr, err_task, cb,
             ctl_pc, usr_pc, bufs >>

(* What a descriptor held is of no interest once the hardware owns it.     *)
NoFrag == [pos |-> 0, last |-> TRUE]

(* After initRxPdma and initTask.                                          *)
Init ==
    /\ hwo = [s \in Slots |-> "SW"]
    /\ frag = [s \in Slots |-> NoFrag]
    /\ addr = [s \in Slots |-> FALSE]
    /\ hw_run = FALSE /\ hw_idx = 0 /\ hw_avail = 0 /\ hw_pos = 0
    /\ cur_idx = 0 /\ err_flag = FALSE /\ sema = "free"
    /\ rd_pc = "wait" /\ loop_cnt = 0 /\ sw_gpds = << >> /\ rx_complete = TRUE
    /\ irq = FALSE /\ masked = FALSE /\ event = FALSE
    /\ l2_status = 0 /\ err_todo = 0 /\ err_pc = "wait"
    /\ queue = << >> /\ rx_event = FALSE /\ running = FALSE /\ starts = 0
    /\ ctl_pc = "idle" /\ usr_pc = "idle"
    /\ out = 0 /\ fails = 0

-----------------------------------------------------------------------------
(* The ring's buffers.                                                     *)

Mapped == {s \in Slots : addr[s]}

BuffersIn(q) == UNION {{i} \X DOMAIN q[i].gpds : i \in DOMAIN q}

Queued == Cardinality(BuffersIn(queue))

(* Allocated buffers that are nowhere; negative if some were freed twice.  *)
Lost == out - (Cardinality(Mapped) + Len(sw_gpds) + Queued)

(* deinitRxPdmaRingBuf gives every descriptor to the hardware and frees    *)
(* its buffer; it stops after the first descriptor that has none.          *)
Freed    == {s \in Slots : \A t \in 0 .. s : addr[t]}
Visited  == {s \in Slots : \A t \in 0 .. s - 1 : addr[t]}
DeinitOK == Freed = Slots

(* Memory cannot be allocated, or a packet's port has no net device.       *)
Failure == starts + fails < MaxEvents /\ fails' = fails + 1

(* initRxPdmaRingBuf allocates in order; it stops at the first failure.    *)
Allocated(n) == IF n = GpdNum THEN UNCHANGED fails ELSE Failure

(* Mutant: the result of the allocations is not looked at.                 *)
CompleteAny(n) == n \in Nat

Complete(n) == n = GpdNum

StopEngine == hw_run' = FALSE /\ hw_idx' = 0 /\ hw_avail' = 0 /\ hw_pos' = 0

StartEngine == /\ hw_run' = TRUE
               /\ hw_idx' = 0 /\ hw_avail' = GpdNum /\ hw_pos' = 0

-----------------------------------------------------------------------------
(* The PDMA engine and the dispatcher (external, and IntrDispatch).        *)

(* The engine fills the next descriptor with the next fragment.            *)
HwReceive(l) ==
    /\ hw_run /\ hw_avail > 0 /\ hwo[hw_idx] = "HW" /\ addr[hw_idx]
    /\ ~l => hw_pos < MaxFrag - 1
    /\ hwo' = [hwo EXCEPT ![hw_idx] = "SW"]
    /\ frag' = [frag EXCEPT ![hw_idx] = [pos |-> hw_pos, last |-> l]]
    /\ hw_idx' = Wrap(hw_idx + 1)
    /\ hw_avail' = hw_avail - 1
    /\ hw_pos' = IF l THEN 0 ELSE hw_pos + 1
    /\ irq' = TRUE
    /\ UNCHANGED << addr, hw_run, cur_idx, err_flag, sema, task, masked, event,
                    err_task, cb, ctl_pc, usr_pc, bufs >>

(* A fault while there is a descriptor to fill: the engine halts, with one *)
(* or more error bits set in the L2 status, those not read yet among them. *)
HwFault ==
    /\ hw_run /\ hw_avail > 0
    /\ StopEngine
    /\ l2_status' \in 1 .. MaxErrBits /\ l2_status' >= l2_status
    /\ UNCHANGED << descs, cur_idx, err_flag, sema, task, intr, err_todo,
                    err_pc, cb, ctl_pc, usr_pc, bufs >>

Dispatch ==
    /\ irq /\ ~masked
    /\ irq' = FALSE /\ masked' = TRUE /\ event' = TRUE
    /\ UNCHANGED << descs, engine, cur_idx, err_flag, sema, task, err_task, cb,
                    ctl_pc, usr_pc, bufs >>

-----------------------------------------------------------------------------
(* handleErrorTask, handleRxL2Isr, and handleRxErrStat for each error bit. *)

(* Read the L2 status; every error bit in it will be handled in turn.      *)
ErrRead ==
    /\ err_pc = "wait" /\ l2_status > 0
    /\ err_todo' = l2_status
    /\ l2_status' = 0
    /\ err_pc' = "set"
    /\ UNCHANGED << descs, engine, cur_idx, err_flag, sema, task, intr, cb,
                    ctl_pc, usr_pc, bufs >>

ErrSet ==
    /\ err_pc = "set" /\ sema = "free"
    /\ err_flag' = TRUE
    /\ err_pc' = "trigger"
    /\ UNCHANGED << descs, engine, cur_idx, sema, task, intr, l2_status,
                    err_todo, cb, ctl_pc, usr_pc, bufs >>

(* The RxDone task may run before the error task comes to the next bit.    *)
ErrNext ==
    /\ err_pc = "trigger"
    /\ err_todo' = err_todo - 1
    /\ err_pc' = IF err_todo = 1 THEN "wait" ELSE "set"
    /\ UNCHANGED << descs, engine, cur_idx, err_flag, sema, task, irq, masked,
                    l2_status, cb, ctl_pc, usr_pc, bufs >>

(* Mutant: the RxDone task is not triggered.                               *)
ErrTriggerNot == ErrNext /\ UNCHANGED event

ErrTrigger == ErrNext /\ event' = TRUE

-----------------------------------------------------------------------------
(* handleRxDoneTask.                                                       *)

RdMove(from, to) == rd_pc = from /\ rd_pc' = to

(* A whole packet is passed on from the middle of a step of the loop, an   *)
(* incomplete one before the channel is recovered.                         *)
AfterEnQueue == IF rx_complete THEN "resume" ELSE "recover"

RdWake ==
    /\ RdMove("wait", "clear") /\ event
    /\ UNCHANGED << descs, engine, cur_idx, err_flag, sema, loop_cnt, sw_gpds,
                    rx_complete, intr, err_task, cb, ctl_pc, usr_pc, bufs >>

RdClear ==
    /\ RdMove("clear", "check")
    /\ event' = FALSE
    /\ UNCHANGED << descs, engine, cur_idx, err_flag, sema, loop_cnt, sw_gpds,
                    rx_complete, irq, masked, err_task, cb, ctl_pc, usr_pc,
                    bufs >>

(* "check if Rx-system is inited" finds that it is: the first rx-init sets *)
(* the buffer length, it is never 0 again, and no event comes before.      *)
RdLock ==
    /\ RdMove("check", "loop") /\ sema = "free"
    /\ sema' = "task"
    /\ loop_cnt' = GpdNum
    /\ UNCHANGED << descs, engine, cur_idx, err_flag, sw_gpds, rx_complete,
                    intr, err_task, cb, ctl_pc, usr_pc, bufs >>

(* The descriptor at cur_idx joins the list of its packet, gets a new      *)
(* buffer (tried until there is one) and goes back to the hardware.  One   *)
(* without a buffer puts a null buffer into the list.                      *)
RdTake ==
    /\ rd_pc = "loop" /\ loop_cnt > 0 /\ hwo[cur_idx] = "SW"
    /\ sw_gpds' = Append(sw_gpds, frag[cur_idx].pos)
    /\ out' = out + 1
    /\ addr' = [addr EXCEPT ![cur_idx] = TRUE]
    /\ hwo' = [hwo EXCEPT ![cur_idx] = "HW"]
    /\ frag' = [frag EXCEPT ![cur_idx] = NoFrag]
    /\ rx_complete' = TRUE
    /\ rd_pc' \in IF frag[cur_idx].last THEN {"put", "give"} ELSE {"resume"}
    /\ UNCHANGED << engine, cur_idx, err_flag, sema, loop_cnt, intr, err_task,
                    cb, ctl_pc, usr_pc, fails >>

(* rxEnQueue, destination SDK: the packet goes to the user's queue, tried  *)
(* until there is room.                                                    *)
RdPut ==
    /\ RdMove("put", "trigger") /\ Len(queue) < QueueLen
    /\ queue' = Append(queue, [gpds |-> sw_gpds, complete |-> rx_complete])
    /\ sw_gpds' = << >>
    /\ UNCHANGED << descs, engine, cur_idx, err_flag, sema, loop_cnt,
                    rx_complete, intr, err_task, rx_event, running, starts,
                    ctl_pc, usr_pc, bufs >>

(* Mutant: the list goes on after a packet that was not for the user.      *)
RdGiveKeep ==
    /\ RdMove("give", AfterEnQueue)
    /\ out' = out - Len(sw_gpds)
    /\ UNCHANGED << descs, engine, cur_idx, err_flag, sema, loop_cnt, sw_gpds,
                    rx_complete, intr, err_task, cb, ctl_pc, usr_pc, fails >>

(* Any other destination: the network stack, netlink or nowhere, all of   *)
(* which free its buffers.  A packet of several buffers is copied into     *)
(* one; when that cannot be allocated, its last buffer is freed here and   *)
(* handed over all the same.  Of a packet from a port without net device   *)
(* only the last buffer is freed.                                          *)
RdGive ==
    /\ RdMove("give", AfterEnQueue)
    /\ \/ out' = out - Len(sw_gpds) /\ UNCHANGED fails
       \/ /\ Len(sw_gpds) > 1 /\ Failure
          /\ out' \in {out - Len(sw_gpds) - 1, out - 1}
    /\ sw_gpds' = << >>
    /\ UNCHANGED << descs, engine, cur_idx, err_flag, sema, loop_cnt,
                    rx_complete, intr, err_task, cb, ctl_pc, usr_pc >>

(* Mutant: the user's thread is not told of the packet.                    *)
RdTriggerNot ==
    /\ RdMove("trigger", AfterEnQueue)
    /\ UNCHANGED << descs, engine, cur_idx, err_flag, sema, loop_cnt, sw_gpds,
                    rx_complete, intr, err_task, cb, ctl_pc, usr_pc, bufs >>

RdTrigger ==
    /\ RdMove("trigger", AfterEnQueue)
    /\ rx_event' = TRUE
    /\ UNCHANGED << descs, engine, cur_idx, err_flag, sema, loop_cnt, sw_gpds,
                    rx_complete, intr, err_task, queue, running, starts, ctl_pc,
                    usr_pc, bufs >>

(* resumeRxChannelReg announces the descriptor; on to the next one.        *)
RdResume ==
    /\ RdMove("resume", "loop")
    /\ hw_avail' = hw_avail + 1
    /\ cur_idx' = Wrap(cur_idx + 1)
    /\ loop_cnt' = loop_cnt - 1
    /\ UNCHANGED << descs, hw_run, hw_idx, hw_pos, err_flag, sema, sw_gpds,
                    rx_complete, intr, err_task, cb, ctl_pc, usr_pc, bufs >>

(* Mutant: the flag stays.                                                 *)
RepairedNot == StartEngine /\ UNCHANGED err_flag

Repaired == StartEngine /\ err_flag' = FALSE

Broken == loop_cnt > 0 /\ hwo[cur_idx] = "HW" /\ err_flag

(* Breakdown: the packet cut short is passed on, marked incomplete ...     *)
RdIncomplete ==
    /\ rd_pc = "loop" /\ Broken /\ sw_gpds # << >>
    /\ rx_complete' = FALSE
    /\ rd_pc' \in {"put", "give"}
    /\ UNCHANGED << descs, engine, cur_idx, err_flag, sema, loop_cnt, sw_gpds,
                    intr, err_task, cb, ctl_pc, usr_pc, bufs >>

(* ... and recoverRxPdma stops the channel, frees the ring's buffers,      *)
(* allocates n new ones and, if these are all, starts it again.            *)
RdRecover(n) ==
    /\ rd_pc = "recover" \/ (rd_pc = "loop" /\ Broken /\ sw_gpds = << >>)
    /\ rd_pc' = "unlock"
    /\ cur_idx' = 0
    /\ IF DeinitOK
       THEN /\ hwo' = [s \in Slots |-> IF s < n THEN "HW" ELSE "SW"]
            /\ addr' = [s \in Slots |-> s < n]
            /\ out' = out - GpdNum + n
            /\ Allocated(n)
            /\ IF Complete(n) THEN Repaired
               ELSE StopEngine /\ UNCHANGED err_flag
       ELSE /\ hwo' = [s \in Slots |-> IF s \in Visited THEN "HW" ELSE hwo[s]]
            /\ addr' = [s \in Slots |-> addr[s] /\ s \notin Freed]
            /\ out' = out - Cardinality(Freed)
            /\ StopEngine
            /\ UNCHANGED << err_flag, fails >>
    /\ frag' = [s \in Slots |-> IF DeinitOK \/ hwo'[s] = "HW" THEN NoFrag
                                ELSE frag[s]]
    /\ UNCHANGED << sema, loop_cnt, sw_gpds, rx_complete, intr, err_task, cb,
                    ctl_pc, usr_pc >>

(* The hardware is busy, or the whole ring was visited.                    *)
RdLoopEnd ==
    /\ RdMove("loop", "unlock")
    /\ loop_cnt = 0 \/ (hwo[cur_idx] = "HW" /\ ~err_flag)
    /\ UNCHANGED << descs, engine, cur_idx, err_flag, sema, loop_cnt, sw_gpds,
                    rx_complete, intr, err_task, cb, ctl_pc, usr_pc, bufs >>

(* Mutant: the semaphore is not given back.                                *)
RdUnlockNot ==
    /\ RdMove("unlock", "unmask")
    /\ loop_cnt' = 0 /\ rx_complete' = TRUE
    /\ UNCHANGED << descs, engine, cur_idx, err_flag, sema, sw_gpds, intr,
                    err_task, cb, ctl_pc, usr_pc, bufs >>

RdUnlock ==
    /\ RdMove("unlock", "unmask")
    /\ sema' = "free"
    /\ loop_cnt' = 0 /\ rx_complete' = TRUE
    /\ UNCHANGED << descs, engine, cur_idx, err_flag, sw_gpds, intr, err_task,
                    cb, ctl_pc, usr_pc, bufs >>

(* Mutant: the interrupt stays masked.                                     *)
RdUnmaskNot ==
    /\ RdMove("unmask", "wait")
    /\ UNCHANGED << descs, engine, cur_idx, err_flag, sema, loop_cnt, sw_gpds,
                    rx_complete, intr, err_task, cb, ctl_pc, usr_pc, bufs >>

RdUnmask ==
    /\ RdMove("unmask", "wait")
    /\ masked' = FALSE
    /\ UNCHANGED << descs, engine, cur_idx, err_flag, sema, loop_cnt, sw_gpds,
                    rx_complete, irq, event, err_task, cb, ctl_pc, usr_pc, bufs >>

-----------------------------------------------------------------------------
(* setRxKnlConfig, INIT: rxStart.  The outcome of the allocations does not *)
(* keep the channel from being recorded as started.                        *)

StartChannel(n) ==
    /\ ctl_pc = "idle" /\ ~running
    /\ sema = "free"
    /\ hwo' = [s \in Slots |-> IF s < n THEN "HW" ELSE hwo[s]]
    /\ addr' = [s \in Slots |-> s < n \/ addr[s]]
    /\ out' = out + n
    /\ Allocated(n)
    /\ IF Complete(n) THEN cur_idx' = 0 /\ StartEngine
                     ELSE UNCHANGED << cur_idx, engine >>
    /\ starts' = starts + 1 /\ starts' + fails' <= MaxEvents
    /\ ctl_pc' = "enable"
    /\ frag' = [s \in Slots |-> IF s < n THEN NoFrag ELSE frag[s]]
    /\ UNCHANGED << err_flag, sema, task, intr, err_task, queue, rx_event,
                    running, usr_pc >>

StartDone ==
    /\ ctl_pc = "enable" /\ ctl_pc' = "idle"
    /\ running' = TRUE
    /\ UNCHANGED << descs, engine, cur_idx, err_flag, sema, task, intr, err_task,
                    queue, rx_event, starts, usr_pc, bufs >>

(* DEINIT: rxStop.                                                         *)
StopRequest ==
    /\ ctl_pc = "idle" /\ running
    /\ ctl_pc' = "stop"
    /\ UNCHANGED << descs, engine, cur_idx, err_flag, sema, task, intr, err_task,
                    cb, usr_pc, bufs >>

(* Mutant: the buffers are freed, the descriptors keep their owner.        *)
StopChannelOwner ==
    /\ ctl_pc = "stop" /\ sema = "free"
    /\ StopEngine
    /\ addr' = [s \in Slots |-> addr[s] /\ s \notin Freed]
    /\ out' = out - Cardinality(Freed)
    /\ ctl_pc' = "flush"
    /\ UNCHANGED << hwo, frag, cur_idx, err_flag, sema, task, intr, err_task, cb,
                    usr_pc, fails >>

StopChannel ==
    /\ ctl_pc = "stop" /\ sema = "free"
    /\ StopEngine
    /\ hwo' = [s \in Slots |-> IF s \in Visited THEN "HW" ELSE hwo[s]]
    /\ frag' = [s \in Slots |-> IF s \in Visited THEN NoFrag ELSE frag[s]]
    /\ addr' = [s \in Slots |-> addr[s] /\ s \notin Freed]
    /\ out' = out - Cardinality(Freed)
    /\ ctl_pc' = "flush"
    /\ UNCHANGED << cur_idx, err_flag, sema, task, intr, err_task, cb, usr_pc,
                    fails >>

(* Mutant: the software GPDs are freed, their buffers are not.             *)
StopFlushKeep ==
    /\ ctl_pc = "flush" /\ queue # << >>
    /\ queue' = Tail(queue)
    /\ UNCHANGED << descs, engine, cur_idx, err_flag, sema, task, intr, err_task,
                    rx_event, running, starts, ctl_pc, usr_pc, bufs >>

(* flushRxQueue, without the semaphore.                                    *)
StopFlush ==
    /\ ctl_pc = "flush" /\ queue # << >>
    /\ queue' = Tail(queue)
    /\ out' = out - Len(Head(queue).gpds)
    /\ UNCHANGED << descs, engine, cur_idx, err_flag, sema, task, intr, err_task,
                    rx_event, running, starts, ctl_pc, usr_pc, fails >>

StopDisable ==
    /\ ctl_pc = "flush" /\ queue = << >>
    /\ running' = FALSE
    /\ ctl_pc' = "release"
    /\ UNCHANGED << descs, engine, cur_idx, err_flag, sema, task, intr, err_task,
                    queue, rx_event, starts, usr_pc, bufs >>

(* "Return user thread".                                                   *)
StopRelease ==
    /\ ctl_pc = "release" /\ ctl_pc' = "idle"
    /\ rx_event' = TRUE
    /\ UNCHANGED << descs, engine, cur_idx, err_flag, sema, task, intr, err_task,
                    queue, running, starts, usr_pc, bufs >>

-----------------------------------------------------------------------------
(* schedRxDeQueue, for the one queue of this channel.                      *)

UsrMove(from, to) ==
    /\ usr_pc = from /\ usr_pc' = to
    /\ UNCHANGED << descs, engine, cur_idx, err_flag, sema, task, intr, err_task,
                    running, starts, ctl_pc, fails >>

(* The ioctl does nothing unless Rx is running, and waits if nothing came. *)
UsrCall == /\ running
           /\ UsrMove("idle", IF queue = << >> THEN "wait" ELSE "deque")
           /\ UNCHANGED << queue, rx_event, out >>

UsrWake == /\ rx_event
           /\ UsrMove("wait", "clear")
           /\ UNCHANGED << queue, rx_event, out >>

UsrClear == /\ UsrMove("clear", "recount")
            /\ rx_event' = FALSE
            /\ UNCHANGED << queue, out >>

UsrRecount == /\ UsrMove("recount", IF queue = << >> THEN "idle" ELSE "deque")
              /\ UNCHANGED << queue, rx_event, out >>

(* The packet is copied to the user and freed, unless the flush of rxStop  *)
(* has taken it meanwhile.                                                 *)
UsrDeque ==
    /\ UsrMove("deque", "idle")
    /\ UNCHANGED rx_event
    /\ IF queue = << >> THEN UNCHANGED << queue, out >>
       ELSE /\ queue' = Tail(queue)
            /\ out' = out - Len(Head(queue).gpds)

-----------------------------------------------------------------------------
RxDoneTask ==
    \/ RdWake \/ RdClear \/ RdLock \/ RdTake \/ RdPut \/ RdGive
    \/ RdTrigger \/ RdResume \/ RdIncomplete \/ RdLoopEnd \/ RdUnlock
    \/ RdUnmask
    \/ \E n \in 0 .. GpdNum : RdRecover(n)

Stop == StopChannel \/ StopFlush \/ StopDisable \/ StopRelease

Control == \/ \E n \in 0 .. GpdNum : StartChannel(n)
           \/ StartDone \/ StopRequest \/ Stop

User == UsrCall \/ UsrWake \/ UsrClear \/ UsrRecount \/ UsrDeque

Hardware == HwFault \/ \E l \in BOOLEAN : HwReceive(l)

ErrTask == ErrRead \/ ErrSet \/ ErrTrigger

Next == \/ RxDoneTask \/ ErrTask \/ Control \/ User
        \/ Hardware \/ Dispatch

Spec == Init /\ [][Next]_vars

(* Threads run, interrupts are delivered, semaphores are first come first  *)
(* served, an ioctl that was begun goes on; the user need not call again.  *)
FairSpec ==
    /\ Spec
    /\ WF_vars(RxDoneTask) /\ SF_vars(RdLock)
    /\ WF_vars(ErrRead) /\ SF_vars(ErrSet) /\ WF_vars(ErrTrigger)
    /\ WF_vars(Dispatch)
    /\ WF_vars(StartDone) /\ WF_vars(Stop) /\ SF_vars(StopChannel)
    /\ WF_vars(UsrWake \/ UsrClear \/ UsrRecount \/ UsrDeque)

-----------------------------------------------------------------------------
(* PROPERTIES                                                              *)

TypeDescs ==
    /\ hwo \in [Slots -> {"HW", "SW"}] /\ frag \in [Slots -> Frags]
    /\ addr \in [Slots -> BOOLEAN]

TypeIndices ==
    /\ hw_idx \in Slots /\ hw_avail \in 0 .. GpdNum /\ hw_pos \in Positions
    /\ cur_idx \in Slots /\ loop_cnt \in 0 .. GpdNum

TypeFlags ==
    /\ hw_run \in BOOLEAN /\ err_flag \in BOOLEAN /\ rx_complete \in BOOLEAN
    /\ irq \in BOOLEAN /\ masked \in BOOLEAN /\ event \in BOOLEAN
    /\ rx_event \in BOOLEAN /\ running \in BOOLEAN

TypeTasks ==
    /\ sema \in {"free", "task"}
    /\ rd_pc \in {"wait", "clear", "check", "loop", "put", "give", "trigger",
                  "resume", "recover", "unlock", "unmask"}
    /\ err_pc \in {"wait", "set", "trigger"}
    /\ l2_status \in 0 .. MaxErrBits
    /\ err_todo \in IF err_pc = "wait" THEN {0} ELSE 1 .. MaxErrBits
    /\ ctl_pc \in {"idle", "enable", "stop", "flush", "release"}
    /\ usr_pc \in {"idle", "wait", "clear", "recount", "deque"}

TypePackets == sw_gpds \in Seq(Positions) /\ queue \in Seq(Packets)

TypeCounts ==
    starts \in 0 .. MaxEvents /\ fails \in 0 .. MaxEvents /\ out \in Int

TypeOK == /\ TypeDescs /\ TypeIndices /\ TypeFlags /\ TypeTasks
          /\ TypePackets /\ TypeCounts

(* Until something fails, every socket buffer that is allocated is on a    *)
(* descriptor, in the list being built or in the queue: none is lost, none *)
(* is freed twice.                                                         *)
BuffersConserved == fails = 0 => Lost = 0

(* Until something fails, the descriptor that is taken off the ring has a  *)
(* buffer to pass on.                                                      *)
TakesBuffers ==
    /\ fails = 0
    /\ rd_pc = "loop" /\ loop_cnt > 0 /\ hwo[cur_idx] = "SW"
    => addr[cur_idx]

(* Whatever fails, every descriptor that was announced to the running      *)
(* engine, and that it has not filled yet, is its own and has a buffer.    *)
HwHasBuffers ==
    hw_run => \A k \in 0 .. hw_avail - 1 :
                 LET s == Wrap(hw_idx + k) IN hwo[s] = "HW" /\ addr[s]

(* Until reception is started a second time, a packet passed on as         *)
(* complete is the fragments of one packet in order, whatever fails.       *)
WholePackets ==
    starts <= 1 =>
      \A i \in DOMAIN queue :
        \A k \in DOMAIN queue[i].gpds : queue[i].gpds[k] = k - 1

(* With one error bit for a fault, err_flag says that the engine has       *)
(* halted, until reception is started a second time.                       *)
ErrorMeansHalted == starts <= 1 /\ err_flag => ~hw_run

(* handleRxDoneTask, "err_flag=TRUE -> HW breakdown -> enque and recover":  *)
(* only an engine that has halted is recovered, and its packets dropped.   *)
(* TLC refutes it with two error bits: see ErrNext.                        *)
RecoverOnlyHalted ==
    [][(\E n \in 0 .. GpdNum : RdRecover(n)) => ~hw_run]_vars

(* The user's thread makes room again and again.  Nothing in the kernel    *)
(* makes it do so, and the RxDone task holds the semaphore until it does.  *)
RoomComes == []<>(Len(queue) < QueueLen)

(* What the engine has filled is taken off the ring, unless Rx stops or    *)
(* the queue stays full.                                                   *)
FragmentsTaken ==
    RoomComes =>
      \A s \in Slots : hw_run /\ hwo[s] = "SW" ~> hwo[s] = "HW" \/ ~hw_run

(* A user thread that waits gets back when packets come or Rx stops.       *)
UserReturns ==
    usr_pc = "wait" /\ (queue # << >> \/ ~running) ~> usr_pc # "wait"

(* The engine of a channel in use does not stand still for good: a fault,  *)
(* with however many error bits, is repaired, unless Rx stops or the queue *)
(* stays full.                                                             *)
ErrorsRecovered == RoomComes => (running /\ ~hw_run ~> hw_run \/ ~running)

(* rxStop comes back, whatever the tasks do and whether anybody calls the  *)
(* dequeue ioctl or not, unless the queue stays full.  It waits for the    *)
(* semaphore before it gets to its flush, which would make room "since Rx  *)
(* task may be blocked in user space".                                     *)
StopReturns == RoomComes => (ctl_pc = "stop" ~> ctl_pc = "idle")
=============================================================================
