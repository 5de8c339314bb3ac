----------------------------- MODULE Lifecycle -----------------------------
(***************************************************************************)
(* The life of the packet driver's Tx side: the SDK process that brings it *)
(* up and down with ioctls, ends or is killed at any point and starts      *)
(* again; the net devices that send meanwhile; the TxDone task, which      *)
(* hands done packets to the process; and the removal of the module.       *)
(*                                                                         *)
(* The ring is abstract here: a sequence of packets of which the first     *)
(* "done" are sent (TxRing has its descriptors), as are faults and flow    *)
(* control.  Of a packet only its kind is kept, which selects its          *)
(* callback.  The Rx side comes and goes in the same ioctls and touches    *)
(* none of this (RxRing has its stop).                                     *)
(***************************************************************************)
EXTENDS Naturals, Sequences, FiniteSets

CONSTANTS
    Devices,        \* net devices, one for each port of the table
    NoDevice,
    GpdNum,         \* packets the ring takes
    QueueLen,       \* HAL_DFLT_CFG_PKT_TX_QUEUE_LEN
    UserMax,        \* bound: packets the process has in the driver
    Orderly         \* does the process stop its threads before DEINIT_TASK,
                    \* and wait for them before DEINIT_DRV?

ASSUME LifecycleConstants ==
    /\ NoDevice \notin Devices
    /\ GpdNum \in Nat \ {0} /\ QueueLen \in Nat \ {0} /\ UserMax \in Nat
    /\ Orderly \in BOOLEAN

VARIABLES
    proc,           \* how far the process is
    ctl,            \* the ioctl it is in (or module exit), and its next step
    init_drv, init_task,        \* bits of init_flag
    net_tx_allowed, running,    \* fields of TX_CB_T
    rings, threads, \* how often ring, queue and events, and the TxDone task,
                    \* are allocated
    sending,        \* its sending thread is about to take ring_lock
    free_pc,        \* its thread in WAIT_TX_FREE
    exists, known, awake,   \* devices: registered; in the port table; with a
                            \* queue that is not stopped
    xmit,           \* where each device's net_dev_tx is
    ring, done,     \* packets in the ring, and how many of them are sent
    sw_queue, sync_event,   \* done packets of the process, TX_SYNC
    td_pc, bulk,    \* the TxDone task, pptr_sw_gpd_bulk
    td_left, td_dev,        \* its resumeAllIntf: ports to visit, pointer read
    is_stop, tch_event      \* its thread node's flag and its event

process == << proc, ctl >>
flags   == << init_drv, init_task, net_tx_allowed, running >>
memory  == << rings, threads >>
user    == << sending, free_pc >>
devs    == << exists, known, awake >>
gpds    == << ring, done >>
handoff == << sw_queue, sync_event >>
task    == << td_pc, bulk, td_left, td_dev >>
stop    == << is_stop, tch_event >>
vars    == << process, flags, memory, user, devs, xmit, gpds, handoff, task,
              stop >>

(* "left" are the ports the step has still to visit, if it visits them.     *)
Idle == [job |-> "none", at |-> "idle", left |-> Devices]

(* After module_init: nothing opened yet, all statics zero.                *)
Init ==
    /\ proc = "none" /\ ctl = Idle
    /\ init_drv = FALSE /\ init_task = FALSE
    /\ net_tx_allowed = FALSE /\ running = FALSE
    /\ rings = 0 /\ threads = 0
    /\ sending = FALSE /\ free_pc = "out"
    /\ exists = {} /\ known = {} /\ awake = {}
    /\ xmit = [d \in Devices |-> "idle"]
    /\ ring = << >> /\ done = 0 /\ sw_queue = << >> /\ sync_event = FALSE
    /\ td_pc = "none" /\ bulk = << >> /\ td_left = {} /\ td_dev = NoDevice
    /\ is_stop = FALSE /\ tch_event = FALSE

-----------------------------------------------------------------------------
(* The process (external), and what its open() does.                       *)

(* dev_open: hal_lightning_pkt_init clears the tables unless init_flag     *)
(* tells that they are in use; a device kept from before is in the port    *)
(* table no more then.                                                     *)
Open ==
    /\ proc = "none" /\ ctl = Idle
    /\ proc' = "open"
    /\ IF init_drv \/ init_task
       THEN UNCHANGED << flags, known >>
       ELSE /\ known' = {}
            /\ init_drv' = FALSE /\ init_task' = FALSE
            /\ net_tx_allowed' = FALSE /\ running' = FALSE
    /\ UNCHANGED << ctl, memory, user, exists, awake, xmit, gpds, handoff,
                    task, stop >>

(* The process ends, in order or killed; a kill that comes during an ioctl *)
(* takes effect after it.                                                  *)
End ==
    /\ proc \notin {"none", "dying", "unloaded"} /\ ctl = Idle
    /\ proc' = "dying"
    /\ UNCHANGED << ctl, flags, memory, user, devs, xmit, gpds, handoff,
                    task, stop >>

ThreadsOut == ~sending /\ free_pc = "out"

Dead ==
    /\ proc = "dying" /\ ThreadsOut
    /\ proc' = "none"
    /\ UNCHANGED << ctl, flags, memory, user, devs, xmit, gpds, handoff, task,
                    stop >>

(* The threads are told to make no more calls.                             *)
CloseThreads ==
    /\ proc = "up" /\ ctl = Idle
    /\ proc' = "closing"
    /\ UNCHANGED << ctl, flags, memory, user, devs, xmit, gpds, handoff, task,
                    stop >>

Calling == IF Orderly THEN {"up"} ELSE {"up", "closing", "down"}

(* Mutant: INIT_DRV does not clean up after a process that was killed.     *)
InitDrvUnclean == "alloc"

(* "Since the users may kill SDK application without a de-init flow, we    *)
(* help to detect if NETIF is ever init before, and perform deinit."       *)
InitDrvStep == IF init_drv THEN "stop_first" ELSE "alloc"

(* The order of calls: INIT_DRV before INIT_TASK ("the users cannot        *)
(* perform Task init bypassing Drv init"), DEINIT_TASK before DEINIT_DRV.  *)
(* A warm boot keeps the devices over DEINIT_DRV.                          *)
Call(job) ==
    /\ ctl = Idle
    /\ \/ job = "INIT_DRV" /\ proc \in {"open", "closed"}
       \/ job = "INIT_TASK" /\ proc \in {"drv", "down"}
       \/ job = "DEINIT_TASK" /\ proc = "closing"
       \/ /\ job = "DEINIT_DRV" /\ proc \in {"drv", "down"}
          /\ Orderly => ThreadsOut
       \/ job = "exit" /\ proc = "none"
    /\ ctl' = [job |-> job,
               at |-> CASE job = "INIT_DRV" -> InitDrvStep
                        [] job = "INIT_TASK" ->
                              IF init_task THEN "return" ELSE "create"
                        [] job = "DEINIT_TASK" -> "disallow"
                        [] job = "DEINIT_DRV" ->
                              IF init_drv THEN "free_ring" ELSE "return"
                        [] job = "exit" -> "stop_first",
               left |-> Devices]
    /\ UNCHANGED << proc, flags, memory, user, devs, xmit, gpds, handoff, task,
                    stop >>

Jobs == {"INIT_DRV", "INIT_TASK", "DEINIT_TASK", "DEINIT_DRV", "exit"}

At(step) == ctl.at = step
Goto(step) == ctl' = [job |-> ctl.job, at |-> step, left |-> Devices]

(* Where the process is after an ioctl.                                    *)
Return ==
    /\ At("return")
    /\ ctl' = Idle
    /\ proc' = CASE ctl.job = "INIT_DRV" -> "drv"
                 [] ctl.job = "INIT_TASK" -> "up"
                 [] ctl.job = "DEINIT_TASK" -> "down"
                 [] ctl.job = "DEINIT_DRV" -> "closed"
                 [] ctl.job = "exit" -> "unloaded"
    /\ UNCHANGED << flags, memory, user, devs, xmit, gpds, handoff, task,
                    stop >>

Reload ==
    /\ proc = "unloaded"
    /\ proc' = "none"
    /\ UNCHANGED << ctl, flags, memory, user, devs, xmit, gpds, handoff, task,
                    stop >>

-----------------------------------------------------------------------------
(* The ioctls' steps in the kernel.                                        *)

AfterTask == IF ctl.job = "DEINIT_TASK" THEN "return"
             ELSE IF init_drv THEN "free_ring" ELSE "destroy"
AfterDrv == IF ctl.job = "DEINIT_DRV" THEN "return" ELSE "destroy"
AfterDestroy == IF ctl.job = "exit" THEN "return" ELSE "alloc"

(* stopAllIntf: netif_tx_disable waits for the device's net_dev_tx, which  *)
(* holds the lock of the queue, and stops the queue.                       *)
StopIntf(d) ==
    /\ At("stop_first") \/ At("stop_intf")
    /\ d \in ctl.left /\ (d \in known => xmit[d] = "idle")
    /\ ctl' = [ctl EXCEPT !.left = @ \ {d}]
    /\ awake' = IF d \in known THEN awake \ {d} ELSE awake
    /\ UNCHANGED << proc, flags, memory, user, exists, known, xmit, gpds,
                    handoff, task, stop >>

IntfStopped ==
    /\ At("stop_first") \/ At("stop_intf")
    /\ ctl.left = {}
    /\ Goto(IF At("stop_first") THEN "disallow"
            ELSE IF init_task THEN "end_tx" ELSE AfterTask)
    /\ UNCHANGED << proc, flags, memory, user, devs, xmit, gpds, handoff,
                    task, stop >>

(* Mutant: only the queues are stopped.                                    *)
DisallowNot ==
    /\ At("disallow") /\ Goto("stop_intf")
    /\ UNCHANGED << proc, flags, memory, user, devs, xmit, gpds, handoff, task,
                    stop >>

Disallow ==
    /\ At("disallow") /\ Goto("stop_intf")
    /\ net_tx_allowed' = FALSE
    /\ UNCHANGED << proc, init_drv, init_task, running, memory, user, devs,
                    xmit, gpds, handoff, task, stop >>

(* running = FALSE, then the trigger that makes WAIT_TX_FREE return.       *)
EndTx ==
    /\ At("end_tx") /\ Goto("trigger_tx")
    /\ running' = FALSE
    /\ UNCHANGED << proc, init_drv, init_task, net_tx_allowed, memory, user,
                    devs, xmit, gpds, handoff, task, stop >>

(* Mutant: running is cleared, and nobody woken.                           *)
TriggerTxNot ==
    /\ At("trigger_tx") /\ Goto("stop_task")
    /\ UNCHANGED << proc, flags, memory, user, devs, xmit, gpds, handoff, task,
                    stop >>

TriggerTx ==
    /\ At("trigger_tx") /\ Goto("stop_task")
    /\ sync_event' = TRUE
    /\ UNCHANGED << proc, flags, memory, user, devs, xmit, gpds, sw_queue,
                    task, stop >>

StopTask ==
    /\ At("stop_task") /\ Goto("wake_task")
    /\ is_stop' = TRUE
    /\ UNCHANGED << proc, flags, memory, user, devs, xmit, gpds, handoff,
                    task, tch_event >>

(* Mutant: the task is told to stop, and not woken.                        *)
WakeTaskNot ==
    /\ At("wake_task") /\ Goto("join_task")
    /\ UNCHANGED << proc, flags, memory, user, devs, xmit, gpds, handoff, task,
                    stop >>

WakeTask ==
    /\ At("wake_task") /\ Goto("join_task")
    /\ tch_event' = TRUE
    /\ UNCHANGED << proc, flags, memory, user, devs, xmit, gpds, handoff,
                    task, is_stop >>

(* Mutant: the task is told to stop, and not waited for.                   *)
JoinTaskNot ==
    /\ At("join_task") /\ Goto(AfterTask)
    /\ threads' = threads - 1 /\ init_task' = FALSE
    /\ UNCHANGED << proc, init_drv, net_tx_allowed, running, rings, user,
                    devs, xmit, gpds, handoff, task, stop >>

(* kthread_stop waits until the task is in osal_exitRunThread.             *)
JoinTask ==
    /\ At("join_task") /\ td_pc = "ended" /\ Goto(AfterTask)
    /\ td_pc' = "none" /\ threads' = threads - 1
    /\ init_task' = FALSE
    /\ UNCHANGED << proc, init_drv, net_tx_allowed, running, rings, user,
                    devs, xmit, gpds, handoff, bulk, td_left, td_dev, stop >>

(* deinitTxPdma: what is in the ring is never returned.                    *)
FreeRing ==
    /\ At("free_ring") /\ Goto("free_queue")
    /\ ring' = << >> /\ done' = 0
    /\ UNCHANGED << proc, flags, memory, user, devs, xmit, handoff, task,
                    stop >>

(* The rest of deinitPktTxCb, and deinitPktCb.                             *)
FreeQueue ==
    /\ At("free_queue") /\ Goto(AfterDrv)
    /\ sw_queue' = << >> /\ sync_event' = FALSE /\ tch_event' = FALSE
    /\ rings' = rings - 1 /\ init_drv' = FALSE
    /\ UNCHANGED << proc, init_task, net_tx_allowed, running, threads, user,
                    devs, xmit, gpds, task, is_stop >>

(* destroyAllIntf.                                                         *)
Destroy(d) ==
    /\ At("destroy") /\ d \in ctl.left /\ (d \in known => xmit[d] = "idle")
    /\ ctl' = [ctl EXCEPT !.left = @ \ {d}]
    /\ IF d \in known
       THEN /\ exists' = exists \ {d} /\ known' = known \ {d}
            /\ awake' = awake \ {d}
       ELSE UNCHANGED devs
    /\ UNCHANGED << proc, flags, memory, user, xmit, gpds, handoff, task,
                    stop >>

AllDestroyed ==
    /\ At("destroy") /\ ctl.left = {}
    /\ Goto(AfterDestroy)
    /\ UNCHANGED << proc, flags, memory, user, devs, xmit, gpds, handoff,
                    task, stop >>

(* initPktCb, initPktTxCb: the control blocks are cleared first.           *)
Alloc ==
    /\ At("alloc") /\ Goto("return")
    /\ rings' = rings + 1
    /\ ring' = << >> /\ done' = 0 /\ sw_queue' = << >>
    /\ sync_event' = FALSE /\ tch_event' = FALSE
    /\ init_drv' = TRUE /\ init_task' = FALSE
    /\ net_tx_allowed' = FALSE /\ running' = FALSE
    /\ UNCHANGED << proc, threads, user, devs, xmit, task, is_stop >>

(* The task is created, then Tx is let go.                                 *)
CreateTask ==
    /\ At("create") /\ Goto("resume")
    /\ threads' = threads + 1 /\ td_pc' = "wait" /\ is_stop' = FALSE
    /\ running' = TRUE /\ init_task' = TRUE
    /\ UNCHANGED << proc, init_drv, net_tx_allowed, rings, user, devs, xmit,
                    gpds, handoff, bulk, td_left, td_dev, tch_event >>

Resume ==
    /\ At("resume") /\ Goto("return")
    /\ awake' = awake \cup known
    /\ net_tx_allowed' = TRUE
    /\ UNCHANGED << proc, init_drv, init_task, running, memory, user, exists,
                    known, xmit, gpds, handoff, task, stop >>

(* createIntf; the kernel then opens the device.                           *)
CreateIntf(d) ==
    /\ ctl = Idle /\ proc \in {"drv", "up", "closing", "down"}
    /\ d \notin exists \cup known
    /\ exists' = exists \cup {d} /\ known' = known \cup {d}
    /\ awake' = awake \cup {d}
    /\ UNCHANGED << process, flags, memory, user, xmit, gpds, handoff, task,
                    stop >>

(* destroyIntf: as in destroyAllIntf; ring_lock is not taken.              *)
DestroyIntf(d) ==
    /\ ctl = Idle /\ proc \in {"drv", "up", "closing", "down"}
    /\ d \in known /\ xmit[d] = "idle"
    /\ exists' = exists \ {d} /\ known' = known \ {d} /\ awake' = awake \ {d}
    /\ UNCHANGED << process, flags, memory, user, xmit, gpds, handoff, task,
                    stop >>

-----------------------------------------------------------------------------
(* Senders.                                                                *)

(* net_dev_open or net_dev_tx_timeout: the kernel starts a queue again,    *)
(* whatever the driver wanted with it.                                     *)
NetDevOpen(d) ==
    /\ d \in exists \ awake
    /\ awake' = awake \cup {d}
    /\ UNCHANGED << process, flags, memory, user, exists, known, xmit, gpds,
                    handoff, task, stop >>

(* net_dev_tx looks at net_tx_allowed, sendGpd at init_flag; only then it  *)
(* takes ring_lock.                                                        *)
NetDevTx(d) ==
    /\ d \in awake /\ xmit[d] = "idle"
    /\ xmit' = [xmit EXCEPT ![d] = "check"]
    /\ UNCHANGED << process, flags, memory, user, devs, gpds, handoff, task,
                    stop >>

CheckAllowed(d) ==
    /\ xmit[d] = "check"
    /\ xmit' = [xmit EXCEPT ![d] = IF net_tx_allowed THEN "flag" ELSE "idle"]
    /\ UNCHANGED << process, flags, memory, user, devs, gpds, handoff, task,
                    stop >>

CheckInit(d) ==
    /\ xmit[d] = "flag"
    /\ xmit' = [xmit EXCEPT ![d] = IF init_task THEN "ring" ELSE "idle"]
    /\ UNCHANGED << process, flags, memory, user, devs, gpds, handoff, task,
                    stop >>

(* The TxDone task has ring_lock.                                          *)
Locked == td_pc = "resume"

(* sendGpd under the lock: a packet that finds no room is refused.         *)
Queued(kind) ==
    ring' = IF Len(ring) < GpdNum THEN Append(ring, kind) ELSE ring

NetSend(d) ==
    /\ xmit[d] = "ring" /\ ~Locked
    /\ Queued("net")
    /\ xmit' = [xmit EXCEPT ![d] = "idle"]
    /\ UNCHANGED << process, flags, memory, user, devs, done, handoff, task,
                    stop >>

UserPackets(q) == Cardinality({i \in DOMAIN q : q[i] = "user"})

(* write(): dev_tx, and sendGpd up to its look at init_flag.               *)
DevTx ==
    /\ proc \in Calling /\ ~sending /\ init_task
    /\ UserPackets(ring) + UserPackets(bulk) + Len(sw_queue) < UserMax
    /\ sending' = TRUE
    /\ UNCHANGED << process, flags, memory, free_pc, devs, xmit, gpds,
                    handoff, task, stop >>

DevSend ==
    /\ sending /\ ~Locked
    /\ Queued("user")
    /\ sending' = FALSE
    /\ UNCHANGED << process, flags, memory, free_pc, devs, xmit, done,
                    handoff, task, stop >>

(* The engine (external).                                                  *)
HwDone ==
    /\ done < Len(ring)
    /\ done' = done + 1 /\ tch_event' = TRUE
    /\ UNCHANGED << process, flags, memory, user, devs, xmit, ring, handoff,
                    task, is_stop >>

-----------------------------------------------------------------------------
(* handleTxDoneTask.                                                       *)

TdUnchanged == UNCHANGED << process, flags, memory, user, xmit >>

(* osal_waitEvent, in two steps.                                           *)
TdWake ==
    /\ td_pc = "wait" /\ tch_event /\ td_pc' = "clear"
    /\ TdUnchanged
    /\ UNCHANGED << devs, gpds, handoff, bulk, td_left, td_dev, stop >>

TdClear ==
    /\ td_pc = "clear" /\ td_pc' = "check"
    /\ tch_event' = FALSE
    /\ TdUnchanged
    /\ UNCHANGED << devs, gpds, handoff, bulk, td_left, td_dev, is_stop >>

TdCheck ==
    /\ td_pc = "check"
    /\ td_pc' = IF is_stop THEN "ended" ELSE "lock"
    /\ TdUnchanged
    /\ UNCHANGED << devs, gpds, handoff, bulk, td_left, td_dev, stop >>

(* Under ring_lock: the sent packets are collected ...                     *)
TdReclaim ==
    /\ td_pc = "lock" /\ td_pc' = "resume"
    /\ bulk' = SubSeq(ring, 1, done)
    /\ ring' = SubSeq(ring, done + 1, Len(ring)) /\ done' = 0
    /\ td_left' = Devices
    /\ TdUnchanged
    /\ UNCHANGED << devs, handoff, td_dev, stop >>

(* ... and each net device of the table is woken: the pointer is read ...  *)
TdRead(d) ==
    /\ td_pc = "resume" /\ td_dev = NoDevice /\ d \in td_left
    /\ td_left' = td_left \ {d}
    /\ td_dev' = IF d \in known THEN d ELSE NoDevice
    /\ TdUnchanged
    /\ UNCHANGED << devs, gpds, handoff, td_pc, bulk, stop >>

(* ... and used.  What is written to a device that was freed since then is *)
(* not followed.                                                           *)
TdResume ==
    /\ td_pc = "resume" /\ td_dev # NoDevice
    /\ awake' = awake \cup ({td_dev} \cap exists)
    /\ td_dev' = NoDevice
    /\ TdUnchanged
    /\ UNCHANGED << exists, known, gpds, handoff, td_pc, bulk, td_left, stop >>

TdUnlock ==
    /\ td_pc = "resume" /\ td_dev = NoDevice /\ td_left = {}
    /\ td_pc' = "bulk"
    /\ TdUnchanged
    /\ UNCHANGED << devs, gpds, handoff, bulk, td_left, td_dev, stop >>

(* net_dev_tx_callback frees the buffer.                                   *)
TdFreeNet ==
    /\ td_pc = "bulk" /\ bulk # << >> /\ Head(bulk) = "net"
    /\ bulk' = Tail(bulk)
    /\ TdUnchanged
    /\ UNCHANGED << devs, gpds, handoff, td_pc, td_left, td_dev, stop >>

(* dev_tx_callback: enqueue, tried again until there is room, and trigger. *)
TdEnQueue ==
    /\ td_pc = "bulk" /\ bulk # << >> /\ Head(bulk) = "user"
    /\ Len(sw_queue) < QueueLen
    /\ sw_queue' = Append(sw_queue, Head(bulk)) /\ bulk' = Tail(bulk)
    /\ td_pc' = "trigger"
    /\ TdUnchanged
    /\ UNCHANGED << devs, gpds, sync_event, td_left, td_dev, stop >>

(* Mutant: the packet is enqueued, and nobody woken.                       *)
TdTriggerNot ==
    /\ td_pc = "trigger" /\ td_pc' = "bulk"
    /\ TdUnchanged
    /\ UNCHANGED << devs, gpds, handoff, bulk, td_left, td_dev, stop >>

TdTrigger ==
    /\ td_pc = "trigger" /\ td_pc' = "bulk"
    /\ sync_event' = TRUE
    /\ TdUnchanged
    /\ UNCHANGED << devs, gpds, sw_queue, bulk, td_left, td_dev, stop >>

TdLoop ==
    /\ td_pc = "bulk" /\ bulk = << >>
    /\ td_pc' = IF is_stop THEN "ended" ELSE "wait"
    /\ TdUnchanged
    /\ UNCHANGED << devs, gpds, handoff, bulk, td_left, td_dev, stop >>

-----------------------------------------------------------------------------
(* WAIT_TX_FREE: strictTxDeQueue in a thread of the process.               *)

FreeUnchanged ==
    UNCHANGED << process, flags, memory, sending, devs, xmit, gpds, task, stop >>

WaitTxFree ==
    /\ proc \in Calling /\ free_pc = "out"
    /\ free_pc' = "count"
    /\ UNCHANGED handoff /\ FreeUnchanged

FreeCount ==
    /\ free_pc = "count"
    /\ free_pc' = IF sw_queue = << >> THEN "wait" ELSE "deque"
    /\ UNCHANGED handoff /\ FreeUnchanged

FreeWake ==
    /\ free_pc = "wait" /\ sync_event
    /\ free_pc' = "clear"
    /\ UNCHANGED handoff /\ FreeUnchanged

FreeClear ==
    /\ free_pc = "clear" /\ free_pc' = "check"
    /\ sync_event' = FALSE
    /\ UNCHANGED sw_queue /\ FreeUnchanged

(* The wait is interrupted when the process is killed, and the event not   *)
(* reset.                                                                  *)
FreeInterrupted ==
    /\ free_pc = "wait" /\ proc = "dying"
    /\ free_pc' = "check"
    /\ UNCHANGED handoff /\ FreeUnchanged

(* running and the count are looked at again; "It may happen at last gpd"  *)
(* that there is nothing.                                                  *)
FreeCheck ==
    /\ free_pc = "check"
    /\ free_pc' = IF running /\ sw_queue # << >> THEN "deque" ELSE "out"
    /\ UNCHANGED handoff /\ FreeUnchanged

FreeDeQueue ==
    /\ free_pc = "deque" /\ free_pc' = "out"
    /\ sw_queue' = Tail(sw_queue)
    /\ UNCHANGED sync_event /\ FreeUnchanged

-----------------------------------------------------------------------------
Process == Open \/ End \/ Dead \/ CloseThreads \/ Reload \/ \E j \in Jobs : Call(j)

Ioctl ==
    \/ Return \/ IntfStopped \/ Disallow \/ EndTx \/ TriggerTx \/ StopTask
    \/ WakeTask \/ JoinTask \/ FreeRing \/ FreeQueue \/ AllDestroyed \/ Alloc
    \/ CreateTask \/ Resume

Visit(d) == StopIntf(d) \/ Destroy(d)
Intf(d) == CreateIntf(d) \/ DestroyIntf(d) \/ NetDevOpen(d) \/ NetDevTx(d)
Check(d) == CheckAllowed(d) \/ CheckInit(d)

TxDone ==
    \/ TdWake \/ TdClear \/ TdCheck \/ TdReclaim \/ (\E d \in Devices : TdRead(d))
    \/ TdResume \/ TdUnlock \/ TdFreeNet \/ TdEnQueue \/ TdTrigger \/ TdLoop

FreeStep ==
    \/ FreeCount \/ FreeWake \/ FreeClear \/ FreeInterrupted \/ FreeCheck
    \/ FreeDeQueue

Next ==
    \/ Process \/ Ioctl \/ TxDone \/ HwDone \/ WaitTxFree \/ FreeStep
    \/ DevTx \/ DevSend
    \/ \E d \in Devices : Visit(d) \/ Intf(d) \/ Check(d) \/ NetSend(d)

Spec == Init /\ [][Next]_vars

(* Tasks and ioctls run on; locks are handed out in order (SF); the engine *)
(* sends.  Nothing is assumed of the process and of senders but that a     *)
(* call once made goes on.                                                 *)
FairSpec ==
    /\ Spec
    /\ WF_vars(Ioctl) /\ WF_vars(TxDone) /\ WF_vars(FreeStep) /\ WF_vars(HwDone)
    /\ SF_vars(DevSend)
    /\ \A d \in Devices :
          WF_vars(Check(d)) /\ SF_vars(NetSend(d)) /\ SF_vars(Visit(d))

-----------------------------------------------------------------------------
Steps == {"idle", "stop_first", "disallow", "stop_intf", "end_tx",
          "trigger_tx", "stop_task", "wake_task", "join_task", "free_ring",
          "free_queue", "destroy", "alloc", "create", "resume", "return"}

Kinds == {"net", "user"}

TypeOK ==
    /\ proc \in {"none", "open", "drv", "up", "closing", "down", "closed",
                 "dying", "unloaded"}
    /\ ctl \in [job : Jobs \cup {"none"}, at : Steps, left : SUBSET Devices]
    /\ {init_drv, init_task, net_tx_allowed, running, sending, sync_event,
        is_stop, tch_event} \subseteq BOOLEAN
    /\ rings \in 0 .. 1 /\ threads \in 0 .. 1
    /\ free_pc \in {"out", "count", "wait", "clear", "check", "deque"}
    /\ exists \subseteq Devices /\ known \subseteq Devices
    /\ awake \subseteq exists
    /\ xmit \in [Devices -> {"idle", "check", "flag", "ring"}]
    /\ ring \in Seq(Kinds) /\ done \in 0 .. Len(ring) /\ bulk \in Seq(Kinds)
    /\ sw_queue \in Seq({"user"})
    /\ td_pc \in {"none", "wait", "clear", "check", "lock", "resume", "bulk",
                  "trigger", "ended"}
    /\ td_left \subseteq Devices /\ td_dev \in Devices \cup {NoDevice}

(* Whoever is about to take ring_lock or to touch the ring, the queue or   *)
(* their events finds them allocated: the devices in the port table, the   *)
(* process's threads and the TxDone task.                                  *)
MemoryLives ==
    /\ \A d \in known : xmit[d] = "ring" => rings = 1 /\ ~At("free_queue")
    /\ sending \/ free_pc # "out" => rings = 1 /\ ~At("free_queue")
    /\ td_pc # "none" => rings = 1 /\ ~At("free_queue")

(* createIntf and destroyIntf: "Only Rx tasks are locked since Tx action   *)
(* is performed under a spinlock protection".  The TxDone task would never *)
(* wake a device that has been freed.                                      *)
DevicesLive == td_dev # NoDevice => td_dev \in exists

(* The clean-up after a process that was killed, and that of the module's  *)
(* exit, free no device before the TxDone task has ended.                  *)
CleanUpAlone == At("destroy") => td_pc = "none" /\ td_dev = NoDevice

(* Between ioctls, wherever the process died: the flags tell exactly what  *)
(* is allocated, the port table holds no device that is gone, and of a     *)
(* removed module both say that nothing is left.                           *)
FlagsTell ==
    ctl = Idle =>
        /\ rings = (IF init_drv THEN 1 ELSE 0)
        /\ threads = (IF init_task THEN 1 ELSE 0)
        /\ init_task => init_drv
        /\ known \subseteq exists
        /\ proc = "unloaded" => known = {} /\ ~init_drv

(* "For some specail case in warmboot, the netifs are not destroyed during *)
(* sdk deinit but stopped, here we need to resume them": INIT_TASK resumes *)
(* every device there is.  TLC refutes it: Open may have wiped the table.  *)
KeptResumed == [][Resume => exists \subseteq awake']_vars

(* Every init and deinit returns.                                          *)
IoctlReturns == ctl # Idle ~> ctl = Idle

(* "Make the ... IOCTL from userspace return back": after the end of Tx    *)
(* nobody stays in WAIT_TX_FREE.                                           *)
WaiterReturns == (~running /\ free_pc # "out") ~> free_pc = "out"

(* While the process waits in WAIT_TX_FREE it gets what is done.           *)
DoneHandedOver ==
    (sw_queue # << >> /\ free_pc = "wait") ~> free_pc # "wait"
=============================================================================
