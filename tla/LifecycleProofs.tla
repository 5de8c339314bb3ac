-------------------------- MODULE LifecycleProofs --------------------------
(***************************************************************************)
(* Proofs about Lifecycle, for any set of devices and any size of ring and *)
(* queue.                                                                  *)
(*                                                                         *)
(* The state properties are not inductive.  Inv lists where each step of   *)
(* an ioctl belongs (JobInv), what the flags are there (FlagInv), what is  *)
(* allocated (MemInv) and what the port table holds (TableInv); it holds   *)
(* whatever the process does.  That a sender past its checks finds its     *)
(* memory depends on more: which devices may still send (DevInv), and that *)
(* the process's own threads come and go between the ioctls (UserInv).     *)
(* The latter rests on an orderly process, which stops its threads before  *)
(* it deinitialises.                                                       *)
(***************************************************************************)
EXTENDS Lifecycle, TLAPS

-----------------------------------------------------------------------------
(* The inductive invariants.                                               *)

(* What of TypeOK it rests on.                                             *)
CoreType ==
    /\ ctl \in [job : Jobs \cup {"none"}, at : Steps, left : SUBSET Devices]
    /\ exists \subseteq Devices /\ known \subseteq Devices
    /\ xmit \in [Devices -> {"idle", "check", "flag", "ring"}]
    /\ td_dev \in Devices \cup {NoDevice}

(* Which steps belong to which ioctl, and where the process is meanwhile.  *)
CleanSteps == {"stop_first", "destroy"}
TaskSteps == {"disallow", "stop_intf", "end_tx", "trigger_tx", "stop_task",
              "wake_task", "join_task"}
DrvSteps == {"free_ring", "free_queue"}

JobInv ==
    /\ ctl.at = "idle" <=> ctl.job = "none"
    /\ ctl.at = "idle" => ctl.left = Devices
    /\ ctl.at \in CleanSteps => ctl.job \in {"INIT_DRV", "exit"}
    /\ ctl.at \in TaskSteps => ctl.job \in {"INIT_DRV", "exit", "DEINIT_TASK"}
    /\ ctl.at \in DrvSteps => ctl.job \in {"INIT_DRV", "exit", "DEINIT_DRV"}
    /\ ctl.at = "alloc" => ctl.job = "INIT_DRV"
    /\ ctl.at \in {"create", "resume"} => ctl.job = "INIT_TASK"
    /\ ctl.job = "INIT_DRV" => proc \in {"open", "closed"}
    /\ ctl.job = "INIT_TASK" => proc \in {"drv", "down"}
    /\ ctl.job = "DEINIT_TASK" => proc = "closing"
    /\ ctl.job = "DEINIT_DRV" => proc \in {"drv", "down"}
    /\ ctl.job = "exit" => proc = "none"

(* What init_flag is at each step, and after it.                           *)
FlagInv ==
    /\ init_task => init_drv
    /\ ctl.at \in {"end_tx", "trigger_tx", "stop_task", "wake_task",
                   "join_task", "resume"} => init_task
    /\ ctl.at \in DrvSteps \cup {"create"} => init_drv /\ ~init_task
    /\ ctl.at \in {"destroy", "alloc"} => ~init_drv
    /\ ctl.job = "none" =>
          /\ proc \in {"drv", "down"} => init_drv /\ ~init_task
          /\ proc \in {"up", "closing"} => init_task
          /\ proc = "unloaded" => ~init_drv
    /\ ctl.job = "DEINIT_TASK" => init_drv
    /\ ctl.job = "INIT_TASK" => init_drv
    /\ ctl.at = "return" =>
          /\ ctl.job = "INIT_DRV" => init_drv /\ ~init_task
          /\ ctl.job = "INIT_TASK" => init_task
          /\ ctl.job = "DEINIT_TASK" => ~init_task
          /\ ctl.job \in {"DEINIT_DRV", "exit"} => ~init_drv

MemInv ==
    /\ rings = (IF init_drv THEN 1 ELSE 0)
    /\ threads = (IF init_task THEN 1 ELSE 0)
    /\ td_pc = "none" <=> ~init_task
    /\ td_dev # NoDevice => td_pc = "resume"

TableInv ==
    /\ known \subseteq exists
    /\ ctl.at = "destroy" => known \subseteq ctl.left
    /\ ctl.at = "return" /\ ctl.job = "exit" => known = {}
    /\ proc = "unloaded" => known = {}

Inv == CoreType /\ JobInv /\ FlagInv /\ MemInv /\ TableInv

(* A device is not freed while it sends.  One of the table gets past its   *)
(* checks only while a task is there, and is past them only for a short    *)
(* time after net_tx_allowed was cleared, until stopAllIntf gets to it.    *)
DevInv ==
    /\ awake \subseteq exists
    /\ net_tx_allowed => init_task /\ ctl.at \in {"idle", "stop_first", "disallow", "return"}
    /\ \A d \in Devices : xmit[d] # "idle" => d \in exists
    /\ \A d \in known :
          xmit[d] \in {"flag", "ring"} =>
             /\ init_task
             /\ net_tx_allowed \/ (ctl.at = "stop_intf" /\ d \in ctl.left)

UserInv ==
    sending \/ free_pc # "out" =>
        /\ proc \in {"up", "closing", "down", "dying"}
        /\ ctl.job \in {"none", "DEINIT_TASK", "INIT_TASK"}
        /\ init_drv

SendersInv == DevInv /\ UserInv

USE LifecycleConstants
    DEF process, flags, memory, user, devs, gpds, handoff, task, stop,
        Inv, CoreType, JobInv, FlagInv, MemInv, TableInv,
        CleanSteps, TaskSteps, DrvSteps, Jobs, Steps, Idle, At, Goto

-----------------------------------------------------------------------------
(* Inv holds after module_init and is kept by every action.                *)

LEMMA InitInv == Init => Inv
  BY DEF Init

(* The process opens, calls, ends and comes back.                          *)
LEMMA ProcessInv == ASSUME Inv, Process PROVE Inv'
<1>1. CASE Open
  BY <1>1, SMTT(20) DEF Open
<1>2. CASE End
  BY <1>2, SMTT(20) DEF End
<1>3. CASE Dead
  BY <1>3, SMTT(20) DEF Dead, ThreadsOut
<1>4. CASE CloseThreads
  BY <1>4, SMTT(20) DEF CloseThreads
<1>5. CASE Reload
  BY <1>5, SMTT(20) DEF Reload
<1>6. ASSUME NEW j \in Jobs, Call(j) PROVE Inv'
  BY <1>6, SMTT(20) DEF Call, InitDrvStep, ThreadsOut
<1>7. QED  BY <1>1, <1>2, <1>3, <1>4, <1>5, <1>6 DEF Process

(* The steps of the ioctls.                                                *)
LEMMA IoctlInv == ASSUME Inv, Ioctl PROVE Inv'
<1> USE DEF AfterTask, AfterDrv, AfterDestroy
<1>1. CASE Return
  BY <1>1, SMTT(20) DEF Return
<1>2. CASE IntfStopped
  BY <1>2, SMTT(20) DEF IntfStopped
<1>3. CASE Disallow
  BY <1>3, SMTT(20) DEF Disallow
<1>4. CASE EndTx
  BY <1>4, SMTT(20) DEF EndTx
<1>5. CASE TriggerTx
  BY <1>5, SMTT(20) DEF TriggerTx
<1>6. CASE StopTask
  BY <1>6, SMTT(20) DEF StopTask
<1>7. CASE WakeTask
  BY <1>7, SMTT(20) DEF WakeTask
<1>8. CASE JoinTask
  BY <1>8, SMTT(20) DEF JoinTask
<1>9. CASE FreeRing
  BY <1>9, SMTT(20) DEF FreeRing
<1>10. CASE FreeQueue
  BY <1>10, SMTT(20) DEF FreeQueue
<1>11. CASE AllDestroyed
  BY <1>11, SMTT(20) DEF AllDestroyed
<1>12. CASE Alloc
  BY <1>12, SMTT(20) DEF Alloc
<1>13. CASE CreateTask
  BY <1>13, SMTT(20) DEF CreateTask
<1>14. CASE Resume
  BY <1>14, SMTT(20) DEF Resume
<1>15. QED  BY <1>1, <1>2, <1>3, <1>4, <1>5, <1>6, <1>7, <1>8, <1>9, <1>10,
    <1>11, <1>12, <1>13, <1>14 DEF Ioctl

(* The steps that visit the port table, and the interfaces.                *)
LEMMA IntfInv == ASSUME Inv, NEW d \in Devices, Visit(d) \/ Intf(d) PROVE Inv'
<1>1. CASE StopIntf(d)
  BY <1>1, SMTT(20) DEF StopIntf
<1>2. CASE Destroy(d)
  BY <1>2, SMTT(20) DEF Destroy
<1>3. CASE CreateIntf(d)
  BY <1>3, SMTT(20) DEF CreateIntf
<1>4. CASE DestroyIntf(d)
  BY <1>4, SMTT(20) DEF DestroyIntf
<1>5. CASE NetDevOpen(d)
  BY <1>5, SMTT(20) DEF NetDevOpen
<1>6. CASE NetDevTx(d)
  BY <1>6, SMTT(20) DEF NetDevTx
<1>7. QED  BY <1>1, <1>2, <1>3, <1>4, <1>5, <1>6 DEF Visit, Intf

(* A net device on its way into the ring.                                  *)
LEMMA SendInv == ASSUME Inv, NEW d \in Devices, Check(d) \/ NetSend(d) PROVE Inv'
<1>1. CASE CheckAllowed(d)
  BY <1>1, SMTT(20) DEF CheckAllowed
<1>2. CASE CheckInit(d)
  BY <1>2, SMTT(20) DEF CheckInit
<1>3. CASE NetSend(d)
  BY <1>3, SMTT(20) DEF NetSend
<1>4. QED  BY <1>1, <1>2, <1>3 DEF Check

(* The TxDone task.                                                        *)
LEMMA TaskInv == ASSUME Inv, TxDone PROVE Inv'
<1> USE DEF TdUnchanged
<1>1. CASE TdWake
  BY <1>1, SMTT(20) DEF TdWake
<1>2. CASE TdClear
  BY <1>2, SMTT(20) DEF TdClear
<1>3. CASE TdCheck
  BY <1>3, SMTT(20) DEF TdCheck
<1>4. CASE TdReclaim
  BY <1>4, SMTT(20) DEF TdReclaim
<1>5. ASSUME NEW d \in Devices, TdRead(d) PROVE Inv'
  BY <1>5, SMTT(20) DEF TdRead
<1>6. CASE TdResume
  BY <1>6, SMTT(20) DEF TdResume
<1>7. CASE TdUnlock
  BY <1>7, SMTT(20) DEF TdUnlock
<1>8. CASE TdFreeNet
  BY <1>8, SMTT(20) DEF TdFreeNet
<1>9. CASE TdEnQueue
  BY <1>9, SMTT(20) DEF TdEnQueue
<1>10. CASE TdTrigger
  BY <1>10, SMTT(20) DEF TdTrigger
<1>11. CASE TdLoop
  BY <1>11, SMTT(20) DEF TdLoop
<1>12. QED  BY <1>1, <1>2, <1>3, <1>4, <1>5, <1>6, <1>7, <1>8, <1>9, <1>10,
    <1>11 DEF TxDone

(* The process's threads, and the engine.                                  *)
LEMMA UserThreadInv == ASSUME Inv, WaitTxFree \/ FreeStep \/ DevTx \/ DevSend \/ HwDone PROVE Inv'
<1> USE DEF FreeUnchanged, Calling
<1>1. CASE WaitTxFree
  BY <1>1, SMTT(20) DEF WaitTxFree
<1>2. CASE FreeCount
  BY <1>2, SMTT(20) DEF FreeCount
<1>3. CASE FreeWake
  BY <1>3, SMTT(20) DEF FreeWake
<1>4. CASE FreeClear
  BY <1>4, SMTT(20) DEF FreeClear
<1>5. CASE FreeInterrupted
  BY <1>5, SMTT(20) DEF FreeInterrupted
<1>6. CASE FreeCheck
  BY <1>6, SMTT(20) DEF FreeCheck
<1>7. CASE FreeDeQueue
  BY <1>7, SMTT(20) DEF FreeDeQueue
<1>8. CASE DevTx
  BY <1>8, SMTT(20) DEF DevTx
<1>9. CASE DevSend
  BY <1>9, SMTT(20) DEF DevSend
<1>10. CASE HwDone
  BY <1>10, SMTT(20) DEF HwDone
<1>11. QED  BY <1>1, <1>2, <1>3, <1>4, <1>5, <1>6, <1>7, <1>8, <1>9, <1>10
    DEF FreeStep

LEMMA NextInv == Inv /\ [Next]_vars => Inv'
<1> SUFFICES ASSUME Inv, [Next]_vars PROVE Inv'
  OBVIOUS
<1>1. CASE UNCHANGED vars
  BY <1>1 DEF vars
<1>2. CASE Next
  BY <1>2, ProcessInv, IoctlInv, IntfInv, SendInv, TaskInv, UserThreadInv
  DEF Next
<1>3. QED  BY <1>1, <1>2
HIDE DEF Inv

(* Inv always holds, whatever the sizes and whatever the process does.     *)
THEOREM Invariance == Spec => []Inv
BY InitInv, NextInv, PTL DEF Spec

-----------------------------------------------------------------------------
(* SendersInv is kept by every action of an orderly process.               *)

USE DEF Inv, SendersInv, DevInv, UserInv

LEMMA SendersInit == Init => SendersInv
  BY DEF Init

(* The process opens, calls, ends and comes back.                          *)
LEMMA SendersProcess == ASSUME Orderly, Inv, SendersInv, Process PROVE SendersInv'
<1>1. CASE Open
  BY <1>1, SMTT(20) DEF Open
<1>2. CASE End
  BY <1>2, SMTT(20) DEF End
<1>3. CASE Dead
  BY <1>3, SMTT(20) DEF Dead, ThreadsOut
<1>4. CASE CloseThreads
  BY <1>4, SMTT(20) DEF CloseThreads
<1>5. CASE Reload
  BY <1>5, SMTT(20) DEF Reload
<1>6. ASSUME NEW j \in Jobs, Call(j) PROVE SendersInv'
  BY <1>6, SMTT(20) DEF Call, InitDrvStep, ThreadsOut
<1>7. QED  BY <1>1, <1>2, <1>3, <1>4, <1>5, <1>6 DEF Process

(* The steps of the ioctls: DEINIT_TASK lets the last sender out before it *)
(* ends the task, DEINIT_DRV frees what nobody is at any more.             *)
LEMMA SendersIoctl == ASSUME Orderly, Inv, SendersInv, Ioctl PROVE SendersInv'
<1> USE DEF AfterTask, AfterDrv, AfterDestroy
<1>1. CASE Return
  BY <1>1, SMTT(20) DEF Return
<1>2. CASE IntfStopped
  BY <1>2, SMTT(20) DEF IntfStopped
<1>3. CASE Disallow
  BY <1>3, SMTT(20) DEF Disallow
<1>4. CASE EndTx
  BY <1>4, SMTT(20) DEF EndTx
<1>5. CASE TriggerTx
  BY <1>5, SMTT(20) DEF TriggerTx
<1>6. CASE StopTask
  BY <1>6, SMTT(20) DEF StopTask
<1>7. CASE WakeTask
  BY <1>7, SMTT(20) DEF WakeTask
<1>8. CASE JoinTask
  BY <1>8, SMTT(20) DEF JoinTask
<1>9. CASE FreeRing
  BY <1>9, SMTT(20) DEF FreeRing
<1>10. CASE FreeQueue
  BY <1>10, SMTT(20) DEF FreeQueue
<1>11. CASE AllDestroyed
  BY <1>11, SMTT(20) DEF AllDestroyed
<1>12. CASE Alloc
  BY <1>12, SMTT(20) DEF Alloc
<1>13. CASE CreateTask
  BY <1>13, SMTT(20) DEF CreateTask
<1>14. CASE Resume
  BY <1>14, SMTT(20) DEF Resume
<1>15. QED  BY <1>1, <1>2, <1>3, <1>4, <1>5, <1>6, <1>7, <1>8, <1>9, <1>10,
    <1>11, <1>12, <1>13, <1>14 DEF Ioctl

(* The steps that visit the port table, and the interfaces.                *)
LEMMA SendersIntf == ASSUME Orderly, Inv, SendersInv, NEW d \in Devices, Visit(d) \/ Intf(d) PROVE SendersInv'
<1>1. CASE StopIntf(d)
  BY <1>1, SMTT(20) DEF StopIntf
<1>2. CASE Destroy(d)
  BY <1>2, SMTT(20) DEF Destroy
<1>3. CASE CreateIntf(d)
  BY <1>3, SMTT(20) DEF CreateIntf
<1>4. CASE DestroyIntf(d)
  BY <1>4, SMTT(20) DEF DestroyIntf
<1>5. CASE NetDevOpen(d)
  BY <1>5, SMTT(20) DEF NetDevOpen
<1>6. CASE NetDevTx(d)
  BY <1>6, SMTT(20) DEF NetDevTx
<1>7. QED  BY <1>1, <1>2, <1>3, <1>4, <1>5, <1>6 DEF Visit, Intf

(* A net device on its way into the ring.                                  *)
LEMMA SendersSend == ASSUME Orderly, Inv, SendersInv, NEW d \in Devices, Check(d) \/ NetSend(d) PROVE SendersInv'
<1>1. CASE CheckAllowed(d)
  BY <1>1, SMTT(20) DEF CheckAllowed
<1>2. CASE CheckInit(d)
  BY <1>2, SMTT(20) DEF CheckInit
<1>3. CASE NetSend(d)
  BY <1>3, SMTT(20) DEF NetSend
<1>4. QED  BY <1>1, <1>2, <1>3 DEF Check

(* The TxDone task.                                                        *)
LEMMA SendersTask == ASSUME Orderly, Inv, SendersInv, TxDone PROVE SendersInv'
<1> USE DEF TdUnchanged
<1>1. CASE TdWake
  BY <1>1, SMTT(20) DEF TdWake
<1>2. CASE TdClear
  BY <1>2, SMTT(20) DEF TdClear
<1>3. CASE TdCheck
  BY <1>3, SMTT(20) DEF TdCheck
<1>4. CASE TdReclaim
  BY <1>4, SMTT(20) DEF TdReclaim
<1>5. ASSUME NEW d \in Devices, TdRead(d) PROVE SendersInv'
  BY <1>5, SMTT(20) DEF TdRead
<1>6. CASE TdResume
  BY <1>6, SMTT(20) DEF TdResume
<1>7. CASE TdUnlock
  BY <1>7, SMTT(20) DEF TdUnlock
<1>8. CASE TdFreeNet
  BY <1>8, SMTT(20) DEF TdFreeNet
<1>9. CASE TdEnQueue
  BY <1>9, SMTT(20) DEF TdEnQueue
<1>10. CASE TdTrigger
  BY <1>10, SMTT(20) DEF TdTrigger
<1>11. CASE TdLoop
  BY <1>11, SMTT(20) DEF TdLoop
<1>12. QED  BY <1>1, <1>2, <1>3, <1>4, <1>5, <1>6, <1>7, <1>8, <1>9, <1>10,
    <1>11 DEF TxDone

(* The process's threads, and the engine.                                  *)
LEMMA SendersUserThread == ASSUME Orderly, Inv, SendersInv, WaitTxFree \/ FreeStep \/ DevTx \/ DevSend \/ HwDone PROVE SendersInv'
<1> USE DEF FreeUnchanged, Calling
<1>1. CASE WaitTxFree
  BY <1>1, SMTT(20) DEF WaitTxFree
<1>2. CASE FreeCount
  BY <1>2, SMTT(20) DEF FreeCount
<1>3. CASE FreeWake
  BY <1>3, SMTT(20) DEF FreeWake
<1>4. CASE FreeClear
  BY <1>4, SMTT(20) DEF FreeClear
<1>5. CASE FreeInterrupted
  BY <1>5, SMTT(20) DEF FreeInterrupted
<1>6. CASE FreeCheck
  BY <1>6, SMTT(20) DEF FreeCheck
<1>7. CASE FreeDeQueue
  BY <1>7, SMTT(20) DEF FreeDeQueue
<1>8. CASE DevTx
  BY <1>8, SMTT(20) DEF DevTx
<1>9. CASE DevSend
  BY <1>9, SMTT(20) DEF DevSend
<1>10. CASE HwDone
  BY <1>10, SMTT(20) DEF HwDone
<1>11. QED  BY <1>1, <1>2, <1>3, <1>4, <1>5, <1>6, <1>7, <1>8, <1>9, <1>10
    DEF FreeStep

LEMMA SendersNext ==
    ASSUME Orderly
    PROVE  Inv /\ SendersInv /\ [Next]_vars => SendersInv'
<1> SUFFICES ASSUME Inv, SendersInv, [Next]_vars PROVE SendersInv'
  OBVIOUS
<1>1. CASE UNCHANGED vars
  BY <1>1 DEF vars
<1>2. CASE Next
  BY <1>2, SendersProcess, SendersIoctl, SendersIntf, SendersSend, SendersTask, SendersUserThread
  DEF Next
<1>3. QED  BY <1>1, <1>2
HIDE DEF Inv, SendersInv

(* Of an orderly process SendersInv holds always, too.                     *)
THEOREM SendersInvariance ==
    ASSUME Orderly
    PROVE  Spec => []SendersInv
BY SendersInit, SendersNext, Invariance, PTL DEF Spec

-----------------------------------------------------------------------------
(* What follows from it.                                                   *)

(* No device of the port table that has passed the checks of net_dev_tx    *)
(* and sendGpd, no user thread and no TxDone task is left when             *)
(* hal_lightning_pkt_deinitPktDrv frees the ring, the queue and their      *)
(* events.                                                                 *)
THEOREM MemoryLivesCorrect ==
    ASSUME Orderly
    PROVE  Spec => []MemoryLives
<1>1. Inv /\ SendersInv => MemoryLives
  BY DEF Inv, SendersInv, MemoryLives
<1>2. QED  BY <1>1, Invariance, SendersInvariance, PTL

(* destroyAllIntf runs only when the TxDone task has ended.                *)
THEOREM CleanUpAloneCorrect == Spec => []CleanUpAlone
<1>1. Inv => CleanUpAlone
  BY DEF Inv, CleanUpAlone
<1>2. QED  BY <1>1, Invariance, PTL

(* init_flag tells the next INIT_DRV, or the exit of the module, all the   *)
(* memory and tasks a process which died has left behind.                  *)
THEOREM FlagsTellCorrect == Spec => []FlagsTell
<1>1. Inv => FlagsTell
  BY DEF Inv, FlagsTell
<1>2. QED  BY <1>1, Invariance, PTL
=============================================================================
