-------------------------------- MODULE Mdc --------------------------------
(***************************************************************************)
(* The MDC device driver (osal_mdc.c, the build for an SDK in user space): *)
(* how a chip's interrupt reaches the user process, and who owns the DMA   *)
(* memory, while the process starts, is killed and starts again, and the   *)
(* module is removed.                                                      *)
(*                                                                         *)
(* The process has two threads here: one makes the ioctls, one reads the   *)
(* device file to learn which chips interrupted.  Its order of calls and   *)
(* the chip are external; the rest is the driver.                          *)
(***************************************************************************)
EXTENDS Integers, FiniteSets

CONSTANTS
    Units,      \* chips
    Zero,       \* unit 0, the one read() polls
    Blocks,     \* DMA memory
    MaxKills,   \* bound: how often the process is killed
    EarlyKill,  \* may it be killed between INIT_DEV and the chip's reset?
    LiveExit    \* may the module be removed while the chip runs?

ASSUME MdcConstants ==
    /\ Zero \in Units /\ IsFiniteSet(Units)
    /\ MaxKills \in Nat /\ EarlyKill \in BOOLEAN /\ LiveExit \in BOOLEAN

VARIABLES
    proc,       \* how far the process is
    todo,       \* chips it still has to connect or disconnect
    ctl,        \* the ioctl (or module exit) in progress and its chip
    kills,
    reader, got,         \* the thread in read(), and what read() told it
    devMap, initMap,     \* _osal_mdc_isr_dev_bitmap, _osal_mdc_isr_init_bitmap
    maskSet,             \* are _osal_mdc_isr_mask_addr and _val known?
    irqOn, callback,     \* request_irq done; dev[unit].isr_callback registered
    req, masked,         \* chip: it wants to interrupt; it is masked
    devInited, cur, list,\* _osal_mdc_devInited, _sysCurDmaListIdx, _sysDmaList
    allocated,           \* blocks that dma_alloc_coherent gave out
    writes               \* blocks the chip writes to

process == << proc, todo, ctl, kills >>
reading == << reader, got >>
intr    == << devMap, initMap, maskSet, irqOn, callback >>
chip    == << req, masked >>
dma     == << devInited, cur, list, allocated >>
vars    == << process, reading, intr, chip, dma, writes >>

Idle == [op |-> "none", unit |-> Zero]
Op(o, u) == [op |-> o, unit |-> u]

(* After module_init, nothing opened yet.                                  *)
Init ==
    /\ proc = "none" /\ todo = {} /\ ctl = Idle /\ kills = 0
    /\ reader = "out" /\ got = {}
    /\ devMap = {} /\ initMap = {} /\ maskSet = FALSE
    /\ irqOn = {} /\ callback = {}
    /\ req = {} /\ masked = Units
    /\ devInited = FALSE /\ cur = 0 /\ list = [i \in 0 .. 1 |-> {}]
    /\ allocated = {} /\ writes = {}

-----------------------------------------------------------------------------
(* Interrupts.                                                             *)

(* Mask the chip, set its bit, wake the reader.                            *)
Notify(u) ==
    /\ masked' = IF maskSet THEN masked \cup {u} ELSE masked
    /\ devMap' = devMap \cup {u}

(* systemIntrCallback.  What netif's callback does is IntrDispatch.        *)
Irq(u) ==
    /\ u \in irqOn /\ u \in req /\ u \notin masked
    /\ Notify(u)
    /\ UNCHANGED << process, reading, initMap, maskSet, irqOn, callback, req,
                    dma, writes >>

ReadEnter ==
    /\ reader = "user" /\ got = {} /\ proc \in {"up", "down"}
    /\ initMap # {}
    /\ reader' = "wait"
    /\ UNCHANGED << process, got, intr, chip, dma, writes >>

(* wait_event_interruptible_timeout returns something else than 0.         *)
ReadWake ==
    /\ reader = "wait"
    /\ devMap # {} \/ proc = "none"
    /\ reader' = "copy"
    /\ UNCHANGED << process, got, intr, chip, dma, writes >>

ReadTimeout ==
    /\ reader = "wait" /\ devMap = {}
    /\ reader' = "late"
    /\ UNCHANGED << process, got, intr, chip, dma, writes >>

(* After netif's callback for dev[0]: a plain store, without the lock.     *)
ReadClaim ==
    /\ reader = "late"
    /\ devMap' = {Zero}
    /\ reader' = "copy"
    /\ UNCHANGED << process, got, initMap, maskSet, irqOn, callback, chip, dma,
                    writes >>

(* Save and clear the bitmap.  A killed thread takes its copy along.       *)
ReadCopy ==
    /\ reader = "copy"
    /\ devMap' = {}
    /\ IF proc = "none" THEN reader' = "out" /\ got' = {}
                        ELSE reader' = "user" /\ got' = devMap
    /\ UNCHANGED << process, initMap, maskSet, irqOn, callback, chip, dma,
                    writes >>

(* External: the process handles a chip it was told of and unmasks it.     *)
Serve(u) ==
    /\ reader = "user" /\ u \in got
    /\ req' = req \ {u} /\ masked' = masked \ {u}
    /\ got' = got \ {u}
    /\ UNCHANGED << process, reader, intr, dma, writes >>

(* External: the chip has something for the process.                       *)
Request(u) ==
    /\ proc = "up" /\ u \notin req
    /\ req' = req \cup {u}
    /\ UNCHANGED << process, reading, intr, masked, dma, writes >>

-----------------------------------------------------------------------------
(* Connecting and disconnecting, the lines of an ioctl one after another.  *)

(* Mutant: without looking at the bitmap.                                  *)
ConnectBeginAgain(u) ==
    /\ proc = "reset" /\ ctl = Idle /\ u \in todo
    /\ maskSet' = TRUE /\ ctl' = Op("connect", u)
    /\ initMap' = initMap \ {u}
    /\ UNCHANGED << proc, todo, kills, reading, devMap, irqOn, callback, chip,
                    dma, writes >>

(* A chip that is still connected from the process before stays so.        *)
ConnectBegin(u) ==
    /\ proc = "reset" /\ ctl = Idle /\ u \in todo
    /\ IF u \in initMap
       THEN todo' = todo \ {u} /\ UNCHANGED << ctl, maskSet >>
       ELSE maskSet' = TRUE /\ ctl' = Op("connect", u) /\ UNCHANGED todo
    /\ UNCHANGED << proc, kills, reading, devMap, initMap, irqOn, callback,
                    chip, dma, writes >>

(* request_irq, unless a callback is registered ("double req isr err").    *)
ConnectIrq ==
    /\ ctl.op = "connect"
    /\ IF ctl.unit \in callback
       THEN UNCHANGED << irqOn, initMap >>
       ELSE irqOn' = irqOn \cup {ctl.unit} /\ initMap' = initMap \cup {ctl.unit}
    /\ todo' = todo \ {ctl.unit} /\ ctl' = Idle
    /\ UNCHANGED << proc, kills, reading, devMap, maskSet, callback, chip, dma,
                    writes >>

DisconnectBegin(u) ==
    /\ proc = "down" /\ ctl = Idle /\ u \in todo
    /\ Notify(u)
    /\ ctl' = Op("disconnect", u)
    /\ UNCHANGED << proc, todo, kills, reading, initMap, maskSet, irqOn,
                    callback, req, dma, writes >>

(* disconnectIsr: free_irq, which waits for a handler that is running.     *)
FreeIrq ==
    /\ ctl.op = "disconnect"
    /\ irqOn' = irqOn \ {ctl.unit}
    /\ ctl' = [ctl EXCEPT !.op = "disconnect_mask"]
    /\ UNCHANGED << proc, todo, kills, reading, devMap, initMap, maskSet,
                    callback, chip, dma, writes >>

(* ... and the mask's address is cleared, of which there is one for all.   *)
ClearMask ==
    /\ ctl.op = "disconnect_mask"
    /\ maskSet' = FALSE
    /\ initMap' = initMap \ {ctl.unit} /\ todo' = todo \ {ctl.unit}
    /\ ctl' = IF proc = "exit" THEN Op("exit", Zero) ELSE Idle
    /\ UNCHANGED << proc, kills, reading, devMap, irqOn, callback, chip, dma,
                    writes >>

-----------------------------------------------------------------------------
(* DMA memory.                                                             *)

Other == (cur + 1) % 2

(* Mutant: one list, freed at once.                                        *)
InitDeviceOneList ==
    /\ proc = "open" /\ ctl = Idle
    /\ allocated' = allocated \ list[cur]
    /\ list' = [i \in 0 .. 1 |-> {}] /\ callback' = IF devInited THEN callback ELSE {}
    /\ devInited' = TRUE /\ proc' = "inited"
    /\ UNCHANGED << cur, todo, ctl, kills, reading, devMap, initMap, maskSet,
                    irqOn, chip, writes >>

(* INIT_DEV: the memory of the process before is kept, that of the one     *)
(* before it is freed.                                                     *)
InitDevice ==
    /\ proc = "open" /\ ctl = Idle
    /\ IF devInited
       THEN /\ cur' = Other
            /\ list' = [list EXCEPT ![cur'] = {}]
            /\ allocated' = allocated \ list[cur']
            /\ UNCHANGED callback
       ELSE /\ cur' = 0 /\ list' = [i \in 0 .. 1 |-> {}]
            /\ callback' = {}
            /\ UNCHANGED allocated
    /\ devInited' = TRUE /\ proc' = "inited"
    /\ UNCHANGED << todo, ctl, kills, reading, devMap, initMap, maskSet, irqOn,
                    chip, writes >>

Alloc(b) ==
    /\ proc \in {"reset", "up"} /\ ctl = Idle /\ b \notin allocated
    /\ allocated' = allocated \cup {b}
    /\ list' = [list EXCEPT ![cur] = @ \cup {b}]
    /\ UNCHANGED << process, reading, intr, chip, devInited, cur, writes >>

(* Mutant: the node stays on the list.                                     *)
FreeNode(b) ==
    /\ proc \in {"reset", "up"} /\ ctl = Idle /\ b \in list[cur] \ writes
    /\ allocated' = allocated \ {b}
    /\ UNCHANGED << process, reading, intr, chip, devInited, cur, list,
                    writes >>

(* The process gives back a block of its own that the chip does not use.   *)
Free(b) ==
    /\ proc \in {"reset", "up"} /\ ctl = Idle /\ b \in list[cur] \ writes
    /\ allocated' = allocated \ {b}
    /\ list' = [list EXCEPT ![cur] = @ \ {b}]
    /\ UNCHANGED << process, reading, intr, chip, devInited, cur, writes >>

(* External: the process tells the chip to write to a block, or to stop.   *)
Program(b) ==
    /\ proc = "up" /\ b \in list[cur]
    /\ writes' = writes \cup {b}
    /\ UNCHANGED << process, reading, intr, chip, dma >>

Unprogram(b) ==
    /\ proc \in {"up", "down"} /\ b \in writes
    /\ writes' = writes \ {b}
    /\ UNCHANGED << process, reading, intr, chip, dma >>

-----------------------------------------------------------------------------
(* The life of the process and of the module.                              *)

(* External: the process is started when the one before is gone.           *)
Open ==
    /\ proc = "none" /\ reader = "out"
    /\ proc' = "open"
    /\ UNCHANGED << todo, ctl, kills, reading, intr, chip, dma, writes >>

(* External: a reset stops and masks the chips.                            *)
ResetChip ==
    /\ proc = "inited"
    /\ proc' = "reset" /\ todo' = Units
    /\ writes' = {} /\ req' = {} /\ masked' = Units
    /\ UNCHANGED << ctl, kills, reading, intr, dma >>

(* External: netif's driver is initialised (registerIsr), interrupts are   *)
(* enabled, the reader is started.                                         *)
Run ==
    /\ proc = "reset" /\ ctl = Idle /\ todo = {}
    /\ proc' = "up" /\ callback' = Units /\ masked' = {} /\ reader' = "user"
    /\ UNCHANGED << todo, ctl, kills, got, devMap, initMap, maskSet, irqOn,
                    req, dma, writes >>

(* External: netif's driver is deinitialised, which unregisters its ISR.   *)
Stop ==
    /\ proc = "up" /\ ctl = Idle
    /\ proc' = "down" /\ callback' = {} /\ todo' = Units
    /\ UNCHANGED << ctl, kills, reading, devMap, initMap, maskSet, irqOn, chip,
                    dma, writes >>

ReaderLeaves ==
    /\ proc = "down" /\ reader = "user"
    /\ reader' = "out" /\ got' = {}
    /\ UNCHANGED << process, intr, chip, dma, writes >>

(* DEINIT_DEV, by a process that has stopped its chips.                    *)
DeinitDevice ==
    /\ proc = "down" /\ ctl = Idle /\ todo = {} /\ reader = "out" /\ writes = {}
    /\ list' = [i \in 0 .. 1 |-> {}]
    /\ allocated' = allocated \ (list[0] \cup list[1])
    /\ devInited' = FALSE /\ proc' = "none"
    /\ UNCHANGED << todo, ctl, kills, reading, intr, chip, cur, writes >>

(* The process is killed outside of its ioctls; a thread in read() gets    *)
(* out of it first.  The driver does nothing (_osal_mdc_release).          *)
Kill ==
    /\ proc \in {"open", "inited", "reset", "up", "down"} /\ ctl = Idle
    /\ kills < MaxKills /\ (proc = "inited" => EarlyKill)
    /\ kills' = kills + 1 /\ proc' = "none" /\ todo' = {}
    /\ reader' = IF reader = "user" THEN "out" ELSE reader
    /\ got' = {}
    /\ UNCHANGED << ctl, intr, chip, dma, writes >>

(* module_exit, with the device file closed and netif's module removed.    *)
ExitBegin ==
    /\ proc = "none" /\ reader = "out" /\ devInited
    /\ writes = {} \/ LiveExit
    /\ proc' = "exit" /\ ctl' = Op("exit", Zero) /\ callback' = {}
    /\ UNCHANGED << todo, kills, reading, devMap, initMap, maskSet, irqOn,
                    chip, dma, writes >>

ExitDisconnect(u) ==
    /\ ctl.op = "exit" /\ u \in initMap
    /\ ctl' = Op("disconnect", u)
    /\ UNCHANGED << proc, todo, kills, reading, intr, chip, dma, writes >>

ExitClear ==
    /\ ctl.op = "exit" /\ initMap = {}
    /\ list' = [i \in 0 .. 1 |-> {}]
    /\ allocated' = allocated \ (list[0] \cup list[1])
    /\ ctl' = Op("exit_device", Zero)
    /\ UNCHANGED << proc, todo, kills, reading, intr, chip, devInited, cur,
                    writes >>

(* pci_disable_device clears the bus master bit: the chip cannot write     *)
(* any more.  The module may be loaded again.                              *)
ExitDevice ==
    /\ ctl.op = "exit_device"
    /\ devInited' = FALSE /\ writes' = {} /\ devMap' = {} /\ cur' = 0
    /\ proc' = "none" /\ ctl' = Idle
    /\ UNCHANGED << todo, kills, reading, initMap, maskSet, irqOn, callback,
                    chip, list, allocated >>

-----------------------------------------------------------------------------
Reader == ReadEnter \/ ReadWake \/ ReadTimeout \/ ReadClaim \/ ReadCopy

Interrupts ==
    \/ Reader \/ ReaderLeaves
    \/ \E u \in Units : Irq(u) \/ Serve(u) \/ Request(u)

Ioctls ==
    \/ \E u \in Units : ConnectBegin(u) \/ DisconnectBegin(u)
    \/ ConnectIrq \/ FreeIrq \/ ClearMask \/ InitDevice \/ DeinitDevice
    \/ \E b \in Blocks : Alloc(b) \/ Free(b)

Life ==
    \/ Open \/ ResetChip \/ Run \/ Stop \/ Kill
    \/ \E b \in Blocks : Program(b) \/ Unprogram(b)
    \/ ExitBegin \/ ExitClear \/ ExitDevice
    \/ \E u \in Units : ExitDisconnect(u)

Next == Interrupts \/ Ioctls \/ Life

Spec == Init /\ [][Next]_vars

(* Interrupts are delivered, and the process's reading thread runs.        *)
FairSpec ==
    /\ Spec
    /\ WF_vars(Reader)
    /\ \A u \in Units : WF_vars(Irq(u)) /\ WF_vars(Serve(u))

-----------------------------------------------------------------------------
(* One type for each variable.                                             *)
TypeOK ==
    /\ proc \in {"none", "open", "inited", "reset", "up", "down", "exit"}
    /\ todo \subseteq Units /\ kills \in 0 .. MaxKills
    /\ ctl \in [op : {"none", "connect", "disconnect", "disconnect_mask",
                      "exit", "exit_device"}, unit : Units]
    /\ reader \in {"out", "user", "wait", "late", "copy"}
    /\ got \subseteq Units /\ devMap \subseteq Units /\ initMap \subseteq Units
    /\ irqOn \subseteq Units /\ callback \subseteq Units
    /\ req \subseteq Units /\ masked \subseteq Units
    /\ maskSet \in BOOLEAN /\ devInited \in BOOLEAN
    /\ cur \in 0 .. 1 /\ list \in [0 .. 1 -> SUBSET Blocks]
    /\ allocated \subseteq Blocks /\ writes \subseteq Blocks

(* Every block that was allocated is on exactly one of the two lists, so   *)
(* that each is freed once, by the process or by one of its successors.    *)
MemoryOwned ==
    /\ allocated = list[0] \cup list[1]
    /\ list[0] \cap list[1] = {}

(* The chip of a killed process goes on writing: its memory is not freed   *)
(* before the chip is stopped (the comment at INIT_DEV).                   *)
NoWriteAfterFree == writes \subseteq allocated

(* A process that runs has the interrupts of all its chips, whatever its   *)
(* predecessors left connected or registered when they were killed.        *)
RunningIsConnected == proc = "up" => initMap = Units /\ irqOn = Units

(* "Notify user process": what a chip has for a running process, the       *)
(* process gets to know, whatever other chips and time-outs there are.     *)
(* TLC refutes it with two chips: ReadClaim overwrites the other's bit.   *)
InterruptsServed ==
    \A u \in Units : (proc = "up" /\ u \in req) ~> (proc # "up" \/ u \notin req)
=============================================================================
