----------------------------- MODULE MdcProofs -----------------------------
(***************************************************************************)
(* Theorems about Mdc, for every set of chips and blocks and any number of *)
(* kills.                                                                  *)
(***************************************************************************)
EXTENDS Mdc, TLAPS

(* Which ioctl may be in progress at which point of the process's life.    *)
ControlInv ==
    /\ proc \in {"none", "open", "inited", "up"} => ctl.op = "none"
    /\ proc = "reset" => ctl.op \in {"none", "connect"}
    /\ proc = "down" => ctl.op \in {"none", "disconnect", "disconnect_mask"}
    /\ proc = "exit" => ctl.op \in {"disconnect", "disconnect_mask", "exit",
                                    "exit_device"}

(* A callback is only registered for a connected chip, and for none while  *)
(* chips are disconnected; the bitmap of connected chips is that of the    *)
(* handlers, but for the chip in the middle of disconnectIsr; what the     *)
(* process has not connected is what it has still to do.                   *)
ConnectionInv ==
    /\ callback \subseteq initMap
    /\ proc \in {"down", "exit"} => callback = {}
    /\ irqOn = IF ctl.op = "disconnect_mask" THEN initMap \ {ctl.unit}
                                             ELSE initMap
    /\ proc = "reset" => Units \ todo \subseteq initMap
    /\ proc = "up" => initMap = Units

(* A process survives from INIT_DEV to the chip's reset, and the module is *)
(* only removed from a stopped chip.                                       *)
Discipline == ~EarlyKill /\ ~LiveExit

(* Then the chip writes to the memory of the current list; after INIT_DEV  *)
(* that list is the other one, until the chip is reset.                    *)
WritesInv ==
  Discipline =>
    /\ proc \in {"none", "open", "up", "down"} => writes \subseteq list[cur]
    /\ proc = "inited" => writes \subseteq list[Other]
    /\ proc \in {"reset", "exit"} => writes = {}

(* Without an initialised device there is no memory and no write.          *)
DeviceInv ==
    /\ proc \in {"inited", "reset", "up", "down"} => devInited
    /\ ~devInited => writes = {} /\ list[0] = {} /\ list[1] = {}
    /\ proc = "exit" /\ ctl.op = "exit_device" => list[0] = {} /\ list[1] = {}

ConnInv == TypeOK /\ ControlInv /\ ConnectionInv

DmaInv == MemoryOwned /\ WritesInv /\ DeviceInv

Inv == ConnInv /\ DmaInv

USE MdcConstants DEF process, reading, intr, chip, dma

-----------------------------------------------------------------------------
LEMMA OtherList == cur \in 0 .. 1 => Other = 1 - cur
<1>1. CASE cur = 0
  BY <1>1 DEF Other
<1>2. CASE cur = 1
  BY <1>2 DEF Other
<1> QED
  BY <1>1, <1>2

LEMMA InitInv == Init => Inv
<1> SUFFICES ASSUME Init PROVE Inv
  OBVIOUS
<1>1. TypeOK
  <2>1. ctl \in [op : {"none"}, unit : Units] /\ kills \in 0 .. MaxKills
    BY DEF Init, Idle
  <2>2. cur \in 0 .. 1 /\ list \in [0 .. 1 -> SUBSET Blocks]
    BY DEF Init
  <2>3. maskSet \in BOOLEAN /\ devInited \in BOOLEAN
    BY DEF Init
  <2> QED
    BY <2>1, <2>2, <2>3 DEF Init, TypeOK
<1>2. ControlInv /\ ConnectionInv
  BY DEF Init, Idle, ControlInv, ConnectionInv
<1>3. list[0] = {} /\ list[1] = {}
  BY DEF Init
<1>4. MemoryOwned /\ WritesInv /\ DeviceInv
  BY <1>3 DEF Init, MemoryOwned, WritesInv, DeviceInv
<1> QED
  BY <1>1, <1>2, <1>4 DEF Inv, ConnInv, DmaInv

-----------------------------------------------------------------------------
(* Types and control.                                                      *)

LEMMA TypeInterrupts == TypeOK /\ Interrupts => TypeOK'
BY DEF TypeOK, Interrupts, Reader, ReadEnter, ReadWake, ReadTimeout, ReadClaim,
       ReadCopy, ReaderLeaves, Irq, Serve, Request, Notify

LEMMA TypeConnect ==
    ASSUME TypeOK,
           \/ \E u \in Units : ConnectBegin(u) \/ DisconnectBegin(u)
           \/ ConnectIrq \/ FreeIrq \/ ClearMask
    PROVE  TypeOK'
<1>1. CASE \E u \in Units : ConnectBegin(u)
  <2> PICK u \in Units : ConnectBegin(u)
    BY <1>1
  <2>1. CASE u \in initMap
    BY <2>1 DEF TypeOK, ConnectBegin
  <2>2. CASE u \notin initMap
    BY <2>2 DEF TypeOK, ConnectBegin, Op
  <2> QED
    BY <2>1, <2>2
<1>2. CASE \E u \in Units : DisconnectBegin(u)
  BY <1>2 DEF TypeOK, DisconnectBegin, Notify, Op
<1>3. CASE ConnectIrq
  BY <1>3 DEF TypeOK, ConnectIrq, Idle
<1>4. CASE FreeIrq
  BY <1>4 DEF TypeOK, FreeIrq
<1>5. CASE ClearMask
  BY <1>5 DEF TypeOK, ClearMask, Op, Idle
<1> QED
  BY <1>1, <1>2, <1>3, <1>4, <1>5

LEMMA TypeInitDevice == TypeOK /\ InitDevice => TypeOK'
BY OtherList DEF TypeOK, InitDevice

LEMMA TypeMemory ==
    ASSUME TypeOK, DeinitDevice \/ \E b \in Blocks : Alloc(b) \/ Free(b)
    PROVE  TypeOK'
<1>1. CASE DeinitDevice
  BY <1>1 DEF TypeOK, DeinitDevice
<1>2. CASE \E b \in Blocks : Alloc(b)
  BY <1>2 DEF TypeOK, Alloc
<1>3. CASE \E b \in Blocks : Free(b)
  BY <1>3 DEF TypeOK, Free
<1> QED
  BY <1>1, <1>2, <1>3

LEMMA TypeLife ==
    ASSUME TypeOK, Life
    PROVE  TypeOK'
<1>1. CASE Open \/ ResetChip \/ Run \/ Stop
  BY <1>1 DEF TypeOK, Open, ResetChip, Run, Stop
<1>2. CASE Kill
  BY <1>2 DEF TypeOK, Kill
<1>3. CASE \E b \in Blocks : Program(b) \/ Unprogram(b)
  BY <1>3 DEF TypeOK, Program, Unprogram
<1>4. CASE ExitBegin \/ \E u \in Units : ExitDisconnect(u)
  BY <1>4 DEF TypeOK, ExitBegin, ExitDisconnect, Op
<1>5. CASE ExitClear
  BY <1>5 DEF TypeOK, ExitClear, Op
<1>6. CASE ExitDevice
  <2>1. ctl' \in [op : {"none"}, unit : Units]
    BY <1>6 DEF ExitDevice, Idle
  <2>2. cur' \in 0 .. 1
    BY <1>6 DEF ExitDevice
  <2>3. devInited' \in BOOLEAN
    BY <1>6 DEF ExitDevice
  <2> QED
    BY <1>6, <2>1, <2>2, <2>3 DEF TypeOK, ExitDevice
<1> QED
  BY <1>1, <1>2, <1>3, <1>4, <1>5, <1>6 DEF Life

LEMMA TypeStep == TypeOK /\ [Next]_vars => TypeOK'
<1> SUFFICES ASSUME TypeOK, [Next]_vars PROVE TypeOK'
  OBVIOUS
<1>1. CASE UNCHANGED vars
  BY <1>1 DEF TypeOK, vars
<1>2. CASE Next
  BY <1>2, TypeInterrupts, TypeConnect, TypeInitDevice, TypeMemory, TypeLife
     DEF Next, Ioctls
<1> QED
  BY <1>1, <1>2
LEMMA ControlStep == TypeOK /\ ControlInv /\ [Next]_vars => ControlInv'
<1> SUFFICES ASSUME TypeOK, ControlInv, [Next]_vars PROVE ControlInv'
  OBVIOUS
<1>1. CASE UNCHANGED vars \/ Interrupts
  BY <1>1 DEF ControlInv, vars, Interrupts, Reader, ReadEnter, ReadWake,
     ReadTimeout, ReadClaim, ReadCopy, ReaderLeaves, Irq, Serve, Request
<1>2. CASE \E u \in Units : ConnectBegin(u) \/ DisconnectBegin(u)
  BY <1>2 DEF ControlInv, ConnectBegin, DisconnectBegin, Op, Idle
<1>3. CASE ConnectIrq \/ FreeIrq \/ ClearMask
  BY <1>3 DEF TypeOK, ControlInv, ConnectIrq, FreeIrq, ClearMask, Op, Idle
<1>4. CASE InitDevice \/ DeinitDevice
  BY <1>4 DEF ControlInv, InitDevice, DeinitDevice, Idle
<1>5. CASE \E b \in Blocks : Alloc(b) \/ Free(b)
  BY <1>5 DEF ControlInv, Alloc, Free
<1>6. CASE Open \/ ResetChip \/ Run \/ Stop \/ Kill
  BY <1>6 DEF ControlInv, Open, ResetChip, Run, Stop, Kill, Idle
<1>7. CASE \E b \in Blocks : Program(b) \/ Unprogram(b)
  BY <1>7 DEF ControlInv, Program, Unprogram
<1>8. CASE ExitBegin \/ ExitClear \/ ExitDevice
           \/ \E u \in Units : ExitDisconnect(u)
  BY <1>8 DEF TypeOK, ControlInv, ExitBegin, ExitClear, ExitDevice,
     ExitDisconnect, Op, Idle
<1> QED
  BY <1>1, <1>2, <1>3, <1>4, <1>5, <1>6, <1>7, <1>8 DEF Next, Ioctls, Life

-----------------------------------------------------------------------------
(* Connections.                                                            *)

LEMMA ConnectionConnect ==
    ASSUME ConnInv, ControlInv',
           \/ \E u \in Units : ConnectBegin(u) \/ DisconnectBegin(u)
           \/ ConnectIrq \/ FreeIrq \/ ClearMask
    PROVE  ConnectionInv'
<1> USE DEF ConnInv, ConnectionInv
<1>1. CASE \E u \in Units : ConnectBegin(u)
  BY <1>1 DEF ConnectBegin, Op, Idle
<1>2. CASE \E u \in Units : DisconnectBegin(u)
  BY <1>2 DEF DisconnectBegin, Op, Idle
<1>3. CASE ConnectIrq
  <2>1. CASE ctl.unit \in callback
    BY <1>3, <2>1 DEF ConnectIrq, Idle, ControlInv, TypeOK
  <2>2. CASE ctl.unit \notin callback
    BY <1>3, <2>2 DEF ConnectIrq, Idle, ControlInv, TypeOK
  <2> QED
    BY <2>1, <2>2
<1>4. CASE FreeIrq
  BY <1>4 DEF FreeIrq, ControlInv, TypeOK
<1>5. CASE ClearMask
  BY <1>5 DEF ClearMask, Op, Idle, ControlInv, TypeOK
<1> QED
  BY <1>1, <1>2, <1>3, <1>4, <1>5

LEMMA ConnectionLife ==
    ASSUME ConnInv, ControlInv', Life
    PROVE  ConnectionInv'
<1> USE DEF ConnInv, ConnectionInv
<1>1. CASE Open \/ ResetChip
  BY <1>1 DEF Open, ResetChip
<1>2. CASE Run
  BY <1>2 DEF Run, Idle, TypeOK
<1>3. CASE Stop \/ Kill
  BY <1>3 DEF Stop, Kill
<1>4. CASE \E b \in Blocks : Program(b) \/ Unprogram(b)
  BY <1>4 DEF Program, Unprogram
<1>5. CASE ExitBegin \/ \E u \in Units : ExitDisconnect(u)
  BY <1>5 DEF ExitBegin, ExitDisconnect, Op, ControlInv, TypeOK
<1>6. CASE ExitClear \/ ExitDevice
  BY <1>6 DEF ExitClear, ExitDevice, Op, Idle, ControlInv, TypeOK
<1> QED
  BY <1>1, <1>2, <1>3, <1>4, <1>5, <1>6 DEF Life

LEMMA ConnectionStep == ConnInv /\ [Next]_vars => ConnInv'
<1> SUFFICES ASSUME ConnInv, [Next]_vars PROVE ConnInv'
  OBVIOUS
<1>1. TypeOK' /\ ControlInv'
  BY TypeStep, ControlStep DEF ConnInv
<1>2. ConnectionInv'
  <2>1. CASE UNCHANGED vars \/ Interrupts
    BY <2>1 DEF ConnInv, ConnectionInv, vars, Interrupts, Reader, ReadEnter,
       ReadWake, ReadTimeout, ReadClaim, ReadCopy, ReaderLeaves, Irq, Serve,
       Request, Notify
  <2>2. CASE InitDevice
    BY <2>2 DEF ConnInv, ConnectionInv, InitDevice
  <2>3. CASE DeinitDevice \/ \E b \in Blocks : Alloc(b) \/ Free(b)
    BY <2>3 DEF ConnInv, ConnectionInv, DeinitDevice, Alloc, Free
  <2> QED
    BY <1>1, <2>1, <2>2, <2>3, ConnectionConnect, ConnectionLife
       DEF Next, Ioctls
<1> QED
  BY <1>1, <1>2 DEF ConnInv
-----------------------------------------------------------------------------
(* Memory.                                                                 *)

(* What does not touch the memory, nor the process.                        *)
LEMMA DmaUntouched ==
    ASSUME DmaInv, UNCHANGED << proc, dma, writes >>,
           proc = "exit" /\ ctl'.op = "exit_device" => ctl.op = "exit_device"
    PROVE  DmaInv'
BY DEF DmaInv, MemoryOwned, WritesInv, DeviceInv, Other

LEMMA DmaInterrupts == DmaInv /\ (UNCHANGED vars \/ Interrupts) => DmaInv'
BY DmaUntouched DEF vars, Interrupts, Reader, ReadEnter, ReadWake, ReadTimeout,
   ReadClaim, ReadCopy, ReaderLeaves, Irq, Serve, Request

LEMMA DmaConnect ==
    ASSUME TypeOK, DmaInv,
           \/ \E u \in Units : ConnectBegin(u) \/ DisconnectBegin(u)
           \/ ConnectIrq \/ FreeIrq \/ ClearMask
    PROVE  DmaInv'
<1>1. UNCHANGED << proc, dma, writes >>
  BY DEF ConnectBegin, DisconnectBegin, ConnectIrq, FreeIrq, ClearMask
<1>2. ctl'.op = "exit_device" => ctl.op = "exit_device"
  <2>1. CASE \E u \in Units : ConnectBegin(u) \/ DisconnectBegin(u)
    BY <2>1 DEF ConnectBegin, DisconnectBegin, Op
  <2>2. CASE ConnectIrq \/ ClearMask
    BY <2>2 DEF ConnectIrq, ClearMask, Op, Idle
  <2>3. CASE FreeIrq
    BY <2>3 DEF FreeIrq, TypeOK
  <2> QED
    BY <2>1, <2>2, <2>3
<1> QED
  BY <1>1, <1>2, DmaUntouched

(* INIT_DEV with a device: the lists change places, what the chip still    *)
(* writes to is on the one that is now the other, the older one is freed.  *)
LEMMA DmaInitDevice == TypeOK /\ DmaInv /\ InitDevice => DmaInv'
<1> SUFFICES ASSUME TypeOK, DmaInv, InitDevice PROVE DmaInv'
  OBVIOUS
<1> USE DEF DmaInv, TypeOK
<1>1. proc = "open" /\ proc' = "inited" /\ devInited' /\ writes' = writes
  BY DEF InitDevice
<1>2. CASE devInited
  <2>1. /\ cur' = 1 - cur
        /\ list' = [list EXCEPT ![1 - cur] = {}]
        /\ allocated' = allocated \ list[1 - cur]
    BY <1>2, OtherList DEF InitDevice
  <2>2. Other' = cur
    <3>1. CASE cur = 0
      BY <3>1, <2>1 DEF Other
    <3>2. CASE cur = 1
      BY <3>2, <2>1 DEF Other
    <3> QED
      BY <3>1, <3>2
  <2>3. list'[cur] = list[cur] /\ list'[1 - cur] = {}
    BY <2>1
  <2>4. CASE cur = 0
    BY <1>1, <2>1, <2>2, <2>3, <2>4 DEF MemoryOwned, WritesInv, DeviceInv
  <2>5. CASE cur = 1
    BY <1>1, <2>1, <2>2, <2>3, <2>5 DEF MemoryOwned, WritesInv, DeviceInv
  <2> QED
    BY <2>4, <2>5
<1>3. CASE ~devInited
  <2>1. list'[0] = {} /\ list'[1] = {} /\ allocated' = allocated
    BY <1>3 DEF InitDevice
  <2>2. allocated = {} /\ writes = {}
    BY <1>3 DEF MemoryOwned, DeviceInv
  <2> QED
    BY <1>1, <2>1, <2>2 DEF MemoryOwned, WritesInv, DeviceInv
<1> QED
  BY <1>2, <1>3

LEMMA DmaMemory ==
    ASSUME TypeOK, DmaInv,
           DeinitDevice \/ \E b \in Blocks : Alloc(b) \/ Free(b)
    PROVE  DmaInv'
<1> USE DEF DmaInv, TypeOK
<1>1. CASE DeinitDevice
  BY <1>1 DEF DeinitDevice, MemoryOwned, WritesInv, DeviceInv
<1>2. ASSUME NEW b \in Blocks, Alloc(b) PROVE DmaInv'
  <2>1. CASE cur = 0
    BY <1>2, <2>1 DEF Alloc, MemoryOwned, WritesInv, DeviceInv
  <2>2. CASE cur = 1
    BY <1>2, <2>2 DEF Alloc, MemoryOwned, WritesInv, DeviceInv
  <2> QED
    BY <2>1, <2>2
<1>3. ASSUME NEW b \in Blocks, Free(b) PROVE DmaInv'
  <2>1. CASE cur = 0
    BY <1>3, <2>1 DEF Free, MemoryOwned, WritesInv, DeviceInv
  <2>2. CASE cur = 1
    BY <1>3, <2>2 DEF Free, MemoryOwned, WritesInv, DeviceInv
  <2> QED
    BY <2>1, <2>2
<1> QED
  BY <1>1, <1>2, <1>3

LEMMA DmaLife ==
    ASSUME TypeOK, ControlInv, DmaInv, Life
    PROVE  DmaInv'
<1> USE DEF DmaInv
<1>1. CASE Open \/ Run \/ Stop
  BY <1>1 DEF Open, Run, Stop, MemoryOwned, WritesInv, DeviceInv
<1>2. CASE ResetChip
  BY <1>2 DEF ResetChip, MemoryOwned, WritesInv, DeviceInv
<1>3. CASE Kill
  BY <1>3 DEF Discipline, Kill, MemoryOwned, WritesInv, DeviceInv
<1>4. CASE \E b \in Blocks : Program(b) \/ Unprogram(b)
  BY <1>4 DEF Program, Unprogram, MemoryOwned, WritesInv, DeviceInv
<1>5. CASE ExitBegin
  BY <1>5 DEF Discipline, ExitBegin, Op, MemoryOwned, WritesInv, DeviceInv
<1>6. CASE \E u \in Units : ExitDisconnect(u)
  BY <1>6, DmaUntouched DEF ExitDisconnect, Op
<1>7. CASE ExitClear
  <2>1. proc = "exit"
    BY <1>7 DEF ExitClear, ControlInv, TypeOK
  <2> QED
    BY <1>7, <2>1 DEF ExitClear, MemoryOwned, WritesInv, DeviceInv
<1>8. CASE ExitDevice
  <2>1. proc = "exit"
    BY <1>8 DEF ExitDevice, ControlInv, TypeOK
  <2> QED
    BY <1>8, <2>1 DEF ExitDevice, MemoryOwned, WritesInv, DeviceInv
<1> QED
  BY <1>1, <1>2, <1>3, <1>4, <1>5, <1>6, <1>7, <1>8 DEF Life

-----------------------------------------------------------------------------
(* Theorems.                                                               *)

(* Connections and types hold whatever is killed when, and with the module *)
(* removed at any time.                                                    *)
THEOREM Connections == Spec => []ConnInv
<1>1. Init => ConnInv
  BY InitInv DEF Inv
<1> QED
  BY <1>1, ConnectionStep, PTL DEF Spec

(* Every variable keeps its type.                                          *)
THEOREM TypeCorrect == Spec => []TypeOK
<1>1. ConnInv => TypeOK
  BY DEF ConnInv
<1> QED
  BY <1>1, Connections, PTL

(* When the process's threads run, every chip has its interrupt handler,   *)
(* however many processes before it were killed half way through.          *)
THEOREM ConnectedCorrect == Spec => []RunningIsConnected
<1>1. ConnInv => RunningIsConnected
  BY DEF ConnInv, ControlInv, ConnectionInv, RunningIsConnected
<1> QED
  BY <1>1, Connections, PTL

LEMMA NextInv == Inv /\ [Next]_vars => Inv'
<1> SUFFICES ASSUME Inv, [Next]_vars PROVE Inv'
  OBVIOUS
<1>1. ConnInv'
  BY ConnectionStep DEF Inv
<1>2. DmaInv'
  BY DmaInterrupts, DmaConnect, DmaInitDevice, DmaMemory, DmaLife
     DEF Inv, ConnInv, Next, Ioctls
<1> QED
  BY <1>1, <1>2 DEF Inv

(* The inductive invariant: connections and ownership of the memory        *)
(* whatever is killed when; what the chip writes to under the discipline.  *)
THEOREM Invariance == Spec => []Inv
BY InitInv, NextInv, PTL DEF Spec

(* Each block is on one list: no process, wherever it is killed, and no    *)
(* removal of the module, at any time, frees one twice or forgets one.     *)
THEOREM MemoryOwnedCorrect == Spec => []MemoryOwned
<1>1. Inv => MemoryOwned
  BY DEF Inv, DmaInv
<1> QED
  BY <1>1, Invariance, PTL

(* The two lists suffice: however often the process is killed while the    *)
(* chip writes, the chip only writes to memory that is allocated, when no  *)
(* process is killed between INIT_DEV and the chip's reset and the module  *)
(* is not removed from a running chip.                                     *)
THEOREM NoWriteAfterFreeCorrect ==
    ASSUME ~EarlyKill, ~LiveExit
    PROVE  Spec => []NoWriteAfterFree
<1>1. TypeOK /\ MemoryOwned /\ WritesInv => NoWriteAfterFree
  BY OtherList DEF TypeOK, MemoryOwned, WritesInv, Discipline, NoWriteAfterFree
<1>2. Inv => NoWriteAfterFree
  BY <1>1 DEF Inv, ConnInv, DmaInv
<1> QED
  BY <1>2, Invariance, PTL
=============================================================================
