# Verification of the clounix kernel modules

TLA+ models of the packet driver of `modules/src/clx_netif`, of the MDC device
driver of `modules/src/clx_dev` and of the parts of the OSAL they stand on,
checked with TLC on small instances and, where marked, proved with TLAPS for
every value of the constants.  Paths below are relative to `modules/src`; `L` is
`clx_netif/hal_lightning_pkt_knl.c`.

## 1. The system

Two kernel modules serve a switch chip on a PCIe bus and the SDK, a process in
user space.

| Component | Code | State | Operations |
|---|---|---|---|
| Tx descriptor ring | L 2034-2218, 3393-3570, 4159-4361, 4615-4767 | `TX_PDMA_T`: two indices, two counts, `err_flag`, software GPD ring and bulk buffer; the descriptors themselves | `sendGpd` (net devices, `write()`), TxDone task, recovery |
| Rx descriptor ring | L 1725-2018, 2068-2097, 2883-3185, 3201-3321, 3570-3724, 4197-4212, 4785-4960 | `RX_PDMA_T`: index, `err_flag`, skb ring; the RxDone task's partial packet; `RX_CB_T`: queues, `running` | RxDone task, rxStart, rxStop, dequeue ioctl, recovery |
| Software queues | `clx_netif/netif_osal.c` 499-597, L 1641-1707 | `linux_queue_t`: head, tail, two counters, entries | enqueue, dequeue, count |
| Interrupts | L 500-600, 4227-4606 | L1 mask and status, L2 mask and status per channel, one event per source | dispatcher, error task |
| Tx hand-over | L 2198-2301, 6965-6982 | one software queue, `sync_sema`, `running` | `dev_tx_callback`, dequeue ioctl |
| Interfaces and profiles | L 2317-2599, 5489-5819, 6498-6859 | port table, profile table, a sorted list per port | create, destroy, get, set, match |
| Life cycle | L 3767-4142, 4997-5949, 7076-7277, `netif_knl.c` | `init_flag`, `net_tx_allowed`, `running`, the tasks | init and deinit of driver, tasks, Rx |
| Netlink | `clx_netif/netif_nl.c`, L 1485-1600, 3111-3136 | table of families, memory of their groups, sample rates, `seq_num`; the kernel's registry | create, destroy, set rate, forward a packet |
| MDC driver | `clx_dev/osal_mdc.c` | device bitmap, DMA lists, device table | interrupt notification, DMA memory, ioctls |
| Dawn driver | `clx_netif/hal_dawn_pkt_knl.c` | as Lightning | as Lightning |
| OSAL | `clx_netif/netif_osal.c` | thread list, events, semaphores | create, wait, trigger |

They interact through shared memory (descriptors with the hardware, indices
under a spin lock or a semaphore, software queues under nothing), through events
(`osal_triggerEvent` / `osal_waitEvent`, a flag that `osal_waitEvent` resets one
step after it was seen), through callbacks (a packet's `callback` runs in the
TxDone task; the MDC driver's interrupt handler calls netif's dispatcher) and
through ioctls that block in the kernel.

What is hard here: the hardware advances in the ring while a task walks over
it; a fault may come at any descriptor and its handling is split over three
contexts (dispatcher, error task, done task); the dispatcher itself runs in two;
the events lose triggers in a window; semaphores are held across retries that
wait for another party; the queues lost their locks; recoveries can fail
halfway; the user process is killed and comes back while tasks, net devices and
the chip go on.  `PROJECT.json` lists every hazard with its line and the property
that watches it, or why none does yet.

What makes each component correct:

* Tx ring: every packet accepted is returned through its callback exactly
  once, in order unless the channel broke down; a buffer the hardware still
  owns is not returned unless the engine has halted; queues are woken, faults
  repaired.
* Rx ring: socket buffers are neither lost nor freed twice; the engine and the
  RxDone task only meet descriptors with buffers; packets are whole; stop returns.
* Queue: a bounded FIFO.
* Interrupts: no source stays masked with nobody to unmask it, no completion
  and no error bit is lost, a fatal bit is never cleared without telling the task.
* Profiles: a packet meets the first matching profile by priority; none that
  was destroyed.
* Life cycle: nothing is used before init or after deinit, nothing is left
  behind by a process that died, every ioctl returns.
* Netlink: driver and kernel know the same families; a message goes to the family
  and group its profile names, and fits.
* MDC: an interrupt reaches the user process; DMA memory outlives the chip's use.

## 2. Modules

| Module | Models | Role |
|---|---|---|
| `TxService` | what a Tx channel promises its callers | abstract specification |
| `TxRing` | one Tx channel, ASYNC wait mode | detailed; implements `TxService` |
| `FifoQueue` | a bounded FIFO | abstract specification |
| `OsalQueue` | the software queue, one memory access at a time | detailed; implements `FifoQueue` |
| `RxRing` | one Rx channel with its tasks, queue and ioctls | detailed |
| `IntrDispatch` | interrupt registers, dispatcher in both contexts, done and error tasks | detailed |
| `ProfileDb` | tables of interfaces and profiles, the lookup, the ioctls and their semaphores | detailed |
| `Netlink` | families and groups, their ioctls, the forwarding of packets by several RxDone tasks | detailed |
| `Mdc` | MDC driver: interrupts to user space, DMA memory, the process's life | detailed |
| `Lifecycle` | driver and task life cycle, Tx hand-over to the process | composition, over an abstract ring |
| `TxRingProofs`, `RxRingProofs`, `OsalQueueProofs`, `ProfileDbProofs`, `IntrDispatchProofs`, `MdcProofs`, `LifecycleProofs`, `NetlinkProofs` | | theorems |
| `MC...` | | instances for TLC |

`Lifecycle` composes what the others leave out of each other: the ring of
`TxRing`, the queue of `OsalQueue` and the net devices of `ProfileDb` appear in it
as a sequence of packets, a queue and a set, with the ioctls that allocate and
free them.  `IntrDispatch` gives what `TxRing` and `RxRing` assume of their
interrupts.

### TxRing

State: `hwo`, `last`, `buf` are the descriptor's `hwo` and `ch` bits and the
packet its buffer belongs to; `used_idx`, `free_idx`, `used_gpd_num`,
`free_gpd_num`, `err_flag`, `sw_gpd_ring` are the fields of
`HAL_LIGHTNING_PKT_TX_PDMA_T`; `bulk` is `pptr_sw_gpd_bulk`; `hw_idx`, `hw_num`,
`hw_run` stand for the PDMA engine: where it is, how many GPDs were announced to
it, whether it runs.

`sendGpd` is one action (`NetDevTx`, `DevTx`) because it holds `ring_lock`
throughout; its outcome depends on `err_flag`, the free count and, through
`Copied`, on the owner bits it meets.  The TxDone task holds the lock from
`TdLock` to `TdFinish`, but one descriptor is one action (`TdReclaim`,
`TdFlush`), since the engine, the dispatcher and the error task go on.  The last
action under the lock wakes the queues and unmasks the interrupt; the callbacks
run after it, one per action.  `osal_waitEvent` is `TdWake`, `TdClear`.

The engine (external) works through the announced descriptors in order and
interrupts at the end of a packet.  `WriteBack` says whether it gives back a
whole packet or one GPD at a time: the driver's header does not.  A fault halts
it at a descriptor it was to work on, which it keeps; `MaxErrBits` bounds the
error bits a fault sets.

A packet handed back may be sent again, so `Packets` bounds only how many
are in the driver at once.  A refused packet stays with its caller.

### OsalQueue

Every load and store of `osal_que_enque` and `osal_que_deque` that another
thread can see is an action; `wr_cnt++` and `rd_cnt++` are a load and a store.
Stores of one thread are visible in program order, as on x86; a weaker memory
order is not modelled.  The counters are modulo `W` for the code's 2^32.

`FifoQueue` is implemented with the items the counters cover as its queue: an
item enters when `wr_cnt` is stored and leaves when `rd_cnt` is.

### RxRing

State: `hwo`, `frag` (which fragment of a packet, and whether it is the last) and
`addr` (whether there is a socket buffer) of each descriptor; `cur_idx`,
`err_flag`, `sema` of `HAL_LIGHTNING_PKT_RX_PDMA_T`; `sw_gpds` is the list at
`ptr_sw_first_gpd`, `rx_complete` its flag; `queue`, `rx_event`, `running` of
`RX_CB_T`.  `out` counts the socket buffers allocated and not yet freed, so that
a lost or doubly freed buffer shows as a difference (`BuffersConserved`).
`fails` counts the allocations that failed and the packets whose net device was
missing (`Failure`); starts and failures together are bounded by `MaxEvents`.
`l2_status` and `err_todo` count the error bits latched and those the error task
still has to handle; `MaxErrBits` bounds the bits of a fault, as in `TxRing`.

The error task reads the L2 status (`ErrRead`) and calls `handleRxErrStat` once for
each bit in it (`ErrSet`, `ErrTrigger`), giving the semaphore back between two
calls, so that the RxDone task may recover the channel there.

The RxDone task holds the semaphore from `RdLock` to `RdUnlock`.  A descriptor
is `RdTake`; the delivery of a whole packet is `RdPut` and `RdTrigger` when it
is for the user process and `RdGive` otherwise; then `RdResume` announces the
descriptor again.  The choice between them is the profile match, which is
nondeterministic here.  Retries (no room, no memory) are steps that wait.

rxStart and rxStop are the `Start...` and `Stop...` actions, the user's dequeue
ioctl the `Usr...` actions, with `osal_waitEvent` in two steps again.

Not in the model: several channels and queues behind one ioctl (the counts of
each are independent); the failing allocation of a software GPD; the branch for
a buffer length of 0, which no event can reach before the first rx-init.  The
queue is a FIFO in this module; `OsalQueue` checks what that rests on.

### IntrDispatch

State: the L1 status bits that are latched and the L1 mask; the L2 status and
mask of each channel; `disp_stat`, the status a dispatcher works from; the
events; the program counters of the done tasks and of the error task with the
channel it is at and what it read.  The error source is level triggered: its L1
bit and `ERR_INT_STAT` are operators over the L2 registers.

The dispatcher (L 558) is `DispTake` (mask everything it may handle, read,
clear) and `DispGive` (trigger events, unmask what was not latched), for each of
its two contexts: the interrupt handler, and `osal_mdc.c` 1685, which calls it
when `read()` times out.  Mask and unmask are read-modify-write under a lock, so
each is one step.  A done task is `TaskWake`, `TaskReset`, `TaskWork`,
`TaskUnmask`; the error task reads `ERR_INT_STAT`, then for each channel masks and
reads its L2 status, clears and handles one bit after another (`L2Bit`), unmasks.

### ProfileDb

State: which ports have a net device, each port's sorted list as a sequence of
ids, the profile table, the semaphores of the Rx channels, the ioctl threads and
the lookups.  An id stands for the memory of a profile as well, and port and id
for a node of a list, so that `RxUsesLive` can say that nothing is freed under a
lookup.

`LockStart`, `LockTake`, `Unlock` are lockRxChannelAll and its opposite, one
semaphore at a time; with `Signals` a wait may end without the semaphore, which
nobody looks at.  `CreateProfile`, `DestroyProfile`, `CreateIntf`, `DestroyIntf`
run with all of them held; `GetIntf`, `GetProfile` and `GetNext` with none.
The lookup is one node per step (`RxMatch`), with the code's `hit` variable and its
uninitialised value taken from `StackValues`.

### Netlink

State: `entry` is `fam_entry` with its pointer to the groups; `groups` is the heap the
pointers lead to; `registered` the kernel's registry, which refers to a family by
the address of its slot; `rate` and `seq_num` as in the code; `rx` the packet each
RxDone task forwards.

The ioctls hold the semaphores of all channels from their first step to their
last (`AllLocked`), and are one action each: `CreateNetlink` with its three ends
(`Created`, `Refused`, `NoGroups`), `DestroyNetlink`, `SetIntfProperty`.  `InitDrv`
after a kill destroys all families; `Open` and `Reload` clear the table.  A task has
its own channel's semaphore only: `RxFind`, `RxBuild`, `RxCount`, `RxSend` or
`RxNothing`, with the stamp of the sequence number and its increment in two steps.
`DataLen` and its parts compute the sizes of a message byte for byte.  What the
kernel does with families and messages is external.

### Mdc

State: how far the user process is and what it still has to do; the ioctl in
progress; the thread in `read()`; the two bitmaps, the mask address, the
requested irqs and the registered callbacks; the chip's requests and masks; the
two DMA lists, the blocks allocated and the blocks the chip writes to.

`Irq`, `ReadEnter`, `ReadWake`, `ReadTimeout`, `ReadClaim`, `ReadCopy` are the way of
an interrupt to the process.  `ConnectBegin`, `ConnectIrq`, `DisconnectBegin`,
`FreeIrq`, `ClearMask` are connect and disconnect chip by chip; `InitDevice`,
`Alloc`, `Free`, `DeinitDevice` the DMA memory; `Kill` closes the file wherever the
process is; the `Exit...` actions remove the module.  The order of the process's
calls and the chip (`Request`, `Program`) are external.

### Lifecycle

State: `init_drv`, `init_task` are the bits of `init_flag`; `net_tx_allowed` and
`running` are fields of `TX_CB_T`; `rings` and `threads` count allocations; `ctl` is
the ioctl in progress with its next step; `exists`, `known` and `awake` the net
devices that are registered, in the port table, and not stopped; `xmit` how far
each device's `net_dev_tx` is; `td_pc` and the rest of `task` the TxDone task, whose
`resumeAllIntf` reads a pointer in one step and uses it in the next (`td_dev`);
`sw_queue` and `sync_event` the hand-over; `free_pc` the thread in WAIT_TX_FREE.

An ioctl is a walk through steps named in `Steps`; INIT_DRV after a kill, and the
exit of the module, walk through the steps of DEINIT_TASK and DEINIT_DRV and then
destroy the devices, as the code calls them.  `kthread_stop` is `JoinTask`, which
waits for the task to have ended.  `netif_tx_disable` waits for the device's
`net_dev_tx` (`StopIntf`, `Destroy`), which is in several steps: the look at
`net_tx_allowed`, the look at `init_flag`, the ring under its lock.  A device may be
destroyed, and the device file opened, at any point the code allows: `TdResume`
on a device that is gone meanwhile changes nothing here, `DevicesLive` says that it
does not happen, which TLC refutes.

External: the process's order of calls (`Open`, `End`, `Dead`, `CloseThreads`,
`Reload` and the guard of `Call`) and the engine.  With the constant `Orderly` the
process stops its own threads before the ioctls that free what they use.  Whether it
destroys its net devices before DEINIT_DRV or keeps them, as in a warm boot, is its
choice.  It may end or be killed between any two calls; a kill during an ioctl takes effect after it, since
none of these ioctls waits interruptibly but WAIT_TX_FREE, which is a thread of
its own here.

## 3. Runs

`CHECK_DEADLOCK FALSE` is set for `RxRing` only: after the last start and a stop
nothing is left to do.

| Run | Bounds | Shows |
|---|---|---|
| tx_ring | 2 descriptors, mark 1, 1 net device, 2 packets, chains of up to 2, one error bit | types, one window of the ring, one owner per packet and buffer, recovery only of a halted engine, refinement of `TxService`; packets returned, queues woken, faults repaired |
| queue_spsc | capacity 2, counters modulo 5, 4 items | no overwrite, a FIFO |
| rx_safe | 2 descriptors, packets of up to 2 fragments, queue of 1, two starts, or one start and one failure, one error bit | until something fails, conservation and presence of socket buffers; whatever fails, the engine never runs on a ring with a buffer missing; until the second start, packets are whole and `err_flag` means what it says |
| rx_live | 1 descriptor, packets of 1 fragment, one start, up to two error bits | a waiting user gets back; while room comes in its queue, everything received is taken, faults are repaired, and rxStop returns |
| intr_regs | 1 channel, 2 L2 bits of which one is fatal, both dispatchers | masks always with an unmasker, fatal bits told, completions taken, errors seen |
| profile_table | 2 channels, 2 ports, table of 3, one ioctl thread | lists sorted and sound, the lookup against a reference whatever `hit` is found to be, lookups meet what is live |
| netlink_forward | 2 slots, 2 names of which one is psample, 2 group lists, memory for 2, 2 RxDone tasks, sequence numbers modulo 2, packets of 64 and of 9173 bytes | driver and kernel agree on the families; groups neither leaked nor shared nor freed in use; messages to the right group, with the rate in force, that fit |
| mdc_life | 2 chips, 3 DMA blocks, 3 kills | DMA memory owned and not freed under the chip, interrupts connected |
| lifecycle_tx | 1 net device, ring, queue and process with 1 packet each | memory lives, the clean-up is alone, the flags and the port table tell what is left, ioctls and waiters return, done packets are handed over |

Why the bounds are enough: in two Tx descriptors a chain of two wraps around the
end of the ring, a fault can hit the middle of a chain, a single packet can follow
another or meet a full ring; with the mark at 1 the net device's queue stops, and
wakes.  The safety properties were also checked with three descriptors and three
packets, where a chain stands beside a single packet, and are proved for any ring.
Capacity 2 with counters modulo 5 puts every combination of head, tail and counter
wrap within reach, and 5 is no multiple of 2.  In rx_safe a packet of two fragments
crosses the wrap or fills the ring, and a queue of one is full after one packet.
rx_live is about who waits for whom, for which one descriptor of one packet will do,
and has the second error bit instead; its properties were also checked with two
descriptors and one error bit.  All but one of rx_safe's properties are proved for
any number of error bits; the exception, `ErrorMeansHalted`, holds with one.
Restart runs need two starts only, since a stop brings the channel to the same set
of states each time.  One channel shares the mask register with the error source,
which is all the sharing there is: channels do
not touch each other's bits, and the theorems are for any number.  A list of
three profiles has a head, a middle and a tail to insert at, and a profile for
all ports is on two lists.  Three kills let memory pass through both DMA lists
and back.  In `Lifecycle` the process is killed and the module reloaded any number
of times; the safety properties were also checked with a ring, queue and process
of two packets, and are proved for any size.  For `Netlink`, 9173 bytes are the
first length that must be cut, two slots let one family take another's slot and
memory, and `SizesAroundLimit` evaluates the sizes around the limit.

Each module has a `TypeOK` that holds in the same instances; but for `TxRing`'s it is
not one of the runs' properties, to leave these to what is not plain, and it is
proved.  `NoNullItem` of `OsalQueue` and `OneHolder` of `ProfileDb` (which
`RxUsesLive` rests on) hold likewise and are proved too.

### Violations: where the code departs from what it says

| Run | Property | What happens |
|---|---|---|
| tx_wedge | ErrorsRecovered | a fault with two error bits: the channel is recovered between the two calls of `handleTxErrStat`, the second leaves `err_flag` set over an empty ring, and `sendGpd` refuses for good |
| profile_stay | ProfilesStay | destroyIntf clears the port's record with its profile list, two lines below the comment that a profile is bound to the port and need not be removed |
| lifecycle_destroy | DevicesLive | destroyIntf frees a net device whose pointer the TxDone task's `resumeAllIntf` has read; the comment counts on a spin lock, which destroyIntf does not take |

The passing runs state their assumptions in their constants.  What the same
properties show without them, each checked by changing one constant or leaving out
the condition named, and what some properties show that a module states and no run
checks because TLC refutes them:

Tx ring and queue

* `OneOwner` fails with `WriteBack = "gpd"`: if the engine gives back a chain
  GPD by GPD, a TxDone pass that ends within one forgets where it began once a
  recovery or a send reuses the slots (L 4718 takes the next GPD for the head
  of another packet).
* `RecoverOnlyHalted` of `TxRing` fails with two error bits, for the reason of tx_wedge.
* `ReserveSuffices` fails with two net devices and mark 2: the TxDone task wakes
  all queues without looking at the mark, so a net device meets a full ring.
* `NoNullItem`, `ImplementsFifo` and `WrCntCounts` fail with two producers or two
  consumers: `wr_cnt++` of two TxDone tasks counts one item.

Rx ring

* `ErrorMeansHalted` fails with two error bits, and so does `RecoverOnlyHalted` of
  `RxRing`, which states the comment at L 4832: the error task calls
  `handleRxErrStat` for each bit and the RxDone task may recover the channel in
  between; the second call sets `err_flag` (L 4206) on an engine that runs again,
  which is stopped and recovered once more with what it was filling.  Unlike the Tx
  channel (tx_wedge) it comes back: `ErrorsRecovered` holds in rx_live.
* `ErrorMeansHalted` fails without its condition on `starts`: `err_flag` survives
  rxStop and rxStart.  `WholePackets` does too: the RxDone task's partial list
  survives them and is continued with the first fragments after the start.
* `TakesBuffers` fails without `fails = 0`: `initRxPdmaRing` has given every
  descriptor to the software when an allocation fails, and the RxDone task takes
  those without buffer for received ones, though L 2010 says how to prevent it.
* `BuffersConserved` fails without `fails = 0`: a packet of several buffers that
  cannot be merged is freed, and its last buffer handed on (L 3027, 3036); of a
  packet of several buffers for a missing net device only the last is freed.
* `ErrorsRecovered` fails with `MaxEvents = 2`: after a recovery without memory the
  next one stops at the first descriptor without buffer.
* `StopReturns` fails without `RoomComes`, and in a ring of two `ErrorsRecovered` and
  `FragmentsTaken` do: when the
  user's thread stops calling, which the comment in rxStop (L 3613) allows for, the
  RxDone task waits for room in a full queue with the semaphore held, and rxStop waits
  for the semaphore in front of the flush that would make room.

Profiles

* `OneHolder`, `RxUsesLive` and `LookupMissesNone` fail with `Signals`: a wait that a signal
  interrupts counts as a semaphore taken, and unlockRxChannelAll gives it.
* `LookupFindsBest`, "1st match reason" (L 2537), fails in the bounds of profile_table:
  `hit` is not initialised (L 2531), and found TRUE the first profile of the list takes
  a packet whose reason it does not ask for.  It holds with `StackValues = {FALSE}`.
  `LookupMissesNone`, which allows for that one wrong choice, holds with any.
* `ReadersUseLive` fails with two threads: GetIntf, GetProfile and the traversal
  look at nodes and entries another thread's ioctl frees.

Netlink

* All three properties fail with `GroupsFail = TRUE`: without memory for the groups the ioctl
  returns an error, but the slot stays valid, unregistered, and with the pointer
  to its last family's groups, which are freed (`netif_nl.c` 463).
* `FamiliesKnown` and `GroupsOwned` fail with `LeavesFamilies = TRUE`: after DEINIT_DRV with
  families left the next open clears the table (L 7245), and the module's exit,
  which destroys profiles and interfaces, does not destroy families: the kernel
  keeps families whose records are used again or gone.
* Two messages can carry one sequence number when two RxDone tasks forward:
  `seq_num` is read and raised under each one's own semaphore (`netif_nl.c` 674).

MDC

* `NoWriteAfterFree` fails with `EarlyKill`: a process killed between INIT_DEV and
  the chip's reset has the memory of its predecessor freed by its successor while
  the chip still writes there.  It fails with `LiveExit`: the module's exit
  frees the DMA lists before the chip is disabled.
* `InterruptsServed` fails under `FairSpec` with two chips: `_osal_mdc_waitEvent` stores
  a bitmap (L 1696 of `osal_mdc.c`) over the bit that an interrupt of the other chip
  has set since the time-out; that chip stays masked and the process is never told.
  It holds with one chip, whose bit is the one the store sets.

Life cycle

* `MemoryLives` and `WaiterReturns` fail with `Orderly = FALSE`: a thread of the
  process in `write()` or WAIT_TX_FREE while another makes DEINIT_DRV takes a lock
  that is freed; one that calls after DEINIT_TASK waits for a trigger that came
  before.
* `KeptResumed`, the comment at L 5053, fails in the bounds of lifecycle_tx: the open that
  follows a warm deinit clears the port table (L 7235), initTask resumes none of the
  devices that were kept, and they stay registered for good.  `FlagsTell` holds
  there: the table may miss a device, but names none that is gone.
* `MemoryLives` speaks of the devices in the port table.  Said of all devices it
  fails: one that the table has forgotten is not stopped by DEINIT_TASK, and may be
  past its look at `net_tx_allowed` when DEINIT_DRV frees the ring.
* `IoctlReturns` fails with `UserMax` above `QueueLen`: a TxDone task that finds the
  queue full tries again until the process dequeues (L 6973), and DEINIT_TASK
  waits for it.  The real queue has room for the rings of several channels.

### Fairness

* The kernel threads run (`WF` on the TxDone, RxDone and error tasks' steps): they
  are kthreads with real-time priority (`osal_createThread`).
* An interrupt that is latched and not masked is delivered (`WF` on the
  dispatcher, on `Irq` in `Mdc`); a polling dispatcher that was begun goes on, but
  need not begin.
* Locks are first come first served (`SF` on taking `ring_lock` in `ErrSet`,
  `DevSend` and `NetSend`, the Rx semaphore in `RdLock`, `ErrSet` and
  `StopChannel`, and the net device's queue in `Visit`): kernel spin locks are
  queued, and semaphores keep a list of waiters.
* The engine works on what it was given as long as it has not faulted (`WF`
  on `HwDone`; Tx only).
* An ioctl that was begun goes on.  That the user's thread calls again, which nothing in
  the driver makes it do, is not assumed: the properties of rx_live that need it
  name what they need, `RoomComes`.  In `Mdc` the process's reading thread runs and
  serves what it is told.

No fairness is assumed of senders, of the hardware's receive side, of faults, or
of the process's starts, ends and kills.  That is about what must happen; what
the process may do is limited by its order of calls and by constants: `Orderly` of
`Lifecycle`, `LeavesFamilies` of `Netlink`, `EarlyKill` (no kill between
INIT_DEV and the chip's reset) and `LiveExit` of `Mdc`, `UserMax` of `Lifecycle` (no
more packets out than the queue takes).  `GroupsFail` of `Netlink` and `Signals` of
`ProfileDb` exclude a failing allocation and a signal.  The hazards these exclude
are not caught by the passing runs, and say so in `PROJECT.json`.

## 4. Theorems

Every safety invariant, every action property and both refinements that the
passing runs check are proved, for every value of the constants the named
assumptions allow.  The hypotheses a theorem has beyond these are: one error bit
(`RecoverCorrect`, `HaltedCorrect`), whole-packet write-back (`OneOwnerCorrect`,
`ServiceCorrect`), one producer and one consumer (`FifoImplemented`,
`NoOverwriteCorrect`, `NoNullItemCorrect`), no signals (`HolderCorrect`,
`UsesLiveCorrect`, `LookupCorrect`), `~EarlyKill` and `~LiveExit`
(`NoWriteAfterFreeCorrect`), `Orderly` (`MemoryLivesCorrect`),
`~GroupsFail` and `~LeavesFamilies` (`Netlink`'s last three).  Section 3 says what TLC
finds without each.

`TxRingProofs` proves, for every ring size, mark, set of devices and packets,
write-back mode and number of error bits (`TxConstants`):

* `TypeCorrect`: `Spec => []TypeOK`;
* `AccountingCorrect`: `Spec => []RingAccounting`: the two counts add up to the
  ring, the two indices are that far apart, the engine stands where its
  announced descriptors begin, and exactly those are owned by the hardware.

Neither is inductive alone.  `Inv` adds that a TxDone pass has no more
descriptors to visit than are used (a pass counts at the start; senders are
locked out, so the count does not grow stale), and that the error task counts
its bits down from at least one.  The lemmas go action by action.  `CopyComplete`
is worth reading by itself: with `RingAccounting`, the free descriptors are the
software's, so the loop of `sendGpd` never stops early and its "free gpd idx
out-of-sync" branch, which would enter a truncated chain, is dead.

Beyond the accounting it proves:

* `OneOwnerCorrect`: `Spec => []OneOwner`, where the engine gives back whole packets
  (`WriteBack = "packet"`);
* `ServiceCorrect`: `Spec => ImplementsService`, the refinement of `TxService`, under
  the same hypothesis;
* `RecoverCorrect`: `Spec => RecoverOnlyHalted`, where a fault sets one error bit
  (`MaxErrBits <= 1`), in both write-back modes.

`OneOwner` is about single pointers, but a step that moves one needs to know where
a packet begins and ends.  `PacketInv` says it.  `Boundaries`: a packet ends where
the used descriptors end and where the engine stands, and TxDone is inside one
only during a pass.  `Chains`: the used descriptors of a packet name it, from the
one the software ring has it at to the one that ends it, and no others do.
`HeadsAligned` and `Distinct` are `OneOwner`'s; `Flushed` says how far a recovery has
come.  Whole-packet write-back enters in one place: `HwDonePackets`, where the
engine stops at the end of a packet.

The refinement maps what the service owes to the bulk buffer followed by the
packets in the software ring in the order TxDone will meet them (`Pending`).  That
order is defined without recursion: the offsets from `first_gpd_idx` where packets
start (`Starts`) are enumerated by rank, so that the steps reduce to two facts
about enumerating a finite set of numbers, proved by counting: a larger element is
appended (`NthAdd`, for sendGpd), and the least is taken away while the others
move down (`NthShift`, for TxDone).  `FillAccepts`, `CallbackReturns`,
`FlushRearranges` and `RecoverRepairs` are the steps the service sees;
`ReclaimService` shows that moving a packet from the ring to the bulk buffer is
none.

`RxRingProofs` proves, for every ring size, number of fragments, queue length and
number of error bits, starts and failures (`RxConstants`), `TypeCorrect` and the
five properties of `rx_safe`, whose conditions on `fails` and `starts` are their own:

* `ConservedCorrect`, `TakesBuffersCorrect`, `HwHasBuffersCorrect`,
  `WholePacketsCorrect`, for any number of error bits;
* `HaltedCorrect`, where a fault sets one (`MaxErrBits <= 1`).

`BuffersConserved` is a balance, so the proof counts: the descriptors with a
buffer by the cardinality of a set of slots, the buffers in the queue by that of
a set of pairs (packet, place in it), and each step says which element it adds
or takes.  Of the parts of `Inv`, `Window` shares the ring between the engine's
count and the descriptors not yet taken; `Buffers` says which descriptors have a
buffer at which stage of rxStart and rxStop; `Halted` follows the error from the
engine to `err_flag`; and `Order` numbers the fragments: along the ring
each follows the one before it (`Chain`), the engine goes on where the filled
descriptors end (`Region`), and the task's partial list goes on with the
fragment at `cur_idx`.  `Order` is where a second start breaks the argument, and
the code with it.

`OsalQueueProofs` proves, for every capacity, counter width and set of items, as
long as there is one producer and one consumer (`SingleProducerConsumer`):

* `NoOverwriteCorrect` and `NoNullItemCorrect`: a store never hits an item that
  is still to be taken, and a dequeue that found the counters different returns
  an item;
* `FifoImplemented`: `Spec => ImplementsFifo`, the refinement of `FifoQueue`.

Its `Inv` has the types and three parts.  `Counters`: what a thread has seen of
the other's counter errs on the safe side, since only the other moves it, in its
favour.  `Held`: what the threads hold in their hands.  `Window`: from the oldest
slot on, the entries hold the items that were counted and the one just stored,
less the one just taken, and nothing else.  Only `EnqCount` and `DeqCount` change
the abstract queue (`PutStep`, `GetStep`); the ten other steps stutter.  The
assumption describes an Rx queue while rxStop does not flush it, and the Tx queue
while one channel's TxDone task enqueues.

`ProfileDbProofs` proves, for any number of channels, ports, profiles, threads and
table entries (`ProfileConstants`):

* `ListsCorrect`: `Spec => []ListsConsistent`, without further hypothesis: the ioctls
  change a list in one go, so neither signals nor several threads disturb it.
  `InsertGood` and `RemoveGood` are the facts about `addProfToList` and
  `delProfFromAllIntfById`: what they make of a sorted list without duplicates is
  one again, and a removed profile leaves nothing behind;
* `TypeCorrect`, and, where no signal arrives (`~Signals`), `HolderCorrect` and
  `UsesLiveCorrect`;
* `LookupCorrect`: `LookupMissesNone` where no signal arrives, whatever `hit` is found
  to be.

`Exclusive` is what the semaphores give: an ioctl past a channel or that
channel's RxDone task has its semaphore, and never two of them.
`ChangeExcludesRx` follows: a table changes only while every RxDone task is idle.
So `RxUsesLive` need only be shown for the task's own steps, and so need
`LookupInv`, by which nothing a lookup has passed asks for the packet, and `hit` is
only unknown at the first profile.

`IntrDispatchProofs` proves, for any number of channels and any status bits:

* `TypeCorrect`, `MaskedMeansPendingCorrect`, `L2MaskedMeansBusyCorrect` and the
  action property `FatalIsToldCorrect`.

`MaskedMeansPending` is not inductive for the error source: the error task leaves
it masked when the status it reads is 0.  `CauseInv` says why that is no loss:
before the task has read, a masked source without cause was masked by a
dispatcher that saw no error and is about to unmask it.  `ChannelInv` and
`SoundInv` tie the task's channel and the statuses it has still to read to its
program counter; without them `L2Bit` could report a break-down of no channel.

`MdcProofs` proves `TypeCorrect` and `ConnectedCorrect` for every set of chips and
any number of kills, `MemoryOwnedCorrect` likewise, and `NoWriteAfterFreeCorrect` under
`~EarlyKill` and `~LiveExit`.  `WritesInv` is the argument behind the two DMA lists:
the chip only writes to the memory of the current list, or of the other one
after INIT_DEV until the reset.

`LifecycleProofs` proves, for any set of devices and any sizes, `CleanUpAloneCorrect`
and `FlagsTellCorrect` without further hypothesis, and `MemoryLivesCorrect` under
`Orderly`, devices kept over a deinit or not.  `Inv` follows an ioctl through its steps: to
which ioctl a step belongs and where the process is then (`JobInv`), what the flags
are there (`FlagInv`), that they tell what is allocated (`MemInv`), and what the
port table holds (`TableInv`).  `SendersInv` adds for an orderly process, as the heart of
it (`DevInv`), that a device of the table past its look at `net_tx_allowed` after the flag was
cleared is one that `stopAllIntf` has still to wait for.  Hence nobody is on the
way to the ring when the tasks are ended, and nothing is at the ring when it is
freed.

`NetlinkProofs` proves `MessageFits`, that the size of a message is right for a
packet of any length, and, for any number of families, groups and RxDone tasks
under `Discipline` (`~GroupsFail`, `~LeavesFamilies`), `FamiliesKnownCorrect`,
`GroupsOwnedCorrect` and `ForwardRightCorrect`.  `Inv` adds to the first two that a
driver that is not initialised has no families (`LifeInv`), which is what makes the
clearing of the table harmless; `ForwardRight` stays true of a family once it is
found, since the semaphores keep the ioctls out until the packet is done.

Model-checked only: the liveness properties of tx_ring, rx_live,
intr_regs and lifecycle_tx, since the prover has neither ENABLED nor the induction
over time that fairness needs; and the evaluation of `SizesAroundLimit`.  What
fails (the runs that expect a violation, and the properties above without their
hypotheses) has counterexamples and no theorem.

## 5. Plan

What is left, in this order:

1. Theorems for what section 3 reports of special cases: `ReserveSuffices` for one
   net device and no process that writes, `ReadersUseLive` for one thread.
2. `RxSched`: several Rx queues behind one dequeue ioctl and their weights.
3. The Rx side of `Lifecycle`: rx-init, rxStart and rxStop in any order with the
   tasks; failing allocations of software GPDs in `RxRing`.
4. The OSAL's list of threads, which has no lock.
5. The SYNC wait modes of Tx; the Dawn driver's differences.

## 6. Not modelled

* `hal_dawn_pkt_knl.c`: the twin of the Lightning driver for an older chip.  The
  modules were translated from the Lightning driver alone.
* Generated register tables (`hal_tbl.h`, the Rx reason header; nine tenths of
  the repository's lines), `EXPORT_SYMBOL` lists, build files, the init script.
* `netif_perf.c`, a traffic generator for the laboratory.
* In the MDC driver: PCI probing, register windows, I2C access, and the
  allocator of reserved memory (`osal_mdc.c` 1038-1300), which this build leaves
  out.
* Logging and counters, VLAN tag and MOD header editing in `rxEnQueue`, register
  layouts, an interface's stored properties.
* Of `netif_nl.c`: getNetlink and getIntfProperty, which only read, and the egress
  rate, which nobody uses.
