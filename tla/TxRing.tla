------------------------------- MODULE TxRing -------------------------------
(***************************************************************************)
(* One transmit PDMA channel of the Lightning packet driver in its default *)
(* ASYNC wait mode: the descriptor ring shared with the hardware, the      *)
(* software GPD ring beside it, the callers of sendGpd (netdev transmit in *)
(* soft-IRQ context, write() on the character device), the TxDone task,    *)
(* the error task and the interrupt dispatcher.                            *)
(*                                                                         *)
(* The spin lock ring_lock: sendGpd and handleTxErrStat hold it for one    *)
(* action; the TxDone task holds it from TdLock to TdFinish, one           *)
(* descriptor per action, while the hardware keeps running.                *)
(***************************************************************************)
EXTENDS Integers, Sequences, FiniteSets

CONSTANTS
    Packets,      \* software GPD chains; one may be sent again once returned
    Ports,        \* net devices, one transmit queue each
    NULL,
    GpdNum,       \* descriptors in the ring (HAL_DFLT_CFG_PKT_TX_GPD_NUM)
    LowMark,      \* HAL_LIGHTNING_PKT_KNL_TX_RING_AVBL_GPD_LOW
    MaxChain,     \* longest chain a user process writes; 0: none writes
    WriteBack,    \* what the hardware gives back at a time: "packet" or "gpd"
    MaxErrBits    \* error bits one fault sets in a channel's L2 status

ASSUME TxConstants ==
    /\ GpdNum \in Nat /\ GpdNum > 0
    /\ LowMark \in Nat
    /\ MaxChain \in Nat
    /\ MaxErrBits \in Nat
    /\ WriteBack \in {"packet", "gpd"}
    /\ NULL \notin Packets

Slots == 0 .. GpdNum - 1

(* idx % gpd_num, for the indices below 2 * gpd_num the driver computes.   *)
Wrap(i) == IF i >= GpdNum THEN i - GpdNum ELSE i

VARIABLES
    hwo, last, buf,               \* HW descriptors: owner, end of packet, buffer
    hw_idx, hw_num, hw_run,       \* PDMA engine: position, GPDs added, running
    used_idx, free_idx,           \* HAL_LIGHTNING_PKT_TX_PDMA_T
    used_gpd_num, free_gpd_num,
    err_flag, sw_gpd_ring, bulk,
    first_gpd_idx, loop_cnt, idx, \* locals of the TxDone task
    td_pc,
    irq, masked, event,           \* L1 interrupt of the channel, its event
    l2_status, err_todo, err_pc,  \* error bits latched; locals of the error task
    stopped, xmit, rc             \* netdev queues; transmits under way; last result

descs    == << hwo, last, buf >>
engine   == << hw_idx, hw_num, hw_run >>
indices  == << used_idx, free_idx, used_gpd_num, free_gpd_num >>
td_local == << first_gpd_idx, loop_cnt, idx >>
intr     == << irq, masked, event >>
err_task == << l2_status, err_todo, err_pc >>
net      == << stopped, xmit, rc >>
vars     == << descs, engine, indices, err_flag, sw_gpd_ring, bulk, td_local,
               td_pc, intr, err_task, net >>

(* The state after initTxPdma and initTask.                                *)
Init ==
    /\ hwo = [s \in Slots |-> "SW"]
    /\ last = [s \in Slots |-> TRUE]
    /\ buf = [s \in Slots |-> NULL]
    /\ hw_idx = 0 /\ hw_num = 0 /\ hw_run = TRUE
    /\ used_idx = 0 /\ free_idx = 0
    /\ used_gpd_num = 0 /\ free_gpd_num = GpdNum
    /\ err_flag = FALSE
    /\ sw_gpd_ring = [s \in Slots |-> NULL]
    /\ bulk = << >>
    /\ first_gpd_idx = 0 /\ loop_cnt = 0 /\ idx = 0 /\ td_pc = "wait"
    /\ irq = FALSE /\ masked = FALSE /\ event = FALSE
    /\ l2_status = 0 /\ err_todo = 0 /\ err_pc = "wait"
    /\ stopped = [d \in Ports |-> FALSE]
    /\ xmit = [d \in Ports |-> FALSE]
    /\ rc = [d \in Ports |-> "OK"]

RingLocked == td_pc \in {"loop", "flush", "finish"}

InRing   == {sw_gpd_ring[s] : s \in Slots} \ {NULL}
InBulk   == {bulk[i] : i \in 1 .. Len(bulk)}
InDriver == InRing \cup InBulk

-----------------------------------------------------------------------------
(* hal_lightning_pkt_sendGpd: the section under ring_lock.                 *)

(* Mutant: the count of free descriptors is not checked.                   *)
CanSendUncounted(n) == ~err_flag

CanSend(n) == ~err_flag /\ free_gpd_num >= n

Refusal == IF err_flag THEN "OTHERS" ELSE "TABLE_FULL"

(* The descriptor of the chain's k-th GPD, k in 0 .. n-1.                  *)
NthSlot(k) == Wrap(used_idx + k)

(* The copy loop fills m of n descriptors: it stops at the first one that  *)
(* the hardware still owns.                                                *)
Copied(n, m) == /\ \A k \in 0 .. m - 1 : hwo[NthSlot(k)] = "SW"
                /\ m < n => hwo[NthSlot(m)] = "HW"

(* Whether the loop was cut short or not, the chain is entered in the      *)
(* software ring, counted with its gpd_num and announced to the engine.    *)
Fill(p, n, m) ==
    LET slots == {NthSlot(k) : k \in 0 .. m - 1}
    IN  /\ hwo' = [s \in Slots |-> IF s \in slots THEN "HW" ELSE hwo[s]]
        /\ last' = [s \in Slots |-> IF s \in slots THEN s = NthSlot(n - 1)
                                                    ELSE last[s]]
        /\ buf' = [s \in Slots |-> IF s \in slots THEN p ELSE buf[s]]
        /\ sw_gpd_ring' = [sw_gpd_ring EXCEPT ![used_idx] = p]
        /\ used_idx' = Wrap(used_idx + m)
        /\ used_gpd_num' = used_gpd_num + n
        /\ free_gpd_num' = free_gpd_num - n
        /\ hw_num' = hw_num + n
        /\ stopped' = IF free_gpd_num - n < LowMark
                      THEN [d \in Ports |-> TRUE] ELSE stopped
        /\ UNCHANGED << free_idx, hw_idx, hw_run, err_flag, bulk, td_local,
                        td_pc, intr, err_task >>

(* The kernel looks at the queue state and enters ndo_start_xmit.          *)
StartXmit(d) ==
    /\ ~xmit[d] /\ ~stopped[d]
    /\ xmit' = [xmit EXCEPT ![d] = TRUE]
    /\ UNCHANGED << descs, engine, indices, err_flag, sw_gpd_ring, bulk,
                    td_local, td_pc, intr, err_task, stopped, rc >>

(* net_dev_tx: one GPD; a refused packet is freed by the caller.           *)
NetDevTx(d, p) ==
    /\ xmit[d] /\ ~RingLocked /\ p \notin InDriver
    /\ xmit' = [xmit EXCEPT ![d] = FALSE]
    /\ \/ /\ CanSend(1)
          /\ \E m \in 0 .. 1 :
               /\ Copied(1, m) /\ Fill(p, 1, m)
               /\ rc' = [rc EXCEPT ![d] = IF m = 1 THEN "OK" ELSE "TABLE_FULL"]
       \/ /\ ~CanSend(1)
          /\ rc' = [rc EXCEPT ![d] = Refusal]
          /\ UNCHANGED << descs, engine, indices, err_flag, sw_gpd_ring, bulk,
                          td_local, td_pc, intr, err_task, stopped >>

(* dev_tx: a chain of n GPDs built from a user buffer; write() never looks *)
(* at the queue state.  A refused chain is freed: nothing changes here.    *)
DevTx(p, n) ==
    /\ ~RingLocked /\ p \notin InDriver
    /\ CanSend(n)
    /\ \E m \in 0 .. n : Copied(n, m) /\ Fill(p, n, m)
    /\ UNCHANGED << xmit, rc >>

-----------------------------------------------------------------------------
(* The PDMA engine (external).                                             *)

HwSlot(k) == Wrap(hw_idx + k)

(* The engine gives the next k descriptors back: a whole packet, or one    *)
(* GPD, depending on WriteBack.  The last GPD of a packet interrupts.      *)
HwDone(k) ==
    /\ hw_run
    /\ \A j \in 0 .. k - 1 : hwo[HwSlot(j)] = "HW"
    /\ WriteBack = "gpd" => k = 1
    /\ WriteBack = "packet" =>
         /\ last[HwSlot(k - 1)]
         /\ \A j \in 0 .. k - 2 : ~last[HwSlot(j)]
    /\ hwo' = [s \in Slots |->
                 IF \E j \in 0 .. k - 1 : s = HwSlot(j) THEN "SW" ELSE hwo[s]]
    /\ hw_idx' = Wrap(hw_idx + k)
    /\ hw_num' = hw_num - k
    /\ irq' = (irq \/ last[HwSlot(k - 1)])
    /\ UNCHANGED << last, buf, hw_run, indices, err_flag, sw_gpd_ring, bulk,
                    td_local, td_pc, masked, event, err_task, net >>

(* A fault while a descriptor is worked on: the engine halts, the          *)
(* descriptor stays its own, and b error bits are set in the L2 status.    *)
HwFault(b) ==
    /\ hw_run /\ hw_num > 0 /\ l2_status = 0
    /\ hw_run' = FALSE
    /\ l2_status' = b
    /\ UNCHANGED << descs, hw_idx, hw_num, indices, err_flag, sw_gpd_ring,
                    bulk, td_local, td_pc, intr, err_todo, err_pc, net >>

-----------------------------------------------------------------------------
(* The interrupt dispatcher.  It runs for this channel's interrupt, or for *)
(* another one; either way it masks all, clears and triggers what is       *)
(* latched, and unmasks what was not.  IntrDispatch has its steps.         *)
Dispatch ==
    /\ irq' = FALSE
    /\ masked' = irq
    /\ event' = (event \/ irq)
    /\ UNCHANGED << descs, engine, indices, err_flag, sw_gpd_ring, bulk,
                    td_local, td_pc, err_task, net >>

DispatchTch   == irq /\ ~masked /\ Dispatch
DispatchOther == Dispatch

-----------------------------------------------------------------------------
(* _hal_lightning_pkt_handleErrorTask / handleTxL2Isr / handleTxErrStat.   *)

(* Mutant: the status is not cleared, so the same error is seen again.     *)
ErrReadKeep ==
    /\ err_pc = "wait" /\ l2_status > 0
    /\ err_todo' = l2_status
    /\ err_pc' = "set"
    /\ UNCHANGED << descs, engine, indices, err_flag, sw_gpd_ring, bulk,
                    td_local, td_pc, intr, l2_status, net >>

(* Read the L2 status; every error bit in it will be handled in turn.      *)
ErrRead ==
    /\ err_pc = "wait" /\ l2_status > 0
    /\ err_todo' = l2_status
    /\ l2_status' = 0
    /\ err_pc' = "set"
    /\ UNCHANGED << descs, engine, indices, err_flag, sw_gpd_ring, bulk,
                    td_local, td_pc, intr, net >>

ErrSet ==
    /\ err_pc = "set" /\ ~RingLocked
    /\ err_flag' = TRUE
    /\ err_pc' = "trigger"
    /\ UNCHANGED << descs, engine, indices, sw_gpd_ring, bulk, td_local, td_pc,
                    intr, l2_status, err_todo, net >>

(* Mutant: the TxDone task is not triggered.                               *)
ErrTriggerNot ==
    /\ err_pc = "trigger"
    /\ err_todo' = err_todo - 1
    /\ err_pc' = IF err_todo = 1 THEN "wait" ELSE "set"
    /\ UNCHANGED << descs, engine, indices, err_flag, sw_gpd_ring, bulk,
                    td_local, td_pc, intr, l2_status, net >>

ErrTrigger ==
    /\ err_pc = "trigger"
    /\ event' = TRUE
    /\ err_todo' = err_todo - 1
    /\ err_pc' = IF err_todo = 1 THEN "wait" ELSE "set"
    /\ UNCHANGED << descs, engine, indices, err_flag, sw_gpd_ring, bulk,
                    td_local, td_pc, irq, masked, l2_status, net >>

-----------------------------------------------------------------------------
(* _hal_lightning_pkt_handleTxDoneTask.                                    *)

(* osal_waitEvent: the condition is seen here and reset in TdClear, so a   *)
(* trigger between the two is swallowed.                                   *)
TdWake ==
    /\ td_pc = "wait" /\ event
    /\ td_pc' = "clear"
    /\ UNCHANGED << descs, engine, indices, err_flag, sw_gpd_ring, bulk,
                    td_local, intr, err_task, net >>

TdClear ==
    /\ td_pc = "clear"
    /\ event' = FALSE
    /\ td_pc' = "lock"
    /\ UNCHANGED << descs, engine, indices, err_flag, sw_gpd_ring, bulk,
                    td_local, irq, masked, err_task, net >>

TdLock ==
    /\ td_pc = "lock"
    /\ loop_cnt' = used_gpd_num
    /\ td_pc' = "loop"
    /\ UNCHANGED << descs, engine, indices, err_flag, sw_gpd_ring, bulk,
                    first_gpd_idx, idx, intr, err_task, net >>

(* Mutant: a done packet is put in front of the bulk buffer.               *)
TdReclaimLifo ==
    /\ td_pc = "loop" /\ loop_cnt > 0 /\ hwo[free_idx] = "SW"
    /\ IF last[free_idx]
       THEN /\ bulk' = << sw_gpd_ring[first_gpd_idx] >> \o bulk
            /\ sw_gpd_ring' = [sw_gpd_ring EXCEPT ![first_gpd_idx] = NULL]
            /\ first_gpd_idx' = Wrap(free_idx + 1)
       ELSE UNCHANGED << bulk, sw_gpd_ring, first_gpd_idx >>
    /\ free_idx' = Wrap(free_idx + 1)
    /\ used_gpd_num' = used_gpd_num - 1
    /\ free_gpd_num' = free_gpd_num + 1
    /\ loop_cnt' = loop_cnt - 1
    /\ UNCHANGED << descs, engine, used_idx, err_flag, idx, td_pc, intr, err_task,
                    net >>

(* The descriptor at free_idx is done.  At the end of a packet its first   *)
(* software GPD moves from the ring to the bulk buffer.                    *)
TdReclaim ==
    /\ td_pc = "loop" /\ loop_cnt > 0 /\ hwo[free_idx] = "SW"
    /\ IF last[free_idx]
       THEN /\ bulk' = Append(bulk, sw_gpd_ring[first_gpd_idx])
            /\ sw_gpd_ring' = [sw_gpd_ring EXCEPT ![first_gpd_idx] = NULL]
            /\ first_gpd_idx' = Wrap(free_idx + 1)
       ELSE UNCHANGED << bulk, sw_gpd_ring, first_gpd_idx >>
    /\ free_idx' = Wrap(free_idx + 1)
    /\ used_gpd_num' = used_gpd_num - 1
    /\ free_gpd_num' = free_gpd_num + 1
    /\ loop_cnt' = loop_cnt - 1
    /\ UNCHANGED << descs, engine, used_idx, err_flag, idx, td_pc, intr, err_task,
                    net >>

(* Hardware breakdown: flush the software ring into the bulk buffer ...    *)
TdBroken ==
    /\ td_pc = "loop" /\ loop_cnt > 0 /\ hwo[free_idx] = "HW" /\ err_flag
    /\ idx' = 0
    /\ td_pc' = "flush"
    /\ UNCHANGED << descs, engine, indices, err_flag, sw_gpd_ring, bulk,
                    first_gpd_idx, loop_cnt, intr, err_task, net >>

(* Mutant: the flushed slot is not cleared.                                *)
TdFlushKeep ==
    /\ td_pc = "flush" /\ idx < GpdNum
    /\ bulk' = IF sw_gpd_ring[idx] = NULL THEN bulk
               ELSE Append(bulk, sw_gpd_ring[idx])
    /\ idx' = idx + 1
    /\ UNCHANGED << descs, engine, indices, err_flag, sw_gpd_ring,
                    first_gpd_idx, loop_cnt, td_pc, intr, err_task, net >>

TdFlush ==
    /\ td_pc = "flush" /\ idx < GpdNum
    /\ IF sw_gpd_ring[idx] # NULL
       THEN /\ bulk' = Append(bulk, sw_gpd_ring[idx])
            /\ sw_gpd_ring' = [sw_gpd_ring EXCEPT ![idx] = NULL]
       ELSE UNCHANGED << bulk, sw_gpd_ring >>
    /\ idx' = idx + 1
    /\ UNCHANGED << descs, engine, indices, err_flag, first_gpd_idx, loop_cnt,
                    td_pc, intr, err_task, net >>

(* Mutant: the count of free descriptors is forgotten.                     *)
ResetIndicesPartly ==
    /\ used_idx' = 0 /\ free_idx' = 0
    /\ used_gpd_num' = 0 /\ UNCHANGED free_gpd_num

ResetIndices ==
    /\ used_idx' = 0 /\ free_idx' = 0
    /\ used_gpd_num' = 0 /\ free_gpd_num' = GpdNum

ResetDescs ==
    /\ hwo' = [s \in Slots |-> "SW"]
    /\ last' = [s \in Slots |-> TRUE]
    /\ buf' = [s \in Slots |-> NULL]

(* ... and bring the channel back to its initial state (recoverTxPdma).    *)
TdRecover ==
    /\ td_pc = "flush" /\ idx = GpdNum
    /\ first_gpd_idx' = 0
    /\ ResetIndices
    /\ ResetDescs
    /\ hw_idx' = 0 /\ hw_num' = 0 /\ hw_run' = TRUE
    /\ err_flag' = FALSE
    /\ td_pc' = "finish"
    /\ UNCHANGED << sw_gpd_ring, bulk, loop_cnt, idx, intr, err_task, net >>

(* The ring is drained, or the hardware is busy: leave the loop.           *)
TdDrained ==
    /\ td_pc = "loop"
    /\ loop_cnt = 0 \/ (hwo[free_idx] = "HW" /\ ~err_flag)
    /\ td_pc' = "finish"
    /\ UNCHANGED << descs, engine, indices, err_flag, sw_gpd_ring, bulk,
                    td_local, intr, err_task, net >>

(* Mutant: the queues are not woken.                                       *)
TdFinishAsleep ==
    /\ td_pc = "finish"
    /\ masked' = FALSE
    /\ td_pc' = "bulk"
    /\ UNCHANGED << descs, engine, indices, err_flag, sw_gpd_ring, bulk,
                    td_local, irq, event, err_task, net >>

(* Mutant: the interrupt stays masked.                                     *)
TdFinishMasked ==
    /\ td_pc = "finish"
    /\ stopped' = [d \in Ports |-> FALSE]
    /\ td_pc' = "bulk"
    /\ UNCHANGED << descs, engine, indices, err_flag, sw_gpd_ring, bulk,
                    td_local, intr, err_task, xmit, rc >>

(* Wake every stopped queue, unmask the interrupt, release the lock.       *)
TdFinish ==
    /\ td_pc = "finish"
    /\ stopped' = [d \in Ports |-> FALSE]
    /\ masked' = FALSE
    /\ td_pc' = "bulk"
    /\ UNCHANGED << descs, engine, indices, err_flag, sw_gpd_ring, bulk,
                    td_local, irq, event, err_task, xmit, rc >>

(* txEnQueueBulk: the callbacks run outside the lock, one after another.   *)
TdCallback ==
    /\ td_pc = "bulk" /\ bulk # << >>
    /\ bulk' = Tail(bulk)
    /\ UNCHANGED << descs, engine, indices, err_flag, sw_gpd_ring, td_local,
                    td_pc, intr, err_task, net >>

TdAgain ==
    /\ td_pc = "bulk" /\ bulk = << >>
    /\ td_pc' = "wait"
    /\ UNCHANGED << descs, engine, indices, err_flag, sw_gpd_ring, bulk,
                    td_local, intr, err_task, net >>

-----------------------------------------------------------------------------
TdTask == \/ TdWake \/ TdClear \/ TdLock \/ TdReclaim \/ TdBroken
          \/ TdFlush \/ TdRecover \/ TdDrained \/ TdFinish \/ TdCallback \/ TdAgain

Senders == \/ \E d \in Ports : StartXmit(d)
           \/ \E d \in Ports, p \in Packets : NetDevTx(d, p)
           \/ \E p \in Packets, n \in 1 .. MaxChain : DevTx(p, n)

Hardware == \/ \E k \in 1 .. hw_num : HwDone(k)
            \/ \E b \in 1 .. MaxErrBits : HwFault(b)

ErrTask == ErrRead \/ ErrSet \/ ErrTrigger

Next == Senders \/ Hardware \/ DispatchTch \/ DispatchOther \/ ErrTask \/ TdTask

Spec == Init /\ [][Next]_vars

(* The kernel threads are scheduled, interrupts are delivered, the engine  *)
(* works, and a queued spin lock is granted to whoever keeps asking.       *)
Fairness ==
    /\ WF_vars(TdTask)
    /\ WF_vars(\E k \in 1 .. hw_num : HwDone(k))
    /\ WF_vars(DispatchTch)
    /\ WF_vars(ErrRead) /\ SF_vars(ErrSet) /\ WF_vars(ErrTrigger)

FairSpec == Spec /\ Fairness

-----------------------------------------------------------------------------
(* PROPERTIES                                                              *)

(* The fields hold what the driver can put in them.                        *)
TypeDescs ==
    /\ hwo \in [Slots -> {"HW", "SW"}]
    /\ last \in [Slots -> BOOLEAN]
    /\ buf \in [Slots -> Packets \cup {NULL}]

TypeRing ==
    /\ hw_idx \in Slots /\ used_idx \in Slots /\ free_idx \in Slots
    /\ hw_num \in 0 .. GpdNum
    /\ used_gpd_num \in 0 .. GpdNum /\ free_gpd_num \in 0 .. GpdNum

TypeFlags ==
    /\ hw_run \in BOOLEAN /\ err_flag \in BOOLEAN
    /\ irq \in BOOLEAN /\ masked \in BOOLEAN /\ event \in BOOLEAN

TypePackets ==
    /\ sw_gpd_ring \in [Slots -> Packets \cup {NULL}]
    /\ bulk \in Seq(Packets \cup {NULL})

TypeTasks ==
    /\ first_gpd_idx \in Slots
    /\ loop_cnt \in 0 .. GpdNum /\ idx \in 0 .. GpdNum
    /\ td_pc \in {"wait", "clear", "lock", "loop", "flush", "finish", "bulk"}
    /\ l2_status \in 0 .. MaxErrBits /\ err_todo \in 0 .. MaxErrBits
    /\ err_pc \in {"wait", "set", "trigger"}

TypeNet ==
    /\ stopped \in [Ports -> BOOLEAN] /\ xmit \in [Ports -> BOOLEAN]
    /\ rc \in [Ports -> {"OK", "TABLE_FULL", "OTHERS"}]

TypeOK ==
    TypeDescs /\ TypeRing /\ TypeFlags /\ TypePackets /\ TypeTasks /\ TypeNet

(* How far slot s lies behind free_idx: the used slots are those nearer    *)
(* than used_gpd_num.                                                      *)
Off(s) == IF s >= free_idx THEN s - free_idx ELSE s - free_idx + GpdNum

(* The two counts, the two indices, the engine's position and the owner    *)
(* bits describe one window of the ring: first what is done, then what the *)
(* hardware has; every free slot is the software's.  sendGpd relies on it  *)
(* when it trusts free_gpd_num ("free gpd idx out-of-sync" otherwise).     *)
RingAccounting ==
    /\ used_gpd_num + free_gpd_num = GpdNum
    /\ used_idx = Wrap(free_idx + used_gpd_num)
    /\ hw_num <= used_gpd_num
    /\ hw_idx = Wrap(free_idx + (used_gpd_num - hw_num))
    /\ \A s \in Slots : hwo[s] = "HW" <=>
          Off(s) >= used_gpd_num - hw_num /\ Off(s) < used_gpd_num

(* Slot s starts a packet that is in the ring: the one TxDone is at        *)
(* starts at first_gpd_idx, any other after the end of the one before it.  *)
IsHead(s) ==
    \/ s = first_gpd_idx /\ used_gpd_num > 0
    \/ /\ Off(s) > 0 /\ Off(s) < used_gpd_num
       /\ last[IF s = 0 THEN GpdNum - 1 ELSE s - 1]

(* The software ring names a packet at exactly the slots where one starts. *)
HeadsAligned ==
    td_pc # "flush" => \A s \in Slots : sw_gpd_ring[s] # NULL <=> IsHead(s)

(* Every packet in the driver has one owner, so its callback runs once; no *)
(* callback is looked up through a NULL pointer; and a packet whose buffer *)
(* a descriptor still gives to the hardware has not been handed to its     *)
(* callback, which unmaps and frees that buffer.                           *)
OneOwner ==
    /\ HeadsAligned
    /\ \A i, j \in 1 .. Len(bulk) : bulk[i] = bulk[j] => i = j
    /\ \A s, t \in Slots : sw_gpd_ring[s] = sw_gpd_ring[t]
                             /\ sw_gpd_ring[s] # NULL => s = t
    /\ InRing \cap InBulk = {}
    /\ NULL \notin InBulk
    /\ \A s \in Slots : hwo[s] = "HW" => buf[s] \in InDriver

(* A channel is reset, and its packets flushed, only after it has halted.  *)
RecoverOnlyHalted == [][(err_flag /\ ~err_flag') => ~hw_run]_vars

(* "reserve 1 packet buffer for each port in case that the suspension is   *)
(* too late": a netdev packet never meets a full ring.                     *)
ReserveSuffices == \A d \in Ports : rc[d] # "TABLE_FULL"

(* Every accepted packet reaches its callback, whether it is sent or the   *)
(* channel breaks down under it.                                           *)
PacketsReturned == \A p \in Packets : p \in InDriver ~> p \notin InDriver

(* A queue stopped for want of descriptors is woken again.                 *)
QueuesWoken == \A d \in Ports : stopped[d] ~> ~stopped[d]

(* "err_flag=TRUE -> HW breakdown -> enque and recover".                   *)
ErrorsRecovered == err_flag ~> ~err_flag

(* Where packets start, counted from first_gpd_idx; the software ring in   *)
(* the order in which TxDone will meet its packets.                        *)
FromFirst(i) == Wrap(first_gpd_idx + i)

Starts == {i \in 0 .. GpdNum - 1 : sw_gpd_ring[FromFirst(i)] # NULL}

Rank(S, i) == Cardinality({j \in S : j < i})
Nth(S, k)  == CHOOSE i \in S : Rank(S, i) = k - 1

Pending ==
    [k \in 1 .. Cardinality(Starts) |-> sw_gpd_ring[FromFirst(Nth(Starts, k))]]

Service == INSTANCE TxService WITH owed <- bulk \o Pending, broken <- err_flag

(* The channel keeps the promise of TxService.                             *)
ImplementsService == Service!ServiceSpec
=============================================================================
