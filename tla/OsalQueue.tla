----------------------------- MODULE OsalQueue -----------------------------
(***************************************************************************)
(* The software queue of netif_osal.c, one memory access of one thread at  *)
(* a time.  _hal_lightning_pkt_enQueue, deQueue and getQueueCount call it  *)
(* with the semaphore operations around the calls commented out, so what   *)
(* keeps threads apart is only who uses which queue:                       *)
(*   - a queue of one Rx channel has one producer, the RxDone task, and    *)
(*     two consumers, the user's ioctl and the flush of rxStop;            *)
(*   - the Tx queue has one consumer, the user's ioctl, and a producer for *)
(*     each of the TxDone tasks.                                           *)
(* The stores of one thread become visible in program order.               *)
(***************************************************************************)
EXTENDS Integers, Sequences

CONSTANTS
    Producers, Consumers,   \* the threads that use the queue
    Items,                  \* software GPDs
    NULL,
    Capacity,               \* HAL_DFLT_CFG_PKT_TX_QUEUE_LEN, .._RX_QUEUE_LEN
    W                       \* wr_cnt and rd_cnt count modulo W (2^32)

ASSUME QueueConstants ==
    /\ Capacity \in Nat /\ Capacity > 0
    /\ W \in Nat /\ W > Capacity
    /\ NULL \notin Items

Slots == 0 .. Capacity - 1
Counts == 0 .. W - 1

VARIABLES
    head, tail, wr_cnt, rd_cnt, entry,   \* linux_queue_t
    p_pc, p_item, p_reg,                 \* each producer: step, item, register
    c_pc, c_item, c_reg                  \* each consumer: step, result, register

queue    == << head, tail, wr_cnt, rd_cnt, entry >>
producer == << p_pc, p_item, p_reg >>
consumer == << c_pc, c_item, c_reg >>
vars     == << queue, producer, consumer >>

Init ==
    /\ head = 0 /\ tail = 0 /\ wr_cnt = 0 /\ rd_cnt = 0
    /\ entry = [s \in Slots |-> NULL]
    /\ p_pc = [p \in Producers |-> "idle"]
    /\ p_item = [p \in Producers |-> NULL]
    /\ p_reg = [p \in Producers |-> 0]
    /\ c_pc = [c \in Consumers |-> "idle"]
    /\ c_item = [c \in Consumers |-> NULL]
    /\ c_reg = [c \in Consumers |-> 0]

(* head++ or tail++, and back to 0 when it reaches the capacity.           *)
NextSlot(s) == IF s + 1 >= Capacity THEN 0 ELSE s + 1

(* n++ on an unsigned counter.                                             *)
Inc(n) == IF n = W - 1 THEN 0 ELSE n + 1

(* Mutant: the difference is taken as if the counters never wrapped.       *)
CountNoWrap == IF wr_cnt >= rd_cnt THEN wr_cnt - rd_cnt ELSE 0

(* osal_que_getCount: the difference of the counters modulo W.             *)
Count == IF wr_cnt >= rd_cnt THEN wr_cnt - rd_cnt ELSE wr_cnt - rd_cnt + W

-----------------------------------------------------------------------------
(* osal_que_enque.                                                         *)

Busy(x) == \/ \E p \in Producers : p_item[p] = x
           \/ \E c \in Consumers : c_item[c] = x
           \/ \E s \in Slots : entry[s] = x

(* A producer has an item to hand over; it asks until there is room.       *)
EnqStart(p, x) ==
    /\ p_pc[p] = "idle" /\ ~Busy(x)
    /\ p_pc' = [p_pc EXCEPT ![p] = "check"]
    /\ p_item' = [p_item EXCEPT ![p] = x]
    /\ UNCHANGED << queue, p_reg, consumer >>

(* Mutant: one item more than the capacity is let in.                      *)
EnqCheckOver(p) ==
    /\ p_pc[p] = "check" /\ Count <= Capacity
    /\ p_pc' = [p_pc EXCEPT ![p] = "store"]
    /\ UNCHANGED << queue, p_item, p_reg, consumer >>

EnqCheck(p) ==
    /\ p_pc[p] = "check" /\ Count < Capacity
    /\ p_pc' = [p_pc EXCEPT ![p] = "store"]
    /\ UNCHANGED << queue, p_item, p_reg, consumer >>

EnqStore(p) ==
    /\ p_pc[p] = "store"
    /\ entry' = [entry EXCEPT ![tail] = p_item[p]]
    /\ p_pc' = [p_pc EXCEPT ![p] = "tail"]
    /\ UNCHANGED << head, tail, wr_cnt, rd_cnt, p_item, p_reg, consumer >>

EnqTail(p) ==
    /\ p_pc[p] = "tail"
    /\ tail' = NextSlot(tail)
    /\ p_pc' = [p_pc EXCEPT ![p] = "load"]
    /\ UNCHANGED << head, wr_cnt, rd_cnt, entry, p_item, p_reg, consumer >>

(* wr_cnt++ loads the counter ...                                          *)
EnqLoad(p) ==
    /\ p_pc[p] = "load"
    /\ p_reg' = [p_reg EXCEPT ![p] = wr_cnt]
    /\ p_pc' = [p_pc EXCEPT ![p] = "count"]
    /\ UNCHANGED << queue, p_item, consumer >>

(* ... and stores what it computed.                                        *)
EnqCount(p) ==
    /\ p_pc[p] = "count"
    /\ wr_cnt' = Inc(p_reg[p])
    /\ p_pc' = [p_pc EXCEPT ![p] = "idle"]
    /\ p_item' = [p_item EXCEPT ![p] = NULL]
    /\ UNCHANGED << head, tail, rd_cnt, entry, p_reg, consumer >>

-----------------------------------------------------------------------------
(* osal_que_deque.                                                         *)

DeqCheck(c) ==
    /\ c_pc[c] = "idle" /\ wr_cnt # rd_cnt
    /\ c_pc' = [c_pc EXCEPT ![c] = "take"]
    /\ UNCHANGED << queue, producer, c_item, c_reg >>

(* Two accesses to one entry; a second consumer that comes between them    *)
(* takes the same item, one that comes after them takes NULL.              *)
DeqTake(c) ==
    /\ c_pc[c] = "take"
    /\ c_item' = [c_item EXCEPT ![c] = entry[head]]
    /\ c_pc' = [c_pc EXCEPT ![c] = "clear"]
    /\ UNCHANGED << queue, producer, c_reg >>

DeqClear(c) ==
    /\ c_pc[c] = "clear"
    /\ entry' = [entry EXCEPT ![head] = NULL]
    /\ c_pc' = [c_pc EXCEPT ![c] = "head"]
    /\ UNCHANGED << head, tail, wr_cnt, rd_cnt, producer, c_item, c_reg >>

DeqHead(c) ==
    /\ c_pc[c] = "head"
    /\ head' = NextSlot(head)
    /\ c_pc' = [c_pc EXCEPT ![c] = "load"]
    /\ UNCHANGED << tail, wr_cnt, rd_cnt, entry, producer, c_item, c_reg >>

DeqLoad(c) ==
    /\ c_pc[c] = "load"
    /\ c_reg' = [c_reg EXCEPT ![c] = rd_cnt]
    /\ c_pc' = [c_pc EXCEPT ![c] = "count"]
    /\ UNCHANGED << queue, producer, c_item >>

DeqCount(c) ==
    /\ c_pc[c] = "count"
    /\ rd_cnt' = Inc(c_reg[c])
    /\ c_pc' = [c_pc EXCEPT ![c] = "idle"]
    /\ c_item' = [c_item EXCEPT ![c] = NULL]
    /\ UNCHANGED << head, tail, wr_cnt, entry, producer, c_reg >>

-----------------------------------------------------------------------------
Enque(p) == \/ \E x \in Items : EnqStart(p, x)
            \/ EnqCheck(p) \/ EnqStore(p) \/ EnqTail(p)
            \/ EnqLoad(p) \/ EnqCount(p)

Deque(c) == \/ DeqCheck(c) \/ DeqTake(c) \/ DeqClear(c) \/ DeqHead(c)
            \/ DeqLoad(c) \/ DeqCount(c)

Next == \/ \E p \in Producers : Enque(p)
        \/ \E c \in Consumers : Deque(c)

Spec == Init /\ [][Next]_vars

-----------------------------------------------------------------------------
(* PROPERTIES                                                              *)

TypeOK ==
    /\ head \in Slots /\ tail \in Slots
    /\ wr_cnt \in Counts /\ rd_cnt \in Counts
    /\ entry \in [Slots -> Items \cup {NULL}]
    /\ p_pc \in [Producers -> {"idle", "check", "store", "tail", "load", "count"}]
    /\ p_item \in [Producers -> Items \cup {NULL}]
    /\ p_reg \in [Producers -> Counts]
    /\ c_pc \in [Consumers -> {"idle", "take", "clear", "head", "load", "count"}]
    /\ c_item \in [Consumers -> Items \cup {NULL}]
    /\ c_reg \in [Consumers -> Counts]

(* The next enqueue has a free entry to write to: the slot at tail is      *)
(* empty until a producer that saw room in the counters stores there.      *)
NoOverwrite ==
    \A p \in Producers : p_pc[p] = "store" => entry[tail] = NULL

(* A consumer that was told the queue is not empty gets an item: the       *)
(* callers of deQueue dereference it.                                      *)
NoNullItem ==
    \A c \in Consumers : c_pc[c] \in {"clear", "head", "load", "count"}
                           => c_item[c] # NULL

(* "wr_cnt: enqueue total count": each completed enqueue raises it by one. *)
WrCntCounts ==
    [][\A p \in Producers : p_pc[p] = "count" /\ p_pc'[p] # "count"
                              => wr_cnt' = Inc(wr_cnt)]_vars

(* The items the counters cover, oldest first.  An item leaves when rd_cnt *)
(* is stored, one step after its entry was cleared and head moved past it. *)
Taken == {c \in Consumers : c_pc[c] \in {"head", "load", "count"}}

OldestSlot == IF \E c \in Consumers : c_pc[c] \in {"load", "count"}
              THEN (IF head = 0 THEN Capacity - 1 ELSE head - 1) ELSE head

SlotAfter(s, n) == IF s + n >= Capacity THEN s + n - Capacity ELSE s + n

Contents ==
    [i \in 1 .. Count |->
       IF i = 1 /\ Taken # {} THEN c_item[CHOOSE c \in Taken : TRUE]
       ELSE entry[SlotAfter(OldestSlot, i - 1)]]

Fifo == INSTANCE FifoQueue WITH items <- Contents

(* With one producer and one consumer the queue is a bounded FIFO.         *)
ImplementsFifo == Fifo!FifoSpec
=============================================================================
