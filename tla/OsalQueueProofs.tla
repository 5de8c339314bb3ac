-------------------------- MODULE OsalQueueProofs --------------------------
(***************************************************************************)
(* With one producer and one consumer, for every capacity, every width of  *)
(* the counters and every set of items, the unlocked queue of netif_osal.c *)
(* loses nothing, hands out no empty entry and is a bounded FIFO.          *)
(***************************************************************************)
EXTENDS OsalQueue, SequenceTheorems, TLAPS

SingleProducerConsumer == /\ \E p : Producers = {p}
                          /\ \E c : Consumers = {c}

P == CHOOSE p \in Producers : TRUE
C == CHOOSE c \in Consumers : TRUE

(* What the threads have done and not yet counted.                         *)
Stored  == p_pc[P] \in {"tail", "load", "count"}
Passed  == p_pc[P] \in {"load", "count"}
Vacated == c_pc[C] \in {"head", "load", "count"}
Moved   == c_pc[C] \in {"load", "count"}

(* OldestSlot and its successors, for the one consumer.                    *)
Oldest  == IF Moved THEN (IF head = 0 THEN Capacity - 1 ELSE head - 1) ELSE head
Slot(n) == SlotAfter(Oldest, n)

(* The counters lag behind the entries: a producer that has seen room      *)
(* keeps it, a consumer that has seen an item keeps it.                    *)
Counters ==
    /\ Count <= Capacity
    /\ p_pc[P] \in {"store", "tail", "load", "count"} => Count < Capacity
    /\ c_pc[C] # "idle" => Count > 0
    /\ p_pc[P] = "count" => p_reg[P] = wr_cnt
    /\ c_pc[C] = "count" => c_reg[C] = rd_cnt

(* What the threads hold.                                                  *)
Held ==
    /\ p_pc[P] # "idle" => p_item[P] \in Items
    /\ c_pc[C] \notin {"idle", "take"} => c_item[C] \in Items
    /\ c_pc[C] = "clear" => c_item[C] = entry[head]

(* From the oldest slot on, the entries hold as many items as were counted *)
(* and the one just stored; only the one just taken is missing.            *)
Window ==
    /\ tail = Slot(IF Passed THEN Count + 1 ELSE Count)
    /\ \A i \in 0 .. Capacity - 1 :
          entry[Slot(i)] # NULL <=>
             /\ i < Count \/ (i = Count /\ Stored)
             /\ ~(i = 0 /\ Vacated)
    /\ Stored => entry[Slot(Count)] = p_item[P]

Inv == TypeOK /\ Counters /\ Held /\ Window

-----------------------------------------------------------------------------
(* Slots and counters.                                                     *)

LEMMA Singles ==
    ASSUME SingleProducerConsumer
    PROVE  Producers = {P} /\ Consumers = {C}
BY DEF SingleProducerConsumer, P, C

LEMMA SlotAfterType ==
    ASSUME NEW s \in Slots, NEW n \in 0 .. Capacity
    PROVE  SlotAfter(s, n) \in Slots
BY QueueConstants DEF SlotAfter, Slots

LEMMA SlotAfterInjective ==
    ASSUME NEW s \in Slots, NEW m \in 0 .. Capacity - 1, NEW n \in 0 .. Capacity - 1,
           SlotAfter(s, m) = SlotAfter(s, n)
    PROVE  m = n
BY QueueConstants DEF SlotAfter, Slots

(* Advancing an index by one and then by n, or the other way round.        *)
LEMMA SlotAfterNext ==
    ASSUME NEW s \in Slots, NEW n \in 0 .. Capacity - 1
    PROVE  /\ NextSlot(s) \in Slots
           /\ SlotAfter(s, 0) = s
           /\ SlotAfter(s, Capacity) = s
           /\ NextSlot(SlotAfter(s, n)) = SlotAfter(s, n + 1)
           /\ SlotAfter(NextSlot(s), n) = SlotAfter(s, n + 1)
BY QueueConstants DEF SlotAfter, NextSlot, Slots

LEMMA OldestType ==
    ASSUME TypeOK
    PROVE  Oldest \in Slots /\ (Moved => head = NextSlot(Oldest))
BY QueueConstants DEF Oldest, Slots, NextSlot, TypeOK

LEMMA CountType ==
    ASSUME TypeOK
    PROVE  Count \in 0 .. W - 1 /\ (Count = 0 <=> wr_cnt = rd_cnt)
BY QueueConstants DEF Count, Counts, TypeOK

(* The difference of the counters, past the wrap of either.                *)
LEMMA CountUp ==
    ASSUME TypeOK, Count < Capacity, wr_cnt' = Inc(wr_cnt), rd_cnt' = rd_cnt
    PROVE  wr_cnt' \in Counts /\ Count' = Count + 1
BY QueueConstants DEF Count, Counts, Inc, TypeOK

LEMMA CountDown ==
    ASSUME TypeOK, Count > 0, rd_cnt' = Inc(rd_cnt), wr_cnt' = wr_cnt
    PROVE  rd_cnt' \in Counts /\ Count' = Count - 1
BY QueueConstants DEF Count, Counts, Inc, TypeOK

LEMMA CountSame ==
    ASSUME wr_cnt' = wr_cnt, rd_cnt' = rd_cnt
    PROVE  Count' = Count
BY DEF Count

USE DEF queue, producer, consumer

-----------------------------------------------------------------------------
LEMMA InitInv == SingleProducerConsumer /\ Init => Inv
<1> SUFFICES ASSUME SingleProducerConsumer, Init PROVE Inv
  OBVIOUS
<1> USE Singles
<1>1. TypeOK
  BY QueueConstants DEF Init, TypeOK, Slots, Counts
<1>2. Count = 0 /\ Oldest = 0 /\ p_pc[P] = "idle" /\ c_pc[C] = "idle"
  BY QueueConstants DEF Init, Count, Oldest, Moved
<1>3. Counters
  BY <1>2, QueueConstants DEF Counters
<1>4. Held
  BY <1>2 DEF Held
<1>5. Window
  <2>1. \A i \in 0 .. Capacity - 1 : Slot(i) \in Slots
    BY <1>1, OldestType, SlotAfterType, QueueConstants DEF Slot
  <2>2. Slot(0) = 0
    BY <1>2, QueueConstants DEF Slot, SlotAfter
  <2> QED
    BY <1>2, <2>1, <2>2 DEF Window, Init, Stored, Passed
<1> QED
  BY <1>1, <1>3, <1>4, <1>5 DEF Inv

-----------------------------------------------------------------------------
(* With one thread on each side, a step is one of twelve.                  *)
LEMMA Steps ==
    ASSUME SingleProducerConsumer, Next
    PROVE  Enque(P) \/ Deque(C)
BY Singles DEF Next

LEMMA TypeStep ==
    ASSUME SingleProducerConsumer, TypeOK, Next
    PROVE  TypeOK'
<1> USE Singles DEF TypeOK
<1>1. NextSlot(head) \in Slots /\ NextSlot(tail) \in Slots
  BY QueueConstants DEF NextSlot, Slots
<1>2. \A n \in Counts : Inc(n) \in Counts
  BY QueueConstants DEF Inc, Counts
<1>3. CASE Enque(P)
  <2>1. CASE \E x \in Items : EnqStart(P, x)
    BY <2>1 DEF EnqStart
  <2>2. CASE EnqCheck(P)
    BY <2>2 DEF EnqCheck
  <2>3. CASE EnqStore(P)
    BY <2>3 DEF EnqStore
  <2>4. CASE EnqTail(P)
    BY <2>4, <1>1 DEF EnqTail
  <2>5. CASE EnqLoad(P)
    BY <2>5 DEF EnqLoad
  <2>6. CASE EnqCount(P)
    BY <2>6, <1>2 DEF EnqCount
  <2> QED
    BY <1>3, <2>1, <2>2, <2>3, <2>4, <2>5, <2>6 DEF Enque
<1>4. CASE Deque(C)
  <2>1. CASE DeqCheck(C)
    BY <2>1 DEF DeqCheck
  <2>2. CASE DeqTake(C)
    BY <2>2 DEF DeqTake
  <2>3. CASE DeqClear(C)
    BY <2>3 DEF DeqClear
  <2>4. CASE DeqHead(C)
    BY <2>4, <1>1 DEF DeqHead
  <2>5. CASE DeqLoad(C)
    BY <2>5 DEF DeqLoad
  <2>6. CASE DeqCount(C)
    BY <2>6, <1>2 DEF DeqCount
  <2> QED
    BY <1>4, <2>1, <2>2, <2>3, <2>4, <2>5, <2>6 DEF Deque
<1> QED
  BY <1>3, <1>4, Steps

(* Only one thread writes each counter, so the other side's test of it     *)
(* errs on the safe side.                                                  *)
LEMMA CountersStep ==
    ASSUME SingleProducerConsumer, TypeOK, Counters, Next
    PROVE  Counters'
<1> USE Singles, QueueConstants DEF Counters
<1>1. Count \in 0 .. W - 1 /\ (Count = 0 <=> wr_cnt = rd_cnt)
  BY CountType
<1>2. CASE Enque(P)
  <2>1. CASE EnqCount(P)
    <3>1. p_pc[P] = "count" /\ Count' = Count + 1
      BY <2>1, CountUp DEF EnqCount
    <3> QED
      BY <2>1, <3>1, <1>1 DEF EnqCount, TypeOK
  <2>2. CASE (\E x \in Items : EnqStart(P, x)) \/ EnqStore(P) \/ EnqTail(P)
    <3>1. Count' = Count
      BY <2>2, CountSame DEF EnqStart, EnqStore, EnqTail
    <3> QED
      BY <2>2, <3>1 DEF EnqStart, EnqStore, EnqTail, TypeOK
  <2>3. CASE EnqCheck(P) \/ EnqLoad(P)
    <3>1. Count' = Count
      BY <2>3, CountSame DEF EnqCheck, EnqLoad
    <3> QED
      BY <2>3, <3>1 DEF EnqCheck, EnqLoad, TypeOK
  <2> QED
    BY <1>2, <2>1, <2>2, <2>3 DEF Enque
<1>3. CASE Deque(C)
  <2>1. CASE DeqCount(C)
    <3>1. c_pc[C] = "count" /\ Count' = Count - 1
      BY <2>1, CountDown DEF DeqCount
    <3> QED
      BY <2>1, <3>1, <1>1 DEF DeqCount, TypeOK
  <2>2. CASE DeqTake(C) \/ DeqClear(C) \/ DeqHead(C)
    <3>1. Count' = Count
      BY <2>2, CountSame DEF DeqTake, DeqClear, DeqHead
    <3> QED
      BY <2>2, <3>1 DEF DeqTake, DeqClear, DeqHead, TypeOK
  <2>3. CASE DeqCheck(C) \/ DeqLoad(C)
    <3>1. Count' = Count
      BY <2>3, CountSame DEF DeqCheck, DeqLoad
    <3> QED
      BY <2>3, <3>1, <1>1 DEF DeqCheck, DeqLoad, TypeOK
  <2> QED
    BY <1>3, <2>1, <2>2, <2>3 DEF Deque
<1> QED
  BY <1>2, <1>3, Steps

-----------------------------------------------------------------------------
(* The window of entries that are in use.                                  *)

LEMMA SlotFacts ==
    ASSUME TypeOK
    PROVE  /\ Oldest \in Slots
           /\ Slot(0) = Oldest
           /\ Slot(Capacity) = Oldest
           /\ \A n \in 0 .. Capacity : Slot(n) \in Slots
           /\ \A m, n \in 0 .. Capacity - 1 : Slot(m) = Slot(n) => m = n
           /\ \A n \in 0 .. Capacity - 1 : NextSlot(Slot(n)) = Slot(n + 1)
           /\ \A n \in 0 .. Capacity - 1 : SlotAfter(NextSlot(Oldest), n) = Slot(n + 1)
<1>1. Oldest \in Slots
  BY OldestType
<1>2. 0 \in 0 .. Capacity - 1
  BY QueueConstants
<1> QED
  BY <1>1, <1>2, SlotAfterType, SlotAfterInjective, SlotAfterNext DEF Slot

(* The producer writes to an entry that is outside the window.             *)
LEMMA StoreOutside ==
    ASSUME Inv, p_pc[P] = "store"
    PROVE  tail = Slot(Count) /\ Count \in 0 .. Capacity - 1 /\ entry[tail] = NULL
<1>1. Count \in 0 .. Capacity - 1
  BY CountType, QueueConstants DEF Inv, Counters
<1> QED
  BY <1>1 DEF Inv, Window, Stored, Passed

(* The consumer reads the entry that begins it.                            *)
LEMMA TakeInside ==
    ASSUME Inv, c_pc[C] = "take"
    PROVE  entry[head] \in Items
<1>1. Count > 0 /\ Count \in Nat /\ 0 \in 0 .. Capacity - 1
  BY CountType, QueueConstants DEF Inv, Counters
<1>2. head = Slot(0)
  BY SlotFacts, <1>1 DEF Inv, Oldest, Moved
<1>3. entry[head] # NULL
  BY <1>1, <1>2 DEF Inv, Window, Vacated
<1> QED
  BY <1>3 DEF Inv, TypeOK

(* A producer's store does not touch the entry a consumer has read.        *)
LEMMA HeldStep ==
    ASSUME SingleProducerConsumer, Inv, Next
    PROVE  Held'
<1> USE Singles DEF Inv, Held
<1>1. CASE Enque(P)
  <2>1. CASE \E x \in Items : EnqStart(P, x)
    BY <2>1 DEF EnqStart, TypeOK
  <2>2. CASE EnqStore(P)
    <3>1. c_pc[C] = "clear" => head # tail
      <4> SUFFICES ASSUME c_pc[C] = "clear" PROVE head # tail
        OBVIOUS
      <4>1. tail = Slot(Count) /\ Count \in 0 .. Capacity - 1 /\ Count > 0
        BY <2>2, StoreOutside DEF EnqStore, Counters
      <4>2. head = Slot(0) /\ 0 \in 0 .. Capacity - 1
        BY SlotFacts, QueueConstants DEF Oldest, Moved
      <4> QED
        BY <4>1, <4>2, SlotFacts
    <3> QED
      BY <2>2, <3>1 DEF EnqStore, TypeOK
  <2>3. CASE EnqCheck(P) \/ EnqTail(P) \/ EnqLoad(P) \/ EnqCount(P)
    BY <2>3 DEF EnqCheck, EnqTail, EnqLoad, EnqCount, TypeOK
  <2> QED
    BY <1>1, <2>1, <2>2, <2>3 DEF Enque
<1>2. CASE Deque(C)
  <2>1. CASE DeqTake(C)
    BY <2>1, TakeInside DEF DeqTake, TypeOK
  <2>2. CASE DeqCheck(C) \/ DeqLoad(C) \/ DeqCount(C)
    BY <2>2 DEF DeqCheck, DeqLoad, DeqCount, TypeOK
  <2>3. CASE DeqClear(C) \/ DeqHead(C)
    BY <2>3 DEF DeqClear, DeqHead, TypeOK
  <2> QED
    BY <1>2, <2>1, <2>2, <2>3 DEF Deque
<1> QED
  BY <1>1, <1>2, Steps

(* Steps that touch neither entries nor indices.                           *)
LEMMA WindowSame ==
    ASSUME Window, Oldest' = Oldest, Count' = Count,
           Stored' = Stored, Passed' = Passed, Vacated' = Vacated,
           UNCHANGED << tail, entry >>, Stored => p_item'[P] = p_item[P]
    PROVE  Window'
BY DEF Window, Slot

(* A producer's steps extend the window at its end ...                     *)
LEMMA WindowEnque ==
    ASSUME SingleProducerConsumer, Inv, Enque(P)
    PROVE  Window'
<1> USE Singles DEF Inv
<1>1. Count \in Nat /\ Count <= Capacity /\ Capacity \in Nat /\ Capacity > 0
  BY CountType, QueueConstants DEF Counters
<1>2. Oldest' = Oldest /\ Vacated' = Vacated
  BY DEF Enque, EnqStart, EnqCheck, EnqStore, EnqTail, EnqLoad, EnqCount, Oldest,
         Moved, Vacated
<1>3. CASE (\E x \in Items : EnqStart(P, x)) \/ EnqCheck(P) \/ EnqLoad(P)
  <2>1. Count' = Count /\ UNCHANGED << tail, entry >>
    BY <1>3, CountSame DEF EnqStart, EnqCheck, EnqLoad
  <2>2. Stored' = Stored /\ Passed' = Passed /\ (Stored => p_item'[P] = p_item[P])
    BY <1>3 DEF EnqStart, EnqCheck, EnqLoad, Stored, Passed, TypeOK
  <2> QED
    BY <1>2, <2>1, <2>2, WindowSame
<1>4. CASE EnqStore(P)
  <2>1. tail = Slot(Count) /\ Count \in 0 .. Capacity - 1
    BY <1>4, StoreOutside DEF EnqStore
  <2>2. Count' = Count /\ \A n : Slot(n)' = Slot(n)
    BY <1>2, <1>4, CountSame DEF EnqStore, Slot
  <2>3. ~Stored /\ ~Passed /\ Stored' /\ ~Passed' /\ tail' = tail
    BY <1>4 DEF EnqStore, Stored, Passed, TypeOK
  <2>4. entry' = [entry EXCEPT ![tail] = p_item[P]] /\ p_item' = p_item
    BY <1>4 DEF EnqStore
  <2>5. p_item[P] # NULL /\ p_item[P] \in Items
    BY <1>4, QueueConstants DEF EnqStore, Held
  <2>6. Count = 0 => ~Vacated
    BY DEF Counters, Vacated
  <2>7. ASSUME NEW i \in 0 .. Capacity - 1
        PROVE  entry'[Slot(i)] # NULL <=> /\ i < Count \/ i = Count
                                          /\ ~(i = 0 /\ Vacated)
    <3>1. CASE i = Count
      BY <3>1, <2>1, <2>4, <2>5, <2>6, SlotFacts, <1>1 DEF TypeOK
    <3>2. CASE i # Count
      <4>1. entry'[Slot(i)] = entry[Slot(i)]
        BY <3>2, <2>1, <2>4, SlotFacts, <1>1 DEF TypeOK
      <4> QED
        BY <4>1, <3>2, <2>3 DEF Window
    <3> QED
      BY <3>1, <3>2
  <2>8. entry'[Slot(Count)] = p_item[P]
    BY <2>1, <2>4, SlotFacts, <1>1 DEF TypeOK
  <2> QED
    BY <2>1, <2>2, <2>3, <2>4, <2>7, <2>8, <1>2 DEF Window
<1>5. CASE EnqTail(P)
  <2>1. Count' = Count /\ \A n : Slot(n)' = Slot(n)
    BY <1>2, <1>5, CountSame DEF EnqTail, Slot
  <2>2. Stored /\ ~Passed /\ Stored' /\ Passed' /\ entry' = entry /\ p_item' = p_item
    BY <1>5 DEF EnqTail, Stored, Passed, TypeOK
  <2>3. Count \in 0 .. Capacity - 1
    BY <1>1, <1>5 DEF EnqTail, Counters
  <2>4. tail' = Slot(Count + 1)
    BY <1>5, <2>2, <2>3, SlotFacts DEF EnqTail, Window
  <2> QED
    BY <2>1, <2>2, <2>4, <1>2 DEF Window
<1>6. CASE EnqCount(P)
  <2>1. p_reg[P] = wr_cnt /\ Count < Capacity
    BY <1>6 DEF EnqCount, Counters
  <2>2. Count' = Count + 1 /\ \A n : Slot(n)' = Slot(n)
    BY <1>2, <1>6, <2>1, CountUp DEF EnqCount, Slot
  <2>3. Stored /\ Passed /\ ~Stored' /\ ~Passed' /\ entry' = entry /\ tail' = tail
    BY <1>6 DEF EnqCount, Stored, Passed, TypeOK
  <2>4. \A i \in 0 .. Capacity - 1 : i < Count + 1 <=> i < Count \/ i = Count
    BY <1>1
  <2> QED
    BY <2>2, <2>3, <2>4, <1>2 DEF Window
<1> QED
  BY <1>3, <1>4, <1>5, <1>6 DEF Enque
(* ... and a consumer's shorten it at its beginning.                       *)
LEMMA WindowDeque ==
    ASSUME SingleProducerConsumer, Inv, Deque(C)
    PROVE  Window'
<1> USE Singles DEF Inv
<1>1. Count \in Nat /\ Count <= Capacity /\ Capacity \in Nat /\ Capacity > 0
  BY CountType, QueueConstants DEF Counters
<1>2. Stored' = Stored /\ Passed' = Passed /\ p_item' = p_item /\ tail' = tail
  BY DEF Deque, DeqCheck, DeqTake, DeqClear, DeqHead, DeqLoad, DeqCount, Stored,
         Passed
<1>3. CASE DeqCheck(C) \/ DeqTake(C) \/ DeqLoad(C)
  <2>1. Count' = Count /\ entry' = entry
    BY <1>3, CountSame DEF DeqCheck, DeqTake, DeqLoad
  <2>2. Oldest' = Oldest /\ Vacated' = Vacated
    BY <1>3 DEF DeqCheck, DeqTake, DeqLoad, Oldest, Moved, Vacated, TypeOK
  <2> QED
    BY <1>2, <2>1, <2>2, WindowSame
<1>4. CASE DeqClear(C)
  <2>1. Count > 0 /\ ~Moved /\ ~Moved' /\ ~Vacated /\ Vacated'
    BY <1>4 DEF DeqClear, Counters, Moved, Vacated, TypeOK
  <2>2. Count' = Count /\ Oldest' = Oldest /\ \A n : Slot(n)' = Slot(n)
    BY <1>4, <2>1, CountSame DEF DeqClear, Oldest, Slot
  <2>3. head = Slot(0) /\ 0 \in 0 .. Capacity - 1
    BY <2>1, <1>1, SlotFacts DEF Oldest
  <2>4. entry' = [entry EXCEPT ![Slot(0)] = NULL]
    BY <1>4, <2>3 DEF DeqClear
  <2>5. entry'[Slot(0)] = NULL
    BY <2>3, <2>4, SlotFacts, <1>1 DEF TypeOK
  <2>6. ASSUME NEW i \in 0 .. Capacity - 1, i # 0
        PROVE  entry'[Slot(i)] = entry[Slot(i)]
    BY <2>3, <2>4, <2>6, SlotFacts, <1>1 DEF TypeOK
  <2>7. Stored => Count \in 0 .. Capacity - 1 /\ Count # 0
    BY <1>1, <2>1 DEF Counters, Stored
  <2> QED
    BY <1>2, <2>1, <2>2, <2>5, <2>6, <2>7 DEF Window
<1>5. CASE DeqHead(C)
  <2>1. ~Moved /\ Moved' /\ Vacated /\ Vacated'
    BY <1>5 DEF DeqHead, Moved, Vacated, TypeOK
  <2>2. Oldest' = Oldest
    BY <1>5, <2>1, <1>1 DEF DeqHead, Oldest, NextSlot, TypeOK, Slots
  <2>3. Count' = Count /\ entry' = entry
    BY <1>5, CountSame DEF DeqHead
  <2> QED
    BY <1>2, <2>1, <2>2, <2>3, WindowSame
<1>6. CASE DeqCount(C)
  <2>1. c_reg[C] = rd_cnt /\ Count > 0
    BY <1>6 DEF DeqCount, Counters
  <2>2. Count' = Count - 1 /\ entry' = entry
    BY <1>6, <2>1, CountDown DEF DeqCount
  <2>3. Moved /\ ~Moved' /\ Vacated /\ ~Vacated' /\ head' = head
    BY <1>6 DEF DeqCount, Moved, Vacated, TypeOK
  <2>4. Oldest' = NextSlot(Oldest)
    BY <2>3, OldestType DEF Oldest
  <2>5. \A n \in 0 .. Capacity - 1 : SlotAfter(Oldest', n) = Slot(n + 1)
    BY <2>4, SlotFacts DEF Slot
  <2>6. (Stored => Count < Capacity) /\ (Passed => Stored)
    BY DEF Counters, Stored, Passed
  <2>7. tail' = SlotAfter(Oldest', IF Passed' THEN Count' + 1 ELSE Count')
    <3> DEFINE n == IF Passed THEN Count ELSE Count - 1
    <3>1. n \in 0 .. Capacity - 1 /\ tail = Slot(n + 1)
      BY <1>1, <2>1, <2>6 DEF Window
    <3> QED
      BY <3>1, <2>2, <2>5, <1>1, <1>2
  <2>8. ASSUME NEW i \in 0 .. Capacity - 1
        PROVE  entry[Slot(i + 1)] # NULL <=> i < Count - 1 \/ (i = Count - 1 /\ Stored)
    <3>1. CASE i = Capacity - 1
      <4>1. Slot(i + 1) = Slot(0) /\ 0 \in 0 .. Capacity - 1
        BY <3>1, <1>1, SlotFacts
      <4>2. entry[Slot(i + 1)] = NULL
        BY <4>1, <2>3 DEF Window
      <4> QED
        BY <4>2, <3>1, <1>1, <2>6
    <3>2. CASE i # Capacity - 1
      <4>1. i + 1 \in 0 .. Capacity - 1 /\ i + 1 # 0
        BY <3>2, <1>1
      <4>2. entry[Slot(i + 1)] # NULL <=> i + 1 < Count \/ (i + 1 = Count /\ Stored)
        BY <4>1 DEF Window
      <4> QED
        BY <4>2, <1>1
    <3> QED
      BY <3>1, <3>2
  <2>9. Stored => entry[Slot(Count)] = p_item[P] /\ SlotAfter(Oldest', Count') = Slot(Count)
    <3>1. Count - 1 \in 0 .. Capacity - 1 /\ Count - 1 + 1 = Count
      BY <1>1, <2>1
    <3> QED
      BY <3>1, <2>2, <2>5 DEF Window
  <2> QED
    BY <1>2, <2>2, <2>3, <2>5, <2>7, <2>8, <2>9 DEF Window, Slot
<1> QED
  BY <1>3, <1>4, <1>5, <1>6 DEF Deque

-----------------------------------------------------------------------------
LEMMA StepInv == SingleProducerConsumer /\ Inv /\ [Next]_vars => Inv'
<1> SUFFICES ASSUME SingleProducerConsumer, Inv, [Next]_vars PROVE Inv'
  OBVIOUS
<1>1. CASE Next
  <2>1. TypeOK' /\ Counters'
    BY <1>1, TypeStep, CountersStep DEF Inv
  <2>2. Held'
    BY <1>1, HeldStep
  <2>3. Window'
    BY <1>1, Steps, WindowEnque, WindowDeque
  <2> QED
    BY <2>1, <2>2, <2>3 DEF Inv
<1>2. CASE UNCHANGED vars
  BY <1>2 DEF vars, Inv, TypeOK, Counters, Held, Window, Count, Slot, Oldest, Moved,
              Stored, Passed, Vacated
<1> QED
  BY <1>1, <1>2

(* Counters, entries and what the threads hold stay in step.               *)
THEOREM Invariance ==
    ASSUME SingleProducerConsumer
    PROVE  Spec => []Inv
BY InitInv, StepInv, PTL DEF Spec

(* An enqueue never overwrites an item that is still to be taken: the test *)
(* of the counters in osal_que_enque suffices without a lock.              *)
THEOREM NoOverwriteCorrect ==
    ASSUME SingleProducerConsumer
    PROVE  Spec => []NoOverwrite
<1>1. Inv => NoOverwrite
  BY Singles, StoreOutside DEF NoOverwrite
<1> QED
  BY <1>1, Invariance, PTL

(* A dequeue that passed the test of osal_que_deque returns an item.       *)
THEOREM NoNullItemCorrect ==
    ASSUME SingleProducerConsumer
    PROVE  Spec => []NoNullItem
<1>1. Inv => NoNullItem
  BY Singles, QueueConstants DEF NoNullItem, Inv, Held
<1> QED
  BY <1>1, Invariance, PTL

-----------------------------------------------------------------------------
(* The queue implements FifoQueue: an item is put when wr_cnt is stored    *)
(* and got when rd_cnt is.                                                 *)

(* The i-th item, as Contents defines it, for the one consumer.            *)
Item(i) == IF i = 1 /\ Vacated THEN c_item[C] ELSE entry[Slot(i - 1)]

ContentsAreItems ==
    /\ Contents \in Seq(Items)
    /\ Len(Contents) = Count
    /\ Count \in Nat
    /\ \A i \in 1 .. Count : Contents[i] = Item(i)

LEMMA ContentsFacts == SingleProducerConsumer /\ Inv => ContentsAreItems
<1> SUFFICES ASSUME SingleProducerConsumer, Inv PROVE ContentsAreItems
  OBVIOUS
<1> USE Singles DEF Inv
<1>1. Count \in Nat /\ Count <= Capacity /\ Capacity \in Nat
  BY CountType, QueueConstants DEF Counters
<1>2. OldestSlot = Oldest
  BY DEF OldestSlot, Oldest, Moved
<1>3. Taken = IF Vacated THEN {C} ELSE {}
  BY DEF Taken, Vacated
<1>4. Vacated => (CHOOSE c \in Taken : TRUE) = C
  BY <1>3
<1>5. Contents = [i \in 1 .. Count |-> Item(i)]
  BY <1>2, <1>3, <1>4 DEF Contents, Slot, Item
<1>6. ASSUME NEW i \in 1 .. Count
      PROVE  Item(i) \in Items
  <2>1. CASE i = 1 /\ Vacated
    BY <2>1 DEF Held, Vacated, Item
  <2>2. CASE ~(i = 1 /\ Vacated)
    <3>1. i - 1 \in 0 .. Capacity - 1 /\ i - 1 < Count /\ ~(i - 1 = 0 /\ Vacated)
      BY <1>1, <2>2
    <3>2. entry[Slot(i - 1)] # NULL
      BY <3>1 DEF Window
    <3>3. Slot(i - 1) \in Slots
      BY <3>1, <1>1, SlotFacts
    <3> QED
      BY <2>2, <3>2, <3>3 DEF TypeOK, Item
  <2> QED
    BY <2>1, <2>2
<1>7. Contents \in [1 .. Count -> Items]
  BY <1>5, <1>6
<1> QED
  BY <1>1, <1>5, <1>7 DEF ContentsAreItems

LEMMA ContentsFactsNext ==
    ASSUME SingleProducerConsumer
    PROVE  Inv' => ContentsAreItems'
<1>1. Inv => ContentsAreItems
  BY ContentsFacts
<1> QED
  BY <1>1, PTL

(* Every step but the two that store a counter keeps the contents.         *)
LEMMA ContentsSame ==
    ASSUME SingleProducerConsumer, Inv, Inv', Count' = Count,
           \A i \in 1 .. Count : Item(i)' = Item(i)
    PROVE  Contents' = Contents
<1>1. ContentsAreItems /\ ContentsAreItems'
  BY ContentsFacts, ContentsFactsNext
<1> QED
  BY <1>1, SeqEqual DEF ContentsAreItems
(* Storing wr_cnt appends the producer's item.                             *)
LEMMA PutStep ==
    ASSUME SingleProducerConsumer, Inv, Inv', EnqCount(P)
    PROVE  Fifo!Put(p_item[P])
<1> USE Singles
<1>1. ContentsAreItems /\ ContentsAreItems'
  BY ContentsFacts, ContentsFactsNext
<1>2. Count < Capacity /\ Count' = Count + 1 /\ p_item[P] \in Items
  BY CountUp DEF EnqCount, Inv, Counters, Held
<1>3. entry[Slot(Count)] = p_item[P]
  BY DEF Inv, Window, EnqCount, Stored
<1>4. \A i : Item(i)' = Item(i)
  BY DEF EnqCount, Item, Slot, Oldest, Moved, Vacated
<1>5. Item(Count + 1) = p_item[P]
  <2>1. Count + 1 = 1 => ~Vacated
    BY <1>1 DEF Inv, Counters, Vacated, ContentsAreItems
  <2>2. Slot(Count + 1 - 1) = Slot(Count)
    BY <1>1 DEF ContentsAreItems
  <2>3. Item(Count + 1) = entry[Slot(Count + 1 - 1)]
    BY <2>1, <1>1 DEF Item, Vacated, ContentsAreItems
  <2> QED
    BY <2>2, <2>3, <1>3
<1>6. Contents' = Append(Contents, p_item[P])
  <2>1. /\ Append(Contents, p_item[P]) \in Seq(Items)
        /\ Len(Append(Contents, p_item[P])) = Count + 1
        /\ \A i \in 1 .. Count : Append(Contents, p_item[P])[i] = Contents[i]
        /\ Append(Contents, p_item[P])[Count + 1] = p_item[P]
    BY <1>1, <1>2, AppendProperties DEF ContentsAreItems
  <2>2. Contents' \in Seq(Items) /\ Len(Contents') = Count + 1
    BY <1>1, <1>2 DEF ContentsAreItems
  <2>3. ASSUME NEW i \in 1 .. Count + 1
        PROVE  Contents'[i] = Append(Contents, p_item[P])[i]
    <3>1. Contents'[i] = Item(i)
      BY <1>1, <1>2, <1>4 DEF ContentsAreItems
    <3>2. CASE i = Count + 1
      BY <2>1, <3>1, <3>2, <1>5
    <3>3. CASE i \in 1 .. Count
      BY <2>1, <3>1, <3>3, <1>1 DEF ContentsAreItems
    <3> QED
      BY <3>2, <3>3, <1>1 DEF ContentsAreItems
  <2> QED
    BY <2>1, <2>2, <2>3, SeqEqual
<1> QED
  BY <1>1, <1>2, <1>6 DEF Fifo!Put, ContentsAreItems

(* Storing rd_cnt removes the consumer's item.                             *)
LEMMA GetStep ==
    ASSUME SingleProducerConsumer, Inv, Inv', DeqCount(C)
    PROVE  Fifo!Get
<1> USE Singles
<1>1. ContentsAreItems /\ ContentsAreItems'
  BY ContentsFacts, ContentsFactsNext
<1>2. Count > 0 /\ Count \in Nat /\ Count <= Capacity /\ Count' = Count - 1
  BY <1>1, CountDown DEF DeqCount, Inv, Counters, ContentsAreItems
<1>3. ~Vacated' /\ Oldest' = NextSlot(Oldest)
  <2>1. Moved /\ ~Moved' /\ ~Vacated' /\ head' = head
    BY DEF DeqCount, Moved, Vacated, Inv, TypeOK
  <2> QED
    BY <2>1, OldestType DEF Oldest, Inv
<1>4. \A n \in 0 .. Capacity - 1 : SlotAfter(Oldest', n) = Slot(n + 1)
  BY <1>3, SlotFacts DEF Inv
<1>5. ASSUME NEW i \in 1 .. Count - 1
      PROVE  Item(i)' = Item(i + 1)
  <2>1. i - 1 \in 0 .. Capacity - 1 /\ i - 1 + 1 = i + 1 - 1 /\ i + 1 # 1
    BY <1>2, QueueConstants
  <2>2. Item(i)' = entry[SlotAfter(Oldest', i - 1)]
    BY <1>3 DEF DeqCount, Item, Slot
  <2>3. Item(i + 1) = entry[Slot(i + 1 - 1)]
    BY <2>1 DEF Item
  <2> QED
    BY <2>1, <2>2, <2>3, <1>4
<1>6. Contents # << >>
  BY <1>1, <1>2 DEF ContentsAreItems
<1>7. Contents' = Tail(Contents)
  <2>1. /\ Tail(Contents) \in Seq(Items)
        /\ Len(Tail(Contents)) = Count - 1
        /\ \A i \in 1 .. Count - 1 : Tail(Contents)[i] = Contents[i + 1]
    BY <1>1, <1>2, <1>6, HeadTailProperties DEF ContentsAreItems
  <2>2. Contents' \in Seq(Items) /\ Len(Contents') = Count - 1
    BY <1>1, <1>2 DEF ContentsAreItems
  <2>3. ASSUME NEW i \in 1 .. Count - 1
        PROVE  Contents'[i] = Tail(Contents)[i]
    <3>1. Contents'[i] = Item(i)'
      BY <1>1, <1>2 DEF ContentsAreItems
    <3>2. Contents[i + 1] = Item(i + 1)
      BY <1>1, <1>2 DEF ContentsAreItems
    <3> QED
      BY <2>1, <3>1, <3>2, <1>5
  <2> QED
    BY <2>1, <2>2, <2>3, SeqEqual
<1> QED
  BY <1>6, <1>7 DEF Fifo!Get
(* The other steps of either thread are invisible.                         *)
LEMMA EnqueStutters ==
    ASSUME SingleProducerConsumer, Inv, Inv', Enque(P), ~EnqCount(P)
    PROVE  Contents' = Contents
<1> USE Singles
<1>1. ContentsAreItems
  BY ContentsFacts
<1>2. Count' = Count
  BY CountSame DEF Enque, EnqStart, EnqCheck, EnqStore, EnqTail, EnqLoad
<1>3. Oldest' = Oldest /\ Vacated' = Vacated /\ c_item' = c_item
  BY DEF Enque, EnqStart, EnqCheck, EnqStore, EnqTail, EnqLoad, EnqCount, Oldest,
         Moved, Vacated
<1>4. CASE ~EnqStore(P)
  <2>1. entry' = entry
    BY <1>4 DEF Enque, EnqStart, EnqCheck, EnqTail, EnqLoad
  <2>2. \A i \in 1 .. Count : Item(i)' = Item(i)
    BY <2>1, <1>3 DEF Item, Slot
  <2> QED
    BY <2>2, <1>2, ContentsSame
<1>5. CASE EnqStore(P)
  <2>1. tail = Slot(Count) /\ Count \in 0 .. Capacity - 1
    BY <1>5, StoreOutside DEF EnqStore
  <2>2. entry' = [entry EXCEPT ![tail] = p_item[P]]
    BY <1>5 DEF EnqStore
  <2>3. ASSUME NEW i \in 1 .. Count
        PROVE  Item(i)' = Item(i)
    <3>1. i - 1 \in 0 .. Capacity - 1 /\ i - 1 # Count
      BY <2>1, QueueConstants
    <3>2. Slot(i - 1) # tail
      BY <3>1, <2>1, SlotFacts DEF Inv
    <3>3. entry'[Slot(i - 1)] = entry[Slot(i - 1)]
      BY <3>1, <3>2, <2>2, SlotFacts, QueueConstants DEF Inv, TypeOK
    <3> QED
      BY <3>3, <1>3 DEF Item, Slot
  <2> QED
    BY <2>3, <1>2, ContentsSame
<1> QED
  BY <1>4, <1>5

LEMMA DequeStutters ==
    ASSUME SingleProducerConsumer, Inv, Inv', Deque(C), ~DeqCount(C)
    PROVE  Contents' = Contents
<1> USE Singles
<1>1. ContentsAreItems
  BY ContentsFacts
<1>2. Count' = Count
  BY CountSame DEF Deque, DeqCheck, DeqTake, DeqClear, DeqHead, DeqLoad
<1>3. CASE DeqCheck(C) \/ DeqTake(C) \/ DeqHead(C) \/ DeqLoad(C)
  <2>1. Oldest' = Oldest
    <3>1. CASE DeqHead(C)
      <4>1. ~Moved /\ Moved' /\ head \in Slots /\ head' = NextSlot(head)
        BY <3>1 DEF DeqHead, Moved, Inv, TypeOK
      <4> QED
        BY <4>1, QueueConstants DEF Oldest, NextSlot, Slots
    <3>2. CASE DeqCheck(C) \/ DeqTake(C) \/ DeqLoad(C)
      BY <3>2 DEF DeqCheck, DeqTake, DeqLoad, Oldest, Moved, Inv, TypeOK
    <3> QED
      BY <1>3, <3>1, <3>2
  <2>2. Vacated' = Vacated /\ entry' = entry /\ (Vacated => c_item' = c_item)
    BY <1>3 DEF DeqCheck, DeqTake, DeqHead, DeqLoad, Vacated, Inv, TypeOK
  <2>3. \A i \in 1 .. Count : Item(i)' = Item(i)
    BY <2>1, <2>2 DEF Item, Slot
  <2> QED
    BY <2>3, <1>2, ContentsSame
<1>4. CASE DeqClear(C)
  <2>1. ~Vacated /\ Vacated' /\ Oldest' = Oldest /\ Oldest = head /\ c_item' = c_item
    BY <1>4 DEF DeqClear, Oldest, Moved, Vacated, Inv, TypeOK
  <2>2. head = Slot(0) /\ 0 \in 0 .. Capacity - 1 /\ Count <= Capacity
    BY <2>1, SlotFacts, QueueConstants DEF Inv, Counters
  <2>3. entry' = [entry EXCEPT ![head] = NULL] /\ c_item[C] = entry[head]
    BY <1>4 DEF DeqClear, Inv, Held
  <2>4. ASSUME NEW i \in 1 .. Count
        PROVE  Item(i)' = Item(i)
    <3>1. CASE i = 1
      <4>1. Item(i)' = c_item[C]
        BY <3>1, <2>1 DEF Item
      <4>2. Item(i) = entry[Slot(0)]
        BY <3>1, <2>1 DEF Item
      <4> QED
        BY <4>1, <4>2, <2>2, <2>3
    <3>2. CASE i # 1
      <4>1. i - 1 \in 0 .. Capacity - 1 /\ i - 1 # 0
        BY <3>2, <2>2, <1>1, QueueConstants DEF ContentsAreItems
      <4>2. Slot(i - 1) # head /\ Slot(i - 1) \in Slots
        BY <4>1, <2>2, SlotFacts, QueueConstants DEF Inv
      <4>3. entry'[Slot(i - 1)] = entry[Slot(i - 1)]
        BY <4>2, <2>3 DEF Inv, TypeOK
      <4> QED
        BY <4>3, <3>2, <2>1 DEF Item, Slot
    <3> QED
      BY <3>1, <3>2
  <2> QED
    BY <2>4, <1>2, ContentsSame
<1> QED
  BY <1>3, <1>4 DEF Deque

(* With one producer and one consumer the queue is a bounded FIFO.         *)
THEOREM FifoImplemented ==
    ASSUME SingleProducerConsumer
    PROVE  Spec => ImplementsFifo
<1>1. Init => Fifo!FifoInit
  <2> SUFFICES ASSUME Init PROVE Contents = << >>
    BY DEF Fifo!FifoInit
  <2>1. Inv
    BY InitInv
  <2>2. Count = 0
    BY QueueConstants DEF Init, Count
  <2> QED
    BY <2>1, <2>2, ContentsFacts, EmptySeq DEF ContentsAreItems
<1>2. Inv /\ Inv' /\ [Next]_vars => [Fifo!FifoNext]_Contents
  <2> SUFFICES ASSUME Inv, Inv', [Next]_vars
               PROVE  [Fifo!FifoNext]_Contents
    OBVIOUS
  <2>1. CASE Enque(P)
    <3>1. CASE EnqCount(P)
      <4>1. p_item[P] \in Items
        BY <3>1 DEF EnqCount, Inv, Held
      <4> QED
        BY <3>1, <4>1, PutStep DEF Fifo!FifoNext
    <3> QED
      BY <2>1, <3>1, EnqueStutters
  <2>2. CASE Deque(C)
    <3>1. CASE DeqCount(C)
      BY <3>1, GetStep DEF Fifo!FifoNext
    <3> QED
      BY <2>2, <3>1, DequeStutters
  <2>3. CASE UNCHANGED vars
    BY <2>3 DEF vars, Contents, Count, Taken, OldestSlot
  <2> QED
    BY <2>1, <2>2, <2>3, Steps
<1> QED
  BY <1>1, <1>2, Invariance, PTL DEF Spec, ImplementsFifo, Fifo!FifoSpec
=============================================================================
