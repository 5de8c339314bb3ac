---------------------------- MODULE TxRingProofs ----------------------------
(***************************************************************************)
(* Theorems about TxRing, for every ring size, low-water mark, set of      *)
(* packets and ports, hardware write-back granularity and number of error  *)
(* bits.                                                                   *)
(***************************************************************************)
EXTENDS TxRing, SequenceTheorems, FiniteSetTheorems, TLAPS

(* RingAccounting is preserved together with the types and two facts about *)
(* the tasks' local variables: TxDone never means to visit more            *)
(* descriptors than are used (senders only add some while it waits for the *)
(* lock), and the error task counts its error bits down to none.           *)
Inv ==
    /\ TypeOK
    /\ RingAccounting
    /\ td_pc = "loop" => loop_cnt <= used_gpd_num
    /\ err_pc # "wait" => err_todo > 0

-----------------------------------------------------------------------------
(* The operators on ring indices.                                          *)

LEMMA SlotsNat == GpdNum \in Nat /\ GpdNum > 0 /\ Slots = 0 .. GpdNum - 1
BY TxConstants DEF Slots

LEMMA WrapInSlots ==
    ASSUME NEW i \in 0 .. 2 * GpdNum - 1
    PROVE  Wrap(i) \in Slots
BY SlotsNat DEF Wrap

LEMMA OffRange ==
    ASSUME TypeOK, NEW s \in Slots
    PROVE  Off(s) \in Slots /\ s = Wrap(free_idx + Off(s))
BY SlotsNat DEF Off, Wrap, TypeOK, TypeRing

LEMMA OffOfWrap ==
    ASSUME TypeOK, NEW i \in Slots
    PROVE  Off(Wrap(free_idx + i)) = i
BY SlotsNat DEF Off, Wrap, TypeOK, TypeRing

USE DEF descs, engine, indices, td_local, intr, err_task, net

-----------------------------------------------------------------------------
LEMMA InitInv == Init => Inv
<1> SUFFICES ASSUME Init PROVE Inv
  OBVIOUS
<1>1. TypeDescs /\ TypeNet /\ TypeFlags
  BY DEF Init, TypeDescs, TypeNet, TypeFlags
<1>2. TypeRing
  BY SlotsNat DEF Init, TypeRing
<1>3. TypePackets
  BY DEF Init, TypePackets
<1>4. TypeTasks
  BY SlotsNat, TxConstants DEF Init, TypeTasks
<1>5. RingAccounting
  BY SlotsNat DEF Init, RingAccounting, Wrap, Off
<1> QED
  BY <1>1, <1>2, <1>3, <1>4, <1>5 DEF Inv, Init, TypeOK

-----------------------------------------------------------------------------
(* Steps that leave the ring and its indices alone.                        *)

LEMMA RingUntouched ==
    ASSUME RingAccounting, UNCHANGED << hwo, hw_idx, hw_num, indices >>
    PROVE  RingAccounting'
BY DEF RingAccounting, Off

(* The kernel enters ndo_start_xmit; the dispatcher runs.                  *)
LEMMA QueueInv ==
    ASSUME Inv, (\E d \in Ports : StartXmit(d)) \/ Dispatch
    PROVE  Inv'
<1> USE DEF StartXmit, Dispatch
<1>1. TypeDescs' /\ TypeNet'
  BY DEF Inv, TypeOK, TypeDescs, TypeNet
<1>2. TypeFlags'
  BY DEF Inv, TypeOK, TypeFlags
<1>3. TypeRing' /\ TypeTasks'
  BY SlotsNat, TxConstants DEF Inv, TypeOK, TypeRing, TypeTasks
<1>4. TypePackets'
  BY SlotsNat DEF Inv, TypeOK, TypePackets, TypeTasks
<1>5. RingAccounting'
  BY RingUntouched DEF Inv
<1>6. /\ (td_pc = "loop" => loop_cnt <= used_gpd_num)'
      /\ (err_pc # "wait" => err_todo > 0)'
  BY SlotsNat, TxConstants DEF Inv, TypeOK, TypeRing, TypeTasks
<1> QED
  BY <1>1, <1>2, <1>3, <1>4, <1>5, <1>6 DEF Inv, TypeOK

(* The engine halts; the error task reports it.                            *)
LEMMA ErrorInv ==
    ASSUME Inv,
           (\E b \in 1 .. MaxErrBits : HwFault(b)) \/ ErrRead \/ ErrSet \/ ErrTrigger
    PROVE  Inv'
<1> USE DEF HwFault, ErrRead, ErrSet, ErrTrigger
<1>1. TypeDescs' /\ TypeNet'
  BY DEF Inv, TypeOK, TypeDescs, TypeNet
<1>2. TypeFlags'
  BY DEF Inv, TypeOK, TypeFlags
<1>3. TypeRing' /\ TypeTasks'
  <2>1. TypeRing'
    BY DEF Inv, TypeOK, TypeRing
  <2>2. CASE \E b \in 1 .. MaxErrBits : HwFault(b)
    BY <2>1, <2>2, SlotsNat, TxConstants DEF Inv, TypeOK, TypeTasks
  <2>3. CASE ErrRead
    BY <2>1, <2>3, SlotsNat, TxConstants DEF Inv, TypeOK, TypeTasks
  <2>4. CASE ErrSet
    BY <2>1, <2>4, SlotsNat, TxConstants DEF Inv, TypeOK, TypeTasks
  <2>5. CASE ErrTrigger
    BY <2>1, <2>5, SlotsNat, TxConstants DEF Inv, TypeOK, TypeTasks
  <2> QED
    BY <2>2, <2>3, <2>4, <2>5
<1>4. TypePackets'
  BY SlotsNat DEF Inv, TypeOK, TypePackets, TypeTasks
<1>5. RingAccounting'
  BY RingUntouched DEF Inv
<1>6. /\ (td_pc = "loop" => loop_cnt <= used_gpd_num)'
      /\ (err_pc # "wait" => err_todo > 0)'
  BY SlotsNat, TxConstants DEF Inv, TypeOK, TypeRing, TypeTasks
<1> QED
  BY <1>1, <1>2, <1>3, <1>4, <1>5, <1>6 DEF Inv, TypeOK

(* The steps of TxDone that only move packets, events or its own locals.   *)
LEMMA TdQuietInv ==
    ASSUME Inv,
           \/ TdWake \/ TdClear \/ TdLock \/ TdBroken \/ TdFlush
           \/ TdDrained \/ TdFinish \/ TdCallback \/ TdAgain
    PROVE  Inv'
<1> USE DEF TdWake, TdClear, TdLock, TdBroken, TdFlush, TdDrained, TdFinish, TdCallback, TdAgain
<1>1. TypeDescs' /\ TypeNet'
  BY DEF Inv, TypeOK, TypeDescs, TypeNet
<1>2. TypeFlags'
  BY DEF Inv, TypeOK, TypeFlags
<1>3. TypeRing' /\ TypeTasks'
  <2>1. TypeRing'
    BY DEF Inv, TypeOK, TypeRing
  <2>2. TypeTasks'
    <3>1. CASE TdWake
      BY <3>1, SlotsNat DEF Inv, TypeOK, TypeRing, TypeTasks
    <3>2. CASE TdClear
      BY <3>2, SlotsNat DEF Inv, TypeOK, TypeRing, TypeTasks
    <3>3. CASE TdLock
      BY <3>3, SlotsNat DEF Inv, TypeOK, TypeRing, TypeTasks
    <3>4. CASE TdBroken
      BY <3>4, SlotsNat DEF Inv, TypeOK, TypeRing, TypeTasks
    <3>5. CASE TdFlush
      BY <3>5, SlotsNat DEF Inv, TypeOK, TypeRing, TypeTasks
    <3>6. CASE TdDrained
      BY <3>6, SlotsNat DEF Inv, TypeOK, TypeRing, TypeTasks
    <3>7. CASE TdFinish
      BY <3>7, SlotsNat DEF Inv, TypeOK, TypeRing, TypeTasks
    <3>8. CASE TdCallback
      BY <3>8, SlotsNat DEF Inv, TypeOK, TypeRing, TypeTasks
    <3>9. CASE TdAgain
      BY <3>9, SlotsNat DEF Inv, TypeOK, TypeRing, TypeTasks
    <3> QED
      BY <3>1, <3>2, <3>3, <3>4, <3>5, <3>6, <3>7, <3>8, <3>9
  <2> QED
    BY <2>1, <2>2
<1>4. TypePackets'
  <2>1. CASE TdFlush
    <3>1. idx \in Slots
      BY <2>1, SlotsNat DEF Inv, TypeOK, TypeTasks
    <3> DEFINE p == sw_gpd_ring[idx]
    <3>2. p \in Packets \cup {NULL} /\ bulk \in Seq(Packets \cup {NULL})
      BY <3>1 DEF Inv, TypeOK, TypePackets
    <3>3. Append(bulk, p) \in Seq(Packets \cup {NULL})
      BY <3>2, AppendProperties
    <3>4. bulk' \in Seq(Packets \cup {NULL})
      BY <2>1, <3>2, <3>3
    <3>5. sw_gpd_ring' \in [Slots -> Packets \cup {NULL}]
      BY <2>1 DEF Inv, TypeOK, TypePackets
    <3> QED
      BY <3>4, <3>5 DEF TypePackets
  <2>2. CASE TdCallback
    BY <2>2 DEF Inv, TypeOK, TypePackets
  <2>3. CASE UNCHANGED << sw_gpd_ring, bulk >>
    BY <2>3 DEF Inv, TypeOK, TypePackets
  <2> QED
    BY <2>1, <2>2, <2>3
<1>5. RingAccounting'
  BY RingUntouched DEF Inv
<1>6. /\ (td_pc = "loop" => loop_cnt <= used_gpd_num)'
      /\ (err_pc # "wait" => err_todo > 0)'
  BY SlotsNat, TxConstants DEF Inv, TypeOK, TypeRing, TypeTasks
<1> QED
  BY <1>1, <1>2, <1>3, <1>4, <1>5, <1>6 DEF Inv, TypeOK

-----------------------------------------------------------------------------
(* sendGpd.                                                                *)

(* The descriptor meant for the k-th GPD of a chain that fits lies behind  *)
(* all the used ones.                                                      *)
LEMMA NthSlotIsFree ==
    ASSUME Inv, NEW n \in Nat, free_gpd_num >= n, NEW k \in 0 .. n - 1
    PROVE  /\ NthSlot(k) \in Slots
           /\ Off(NthSlot(k)) = used_gpd_num + k
           /\ hwo[NthSlot(k)] = "SW"
<1>1. used_gpd_num + k \in Slots
  BY SlotsNat DEF Inv, TypeOK, TypeRing, RingAccounting
<1>2. NthSlot(k) = Wrap(free_idx + (used_gpd_num + k))
  BY <1>1, SlotsNat DEF Inv, TypeOK, TypeRing, RingAccounting, NthSlot, Wrap
<1>3. NthSlot(k) \in Slots
  BY <1>1, <1>2, SlotsNat DEF Inv, TypeOK, TypeRing, Wrap
<1>4. Off(NthSlot(k)) = used_gpd_num + k
  BY <1>1, <1>2, OffOfWrap DEF Inv
<1>5. hwo[NthSlot(k)] # "HW"
  BY <1>3, <1>4, SlotsNat DEF Inv, TypeOK, TypeRing, RingAccounting
<1>6. hwo[NthSlot(k)] \in {"HW", "SW"}
  BY <1>3 DEF Inv, TypeOK, TypeDescs
<1> QED
  BY <1>3, <1>4, <1>5, <1>6

(* So the copy loop is never cut short: the branch of sendGpd that logs    *)
(* "free gpd idx out-of-sync" is dead.                                     *)
LEMMA CopyComplete ==
    ASSUME Inv, NEW n \in Nat, NEW m \in 0 .. n, CanSend(n), Copied(n, m)
    PROVE  m = n
<1> SUFFICES ASSUME m < n PROVE FALSE
  OBVIOUS
<1>1. m \in 0 .. n - 1
  OBVIOUS
<1> QED
  BY <1>1, NthSlotIsFree DEF CanSend, Copied

LEMMA FillInv ==
    ASSUME Inv, NEW n \in Nat, NEW m \in 0 .. n, NEW p \in Packets, ~RingLocked,
           CanSend(n), Copied(n, m), Fill(p, n, m), TypeNet'
    PROVE  Inv'
<1> DEFINE slots == {NthSlot(k) : k \in 0 .. n - 1}
<1>1. m = n
  BY CopyComplete
<1>2. free_gpd_num >= n
  BY DEF CanSend
<1>3. \A k \in 0 .. n - 1 : NthSlot(k) \in Slots /\ Off(NthSlot(k)) = used_gpd_num + k
  BY <1>2, NthSlotIsFree
<1>4. \A s \in Slots : s \in slots <=>
          Off(s) >= used_gpd_num /\ Off(s) < used_gpd_num + n
  <2> SUFFICES ASSUME NEW s \in Slots
               PROVE  s \in slots <=>
                        Off(s) >= used_gpd_num /\ Off(s) < used_gpd_num + n
    OBVIOUS
  <2>1. ASSUME s \in slots
        PROVE  Off(s) >= used_gpd_num /\ Off(s) < used_gpd_num + n
    <3>1. PICK k \in 0 .. n - 1 : s = NthSlot(k)
      BY <2>1
    <3> QED
      BY <1>3, <3>1 DEF Inv, TypeOK, TypeRing
  <2>2. ASSUME Off(s) >= used_gpd_num, Off(s) < used_gpd_num + n
        PROVE  s \in slots
    <3>1. Off(s) \in Slots /\ s = Wrap(free_idx + Off(s))
      BY OffRange DEF Inv
    <3> DEFINE k == Off(s) - used_gpd_num
    <3>2. k \in 0 .. n - 1 /\ used_gpd_num + k = Off(s)
      BY <2>2, <3>1, SlotsNat DEF Inv, TypeOK, TypeRing
    <3>3. NthSlot(k) = s
      <4> HIDE DEF k
      <4>1. NthSlot(k) \in Slots /\ Off(NthSlot(k)) = Off(s)
        BY <1>3, <3>2
      <4>2. NthSlot(k) = Wrap(free_idx + Off(NthSlot(k)))
        BY <4>1, OffRange DEF Inv
      <4> QED
        BY <3>1, <4>1, <4>2
    <3> QED
      BY <3>2, <3>3
  <2> QED
    BY <2>1, <2>2
<1>5. /\ hwo' = [s \in Slots |-> IF s \in slots THEN "HW" ELSE hwo[s]]
      /\ used_idx' = Wrap(used_idx + n)
  BY <1>1 DEF Fill
<1>6. TypeDescs'
  <2> HIDE DEF slots
  <2>1. hwo' \in [Slots -> {"HW", "SW"}]
    BY <1>5 DEF Inv, TypeOK, TypeDescs
  <2>2. last' \in [Slots -> BOOLEAN]
    BY Zenon DEF Inv, TypeOK, TypeDescs, Fill
  <2>3. buf' \in [Slots -> Packets \cup {NULL}]
    BY DEF Inv, TypeOK, TypeDescs, Fill
  <2> QED
    BY <2>1, <2>2, <2>3 DEF TypeDescs
<1>7. TypeFlags'
  BY DEF Inv, TypeOK, TypeFlags, Fill
<1>8. TypeRing' /\ TypeTasks'
  <2>1. used_idx + n \in 0 .. 2 * GpdNum - 1
    BY <1>2, SlotsNat DEF Inv, TypeOK, TypeRing, RingAccounting
  <2>2. used_idx' \in Slots
    BY <2>1, <1>5, WrapInSlots
  <2>3. /\ used_gpd_num' = used_gpd_num + n
        /\ free_gpd_num' = free_gpd_num - n
        /\ hw_num' = hw_num + n
        /\ UNCHANGED << free_idx, hw_idx >>
    BY DEF Fill
  <2>4. TypeRing'
    BY <2>2, <2>3, <1>2, SlotsNat DEF Inv, TypeOK, TypeRing, RingAccounting
  <2>5. TypeTasks'
    BY DEF Inv, TypeOK, TypeTasks, Fill
  <2> QED
    BY <2>4, <2>5
<1>9. TypePackets'
  BY DEF Inv, TypeOK, TypePackets, Fill
<1>10. RingAccounting'
  <2>1. /\ used_gpd_num' = used_gpd_num + n
        /\ free_gpd_num' = free_gpd_num - n
        /\ hw_num' = hw_num + n
        /\ UNCHANGED << free_idx, hw_idx >>
    BY DEF Fill
  <2>2. used_gpd_num' - hw_num' = used_gpd_num - hw_num
    BY <2>1 DEF Inv, TypeOK, TypeRing
  <2>3. /\ (used_gpd_num + free_gpd_num = GpdNum)'
        /\ (hw_num <= used_gpd_num)'
        /\ (hw_idx = Wrap(free_idx + (used_gpd_num - hw_num)))'
    BY <2>1, <2>2, SlotsNat DEF Inv, TypeOK, TypeRing, RingAccounting
  <2>4. (used_idx = Wrap(free_idx + used_gpd_num))'
    BY <1>2, <1>5, <2>1, SlotsNat DEF Inv, TypeOK, TypeRing, RingAccounting, Wrap
  <2>5. ASSUME NEW s \in Slots
        PROVE  hwo'[s] = "HW" <=>
                 Off(s) >= used_gpd_num - hw_num /\ Off(s) < used_gpd_num + n
    <3> HIDE DEF slots
    <3>1. Off(s) \in Slots
      BY OffRange DEF Inv
    <3>2. hwo[s] = "HW" <=>
            Off(s) >= used_gpd_num - hw_num /\ Off(s) < used_gpd_num
      BY DEF Inv, RingAccounting
    <3>3. hwo'[s] = "HW" <=> s \in slots \/ hwo[s] = "HW"
      BY <1>5
    <3>4. s \in slots <=>
            Off(s) >= used_gpd_num /\ Off(s) < used_gpd_num + n
      BY <1>4
    <3> QED
      BY <3>1, <3>2, <3>3, <3>4, SlotsNat DEF Inv, TypeOK, TypeRing, RingAccounting
  <2>6. \A s \in Slots : Off(s)' = Off(s)
    BY <2>1 DEF Off
  <2> QED
    BY <2>1, <2>2, <2>3, <2>4, <2>5, <2>6 DEF RingAccounting
<1>11. /\ (td_pc = "loop" => loop_cnt <= used_gpd_num)'
       /\ (err_pc # "wait" => err_todo > 0)'
  BY DEF Inv, Fill, RingLocked
<1> QED
  BY <1>6, <1>7, <1>8, <1>9, <1>10, <1>11 DEF Inv, TypeOK

LEMMA SendersInv ==
    ASSUME Inv, NEW p \in Packets,
           \/ \E d \in Ports : NetDevTx(d, p)
           \/ \E n \in 1 .. MaxChain : DevTx(p, n)
    PROVE  Inv'
<1>1. ASSUME NEW d \in Ports, NetDevTx(d, p), CanSend(1)
      PROVE  Inv'
  <2>1. PICK m \in 0 .. 1 :
          /\ Copied(1, m) /\ Fill(p, 1, m)
          /\ rc' = [rc EXCEPT ![d] = IF m = 1 THEN "OK" ELSE "TABLE_FULL"]
    BY <1>1 DEF NetDevTx
  <2>2. TypeNet'
    BY <1>1, <2>1 DEF Inv, TypeOK, TypeNet, NetDevTx, Fill
  <2> QED
    BY <1>1, <2>1, <2>2, FillInv DEF NetDevTx
<1>2. ASSUME NEW d \in Ports, NetDevTx(d, p), ~CanSend(1)
      PROVE  Inv'
  <2> USE <1>2 DEF NetDevTx
  <2>1. TypeNet'
    BY DEF Inv, TypeOK, TypeNet, Refusal
  <2>2. TypeDescs' /\ TypePackets'
    BY DEF Inv, TypeOK, TypeDescs, TypePackets
  <2>3. TypeFlags'
    BY DEF Inv, TypeOK, TypeFlags
  <2>4. TypeRing' /\ TypeTasks'
    BY DEF Inv, TypeOK, TypeRing, TypeTasks
  <2>5. RingAccounting'
    BY RingUntouched DEF Inv
  <2> QED
    BY <2>1, <2>2, <2>3, <2>4, <2>5 DEF Inv, TypeOK
<1>3. ASSUME NEW n \in 1 .. MaxChain, DevTx(p, n)
      PROVE  Inv'
  <2>1. PICK m \in 0 .. n : Copied(n, m) /\ Fill(p, n, m)
    BY <1>3 DEF DevTx
  <2>2. TypeNet'
    BY <1>3, <2>1 DEF Inv, TypeOK, TypeNet, DevTx, Fill
  <2> QED
    BY <1>3, <2>1, <2>2, FillInv, TxConstants DEF DevTx
<1> QED
  BY <1>1, <1>2, <1>3

-----------------------------------------------------------------------------
(* The engine gives descriptors back.                                      *)

LEMMA HwSlotIsUsed ==
    ASSUME Inv, NEW j \in 0 .. hw_num - 1
    PROVE  /\ HwSlot(j) \in Slots
           /\ Off(HwSlot(j)) = used_gpd_num - hw_num + j
           /\ HwSlot(j) = Wrap(free_idx + (used_gpd_num - hw_num + j))
<1>1. used_gpd_num - hw_num + j \in Slots
  BY SlotsNat DEF Inv, TypeOK, TypeRing, RingAccounting
<1>2. HwSlot(j) = Wrap(free_idx + (used_gpd_num - hw_num + j))
  BY <1>1, SlotsNat DEF Inv, TypeOK, TypeRing, RingAccounting, HwSlot, Wrap
<1>3. HwSlot(j) \in Slots
  BY <1>1, <1>2, SlotsNat DEF Inv, TypeOK, TypeRing, Wrap
<1>4. Off(HwSlot(j)) = used_gpd_num - hw_num + j
  BY <1>1, <1>2, OffOfWrap DEF Inv
<1> QED
  BY <1>2, <1>3, <1>4

LEMMA HwDoneInv ==
    ASSUME Inv, NEW k \in 1 .. hw_num, HwDone(k)
    PROVE  Inv'
<1> DEFINE done == {HwSlot(j) : j \in 0 .. k - 1}
<1>1. \A j \in 0 .. k - 1 :
         /\ HwSlot(j) \in Slots
         /\ Off(HwSlot(j)) = used_gpd_num - hw_num + j
  BY HwSlotIsUsed, SlotsNat DEF Inv, TypeOK, TypeRing
<1>2. \A s \in Slots : s \in done <=>
         /\ Off(s) >= used_gpd_num - hw_num
         /\ Off(s) < used_gpd_num - hw_num + k
  <2> SUFFICES ASSUME NEW s \in Slots
               PROVE  s \in done <=> /\ Off(s) >= used_gpd_num - hw_num
                                     /\ Off(s) < used_gpd_num - hw_num + k
    OBVIOUS
  <2>1. ASSUME s \in done
        PROVE  /\ Off(s) >= used_gpd_num - hw_num
               /\ Off(s) < used_gpd_num - hw_num + k
    <3>1. PICK j \in 0 .. k - 1 : s = HwSlot(j)
      BY <2>1
    <3> QED
      BY <1>1, <3>1, SlotsNat DEF Inv, TypeOK, TypeRing
  <2>2. ASSUME Off(s) >= used_gpd_num - hw_num,
               Off(s) < used_gpd_num - hw_num + k
        PROVE  s \in done
    <3>1. Off(s) \in Slots /\ s = Wrap(free_idx + Off(s))
      BY OffRange DEF Inv
    <3> DEFINE j == Off(s) - (used_gpd_num - hw_num)
    <3>2. j \in 0 .. k - 1 /\ used_gpd_num - hw_num + j = Off(s)
      BY <2>2, <3>1, SlotsNat DEF Inv, TypeOK, TypeRing
    <3>3. j \in 0 .. hw_num - 1
      BY <3>2, SlotsNat DEF Inv, TypeOK, TypeRing
    <3>4. HwSlot(j) = s
      <4> HIDE DEF j
      <4>1. HwSlot(j) = Wrap(free_idx + (used_gpd_num - hw_num + j))
        BY <3>3, HwSlotIsUsed
      <4> QED
        BY <3>1, <3>2, <4>1
    <3> QED
      BY <3>2, <3>4
  <2> QED
    BY <2>1, <2>2
<1>3. hwo' = [s \in Slots |-> IF s \in done THEN "SW" ELSE hwo[s]]
  <2>1. \A s \in Slots : s \in done <=> \E j \in 0 .. k - 1 : s = HwSlot(j)
    OBVIOUS
  <2> QED
    BY <2>1 DEF HwDone
<1>4. /\ hw_num' = hw_num - k
      /\ UNCHANGED << used_gpd_num, free_gpd_num, used_idx, free_idx >>
  BY DEF HwDone
<1>5. hw_idx' = Wrap(free_idx + (used_gpd_num - (hw_num - k))) /\ hw_idx' \in Slots
  <2>1. hw_idx' = Wrap(hw_idx + k)
    BY DEF HwDone
  <2> QED
    BY <2>1, SlotsNat DEF Inv, TypeOK, TypeRing, RingAccounting, Wrap
<1>6. TypeDescs' /\ TypeNet'
  <2> HIDE DEF done
  <2>1. hwo' \in [Slots -> {"HW", "SW"}]
    BY <1>3 DEF Inv, TypeOK, TypeDescs
  <2> QED
    BY <2>1 DEF Inv, TypeOK, TypeDescs, TypeNet, HwDone
<1>7. TypeFlags'
  <2>1. irq' \in BOOLEAN
    BY DEF HwDone
  <2> QED
    BY <2>1 DEF Inv, TypeOK, TypeFlags, HwDone
<1>8. TypeRing'
  BY <1>4, <1>5, SlotsNat DEF Inv, TypeOK, TypeRing
<1>9. TypeTasks' /\ TypePackets'
  BY DEF Inv, TypeOK, TypeTasks, TypePackets, HwDone
<1>10. RingAccounting'
  <2>1. \A s \in Slots : Off(s)' = Off(s)
    BY <1>4 DEF Off
  <2>2. ASSUME NEW s \in Slots
        PROVE  hwo'[s] = "HW" <=>
                 /\ Off(s) >= used_gpd_num - hw_num'
                 /\ Off(s) < used_gpd_num
    <3> HIDE DEF done
    <3>1. Off(s) \in Slots
      BY OffRange DEF Inv
    <3>2. hwo[s] = "HW" <=>
            Off(s) >= used_gpd_num - hw_num /\ Off(s) < used_gpd_num
      BY DEF Inv, RingAccounting
    <3>3. hwo'[s] = "HW" <=> s \notin done /\ hwo[s] = "HW"
      BY <1>3
    <3>4. s \in done <=> /\ Off(s) >= used_gpd_num - hw_num
                         /\ Off(s) < used_gpd_num - hw_num + k
      BY <1>2
    <3> QED
      BY <1>4, <3>1, <3>2, <3>3, <3>4, SlotsNat DEF Inv, TypeOK, TypeRing
  <2>3. /\ (used_gpd_num + free_gpd_num = GpdNum)'
        /\ (used_idx = Wrap(free_idx + used_gpd_num))'
        /\ (hw_num <= used_gpd_num)'
        /\ (hw_idx = Wrap(free_idx + (used_gpd_num - hw_num)))'
    BY <1>4, <1>5, SlotsNat DEF Inv, TypeOK, TypeRing, RingAccounting, Wrap
  <2> QED
    BY <1>4, <2>1, <2>2, <2>3 DEF RingAccounting
<1>11. /\ (td_pc = "loop" => loop_cnt <= used_gpd_num)'
       /\ (err_pc # "wait" => err_todo > 0)'
  BY DEF Inv, HwDone
<1> QED
  BY <1>6, <1>7, <1>8, <1>9, <1>10, <1>11 DEF Inv, TypeOK

-----------------------------------------------------------------------------
(* TxDone takes a descriptor back, or resets the channel.                  *)

LEMMA TdReclaimInv ==
    ASSUME Inv, TdReclaim
    PROVE  Inv'
<1>1. /\ free_idx' = Wrap(free_idx + 1)
      /\ used_gpd_num' = used_gpd_num - 1
      /\ free_gpd_num' = free_gpd_num + 1
      /\ loop_cnt' = loop_cnt - 1
      /\ UNCHANGED << hwo, last, buf, hw_idx, hw_num, used_idx, idx, td_pc >>
      /\ td_pc = "loop" /\ loop_cnt > 0 /\ hwo[free_idx] = "SW"
  BY DEF TdReclaim
<1>2. used_gpd_num - hw_num >= 1
  <2>1. Off(free_idx) = 0 /\ free_idx \in Slots
    BY SlotsNat DEF Inv, TypeOK, TypeRing, Off
  <2>2. ~(0 >= used_gpd_num - hw_num /\ 0 < used_gpd_num)
    BY <1>1, <2>1 DEF Inv, RingAccounting
  <2> QED
    BY <1>1, <2>2 DEF Inv, TypeOK, TypeRing, TypeTasks
<1>3. free_idx' \in Slots
  BY <1>1, SlotsNat DEF Inv, TypeOK, TypeRing, Wrap
<1>4. TypeDescs' /\ TypeNet'
  BY DEF Inv, TypeOK, TypeDescs, TypeNet, TdReclaim
<1>5. TypeFlags'
  BY DEF Inv, TypeOK, TypeFlags, TdReclaim
<1>6. TypeRing'
  BY <1>1, <1>2, <1>3, SlotsNat DEF Inv, TypeOK, TypeRing, RingAccounting
<1>7. TypePackets' /\ first_gpd_idx' \in Slots
  <2>1. first_gpd_idx \in Slots
    BY DEF Inv, TypeOK, TypeTasks
  <2>2. CASE last[free_idx]
    <3>1. /\ bulk' = Append(bulk, sw_gpd_ring[first_gpd_idx])
          /\ sw_gpd_ring' = [sw_gpd_ring EXCEPT ![first_gpd_idx] = NULL]
          /\ first_gpd_idx' = free_idx'
      BY <2>2 DEF TdReclaim
    <3> QED
      BY <1>3, <2>1, <3>1 DEF Inv, TypeOK, TypePackets
  <2>3. CASE ~last[free_idx]
    BY <2>1, <2>3 DEF Inv, TypeOK, TypePackets, TdReclaim
  <2> QED
    BY <2>2, <2>3
<1>8. TypeTasks'
  <2>1. UNCHANGED << l2_status, err_todo, err_pc >>
    BY DEF TdReclaim
  <2> QED
    BY <1>1, <1>7, <2>1, SlotsNat DEF Inv, TypeOK, TypeTasks
<1>9. RingAccounting'
  <2>1. ASSUME NEW s \in Slots
        PROVE  Off(s)' = IF s = free_idx THEN GpdNum - 1 ELSE Off(s) - 1
    BY <1>1, SlotsNat DEF Inv, TypeOK, TypeRing, Off, Wrap
  <2>2. ASSUME NEW s \in Slots
        PROVE  hwo'[s] = "HW" <=>
                 /\ Off(s)' >= used_gpd_num' - hw_num'
                 /\ Off(s)' < used_gpd_num'
    <3>1. Off(s) \in Slots
      BY OffRange DEF Inv
    <3>2. hwo[s] = "HW" <=>
            Off(s) >= used_gpd_num - hw_num /\ Off(s) < used_gpd_num
      BY DEF Inv, RingAccounting
    <3>3. CASE s = free_idx
      BY <1>1, <1>2, <2>1, <3>3, SlotsNat DEF Inv, TypeOK, TypeRing
    <3>4. CASE s # free_idx
      BY <1>1, <1>2, <2>1, <3>1, <3>2, <3>4, SlotsNat DEF Inv, TypeOK, TypeRing
    <3> QED
      BY <3>3, <3>4
  <2>3. /\ (used_gpd_num + free_gpd_num = GpdNum)'
        /\ (used_idx = Wrap(free_idx + used_gpd_num))'
        /\ (hw_num <= used_gpd_num)'
        /\ (hw_idx = Wrap(free_idx + (used_gpd_num - hw_num)))'
    BY <1>1, <1>2, SlotsNat DEF Inv, TypeOK, TypeRing, RingAccounting, Wrap
  <2> QED
    BY <2>2, <2>3 DEF RingAccounting
<1>10. (td_pc = "loop" => loop_cnt <= used_gpd_num)'
  BY <1>1, <1>2, SlotsNat DEF Inv, TypeOK, TypeRing, TypeTasks
<1>11. (err_pc # "wait" => err_todo > 0)'
  BY DEF Inv, TdReclaim
<1> QED
  BY <1>4, <1>5, <1>6, <1>7, <1>8, <1>9, <1>10, <1>11 DEF Inv, TypeOK

LEMMA TdRecoverInv ==
    ASSUME Inv, TdRecover
    PROVE  Inv'
<1>1. /\ used_idx' = 0 /\ free_idx' = 0 /\ hw_idx' = 0
      /\ used_gpd_num' = 0 /\ hw_num' = 0 /\ free_gpd_num' = GpdNum
      /\ hwo' = [s \in Slots |-> "SW"]
  BY DEF TdRecover, ResetIndices, ResetDescs
<1>2. TypeDescs' /\ TypeNet'
  BY DEF Inv, TypeOK, TypeDescs, TypeNet, TdRecover, ResetDescs
<1>3. TypeFlags'
  BY DEF Inv, TypeOK, TypeFlags, TdRecover
<1>4. TypeRing'
  BY <1>1, SlotsNat DEF TypeRing
<1>5. TypePackets' /\ TypeTasks'
  BY SlotsNat DEF Inv, TypeOK, TypePackets, TypeTasks, TdRecover
<1>6. RingAccounting'
  BY <1>1, SlotsNat DEF RingAccounting, Off, Wrap
<1>7. /\ (td_pc = "loop" => loop_cnt <= used_gpd_num)'
      /\ (err_pc # "wait" => err_todo > 0)'
  BY DEF Inv, TdRecover
<1> QED
  BY <1>2, <1>3, <1>4, <1>5, <1>6, <1>7 DEF Inv, TypeOK

-----------------------------------------------------------------------------
LEMMA StutterInv == Inv /\ UNCHANGED vars => Inv'
<1> SUFFICES ASSUME Inv, UNCHANGED vars PROVE Inv'
  OBVIOUS
<1> QED
  BY DEF Inv, TypeOK, TypeDescs, TypeRing, TypeFlags, TypePackets, TypeTasks,
         TypeNet, RingAccounting, Off, vars

(* Inv is inductive: one case for each disjunct of Next.                   *)
LEMMA NextInv == Inv /\ [Next]_vars => Inv'
<1> SUFFICES ASSUME Inv, [Next]_vars PROVE Inv'
  OBVIOUS
<1>1. CASE Senders
  BY <1>1, QueueInv, SendersInv DEF Senders
<1>2. CASE Hardware
  BY <1>2, HwDoneInv, ErrorInv DEF Hardware
<1>3. CASE DispatchTch \/ DispatchOther
  BY <1>3, QueueInv DEF DispatchTch, DispatchOther
<1>4. CASE ErrTask
  BY <1>4, ErrorInv DEF ErrTask
<1>5. CASE TdTask
  BY <1>5, TdQuietInv, TdReclaimInv, TdRecoverInv DEF TdTask
<1>6. CASE UNCHANGED vars
  BY <1>6, StutterInv
<1> QED
  BY <1>1, <1>2, <1>3, <1>4, <1>5, <1>6 DEF Next

(* The indices and the counter of the Tx ring agree, and a pass of the     *)
(* reclaim loop never counts more descriptors than are in use.             *)
THEOREM Invariance == Spec => []Inv
BY InitInv, NextInv, PTL DEF Spec

(* Every index the driver computes is a slot of the ring and every count   *)
(* stays between zero and the number of descriptors.                       *)
THEOREM TypeCorrect == Spec => []TypeOK
<1>1. Inv => TypeOK
  BY DEF Inv
<1> QED
  BY <1>1, Invariance, PTL

(* The indices, the counts, the engine's position and the owner bits agree *)
(* at every step of every interleaving, through refusals, write-backs,     *)
(* reclaims and recoveries.                                                *)
THEOREM AccountingCorrect == Spec => []RingAccounting
<1>1. Inv => RingAccounting
  BY DEF Inv
<1> QED
  BY <1>1, Invariance, PTL
-----------------------------------------------------------------------------
(* Packets in the ring, when the hardware gives back whole packets.        *)

At(k) == Wrap(free_idx + k)     \* the k-th of the used descriptors

(* A packet ends where the used descriptors end and where the engine       *)
(* stands; TxDone is inside a packet only while it runs its loop, and what *)
(* it has taken of that packet does not meet the used descriptors again.   *)
Boundaries ==
    /\ used_gpd_num > 0 => last[At(used_gpd_num - 1)]
    /\ hw_num < used_gpd_num => last[At(used_gpd_num - hw_num - 1)]
    /\ first_gpd_idx # free_idx => /\ td_pc = "loop" /\ hw_num < used_gpd_num
                                   /\ Off(first_gpd_idx) >= used_gpd_num

(* The used descriptors of a packet name it, from the one the software     *)
(* ring has it at to the one that ends it, and no others do.               *)
Chains ==
    /\ used_gpd_num > 0 => buf[free_idx] = sw_gpd_ring[first_gpd_idx]
    /\ \A k \in 1 .. used_gpd_num - 1 :
         buf[At(k)] = IF last[At(k - 1)] THEN sw_gpd_ring[At(k)]
                                         ELSE buf[At(k - 1)]
    /\ \A j, k \in 0 .. used_gpd_num - 1 :
         j < k /\ buf[At(j)] = buf[At(k)] => ~last[At(j)]
    /\ \A k \in 0 .. used_gpd_num - 1 : buf[At(k)] \in InRing

Counted == td_pc = "loop" => loop_cnt = used_gpd_num

Aligned == td_pc # "flush" => Boundaries /\ Chains

Flushed ==
    td_pc = "flush" => err_flag /\ \A s \in Slots : s < idx => sw_gpd_ring[s] = NULL

Distinct ==
    /\ \A i, j \in 1 .. Len(bulk) : bulk[i] = bulk[j] => i = j
    /\ \A s, t \in Slots : sw_gpd_ring[s] = sw_gpd_ring[t]
                             /\ sw_gpd_ring[s] # NULL => s = t
    /\ InRing \cap InBulk = {}
    /\ NULL \notin InBulk

HwBufs == \A s \in Slots : hwo[s] = "HW" => buf[s] \in InDriver

PacketInv ==
    Counted /\ Aligned /\ Flushed /\ HeadsAligned /\ Distinct /\ HwBufs

LEMMA AtFacts ==
    ASSUME TypeOK
    PROVE  /\ \A k \in Slots : At(k) \in Slots /\ Off(At(k)) = k
           /\ \A s \in Slots : Off(s) \in Slots /\ At(Off(s)) = s
           /\ At(0) = free_idx /\ free_idx \in Slots /\ Off(free_idx) = 0
<1>1. /\ \A k \in Slots : At(k) \in Slots /\ Off(At(k)) = k
  BY SlotsNat DEF At, Off, Wrap, TypeOK, TypeRing
<1>2. \A s \in Slots : Off(s) \in Slots /\ At(Off(s)) = s
  BY OffRange DEF At
<1> QED
  BY <1>1, <1>2, SlotsNat DEF At, Off, Wrap, TypeOK, TypeRing

(* Descriptors the hardware has are used ones.                             *)
LEMMA HwBufsInRing ==
    ASSUME TypeOK, RingAccounting, Chains
    PROVE  \A s \in Slots : hwo[s] = "HW" => buf[s] \in InRing
<1> SUFFICES ASSUME NEW s \in Slots, hwo[s] = "HW"
             PROVE  buf[s] \in InRing
  OBVIOUS
<1>1. Off(s) \in 0 .. used_gpd_num - 1 /\ At(Off(s)) = s
  <2>1. Off(s) \in Slots /\ At(Off(s)) = s
    BY AtFacts
  <2>2. Off(s) < used_gpd_num
    BY DEF RingAccounting
  <2> QED
    BY <2>1, <2>2, SlotsNat DEF TypeOK, TypeRing
<1> QED
  BY <1>1 DEF Chains

LEMMA InitPackets == Init => PacketInv
<1> SUFFICES ASSUME Init PROVE PacketInv
  OBVIOUS
<1>1. used_gpd_num = 0 /\ hw_num = 0 /\ free_idx = 0 /\ first_gpd_idx = 0 /\ td_pc = "wait"
  BY DEF Init
<1>2. Boundaries /\ Chains
  BY <1>1 DEF Boundaries, Chains
<1>3. HeadsAligned
  BY <1>1, SlotsNat DEF Init, HeadsAligned, IsHead, Off
<1>4. Distinct
  BY DEF Init, Distinct, InBulk
<1>5. HwBufs
  BY DEF Init, HwBufs
<1> QED
  BY <1>1, <1>2, <1>3, <1>4, <1>5 DEF PacketInv, Counted, Aligned, Flushed

LEMMA SameOwners ==
    ASSUME Distinct, UNCHANGED << sw_gpd_ring, bulk >>
    PROVE  Distinct'
BY DEF Distinct, InRing, InBulk

(* Steps that leave packets, descriptors and TxDone alone.                 *)
LEMMA QuietPackets ==
    ASSUME PacketInv, err_flag => err_flag',
           UNCHANGED << hwo, last, buf, hw_num, used_gpd_num, free_idx,
                        first_gpd_idx, loop_cnt, idx, td_pc, sw_gpd_ring, bulk >>
    PROVE  PacketInv'
<1>1. Counted' /\ Flushed'
  BY DEF PacketInv, Counted, Flushed
<1>2. Aligned'
  BY DEF PacketInv, Aligned, Boundaries, Chains, At, Off, InRing
<1>3. HeadsAligned'
  BY DEF PacketInv, HeadsAligned, IsHead, Off
<1>4. Distinct' /\ HwBufs'
  BY DEF PacketInv, Distinct, HwBufs, InDriver, InRing, InBulk
<1> QED
  BY <1>1, <1>2, <1>3, <1>4 DEF PacketInv

(* TxDone moves on: it leaves its loop between two packets.                *)
LEMMA TdMovePackets ==
    ASSUME Inv, PacketInv,
           TdWake \/ TdClear \/ TdLock \/ TdBroken \/ TdDrained \/ TdFinish \/ TdAgain
    PROVE  PacketInv'
<1> USE DEF TdWake, TdClear, TdLock, TdBroken, TdDrained, TdFinish, TdAgain
<1>1. /\ UNCHANGED << hwo, last, buf, hw_num, used_gpd_num, free_idx,
                      first_gpd_idx, sw_gpd_ring, bulk >>
      /\ td_pc # "flush"
  OBVIOUS
<1>2. Counted'
  BY DEF PacketInv, Counted
<1>3. Flushed'
  BY SlotsNat DEF Flushed
<1>4. Chains'
  BY <1>1 DEF PacketInv, Aligned, Chains, At, InRing
<1>5. Boundaries \/ td_pc' = "flush"
  BY <1>1 DEF PacketInv, Aligned
<1>6. ASSUME td_pc' # "flush"
      PROVE  Aligned'
  <2>1. first_gpd_idx = free_idx
    <3>1. CASE TdDrained
      <4>1. used_gpd_num = 0 \/ hw_num >= used_gpd_num
        <5>1. CASE loop_cnt = 0
          BY <3>1, <5>1 DEF PacketInv, Counted
        <5>2. CASE hwo[free_idx] = "HW"
          <6>1. Off(free_idx) >= used_gpd_num - hw_num
            BY <5>2, AtFacts DEF Inv, RingAccounting
          <6> QED
            BY <6>1, AtFacts, SlotsNat DEF Inv, TypeOK, TypeRing
        <5> QED
          BY <3>1, <5>1, <5>2
      <4> QED
        BY <4>1, <1>1, SlotsNat DEF PacketInv, Aligned, Boundaries, Inv, TypeOK, TypeRing
    <3>2. CASE ~TdDrained
      BY <1>1, <3>2, <1>6 DEF PacketInv, Aligned, Boundaries
    <3> QED
      BY <3>1, <3>2
  <2>2. Boundaries'
    BY <1>1, <2>1 DEF PacketInv, Aligned, Boundaries, At
  <2> QED
    BY <1>4, <2>2 DEF Aligned
<1>7. Aligned'
  BY <1>6 DEF Aligned
<1>8. HeadsAligned'
  BY <1>1 DEF PacketInv, HeadsAligned, IsHead, Off
<1>9. Distinct'
  BY <1>1, SameOwners DEF PacketInv
<1>10. HwBufs'
  BY <1>1 DEF PacketInv, HwBufs, InDriver, InRing, InBulk
<1> QED
  BY <1>2, <1>3, <1>7, <1>8, <1>9, <1>10 DEF PacketInv

(* A callback runs; a flush moves a packet on; the channel is reset.       *)
LEMMA CallbackPackets ==
    ASSUME Inv, Inv', PacketInv, TdCallback
    PROVE  PacketInv'
<1>1. /\ UNCHANGED << hwo, last, buf, hw_num, used_gpd_num, free_idx,
                      first_gpd_idx, loop_cnt, sw_gpd_ring, td_pc >>
      /\ td_pc = "bulk" /\ bulk # << >> /\ bulk' = Tail(bulk)
  BY DEF TdCallback
<1>2. Counted' /\ Flushed'
  BY <1>1 DEF Counted, Flushed
<1>3. Boundaries' /\ Chains'
  BY <1>1 DEF PacketInv, Aligned, Boundaries, Chains, At, Off, InRing
<1>4. HeadsAligned'
  BY <1>1 DEF PacketInv, HeadsAligned, IsHead, Off
<1>5. Distinct'
  <2>1. bulk \in Seq(Packets \cup {NULL})
    BY DEF Inv, TypeOK, TypePackets
  <2>2. /\ Len(bulk') = Len(bulk) - 1 /\ Len(bulk) \in Nat
        /\ \A i \in 1 .. Len(bulk') : bulk'[i] = bulk[i + 1]
    BY <1>1, <2>1
  <2>3. InBulk' \subseteq InBulk
    BY <2>2 DEF InBulk
  <2>4. \A i, j \in 1 .. Len(bulk') : bulk'[i] = bulk'[j] => i = j
    BY <2>2 DEF PacketInv, Distinct
  <2> QED
    BY <1>1, <2>3, <2>4 DEF PacketInv, Distinct, InRing
<1>6. HwBufs'
  <2>1. \A s \in Slots : hwo[s] = "HW" => buf[s] \in InRing
    BY <1>1, HwBufsInRing DEF Inv, PacketInv, Aligned
  <2> QED
    BY <1>1, <2>1 DEF HwBufs, InDriver, InRing
<1> QED
  BY <1>2, <1>3, <1>4, <1>5, <1>6 DEF PacketInv, Aligned

(* A packet leaves the software ring for the bulk buffer.                  *)
LEMMA MovePacket ==
    ASSUME TypePackets, Distinct, NEW s \in Slots, sw_gpd_ring[s] # NULL,
           bulk' = Append(bulk, sw_gpd_ring[s]),
           sw_gpd_ring' = [sw_gpd_ring EXCEPT ![s] = NULL]
    PROVE  /\ Distinct'
           /\ InRing' = InRing \ {sw_gpd_ring[s]}
           /\ InBulk' = InBulk \cup {sw_gpd_ring[s]}
<1> DEFINE p == sw_gpd_ring[s]
<1>1. sw_gpd_ring \in [Slots -> Packets \cup {NULL}] /\ bulk \in Seq(Packets \cup {NULL})
  BY DEF TypePackets
<1>2. InRing' = InRing \ {p}
  BY <1>1 DEF InRing, Distinct
<1>3. /\ Len(bulk') = Len(bulk) + 1 /\ Len(bulk) \in Nat /\ bulk'[Len(bulk) + 1] = p
      /\ \A i \in 1 .. Len(bulk) : bulk'[i] = bulk[i]
  BY <1>1
<1>4. InBulk' = InBulk \cup {p}
  BY <1>3 DEF InBulk
<1>5. p \in InRing
  BY DEF InRing
<1>6. \A i, j \in 1 .. Len(bulk') : bulk'[i] = bulk'[j] => i = j
  <2>1. \A i \in 1 .. Len(bulk) : bulk[i] # p
    BY <1>5 DEF InBulk, Distinct
  <2> QED
    BY <1>3, <2>1 DEF Distinct
<1>7. \A r, t \in Slots : sw_gpd_ring'[r] = sw_gpd_ring'[t]
                            /\ sw_gpd_ring'[r] # NULL => r = t
  BY <1>1 DEF Distinct
<1> QED
  BY <1>2, <1>4, <1>6, <1>7 DEF Distinct

LEMMA FlushPackets ==
    ASSUME Inv, PacketInv, TdFlush
    PROVE  PacketInv'
<1> DEFINE p == sw_gpd_ring[idx]
<1>1. /\ UNCHANGED << hwo, buf, err_flag, td_pc >>
      /\ td_pc = "flush" /\ idx \in Slots /\ idx' = idx + 1
  BY SlotsNat DEF TdFlush, Inv, TypeOK, TypeTasks
<1>2. Counted' /\ Aligned' /\ HeadsAligned'
  BY <1>1 DEF Counted, Aligned, HeadsAligned
<1>3. sw_gpd_ring \in [Slots -> Packets \cup {NULL}] /\ bulk \in Seq(Packets \cup {NULL})
  BY DEF Inv, TypeOK, TypePackets
<1>4. CASE p = NULL
  <2>1. UNCHANGED << bulk, sw_gpd_ring >>
    BY <1>4 DEF TdFlush
  <2>2. \A s \in Slots : s < idx' => s < idx \/ s = idx
    BY <1>1, SlotsNat
  <2>3. Flushed'
    BY <1>1, <1>4, <2>1, <2>2 DEF PacketInv, Flushed
  <2>4. HwBufs'
    BY <1>1, <2>1 DEF PacketInv, HwBufs, InDriver, InRing, InBulk
  <2> QED
    BY <1>2, <2>1, <2>3, <2>4, SameOwners DEF PacketInv
<1>5. CASE p # NULL
  <2>1. /\ bulk' = Append(bulk, p)
        /\ sw_gpd_ring' = [sw_gpd_ring EXCEPT ![idx] = NULL]
    BY <1>5 DEF TdFlush
  <2>2. \A s \in Slots : s < idx' => s < idx \/ s = idx
    BY <1>1, SlotsNat
  <2>3. Flushed'
    BY <1>1, <1>3, <2>1, <2>2 DEF PacketInv, Flushed
  <2>4. Distinct' /\ InRing' = InRing \ {p} /\ InBulk' = InBulk \cup {p}
    BY <1>1, <1>5, <2>1, MovePacket DEF Inv, TypeOK, PacketInv
  <2>5. HwBufs'
    BY <1>1, <2>4 DEF PacketInv, HwBufs, InDriver
  <2> QED
    BY <1>2, <2>3, <2>4, <2>5 DEF PacketInv
<1> QED
  BY <1>4, <1>5

LEMMA RecoverPackets ==
    ASSUME Inv, PacketInv, TdRecover
    PROVE  PacketInv'
<1>1. /\ used_gpd_num' = 0 /\ hw_num' = 0 /\ free_idx' = 0 /\ first_gpd_idx' = 0
      /\ hwo' = [s \in Slots |-> "SW"] /\ td_pc' = "finish"
      /\ UNCHANGED << sw_gpd_ring, bulk >> /\ td_pc = "flush" /\ idx = GpdNum
  BY DEF TdRecover, ResetIndices, ResetDescs
<1>2. Boundaries' /\ Chains'
  BY <1>1 DEF Boundaries, Chains
<1>3. \A s \in Slots : sw_gpd_ring'[s] = NULL
  BY <1>1, SlotsNat DEF PacketInv, Flushed
<1>4. HeadsAligned'
  <2>1. \A s \in Slots : ~IsHead(s)'
    <3> TAKE s \in Slots
    <3>1. Off(s)' = s
      BY <1>1, SlotsNat DEF Off
    <3> QED
      BY <1>1, <3>1, SlotsNat DEF IsHead
  <2> QED
    BY <1>3, <2>1 DEF HeadsAligned
<1>5. HwBufs'
  BY <1>1 DEF HwBufs
<1> QED
  BY <1>1, <1>2, <1>4, <1>5, SameOwners DEF PacketInv, Counted, Aligned, Flushed

(* The engine gives a packet back: it stands behind the end of one again.  *)
LEMMA HwDonePackets ==
    ASSUME WriteBack = "packet", Inv, PacketInv, NEW k \in 1 .. hw_num, HwDone(k)
    PROVE  PacketInv'
<1>1. /\ UNCHANGED << last, buf, used_gpd_num, free_idx, first_gpd_idx,
                      loop_cnt, idx, td_pc, err_flag, sw_gpd_ring, bulk >>
      /\ hw_num' = hw_num - k
      /\ last[HwSlot(k - 1)]
      /\ \A s \in Slots : hwo'[s] = "HW" => hwo[s] = "HW"
  BY DEF HwDone
<1>2. Counted' /\ Flushed'
  BY <1>1 DEF PacketInv, Counted, Flushed
<1>3. last[At(used_gpd_num - hw_num' - 1)]
  <2>1. HwSlot(k - 1) = Wrap(free_idx + (used_gpd_num - hw_num + (k - 1)))
    BY HwSlotIsUsed DEF Inv, TypeOK, TypeRing
  <2>2. used_gpd_num - hw_num + (k - 1) = used_gpd_num - hw_num' - 1
    BY <1>1 DEF Inv, TypeOK, TypeRing
  <2> QED
    BY <1>1, <2>1, <2>2 DEF At
<1>4. Aligned'
  <2>1. hw_num' < hw_num /\ hw_num' \in Nat
    BY <1>1 DEF Inv, TypeOK, TypeRing
  <2>2. ASSUME td_pc # "flush"
        PROVE  Boundaries'
    <3>1. Boundaries
      BY <2>2 DEF PacketInv, Aligned
    <3>2. first_gpd_idx # free_idx => hw_num' < used_gpd_num
      BY <2>1, <3>1 DEF Boundaries, Inv, TypeOK, TypeRing
    <3> QED
      BY <1>1, <1>3, <3>1, <3>2 DEF Boundaries, At, Off
  <2>3. ASSUME td_pc # "flush"
        PROVE  Chains'
    BY <1>1, <2>3 DEF PacketInv, Aligned, Chains, At, InRing
  <2> QED
    BY <1>1, <2>2, <2>3 DEF Aligned
<1>5. HeadsAligned'
  BY <1>1 DEF PacketInv, HeadsAligned, IsHead, Off
<1>6. HwBufs'
  BY <1>1 DEF PacketInv, HwBufs, InDriver, InRing, InBulk
<1> QED
  BY <1>1, <1>2, <1>4, <1>5, <1>6, SameOwners DEF PacketInv

(* sendGpd enters a chain of n descriptors behind the used ones.           *)
LEMMA FillPackets ==
    ASSUME Inv, PacketInv, NEW n \in Nat, NEW m \in 0 .. n, NEW p \in Packets,
           n > 0, ~RingLocked, p \notin InDriver,
           CanSend(n), Copied(n, m), Fill(p, n, m)
    PROVE  PacketInv'
<1>1. m = n /\ n <= free_gpd_num
  BY CopyComplete DEF CanSend
<1>2. /\ used_gpd_num \in Nat /\ used_gpd_num + n <= GpdNum
      /\ hw_num \in Nat /\ hw_num <= used_gpd_num
  BY <1>1, SlotsNat DEF Inv, RingAccounting, TypeOK, TypeRing
<1>3. \A k \in 0 .. n - 1 : NthSlot(k) = At(used_gpd_num + k)
  <2> TAKE k \in 0 .. n - 1
  <2>1. used_gpd_num + k \in Slots
    BY <1>2, SlotsNat
  <2> QED
    BY <1>1, <2>1, NthSlotIsFree, AtFacts DEF Inv
<1> DEFINE new == {NthSlot(k) : k \in 0 .. n - 1}
<1>4. /\ UNCHANGED << free_idx, first_gpd_idx, loop_cnt, idx, td_pc, err_flag, bulk >>
      /\ used_gpd_num' = used_gpd_num + n /\ hw_num' = hw_num + n
      /\ sw_gpd_ring' = [sw_gpd_ring EXCEPT ![used_idx] = p]
      /\ hwo' = [s \in Slots |-> IF s \in new THEN "HW" ELSE hwo[s]]
      /\ last' = [s \in Slots |-> IF s \in new THEN s = NthSlot(n - 1) ELSE last[s]]
      /\ buf' = [s \in Slots |-> IF s \in new THEN p ELSE buf[s]]
  BY <1>1 DEF Fill
<1>5. \A k \in 0 .. used_gpd_num - 1 :
         /\ At(k) \in Slots /\ At(k) \notin new
         /\ last'[At(k)] = last[At(k)] /\ buf'[At(k)] = buf[At(k)]
  <2> TAKE k \in 0 .. used_gpd_num - 1
  <2>1. k \in Slots /\ At(k) \in Slots /\ Off(At(k)) = k
    <3>1. k \in Slots
      BY <1>2, SlotsNat
    <3> QED
      BY <3>1, AtFacts DEF Inv
  <2>2. At(k) \notin new
    <3> SUFFICES ASSUME NEW j \in 0 .. n - 1, At(k) = NthSlot(j)
                 PROVE  FALSE
      OBVIOUS
    <3>1. Off(NthSlot(j)) = used_gpd_num + j
      BY <1>1, NthSlotIsFree
    <3> QED
      BY <1>2, <2>1, <3>1
  <2> HIDE DEF new
  <2> QED
    BY <1>4, <2>1, <2>2
<1>6. \A k \in used_gpd_num .. used_gpd_num + n - 1 :
         /\ At(k) \in Slots /\ At(k) \in new /\ buf'[At(k)] = p
         /\ last'[At(k)] <=> k = used_gpd_num + n - 1
  <2> TAKE k \in used_gpd_num .. used_gpd_num + n - 1
  <2> DEFINE j == k - used_gpd_num
  <2>1. j \in 0 .. n - 1 /\ k = used_gpd_num + j
    BY <1>2
  <2>2. k \in Slots /\ At(k) \in Slots /\ Off(At(k)) = k
    <3>1. k \in Slots
      BY <1>2, SlotsNat
    <3> QED
      BY <3>1, AtFacts DEF Inv
  <2>3. At(k) \in new
    BY <1>3, <2>1
  <2>4. At(k) = NthSlot(n - 1) <=> k = used_gpd_num + n - 1
    <3>1. NthSlot(n - 1) = At(used_gpd_num + n - 1)
      BY <1>3, <1>2
    <3>2. used_gpd_num + n - 1 \in Slots
      BY <1>2, SlotsNat
    <3>3. Off(NthSlot(n - 1)) = used_gpd_num + n - 1
      BY <3>1, <3>2, AtFacts DEF Inv
    <3> QED
      BY <2>2, <3>1, <3>3
  <2>5. buf'[At(k)] = p /\ last'[At(k)] = (At(k) = NthSlot(n - 1))
    <3> HIDE DEF new
    <3> QED
      BY <1>4, <2>2, <2>3
  <2> QED
    BY <2>2, <2>3, <2>4, <2>5
<1>7. used_idx = At(used_gpd_num) /\ used_idx \in Slots
  BY <1>2, <1>6 DEF Inv, RingAccounting, At
<1>8. \A k : At(k)' = At(k)
  BY <1>4 DEF At
<1>9. td_pc # "flush" /\ td_pc # "loop" /\ first_gpd_idx = free_idx
  BY DEF RingLocked, PacketInv, Aligned, Boundaries
<1>10. sw_gpd_ring \in [Slots -> Packets \cup {NULL}] /\ p # NULL
  BY TxConstants DEF Inv, TypeOK, TypePackets
<1>11. sw_gpd_ring[used_idx] = NULL
  <2>1. Off(used_idx) = used_gpd_num
    BY <1>2, <1>7, AtFacts, SlotsNat DEF Inv
  <2>2. ~IsHead(used_idx)
    BY <1>7, <1>9, <2>1, <1>2, AtFacts DEF IsHead, Inv
  <2> QED
    BY <1>7, <1>9, <2>2 DEF PacketInv, HeadsAligned
<1>12. InRing' = InRing \cup {p}
  BY <1>4, <1>7, <1>10, <1>11 DEF InRing
<1>13. p \notin InRing /\ p \notin InBulk
  BY DEF InDriver
<1> HIDE DEF new
<1>14. Boundaries'
  <2>1. last'[At(used_gpd_num + n - 1)]
    BY <1>2, <1>6
  <2>2. hw_num < used_gpd_num => last'[At(used_gpd_num - hw_num - 1)]
    BY <1>2, <1>5, <1>9 DEF PacketInv, Aligned, Boundaries
  <2>3. used_gpd_num' - hw_num' = used_gpd_num - hw_num
    BY <1>2, <1>4
  <2> QED
    BY <1>2, <1>4, <1>9, <2>1, <2>2, <2>3 DEF Boundaries, At
<1>15. Chains'
  <2> DEFINE ring == sw_gpd_ring'
  <2>1. Chains /\ Boundaries
    BY <1>9 DEF PacketInv, Aligned
  <2>2. buf'[free_idx] = ring[first_gpd_idx]
    <3>1. CASE used_gpd_num = 0
      BY <1>2, <1>4, <1>6, <1>7, <1>9, <1>10, <3>1, AtFacts DEF Inv
    <3>2. CASE used_gpd_num > 0
      <4>1. free_idx # used_idx
        BY <1>2, <1>7, <3>2, AtFacts, <1>6, SlotsNat DEF Inv
      <4>2. buf'[free_idx] = buf[free_idx]
        BY <1>5, <3>2, <1>2, AtFacts DEF Inv
      <4> QED
        BY <1>4, <1>9, <1>10, <2>1, <3>2, <4>1, <4>2, AtFacts DEF Chains, Inv
    <3> QED
      BY <1>2, <3>1, <3>2
  <2>3. \A k \in 1 .. used_gpd_num + n - 1 :
           buf'[At(k)] = IF last'[At(k - 1)] THEN ring[At(k)] ELSE buf'[At(k - 1)]
    <3> TAKE k \in 1 .. used_gpd_num + n - 1
    <3>1. CASE k < used_gpd_num
      <4>1. At(k) # used_idx
        BY <1>5, <1>6, <1>7, <1>2, <3>1
      <4>2. ring[At(k)] = sw_gpd_ring[At(k)]
        BY <1>4, <1>5, <1>10, <3>1, <4>1
      <4> QED
        BY <1>2, <1>5, <2>1, <3>1, <4>2 DEF Chains
    <3>2. CASE k = used_gpd_num
      <4>1. buf'[At(k)] = p /\ ring[At(k)] = p
        BY <1>2, <1>4, <1>6, <1>7, <1>10, <3>2
      <4>2. last'[At(k - 1)]
        BY <1>2, <1>5, <2>1, <3>2 DEF Boundaries
      <4> QED
        BY <4>1, <4>2
    <3>3. CASE k > used_gpd_num
      <4>1. buf'[At(k)] = p /\ buf'[At(k - 1)] = p /\ ~last'[At(k - 1)]
        BY <1>2, <1>6, <3>3
      <4> QED
        BY <4>1
    <3> QED
      BY <1>2, <3>1, <3>2, <3>3
  <2>4. \A j, k \in 0 .. used_gpd_num + n - 1 :
           j < k /\ buf'[At(j)] = buf'[At(k)] => ~last'[At(j)]
    <3> TAKE j, k \in 0 .. used_gpd_num + n - 1
    <3>1. CASE j >= used_gpd_num
      BY <1>2, <1>6, <3>1
    <3>2. CASE j < used_gpd_num /\ k >= used_gpd_num
      <4>1. buf'[At(j)] \in InRing /\ buf'[At(k)] = p
        BY <1>2, <1>5, <1>6, <2>1, <3>2 DEF Chains
      <4> QED
        BY <1>13, <4>1
    <3>3. CASE j < used_gpd_num /\ k < used_gpd_num
      BY <1>2, <1>5, <2>1, <3>3 DEF Chains
    <3> QED
      BY <1>2, <3>1, <3>2, <3>3
  <2>5. \A k \in 0 .. used_gpd_num + n - 1 : buf'[At(k)] \in InRing'
    <3> TAKE k \in 0 .. used_gpd_num + n - 1
    <3>1. CASE k < used_gpd_num
      BY <1>2, <1>5, <1>12, <2>1, <3>1 DEF Chains
    <3>2. CASE k >= used_gpd_num
      BY <1>2, <1>6, <1>12, <3>2
    <3> QED
      BY <1>2, <3>1, <3>2
  <2> HIDE DEF ring
  <2> QED
    <3>1. used_gpd_num' = used_gpd_num + n /\ UNCHANGED << free_idx, first_gpd_idx >>
      BY <1>4
    <3>2. (used_gpd_num > 0 => buf[free_idx] = sw_gpd_ring[first_gpd_idx])'
      BY <2>2, <3>1 DEF ring
    <3>3. (\A k \in 1 .. used_gpd_num - 1 :
             buf[At(k)] = IF last[At(k - 1)] THEN sw_gpd_ring[At(k)]
                                             ELSE buf[At(k - 1)])'
      BY <1>2, <2>3, <3>1 DEF ring, At
    <3>4. (\A j, k \in 0 .. used_gpd_num - 1 :
             j < k /\ buf[At(j)] = buf[At(k)] => ~last[At(j)])'
      BY <1>2, <2>4, <3>1 DEF At
    <3>5. (\A k \in 0 .. used_gpd_num - 1 : buf[At(k)] \in InRing)'
      BY <1>2, <2>5, <3>1 DEF At
    <3> QED
      BY <3>2, <3>3, <3>4, <3>5 DEF Chains
<1>16. HeadsAligned'
  <2> SUFFICES ASSUME NEW s \in Slots
               PROVE  sw_gpd_ring'[s] # NULL <=> IsHead(s)'
    BY DEF HeadsAligned
  <2> DEFINE prev == IF s = 0 THEN GpdNum - 1 ELSE s - 1
  <2>1. Off(s)' = Off(s) /\ Off(s) \in Slots /\ s = At(Off(s))
    BY <1>4, AtFacts DEF Off, Inv
  <2>2. Off(s) > 0 => prev = At(Off(s) - 1)
    BY <2>1, SlotsNat DEF At, Wrap, Off, Inv, TypeOK, TypeRing
  <2>3. IsHead(s)' <=> \/ s = first_gpd_idx
                       \/ /\ Off(s) > 0 /\ Off(s) < used_gpd_num + n
                          /\ last'[prev]
    BY <1>2, <1>4, <2>1 DEF IsHead
  <2>4. IsHead(s) <=> \/ s = first_gpd_idx /\ used_gpd_num > 0
                      \/ Off(s) > 0 /\ Off(s) < used_gpd_num /\ last[prev]
    BY DEF IsHead
  <2>5. sw_gpd_ring[s] # NULL <=> IsHead(s)
    BY <1>9 DEF PacketInv, HeadsAligned
  <2>6. s = first_gpd_idx <=> Off(s) = 0
    BY <1>9, <2>1, AtFacts DEF Inv
  <2>7. s = used_idx <=> Off(s) = used_gpd_num
    <3>1. used_gpd_num \in Slots => Off(used_idx) = used_gpd_num
      BY <1>7, AtFacts DEF Inv
    <3>2. used_gpd_num \in Slots
      BY <1>2, SlotsNat
    <3> QED
      BY <1>7, <2>1, <3>1, <3>2
  <2> HIDE DEF prev
  <2>8. CASE Off(s) < used_gpd_num
    <3>1. sw_gpd_ring'[s] = sw_gpd_ring[s]
      BY <1>4, <1>10, <2>7, <2>8, <1>2
    <3>2. Off(s) > 0 => last'[prev] = last[prev]
      <4> SUFFICES ASSUME Off(s) > 0 PROVE last'[prev] = last[prev]
        OBVIOUS
      <4>1. Off(s) - 1 \in 0 .. used_gpd_num - 1
        BY <1>2, <2>1, <2>8, SlotsNat
      <4> QED
        BY <1>5, <2>2, <4>1
    <3> QED
      BY <1>2, <2>1, <2>3, <2>4, <2>5, <2>6, <2>8, <3>1, <3>2, SlotsNat
  <2>9. CASE Off(s) = used_gpd_num
    <3>1. sw_gpd_ring'[s] = p
      BY <1>4, <1>10, <2>7, <2>9
    <3>2. Off(s) > 0 => last'[prev]
      <4> SUFFICES ASSUME Off(s) > 0 PROVE last'[prev]
        OBVIOUS
      <4>1. Off(s) - 1 \in 0 .. used_gpd_num - 1 /\ last[At(used_gpd_num - 1)]
        BY <1>2, <1>9, <2>1, <2>9, SlotsNat DEF PacketInv, Aligned, Boundaries
      <4> QED
        BY <1>5, <2>2, <2>9, <4>1
    <3> QED
      BY <1>2, <1>10, <2>1, <2>3, <2>6, <2>9, <3>1, <3>2, SlotsNat
  <2>10. CASE Off(s) > used_gpd_num
    <3>1. sw_gpd_ring'[s] = NULL
      BY <1>2, <1>4, <1>10, <2>1, <2>4, <2>5, <2>6, <2>7, <2>10, SlotsNat
    <3>2. Off(s) < used_gpd_num + n => ~last'[prev]
      <4> SUFFICES ASSUME Off(s) < used_gpd_num + n PROVE ~last'[prev]
        OBVIOUS
      <4>1. Off(s) - 1 \in used_gpd_num .. used_gpd_num + n - 1 /\ Off(s) - 1 # used_gpd_num + n - 1
        BY <1>2, <2>1, <2>10, SlotsNat
      <4>2. prev = At(Off(s) - 1)
        BY <1>2, <2>1, <2>2, <2>10, SlotsNat
      <4> QED
        BY <1>6, <4>1, <4>2
    <3> QED
      BY <1>2, <2>1, <2>3, <2>6, <2>10, <3>1, <3>2, SlotsNat
  <2> QED
    BY <1>2, <2>1, <2>8, <2>9, <2>10, SlotsNat
<1>17. Distinct'
  <2>1. \A s, t \in Slots : sw_gpd_ring'[s] = sw_gpd_ring'[t]
                              /\ sw_gpd_ring'[s] # NULL => s = t
    <3>1. \A s \in Slots : sw_gpd_ring[s] # p
      BY <1>10, <1>13 DEF InRing
    <3> QED
      BY <1>4, <1>7, <1>10, <3>1 DEF PacketInv, Distinct
  <2>2. InBulk' = InBulk
    BY <1>4 DEF InBulk
  <2> QED
    BY <1>4, <1>12, <1>13, <2>1, <2>2 DEF PacketInv, Distinct
<1>18. HwBufs'
  <2> SUFFICES ASSUME NEW s \in Slots, hwo'[s] = "HW"
               PROVE  buf'[s] \in InRing'
    BY DEF HwBufs, InDriver
  <2>1. CASE s \in new
    BY <1>4, <1>12, <2>1
  <2>2. CASE s \notin new
    <3>1. hwo[s] = "HW" /\ buf'[s] = buf[s]
      BY <1>4, <2>2
    <3>2. buf[s] \in InRing
      BY <1>9, <3>1, HwBufsInRing DEF Inv, PacketInv, Aligned
    <3> QED
      BY <1>12, <3>1, <3>2
  <2> QED
    BY <2>1, <2>2
<1> QED
  BY <1>4, <1>9, <1>14, <1>15, <1>16, <1>17, <1>18 DEF PacketInv, Counted, Aligned, Flushed

(* TxDone takes a descriptor back.                                         *)
LEMMA ReclaimPackets ==
    ASSUME Inv, PacketInv, TdReclaim
    PROVE  PacketInv'
<1>1. /\ free_idx' = Wrap(free_idx + 1)
      /\ used_gpd_num' = used_gpd_num - 1 /\ loop_cnt' = loop_cnt - 1
      /\ UNCHANGED << hwo, last, buf, hw_num, td_pc, err_flag >>
      /\ td_pc = "loop" /\ loop_cnt > 0 /\ hwo[free_idx] = "SW"
  BY DEF TdReclaim
<1>2. /\ loop_cnt = used_gpd_num /\ Boundaries /\ Chains
      /\ \A s \in Slots : sw_gpd_ring[s] # NULL <=> IsHead(s)
  BY <1>1 DEF PacketInv, Counted, Aligned, HeadsAligned
<1>3. /\ used_gpd_num \in 1 .. GpdNum /\ hw_num \in Nat /\ hw_num < used_gpd_num
      /\ free_idx \in Slots /\ first_gpd_idx \in Slots /\ GpdNum \in Nat
  <2>1. Off(free_idx) = 0 /\ free_idx \in Slots
    BY AtFacts DEF Inv
  <2>2. ~(0 >= used_gpd_num - hw_num /\ 0 < used_gpd_num)
    BY <1>1, <2>1 DEF Inv, RingAccounting
  <2> QED
    BY <1>1, <1>2, <2>1, <2>2, SlotsNat DEF Inv, TypeOK, TypeRing, TypeTasks
<1> DEFINE new(k) == Wrap(free_idx' + k)
<1>4. \A k \in 0 .. GpdNum - 2 : new(k) = At(k + 1)
  BY <1>1, <1>3, SlotsNat DEF At, Wrap
<1>5. \A s \in Slots : Off(s)' = IF s = free_idx THEN GpdNum - 1 ELSE Off(s) - 1
  BY <1>1, <1>3, SlotsNat DEF Off, Wrap
<1>6. \A s \in Slots : /\ Off(s) \in 0 .. GpdNum - 1 /\ s = At(Off(s))
                       /\ Off(s) = 0 <=> s = free_idx
  BY <1>3, AtFacts, SlotsNat DEF Off, Inv
<1>7. \A k \in 0 .. used_gpd_num - 1 : At(k) \in Slots /\ Off(At(k)) = k
  <2>1. \A k \in 0 .. used_gpd_num - 1 : k \in Slots
    BY <1>3, SlotsNat
  <2> QED
    BY <2>1, AtFacts DEF Inv
<1>8. first_gpd_idx # free_idx => Off(first_gpd_idx) >= used_gpd_num
  BY <1>2 DEF Boundaries
<1>9. \A s \in Slots : Off(s) > 0 => (IF s = 0 THEN GpdNum - 1 ELSE s - 1) = At(Off(s) - 1)
  BY <1>3, SlotsNat DEF Off, At, Wrap
<1>10. Counted' /\ Flushed'
  BY <1>1, <1>2, <1>3 DEF Counted, Flushed
<1>11. At(0) = free_idx /\ free_idx' \in Slots /\ free_idx' = new(0)
  BY <1>1, <1>3, SlotsNat DEF At, Wrap
<1> HIDE DEF new
<1>12. /\ used_gpd_num' > 0 => last[new(used_gpd_num' - 1)]
       /\ hw_num < used_gpd_num' => last[new(used_gpd_num' - hw_num - 1)]
  <2>1. used_gpd_num > 1 => new(used_gpd_num - 2) = At(used_gpd_num - 1)
    BY <1>3, <1>4
  <2>2. hw_num < used_gpd_num - 1 =>
          new(used_gpd_num - 1 - hw_num - 1) = At(used_gpd_num - hw_num - 1)
    BY <1>3, <1>4
  <2>3. used_gpd_num' - 1 = used_gpd_num - 2
    BY <1>1, <1>3
  <2>4. used_gpd_num' - hw_num - 1 = used_gpd_num - 1 - hw_num - 1
    BY <1>1, <1>3
  <2> QED
    BY <1>1, <1>2, <1>3, <2>1, <2>2, <2>3, <2>4 DEF Boundaries
<1>13. ASSUME (first_gpd_idx # free_idx =>
                 hw_num < used_gpd_num /\ Off(first_gpd_idx) >= used_gpd_num)',
              \A k \in 1 .. used_gpd_num - 1 : sw_gpd_ring'[At(k)] = sw_gpd_ring[At(k)],
              used_gpd_num > 1 => buf[At(1)] = sw_gpd_ring'[first_gpd_idx'],
              \A k \in 1 .. used_gpd_num - 1 : buf[At(k)] \in InRing'
       PROVE  Aligned'
  <2>1. Boundaries'
    BY <1>1, <1>12, <1>13 DEF Boundaries, At, new
  <2>2. \A k \in 1 .. used_gpd_num - 2 :
           buf[new(k)] = IF last[new(k - 1)] THEN sw_gpd_ring'[new(k)] ELSE buf[new(k - 1)]
    <3> TAKE k \in 1 .. used_gpd_num - 2
    <3>1. new(k) = At(k + 1) /\ new(k - 1) = At(k)
      BY <1>3, <1>4
    <3>2. buf[At(k + 1)] = IF last[At(k)] THEN sw_gpd_ring[At(k + 1)] ELSE buf[At(k)]
      BY <1>2, <1>3 DEF Chains
    <3> QED
      BY <1>3, <1>13, <3>1, <3>2
  <2>3. \A j, k \in 0 .. used_gpd_num - 2 :
           j < k /\ buf[new(j)] = buf[new(k)] => ~last[new(j)]
    <3> TAKE j, k \in 0 .. used_gpd_num - 2
    <3>1. new(k) = At(k + 1) /\ new(j) = At(j + 1)
      BY <1>3, <1>4
    <3> QED
      BY <1>2, <1>3, <3>1 DEF Chains
  <2>4. \A k \in 0 .. used_gpd_num - 2 : buf[new(k)] \in InRing'
    BY <1>3, <1>4, <1>13
  <2>5. used_gpd_num > 1 => buf[free_idx'] = sw_gpd_ring'[first_gpd_idx']
    BY <1>3, <1>4, <1>11, <1>13
  <2>6. Chains'
    <3>1. UNCHANGED << last, buf >> /\ used_gpd_num' = used_gpd_num - 1
      BY <1>1
    <3>2. (used_gpd_num > 0 => buf[free_idx] = sw_gpd_ring[first_gpd_idx])'
      BY <1>3, <2>5, <3>1
    <3>3. (\A k \in 1 .. used_gpd_num - 1 :
             buf[At(k)] = IF last[At(k - 1)] THEN sw_gpd_ring[At(k)]
                                             ELSE buf[At(k - 1)])'
      BY <1>3, <2>2, <3>1 DEF new, At
    <3>4. (\A j, k \in 0 .. used_gpd_num - 1 :
             j < k /\ buf[At(j)] = buf[At(k)] => ~last[At(j)])'
      BY <1>3, <2>3, <3>1 DEF new, At
    <3>5. (\A k \in 0 .. used_gpd_num - 1 : buf[At(k)] \in InRing)'
      BY <1>3, <2>4, <3>1 DEF new, At
    <3> QED
      BY <3>2, <3>3, <3>4, <3>5 DEF Chains
  <2> QED
    BY <2>1, <2>6 DEF Aligned
<1>14. CASE ~last[free_idx]
  <2>1. UNCHANGED << bulk, sw_gpd_ring, first_gpd_idx >>
    BY <1>14 DEF TdReclaim
  <2>2. used_gpd_num > 1 /\ hw_num < used_gpd_num - 1
    BY <1>2, <1>3, <1>11, <1>14 DEF Boundaries
  <2>3. Aligned'
    <3>1. (first_gpd_idx # free_idx =>
             hw_num < used_gpd_num /\ Off(first_gpd_idx) >= used_gpd_num)'
      BY <1>1, <1>3, <1>5, <1>6, <1>8, <2>1, <2>2
    <3>2. buf[At(1)] = buf[At(0)] /\ buf[At(0)] = sw_gpd_ring[first_gpd_idx]
      BY <1>2, <1>3, <1>11, <1>14, <2>2 DEF Chains
    <3>3. \A k \in 1 .. used_gpd_num - 1 : buf[At(k)] \in InRing'
      BY <1>2, <1>3, <2>1 DEF Chains, InRing
    <3> QED
      BY <1>13, <2>1, <3>1, <3>2, <3>3
  <2>4. HeadsAligned'
    <3> SUFFICES ASSUME NEW s \in Slots
                 PROVE  IsHead(s)' <=> IsHead(s)
      BY <1>2, <2>1 DEF HeadsAligned
    <3> DEFINE prev == IF s = 0 THEN GpdNum - 1 ELSE s - 1
    <3>1. IsHead(s) <=> \/ s = first_gpd_idx
                        \/ Off(s) > 0 /\ Off(s) < used_gpd_num /\ last[prev]
      BY <1>3 DEF IsHead
    <3>2. IsHead(s)' <=> \/ s = first_gpd_idx
                         \/ Off(s)' > 0 /\ Off(s)' < used_gpd_num - 1 /\ last[prev]
      BY <1>1, <1>3, <2>1, <2>2 DEF IsHead
    <3>3. Off(s) = 1 => ~last[prev]
      BY <1>9, <1>11, <1>14
    <3> HIDE DEF prev
    <3>4. CASE s = free_idx
      BY <1>3, <1>5, <1>6, <3>1, <3>2, <3>4
    <3>5. CASE s # free_idx
      BY <1>3, <1>5, <1>6, <3>1, <3>2, <3>3, <3>5
    <3> QED
      BY <3>4, <3>5
  <2>5. HwBufs'
    BY <1>1, <2>1 DEF PacketInv, HwBufs, InDriver, InRing, InBulk
  <2> QED
    BY <1>10, <2>1, <2>3, <2>4, <2>5, SameOwners DEF PacketInv
<1>15. CASE last[free_idx]
  <2> DEFINE p == sw_gpd_ring[first_gpd_idx]
  <2>1. /\ bulk' = Append(bulk, p) /\ first_gpd_idx' = free_idx'
        /\ sw_gpd_ring' = [sw_gpd_ring EXCEPT ![first_gpd_idx] = NULL]
    BY <1>1, <1>15 DEF TdReclaim
  <2>2. p # NULL
    BY <1>2, <1>3 DEF IsHead
  <2>3. Distinct' /\ InRing' = InRing \ {p}
    BY <1>3, <2>1, <2>2, MovePacket DEF Inv, TypeOK, PacketInv
  <2>4. \A s \in Slots : sw_gpd_ring'[s] = IF s = first_gpd_idx THEN NULL ELSE sw_gpd_ring[s]
    BY <2>1 DEF Inv, TypeOK, TypePackets
  <2>5. \A k \in 1 .. used_gpd_num - 1 :
           At(k) # first_gpd_idx /\ buf[At(k)] \in InRing'
    <3> TAKE k \in 1 .. used_gpd_num - 1
    <3>1. At(k) \in Slots /\ Off(At(k)) = k
      BY <1>3, <1>7
    <3>2. At(k) # first_gpd_idx
      BY <1>3, <1>6, <1>8, <3>1
    <3>3. buf[At(0)] = p /\ last[At(0)]
      BY <1>2, <1>3, <1>11, <1>15 DEF Chains
    <3>4. buf[At(k)] \in InRing /\ buf[At(k)] # p
      BY <1>2, <1>3, <3>3 DEF Chains
    <3> QED
      BY <2>3, <3>2, <3>4
  <2>6. Aligned'
    <3>1. \A k \in 1 .. used_gpd_num - 1 : sw_gpd_ring'[At(k)] = sw_gpd_ring[At(k)]
      BY <1>3, <1>7, <2>4, <2>5
    <3>2. used_gpd_num > 1 => buf[At(1)] = sw_gpd_ring[At(1)]
      BY <1>2, <1>3, <1>11, <1>15 DEF Chains
    <3>3. used_gpd_num > 1 => first_gpd_idx' = At(1)
      BY <1>3, <1>4, <1>11, <2>1
    <3>4. (first_gpd_idx # free_idx =>
             hw_num < used_gpd_num /\ Off(first_gpd_idx) >= used_gpd_num)'
      BY <2>1
    <3> QED
      BY <1>3, <1>13, <2>5, <3>1, <3>2, <3>3, <3>4
  <2>7. HeadsAligned'
    <3> SUFFICES ASSUME NEW s \in Slots
                 PROVE  IsHead(s)' <=> IsHead(s) /\ s # first_gpd_idx
      BY <1>2, <2>4 DEF HeadsAligned
    <3> DEFINE prev == IF s = 0 THEN GpdNum - 1 ELSE s - 1
    <3>1. IsHead(s) <=> \/ s = first_gpd_idx
                        \/ Off(s) > 0 /\ Off(s) < used_gpd_num /\ last[prev]
      BY <1>3 DEF IsHead
    <3>2. IsHead(s)' <=> \/ s = free_idx' /\ used_gpd_num - 1 > 0
                         \/ Off(s)' > 0 /\ Off(s)' < used_gpd_num - 1 /\ last[prev]
      BY <1>1, <2>1 DEF IsHead
    <3>3. Off(s) = 1 => last[prev]
      BY <1>9, <1>11, <1>15
    <3>4. used_gpd_num > 1 => (s = free_idx' <=> Off(s) = 1)
      BY <1>3, <1>4, <1>6, <1>7, <1>11
    <3> HIDE DEF prev
    <3>5. CASE s = first_gpd_idx
      BY <1>3, <1>5, <1>6, <1>8, <3>2, <3>4, <3>5
    <3>6. CASE s # first_gpd_idx
      BY <1>3, <1>5, <1>6, <3>1, <3>2, <3>3, <3>4, <3>6
    <3> QED
      BY <3>5, <3>6
  <2>8. HwBufs'
    <3> SUFFICES ASSUME NEW s \in Slots, hwo[s] = "HW"
                 PROVE  buf[s] \in InRing'
      BY <1>1 DEF HwBufs, InDriver
    <3>1. Off(s) >= used_gpd_num - hw_num /\ Off(s) < used_gpd_num
      BY DEF Inv, RingAccounting
    <3>2. Off(s) \in 1 .. used_gpd_num - 1
      BY <1>3, <1>6, <3>1
    <3> QED
      BY <1>6, <2>5, <3>2
  <2> QED
    BY <1>10, <2>3, <2>6, <2>7, <2>8 DEF PacketInv
<1> QED
  BY <1>14, <1>15, <1>3 DEF Inv, TypeOK, TypeDescs

LEMMA SendPackets ==
    ASSUME Inv, PacketInv, NEW p \in Packets,
           \/ \E d \in Ports : NetDevTx(d, p)
           \/ \E n \in 1 .. MaxChain : DevTx(p, n)
    PROVE  PacketInv'
<1>1. ASSUME NEW d \in Ports, NetDevTx(d, p), CanSend(1)
      PROVE  PacketInv'
  <2>1. PICK m \in 0 .. 1 : Copied(1, m) /\ Fill(p, 1, m)
    BY <1>1 DEF NetDevTx
  <2> QED
    BY <1>1, <2>1, FillPackets DEF NetDevTx
<1>2. ASSUME NEW d \in Ports, NetDevTx(d, p), ~CanSend(1)
      PROVE  PacketInv'
  BY <1>2, QuietPackets DEF NetDevTx
<1>3. ASSUME NEW n \in 1 .. MaxChain, DevTx(p, n)
      PROVE  PacketInv'
  <2>1. PICK m \in 0 .. n : Copied(n, m) /\ Fill(p, n, m)
    BY <1>3 DEF DevTx
  <2> QED
    BY <1>3, <2>1, FillPackets, TxConstants DEF DevTx
<1> QED
  BY <1>1, <1>2, <1>3

LEMMA NextPackets ==
    ASSUME WriteBack = "packet", Inv, Inv', PacketInv, [Next]_vars
    PROVE  PacketInv'
<1>1. CASE Senders
  <2>1. CASE \E d \in Ports : StartXmit(d)
    BY <2>1, QuietPackets DEF StartXmit
  <2> QED
    BY <1>1, <2>1, SendPackets DEF Senders
<1>2. CASE Hardware
  <2>1. CASE \E b \in 1 .. MaxErrBits : HwFault(b)
    BY <2>1, QuietPackets DEF HwFault
  <2> QED
    BY <1>2, <2>1, HwDonePackets DEF Hardware
<1>3. CASE DispatchTch \/ DispatchOther
  BY <1>3, QuietPackets DEF DispatchTch, DispatchOther, Dispatch
<1>4. CASE ErrTask
  BY <1>4, QuietPackets DEF ErrTask, ErrRead, ErrSet, ErrTrigger
<1>5. CASE TdTask
  BY <1>5, TdMovePackets, CallbackPackets, FlushPackets, RecoverPackets,
     ReclaimPackets DEF TdTask
<1>6. CASE UNCHANGED vars
  BY <1>6, QuietPackets DEF vars
<1> QED
  BY <1>1, <1>2, <1>3, <1>4, <1>5, <1>6 DEF Next

(* Where the hardware gives back whole packets, the packets on the ring lie*)
(* one behind the other and the driver frees them first to last.           *)
THEOREM PacketInvariance ==
    ASSUME WriteBack = "packet"
    PROVE  Spec => []PacketInv
<1>1. Inv /\ Inv' /\ PacketInv /\ [Next]_vars => PacketInv'
  BY NextPackets
<1> QED
  BY <1>1, InitPackets, Invariance, PTL DEF Spec

(* Where the hardware gives back whole packets, every packet the driver    *)
(* accepted is at exactly one place, no callback is looked up through a    *)
(* NULL pointer, and no packet has left for its callback while a           *)
(* descriptor the hardware owns still points to its buffer.                *)
THEOREM OneOwnerCorrect ==
    ASSUME WriteBack = "packet"
    PROVE  Spec => []OneOwner
<1>1. PacketInv => OneOwner
  BY DEF PacketInv, Distinct, HwBufs, OneOwner
<1> QED
  BY <1>1, PacketInvariance, PTL

-----------------------------------------------------------------------------
(* Faults that set one error bit.                                          *)

(* An error is latched, read and set once, and the engine stands from the  *)
(* fault to the recovery.                                                  *)
HaltInv ==
    /\ err_flag => ~hw_run /\ l2_status = 0 /\ err_pc # "set"
    /\ err_pc = "set" => ~hw_run /\ l2_status = 0
    /\ l2_status > 0 => ~hw_run
    /\ td_pc = "flush" => err_flag

LEMMA NextHalt ==
    ASSUME MaxErrBits <= 1, Inv, HaltInv, [Next]_vars
    PROVE  HaltInv'
<1>1. l2_status \in 0 .. 1 /\ err_todo \in 0 .. 1 /\ (err_pc # "wait" => err_todo = 1)
  BY TxConstants DEF Inv, TypeOK, TypeTasks
<1>2. CASE Senders \/ DispatchTch \/ DispatchOther
  <2>1. UNCHANGED << err_flag, hw_run, l2_status, err_pc, td_pc >>
    BY <1>2 DEF Senders, StartXmit, NetDevTx, DevTx, Fill, DispatchTch, DispatchOther, Dispatch
  <2> QED
    BY <2>1 DEF HaltInv
<1>3. CASE Hardware
  BY <1>1, <1>3, TxConstants DEF Hardware, HwDone, HwFault, HaltInv
<1>4. CASE ErrTask
  BY <1>1, <1>4 DEF ErrTask, ErrRead, ErrSet, ErrTrigger, HaltInv
<1>5. CASE TdTask
  <2>1. CASE TdRecover
    BY <1>1, <2>1 DEF TdRecover, HaltInv
  <2>2. CASE ~TdRecover
    <3>1. /\ UNCHANGED << err_flag, hw_run, l2_status, err_pc >>
          /\ td_pc' = "flush" => err_flag
      BY <1>5, <2>2 DEF TdTask, TdWake, TdClear, TdLock, TdReclaim, TdBroken,
           TdFlush, TdDrained, TdFinish, TdCallback, TdAgain, HaltInv
    <3> QED
      BY <3>1 DEF HaltInv
  <2> QED
    BY <2>1, <2>2
<1>6. CASE UNCHANGED vars
  BY <1>6 DEF vars, HaltInv
<1> QED
  BY <1>2, <1>3, <1>4, <1>5, <1>6 DEF Next

(* While a fault sets no more than one error bit, a channel is reset only  *)
(* after its engine has halted.  (With two bits in one fault the error     *)
(* task sets the flag a second time, on a channel that runs again.)        *)
THEOREM RecoverCorrect ==
    ASSUME MaxErrBits <= 1
    PROVE  Spec => RecoverOnlyHalted
<1>1. Init => HaltInv
  BY DEF Init, HaltInv
<1>2. Inv /\ HaltInv /\ [Next]_vars => HaltInv'
  BY NextHalt
<1>3. HaltInv /\ [Next]_vars => [(err_flag /\ ~err_flag') => ~hw_run]_vars
  BY DEF HaltInv
<1> QED
  BY <1>1, <1>2, <1>3, Invariance, PTL DEF Spec, RecoverOnlyHalted

-----------------------------------------------------------------------------
(* Enumerating a finite set of numbers in ascending order.                 *)

LEMMA RankType ==
    ASSUME NEW S \in SUBSET Nat, IsFiniteSet(S), NEW i \in S
    PROVE  Rank(S, i) \in 0 .. Cardinality(S) - 1
<1> DEFINE below == {j \in S : j < i}
<1>1. IsFiniteSet(below) /\ Cardinality(below) <= Cardinality(S)
      /\ (Cardinality(below) = Cardinality(S) => S = below)
  BY FS_Subset, below \in SUBSET S
<1>2. i \notin below
  OBVIOUS
<1>3. Cardinality(below) \in Nat /\ Cardinality(S) \in Nat
  BY <1>1, FS_CardinalityType
<1> QED
  BY <1>1, <1>2, <1>3 DEF Rank

LEMMA RankMonotone ==
    ASSUME NEW S \in SUBSET Nat, IsFiniteSet(S), NEW i \in S, NEW j \in S, i < j
    PROVE  Rank(S, i) < Rank(S, j)
<1> DEFINE T == {k \in S : k < j}
<1>1. T \in SUBSET Nat /\ IsFiniteSet(T) /\ i \in T
  BY FS_Subset, T \in SUBSET S
<1>2. {k \in T : k < i} = {k \in S : k < i}
  <2>1. i \in Nat /\ j \in Nat /\ \A k \in S : k \in Nat
    OBVIOUS
  <2>2. \A k \in S : k < i => k < j
    BY <2>1
  <2> QED
    BY <2>2
<1>3. Cardinality({k \in T : k < i}) \in 0 .. Cardinality(T) - 1
  BY <1>1, RankType DEF Rank
<1>4. Cardinality(T) \in Nat
  BY <1>1, FS_CardinalityType
<1> QED
  BY <1>2, <1>3, <1>4 DEF Rank

LEMMA RankInjective ==
    ASSUME NEW S \in SUBSET Nat, IsFiniteSet(S), NEW i \in S, NEW j \in S,
           Rank(S, i) = Rank(S, j)
    PROVE  i = j
<1>1. Rank(S, i) \in Int /\ Rank(S, j) \in Int
  BY RankType, FS_CardinalityType
<1>2. ~(i < j) /\ ~(j < i)
  BY <1>1, RankMonotone
<1> QED
  BY <1>2

LEMMA NthOfRank ==
    ASSUME NEW S \in SUBSET Nat, IsFiniteSet(S), NEW i \in S, NEW k,
           Rank(S, i) = k - 1
    PROVE  Nth(S, k) = i
<1>1. Nth(S, k) \in S /\ Rank(S, Nth(S, k)) = k - 1
  BY DEF Nth
<1>2. Rank(S, i) = Rank(S, Nth(S, k))
  BY <1>1
<1> QED
  BY <1>1, <1>2, RankInjective

LEMMA NthType ==
    ASSUME NEW S \in SUBSET Nat, IsFiniteSet(S), NEW k \in 1 .. Cardinality(S)
    PROVE  Nth(S, k) \in S /\ Rank(S, Nth(S, k)) = k - 1
<1> DEFINE n == Cardinality(S)
           f == [i \in S |-> Rank(S, i)]
<1>1. n \in Nat
  BY FS_CardinalityType
<1>2. IsFiniteSet(0 .. n - 1) /\ Cardinality(0 .. n - 1) = n
  <2> HIDE DEF n
  <2>1. 0 \in Int /\ n - 1 \in Int
    BY <1>1
  <2>2. /\ IsFiniteSet(0 .. n - 1)
        /\ Cardinality(0 .. n - 1) = IF 0 > n - 1 THEN 0 ELSE n - 1 - 0 + 1
    BY <2>1, FS_Interval
  <2> QED
    BY <1>1, <2>2
<1>3. f \in Injection(S, 0 .. n - 1)
  <2>1. f \in [S -> 0 .. n - 1]
    BY RankType
  <2>2. \A i, j \in S : f[i] = f[j] => i = j
    BY RankInjective
  <2> QED
    BY <2>1, <2>2 DEF Injection, IsInjective
<1>4. f \in Surjection(S, 0 .. n - 1)
  BY <1>2, <1>3, FS_Injection
<1>5. \E i \in S : Rank(S, i) = k - 1
  <2>1. k - 1 \in 0 .. n - 1
    BY <1>1
  <2>2. \E i \in S : f[i] = k - 1
    BY <1>4, <2>1 DEF Surjection
  <2> QED
    BY <2>2
<1> QED
  BY <1>5 DEF Nth

(* A larger element is added.                                              *)
LEMMA NthAdd ==
    ASSUME NEW S \in SUBSET Nat, IsFiniteSet(S), NEW m \in Nat, \A j \in S : j < m
    PROVE  /\ IsFiniteSet(S \cup {m}) /\ Cardinality(S \cup {m}) = Cardinality(S) + 1
           /\ \A k \in 1 .. Cardinality(S) : Nth(S \cup {m}, k) = Nth(S, k)
           /\ Nth(S \cup {m}, Cardinality(S) + 1) = m
<1> DEFINE T == S \cup {m}
<1>1. IsFiniteSet(T) /\ T \in SUBSET Nat
  BY FS_AddElement
<1>2. Cardinality(T) = Cardinality(S) + 1 /\ Cardinality(S) \in Nat
  BY FS_AddElement, FS_CardinalityType
<1>3. ASSUME NEW k \in 1 .. Cardinality(S)
      PROVE  Nth(T, k) = Nth(S, k)
  <2>1. Nth(S, k) \in S /\ Rank(S, Nth(S, k)) = k - 1
    BY NthType
  <2>2. {j \in T : j < Nth(S, k)} = {j \in S : j < Nth(S, k)}
    <3>1. Nth(S, k) \in Nat /\ Nth(S, k) < m
      BY <2>1
    <3>2. ~(m < Nth(S, k))
      BY <3>1
    <3> QED
      BY <3>2
  <2>3. Rank(T, Nth(S, k)) = k - 1 /\ Nth(S, k) \in T
    BY <2>1, <2>2 DEF Rank
  <2> HIDE DEF T
  <2> QED
    BY <1>1, <2>3, NthOfRank
<1>4. Nth(T, Cardinality(S) + 1) = m
  <2>1. {j \in T : j < m} = S
    <3>1. ~(m < m)
      OBVIOUS
    <3> QED
      BY <3>1
  <2>2. Rank(T, m) = (Cardinality(S) + 1) - 1 /\ m \in T
    BY <1>2, <2>1 DEF Rank
  <2> HIDE DEF T
  <2> QED
    BY <1>1, <2>2, NthOfRank
<1> QED
  BY <1>1, <1>2, <1>3, <1>4

(* The least element is taken away and the others are moved down by d.     *)
LEMMA NthShift ==
    ASSUME NEW S \in SUBSET Nat, IsFiniteSet(S), 0 \in S, NEW d \in Nat,
           NEW T \in SUBSET Nat,
           \A i \in Nat : i \in T <=> i + d \in S \ {0},
           \A j \in S \ {0} : j >= d
    PROVE  /\ IsFiniteSet(T) /\ Cardinality(T) = Cardinality(S) - 1
           /\ Nth(S, 1) = 0
           /\ \A k \in 1 .. Cardinality(T) : Nth(S, k + 1) = Nth(T, k) + d
<1> DEFINE R == S \ {0}
           f == [j \in R |-> j - d]
<1>1. IsFiniteSet(R) /\ Cardinality(R) = Cardinality(S) - 1
  BY FS_RemoveElement
<1>2. Cardinality(S) \in Nat /\ Cardinality(R) \in Nat
  BY <1>1, FS_CardinalityType
<1>3. \A j \in R : j - d \in T /\ (j - d) + d = j
  OBVIOUS
<1>4. IsFiniteSet(T) /\ Cardinality(T) = Cardinality(R)
  <2>1. f \in [R -> T]
    BY <1>3
  <2>2. \A i, j \in R : f[i] = f[j] => i = j
    OBVIOUS
  <2>3. \A i \in T : \E j \in R : f[j] = i
    <3> TAKE i \in T
    <3>1. i + d \in R /\ (i + d) - d = i
      OBVIOUS
    <3> QED
      BY <3>1
  <2>4. f \in Bijection(R, T)
    BY <2>1, <2>2, <2>3 DEF Bijection, Injection, Surjection, IsInjective
  <2> QED
    BY <1>1, <2>4, FS_Bijection DEF ExistsBijection
<1>5. Nth(S, 1) = 0
  <2>1. {j \in S : j < 0} = {}
    <3>1. \A j \in S : ~(j < 0)
      OBVIOUS
    <3> QED
      BY <3>1
  <2>2. Rank(S, 0) = 1 - 1
    BY <2>1, FS_EmptySet DEF Rank
  <2> QED
    BY <2>2, NthOfRank
<1>6. ASSUME NEW k \in 1 .. Cardinality(T)
      PROVE  Nth(S, k + 1) = Nth(T, k) + d
  <2> DEFINE i == Nth(T, k)
             lowT == {j \in T : j < i}
             lowS == {j \in S : j < i + d}
             g == [j \in lowT |-> j + d]
  <2>1. i \in T /\ Cardinality(lowT) = k - 1
    BY <1>4, NthType DEF Rank
  <2>2. i \in Nat /\ i + d \in S /\ i + d # 0
    BY <2>1
  <2>3. IsFiniteSet(lowS) /\ 0 \in lowS /\ IsFiniteSet(lowT)
    BY <1>4, <2>2, FS_Subset, lowS \in SUBSET S, lowT \in SUBSET T
  <2> HIDE DEF i
  <2>4. g \in Bijection(lowT, lowS \ {0})
    <3>1. \A a \in lowT : a + d \in lowS \ {0}
      BY <2>2
    <3>2. g \in [lowT -> lowS \ {0}]
      BY <3>1
    <3>3. \A a, b \in lowT : g[a] = g[b] => a = b
      OBVIOUS
    <3>4. \A b \in lowS \ {0} : \E a \in lowT : g[a] = b
      <4> TAKE b \in lowS \ {0}
      <4>1. b - d \in lowT /\ (b - d) + d = b
        BY <1>3, <2>2
      <4> QED
        BY <4>1
    <3> QED
      BY <3>2, <3>3, <3>4 DEF Bijection, Injection, Surjection, IsInjective
  <2>5. Cardinality(lowS \ {0}) = k - 1
    BY <2>1, <2>3, <2>4, FS_Bijection DEF ExistsBijection
  <2>6. Cardinality(lowS \ {0}) = Cardinality(lowS) - 1 /\ Cardinality(lowS) \in Nat
    BY <2>3, FS_RemoveElement, FS_CardinalityType
  <2>7. Rank(S, i + d) = (k + 1) - 1
    BY <2>5, <2>6 DEF Rank
  <2> QED
    BY <2>2, <2>7, NthOfRank DEF i
<1> QED
  BY <1>1, <1>4, <1>5, <1>6

-----------------------------------------------------------------------------
(* TxRing implements TxService.                                            *)

(* How far slot s lies behind first_gpd_idx.                               *)
Dist(s) == IF s >= first_gpd_idx THEN s - first_gpd_idx
                                 ELSE s - first_gpd_idx + GpdNum

LEMMA DistFacts ==
    ASSUME TypeOK
    PROVE  /\ \A i \in Slots : FromFirst(i) \in Slots /\ Dist(FromFirst(i)) = i
           /\ \A s \in Slots : Dist(s) \in Slots /\ FromFirst(Dist(s)) = s
           /\ Starts \in SUBSET Nat /\ IsFiniteSet(Starts)
           /\ \A i \in Slots : i \in Starts <=> sw_gpd_ring[FromFirst(i)] # NULL
           /\ Starts \subseteq Slots
<1>1. Starts \subseteq Slots /\ Slots \in SUBSET Nat /\ IsFiniteSet(Slots)
  BY SlotsNat, FS_Interval DEF Starts
<1>2. IsFiniteSet(Starts)
  BY <1>1, FS_Subset
<1>3. \A i \in Slots : FromFirst(i) \in Slots /\ Dist(FromFirst(i)) = i
  BY SlotsNat DEF FromFirst, Dist, Wrap, TypeOK, TypeTasks
<1>4. \A s \in Slots : Dist(s) \in Slots /\ FromFirst(Dist(s)) = s
  BY SlotsNat DEF FromFirst, Dist, Wrap, TypeOK, TypeTasks
<1> QED
  BY <1>1, <1>2, <1>3, <1>4, SlotsNat DEF Starts

(* What is owed: the packets in the bulk buffer, then those in the ring.   *)
OwedIsInDriver ==
    /\ Cardinality(Starts) \in Nat /\ Len(Pending) = Cardinality(Starts)
    /\ Pending \in Seq(Packets) /\ bulk \in Seq(Packets)
    /\ bulk \o Pending \in Seq(Packets)
    /\ Len(bulk \o Pending) = Len(bulk) + Cardinality(Starts)
    /\ Range(bulk \o Pending) = InDriver

LEMMA PendingFacts == TypeOK /\ Distinct => OwedIsInDriver
<1> SUFFICES ASSUME TypeOK, Distinct PROVE OwedIsInDriver
  OBVIOUS
<1>1. Cardinality(Starts) \in Nat
  BY DistFacts, FS_CardinalityType
<1>2. \A k \in 1 .. Cardinality(Starts) : Nth(Starts, k) \in Starts
  BY DistFacts, NthType
<1>3. \A i \in Starts : sw_gpd_ring[FromFirst(i)] \in Packets
  BY DistFacts DEF TypeOK, TypePackets
<1>4. \A k \in 1 .. Cardinality(Starts) :
         sw_gpd_ring[FromFirst(Nth(Starts, k))] \in Packets
  BY <1>2, <1>3
<1>5. Pending \in [1 .. Cardinality(Starts) -> Packets]
  BY <1>4 DEF Pending
<1>6. Pending \in Seq(Packets) /\ Len(Pending) = Cardinality(Starts)
  BY <1>1, <1>5
<1>7. bulk \in Seq(Packets)
  <2>1. bulk \in Seq(Packets \cup {NULL}) /\ \A i \in 1 .. Len(bulk) : bulk[i] # NULL
    BY DEF TypeOK, TypePackets, Distinct, InBulk
  <2>2. /\ Len(bulk) \in Nat
        /\ bulk \in [1 .. Len(bulk) -> Packets \cup {NULL}]
    BY <2>1
  <2>3. bulk \in [1 .. Len(bulk) -> Packets]
    BY <2>1, <2>2
  <2> QED
    BY <2>2, <2>3
<1>8. Range(Pending) = InRing
  <2>1. ASSUME NEW k \in 1 .. Cardinality(Starts)
        PROVE  Pending[k] \in InRing
    <3>1. Pending[k] = sw_gpd_ring[FromFirst(Nth(Starts, k))]
      BY <2>1 DEF Pending
    <3>2. FromFirst(Nth(Starts, k)) \in Slots /\ Pending[k] # NULL
      BY <1>2, <3>1, DistFacts
    <3> QED
      BY <3>1, <3>2 DEF InRing
  <2>2. ASSUME NEW p \in InRing
        PROVE  \E k \in 1 .. Cardinality(Starts) : Pending[k] = p
    <3>1. PICK s \in Slots : sw_gpd_ring[s] = p /\ p # NULL
      BY DEF InRing
    <3> DEFINE i == Dist(s)
               k == Rank(Starts, i) + 1
    <3>2. i \in Starts /\ FromFirst(i) = s
      BY <3>1, DistFacts
    <3> HIDE DEF i
    <3>3. Rank(Starts, i) \in 0 .. Cardinality(Starts) - 1
      BY <3>2, DistFacts, RankType
    <3>4. k \in 1 .. Cardinality(Starts) /\ Rank(Starts, i) = k - 1
      BY <1>1, <3>3
    <3> HIDE DEF k
    <3>5. Nth(Starts, k) = i
      BY <3>2, <3>4, DistFacts, NthOfRank
    <3> QED
      BY <3>1, <3>2, <3>4, <3>5 DEF Pending
  <2>3. DOMAIN Pending = 1 .. Cardinality(Starts)
    BY DEF Pending
  <2> QED
    BY <2>1, <2>2, <2>3 DEF Range
<1>9. Range(bulk) = InBulk
  BY <1>7, RangeEquality DEF InBulk
<1>10. /\ bulk \o Pending \in Seq(Packets)
       /\ Len(bulk \o Pending) = Len(bulk) + Len(Pending)
       /\ Range(bulk \o Pending) = Range(bulk) \cup Range(Pending)
  <2>1. bulk \in Seq(Packets) /\ Pending \in Seq(Packets)
    BY <1>6, <1>7
  <2>2. /\ bulk \o Pending \in Seq(Packets)
        /\ Len(bulk \o Pending) = Len(bulk) + Len(Pending)
    BY <2>1, ConcatProperties
  <2>3. Range(bulk \o Pending) = Range(bulk) \cup Range(Pending)
    BY <2>1, RangeConcatenation
  <2> QED
    BY <2>2, <2>3
<1> QED
  BY <1>1, <1>6, <1>7, <1>8, <1>9, <1>10 DEF OwedIsInDriver, InDriver

LEMMA PendingFactsNext == (TypeOK /\ Distinct => OwedIsInDriver)'
BY PendingFacts, PTL

LEMMA ServiceInit == Init => Service!ServiceInit
<1> SUFFICES ASSUME Init PROVE Service!ServiceInit
  OBVIOUS
<1>1. TypeOK /\ Distinct
  BY InitInv, InitPackets DEF Inv, PacketInv
<1>2. Starts = {}
  BY SlotsNat DEF Init, Starts, FromFirst, Wrap
<1>3. Cardinality(Starts) = 0
  BY <1>2, FS_EmptySet
<1>4. Pending = << >> /\ bulk = << >> /\ ~err_flag /\ err_flag = FALSE
  BY <1>1, <1>3, PendingFacts DEF Init, OwedIsInDriver
<1> QED
  BY <1>4 DEF Service!ServiceInit

LEMMA SamePending ==
    ASSUME UNCHANGED << sw_gpd_ring, first_gpd_idx >>
    PROVE  Pending' = Pending
<1>1. \A i : FromFirst(i)' = FromFirst(i)
  BY DEF FromFirst
<1>2. Starts' = Starts
  BY <1>1 DEF Starts
<1> QED
  BY <1>1, <1>2 DEF Pending, FromFirst

LEMMA TailConcat ==
    ASSUME NEW S, NEW s \in Seq(S), NEW t \in Seq(S), s # << >>
    PROVE  s \o t # << >> /\ Tail(s) \o t = Tail(s \o t)
OBVIOUS

LEMMA AppendConcat ==
    ASSUME NEW S, NEW s \in Seq(S), NEW t \in Seq(S), NEW e \in S
    PROVE  /\ s \o Append(t, e) = Append(s \o t, e)
           /\ Append(s, e) \o t = s \o (<< e >> \o t)
<1>1. << e >> \in Seq(S) /\ s \o t \in Seq(S)
  OBVIOUS
<1>2. /\ Append(t, e) = t \o << e >> /\ Append(s, e) = s \o << e >>
      /\ Append(s \o t, e) = (s \o t) \o << e >>
  BY <1>1, AppendIsConcat
<1>3. (s \o t) \o << e >> = s \o (t \o << e >>)
  BY <1>1, ConcatAssociative
<1>4. (s \o << e >>) \o t = s \o (<< e >> \o t)
  BY <1>1, ConcatAssociative
<1> QED
  BY <1>2, <1>3, <1>4

(* A callback is the oldest packet's.                                      *)
LEMMA CallbackReturns ==
    ASSUME Inv, PacketInv, TdCallback
    PROVE  Service!Return
<1>1. Pending' = Pending /\ bulk' = Tail(bulk) /\ bulk # << >> /\ err_flag' = err_flag
  BY SamePending DEF TdCallback
<1>2. Pending \in Seq(Packets) /\ bulk \in Seq(Packets)
  BY PendingFacts DEF Inv, PacketInv, OwedIsInDriver
<1>3. bulk \o Pending # << >> /\ (bulk \o Pending)' = Tail(bulk \o Pending)
  BY <1>1, <1>2, TailConcat
<1> QED
  BY <1>1, <1>3 DEF Service!Return

(* sendGpd accepts.                                                        *)
LEMMA FillAccepts ==
    ASSUME Inv, PacketInv, NEW n \in Nat, NEW m \in 0 .. n, NEW p \in Packets,
           n > 0, ~RingLocked, p \notin InDriver,
           CanSend(n), Copied(n, m), Fill(p, n, m)
    PROVE  Service!Accept(p)
<1> DEFINE at == used_gpd_num
<1>1. n <= free_gpd_num /\ ~err_flag
  BY DEF CanSend
<1>2. at \in Slots
  BY <1>1, SlotsNat DEF Inv, RingAccounting, TypeOK, TypeRing
<1>3. first_gpd_idx = free_idx /\ td_pc # "flush"
  BY DEF RingLocked, PacketInv, Aligned, Boundaries
<1>4. used_idx = FromFirst(at)
  BY <1>3 DEF FromFirst, Inv, RingAccounting
<1>5. /\ UNCHANGED << first_gpd_idx, bulk, err_flag >>
      /\ sw_gpd_ring' = [sw_gpd_ring EXCEPT ![used_idx] = p]
  BY DEF Fill
<1>6. sw_gpd_ring \in [Slots -> Packets \cup {NULL}] /\ p # NULL
  BY TxConstants DEF Inv, TypeOK, TypePackets
<1>7. /\ \A i \in Slots : FromFirst(i) \in Slots /\ (FromFirst(i) = used_idx <=> i = at)
      /\ Starts \in SUBSET Nat /\ IsFiniteSet(Starts) /\ Starts \subseteq Slots
      /\ \A i \in Slots : i \in Starts <=> sw_gpd_ring[FromFirst(i)] # NULL
  BY <1>2, <1>4, DistFacts DEF Inv
<1>8. \A j \in Starts : j < at
  <2> TAKE j \in Starts
  <2>1. j \in Slots /\ sw_gpd_ring[FromFirst(j)] # NULL /\ FromFirst(j) \in Slots
    BY <1>7
  <2>2. IsHead(FromFirst(j))
    BY <1>3, <2>1 DEF PacketInv, HeadsAligned
  <2>3. Off(FromFirst(j)) = j
    BY <1>3, <2>1, AtFacts DEF FromFirst, At, Inv
  <2> QED
    BY <1>2, <1>3, <2>1, <2>2, <2>3, AtFacts, SlotsNat DEF IsHead, Inv
<1>9. \A i : FromFirst(i)' = FromFirst(i)
  BY <1>5 DEF FromFirst
<1>10. \A i \in Slots : sw_gpd_ring'[FromFirst(i)] =
                          IF i = at THEN p ELSE sw_gpd_ring[FromFirst(i)]
  BY <1>5, <1>6, <1>7
<1>11. Starts' = Starts \cup {at}
  <2>1. Starts' = {i \in Slots : sw_gpd_ring'[FromFirst(i)] # NULL}
    BY <1>9, SlotsNat DEF Starts
  <2> QED
    BY <1>2, <1>6, <1>7, <1>10, <2>1
<1> DEFINE c == Cardinality(Starts)
<1>12. /\ Cardinality(Starts') = c + 1 /\ c \in Nat
       /\ \A k \in 1 .. c : Nth(Starts', k) = Nth(Starts, k)
       /\ Nth(Starts', c + 1) = at
  <2>1. at \in Nat
    BY <1>2, SlotsNat
  <2> QED
    BY <1>7, <1>8, <1>11, <2>1, NthAdd, FS_CardinalityType
<1>13. \A k \in 1 .. c : Nth(Starts, k) \in Starts
  BY <1>7, NthType
<1>14. Pending \in Seq(Packets) /\ Len(Pending) = c /\ bulk \in Seq(Packets)
       /\ Range(bulk \o Pending) = InDriver
  BY PendingFacts DEF Inv, PacketInv, OwedIsInDriver
<1>15. Pending' = [k \in 1 .. c + 1 |-> sw_gpd_ring'[FromFirst(Nth(Starts', k))]]
  BY <1>9, <1>12 DEF Pending
<1>16. \A k \in 1 .. c : sw_gpd_ring'[FromFirst(Nth(Starts', k))] = Pending[k]
  <2> TAKE k \in 1 .. c
  <2>1. Nth(Starts', k) = Nth(Starts, k) /\ Nth(Starts, k) \in Starts
    BY <1>12, <1>13
  <2>2. Nth(Starts, k) \in Slots /\ Nth(Starts, k) # at
    <3>1. Nth(Starts, k) \in Slots /\ Nth(Starts, k) < at
      BY <1>7, <1>8, <2>1
    <3> QED
      BY <1>2, <3>1, SlotsNat
  <2> QED
    BY <1>10, <2>1, <2>2 DEF Pending
<1>17. sw_gpd_ring'[FromFirst(Nth(Starts', c + 1))] = p
  BY <1>2, <1>10, <1>12
<1>18. Pending' = Append(Pending, p)
  <2> HIDE DEF c
  <2> DEFINE q == Append(Pending, p)
  <2>1. /\ q \in Seq(Packets) /\ Len(q) = c + 1
        /\ \A k \in 1 .. c : q[k] = Pending[k]
        /\ q[c + 1] = p
    BY <1>14, AppendProperties
  <2> HIDE DEF q
  <2>2. q \in [1 .. c + 1 -> Packets]
    BY <2>1
  <2>3. \A k \in 1 .. c + 1 : sw_gpd_ring'[FromFirst(Nth(Starts', k))] = q[k]
    <3> TAKE k \in 1 .. c + 1
    <3>1. k \in 1 .. c \/ k = c + 1
      BY <1>12
    <3> QED
      BY <1>16, <1>17, <2>1, <3>1
  <2>4. Pending' = q
    BY <1>15, <2>2, <2>3
  <2> QED
    BY <2>4 DEF q
<1>19. (bulk \o Pending)' = Append(bulk \o Pending, p)
  BY <1>5, <1>14, <1>18, AppendConcat
<1>20. p \notin Service!Range(bulk \o Pending)
  BY <1>14 DEF Service!Range, Range
<1> QED
  BY <1>1, <1>5, <1>19, <1>20 DEF Service!Accept

(* A flush rearranges what the driver has.                                 *)
LEMMA FlushRearranges ==
    ASSUME Inv, Inv', PacketInv, PacketInv', TdFlush
    PROVE  Service!Rearrange \/ UNCHANGED Service!svars
<1> DEFINE p == sw_gpd_ring[idx]
<1>1. /\ UNCHANGED << err_flag, first_gpd_idx >> /\ td_pc = "flush" /\ idx \in Slots
  BY SlotsNat DEF TdFlush, Inv, TypeOK, TypeTasks
<1>2. CASE p = NULL
  <2>1. UNCHANGED << bulk, sw_gpd_ring, first_gpd_idx, err_flag >>
    BY <1>1, <1>2 DEF TdFlush
  <2> QED
    BY <2>1, SamePending DEF Service!svars
<1>3. CASE p # NULL
  <2>1. bulk' = Append(bulk, p) /\ sw_gpd_ring' = [sw_gpd_ring EXCEPT ![idx] = NULL]
    BY <1>3 DEF TdFlush
  <2>2. InRing' = InRing \ {p} /\ InBulk' = InBulk \cup {p} /\ p \in InRing
    BY <1>1, <1>3, <2>1, MovePacket DEF Inv, TypeOK, PacketInv, InRing
  <2>3. InDriver' = InDriver
    BY <2>2 DEF InDriver
  <2>4. Starts' = Starts \ {Dist(idx)} /\ Dist(idx) \in Starts
    <3>1. \A i : FromFirst(i)' = FromFirst(i)
      BY <1>1 DEF FromFirst
    <3>2. Starts' = {i \in Slots : sw_gpd_ring'[FromFirst(i)] # NULL}
      BY <3>1, SlotsNat DEF Starts
    <3>3. /\ \A i \in Slots : FromFirst(i) \in Slots /\ (FromFirst(i) = idx <=> i = Dist(idx))
          /\ Dist(idx) \in Slots /\ Starts \subseteq Slots
          /\ \A i \in Slots : i \in Starts <=> sw_gpd_ring[FromFirst(i)] # NULL
      BY <1>1, DistFacts DEF Inv
    <3>4. \A i \in Slots : sw_gpd_ring'[FromFirst(i)] =
                             IF i = Dist(idx) THEN NULL ELSE sw_gpd_ring[FromFirst(i)]
      BY <2>1, <3>3 DEF Inv, TypeOK, TypePackets
    <3>5. FromFirst(Dist(idx)) = idx
      BY <3>3
    <3> QED
      BY <1>3, <3>2, <3>3, <3>4, <3>5
  <2>5. Cardinality(Starts') = Cardinality(Starts) - 1
    BY <2>4, DistFacts, FS_RemoveElement DEF Inv
  <2>6. /\ Cardinality(Starts) \in Nat
        /\ Len(bulk \o Pending) = Len(bulk) + Cardinality(Starts)
        /\ Range(bulk \o Pending) = InDriver /\ bulk \in Seq(Packets)
    BY PendingFacts DEF Inv, PacketInv, OwedIsInDriver
  <2>7. /\ (bulk \o Pending)' \in Seq(Packets)
        /\ Len((bulk \o Pending)') = Len(bulk') + Cardinality(Starts')
        /\ Range((bulk \o Pending)') = InDriver'
    BY PendingFactsNext DEF Inv, PacketInv, OwedIsInDriver
  <2>8. Len(bulk') = Len(bulk) + 1 /\ Len(bulk) \in Nat
    BY <2>1, <2>6
  <2>9. Len((bulk \o Pending)') = Len(bulk \o Pending)
    BY <2>5, <2>6, <2>7, <2>8
  <2>10. err_flag
    BY <1>1 DEF PacketInv, Flushed
  <2>11. /\ Service!Range(bulk \o Pending) = Range(bulk \o Pending)
         /\ Service!Range((bulk \o Pending)') = Range((bulk \o Pending)')
    BY DEF Service!Range, Range
  <2> QED
    BY <1>1, <2>3, <2>6, <2>7, <2>9, <2>10, <2>11 DEF Service!Rearrange
<1> QED
  BY <1>2, <1>3


(* A packet that is done moves from the front of the ring to the end of    *)
(* the bulk buffer: nothing changes for the caller.                        *)
LEMMA PastPacket ==
    ASSUME NEW f \in Slots, NEW g \in Slots, NEW d \in Nat,
           d = (IF g >= f THEN g - f ELSE g - f + GpdNum) + 1,
           NEW i \in Slots
    PROVE  /\ d \in 1 .. GpdNum
           /\ Wrap(g + 1) \in Slots
           /\ i + d < GpdNum => Wrap(Wrap(g + 1) + i) = Wrap(f + (i + d))
           /\ i + d >= GpdNum => Wrap(Wrap(g + 1) + i) = Wrap(f + (i + d - GpdNum))
BY SlotsNat DEF Wrap

LEMMA BehindFree ==
    ASSUME NEW s \in Slots, NEW n \in Nat, TypeOK, Off(s) > 0, Off(s) < n,
           first_gpd_idx # free_idx => Off(first_gpd_idx) >= n
    PROVE  Dist(s) >= Dist(free_idx) + 1
<1>1. first_gpd_idx \in Slots /\ free_idx \in Slots
  BY DEF TypeOK, TypeRing, TypeTasks
<1> QED
  BY <1>1, SlotsNat DEF Off, Dist

LEMMA ReclaimService ==
    ASSUME Inv, Inv', PacketInv, PacketInv', TdReclaim
    PROVE  UNCHANGED Service!svars
<1>1. /\ free_idx' = Wrap(free_idx + 1) /\ err_flag' = err_flag
      /\ td_pc = "loop" /\ loop_cnt > 0
  BY DEF TdReclaim
<1>2. CASE ~last[free_idx]
  <2>1. UNCHANGED << bulk, sw_gpd_ring, first_gpd_idx >>
    BY <1>2 DEF TdReclaim
  <2> QED
    BY <1>1, <2>1, SamePending DEF Service!svars
<1>3. CASE last[free_idx]
  <2> DEFINE p == sw_gpd_ring[first_gpd_idx]
             d == Dist(free_idx) + 1
             S == Starts
             T == Starts'
             new(i) == Wrap(first_gpd_idx' + i)
  <2>1. /\ bulk' = Append(bulk, p) /\ first_gpd_idx' = Wrap(free_idx + 1)
        /\ sw_gpd_ring' = [sw_gpd_ring EXCEPT ![first_gpd_idx] = NULL]
    BY <1>1, <1>3 DEF TdReclaim
  <2>2. /\ first_gpd_idx \in Slots /\ free_idx \in Slots /\ used_gpd_num \in Nat
        /\ used_gpd_num > 0 /\ d \in Nat /\ d \in 1 .. GpdNum
    <3>1. first_gpd_idx \in Slots /\ free_idx \in Slots /\ used_gpd_num \in Nat
          /\ loop_cnt \in Nat /\ loop_cnt = used_gpd_num
      BY <1>1, SlotsNat DEF Inv, TypeOK, TypeRing, TypeTasks, PacketInv, Counted
    <3>2. Dist(free_idx) \in Slots
      BY <3>1, DistFacts DEF Inv
    <3> QED
      BY <1>1, <3>1, <3>2, SlotsNat
  <2>3. \A s \in Slots : sw_gpd_ring'[s] = IF s = first_gpd_idx THEN NULL ELSE sw_gpd_ring[s]
    BY <2>1 DEF Inv, TypeOK, TypePackets
  <2>4. /\ \A i \in Slots : FromFirst(i) \in Slots /\ Dist(FromFirst(i)) = i
        /\ S \in SUBSET Nat /\ IsFiniteSet(S) /\ S \subseteq Slots
        /\ \A i \in Slots : i \in S <=> sw_gpd_ring[FromFirst(i)] # NULL
    BY DistFacts DEF Inv
  <2>5. 0 \in Slots /\ FromFirst(0) = first_gpd_idx /\ Dist(first_gpd_idx) = 0
    BY <2>2, SlotsNat DEF FromFirst, Wrap, Dist
  <2>6. \A s \in Slots : sw_gpd_ring[s] # NULL <=> IsHead(s)
    BY <1>1 DEF PacketInv, HeadsAligned
  <2>7. 0 \in S
    BY <2>2, <2>4, <2>5, <2>6 DEF IsHead
  <2>8. \A j \in S \ {0} : j >= d
    <3> TAKE j \in S \ {0}
    <3> DEFINE s == FromFirst(j)
    <3>1. j \in Slots /\ s \in Slots /\ Dist(s) = j /\ IsHead(s)
      BY <2>4, <2>6
    <3>2. s # first_gpd_idx
      BY <2>5, <3>1
    <3> HIDE DEF s
    <3>3. Off(s) > 0 /\ Off(s) < used_gpd_num
      BY <3>1, <3>2 DEF IsHead
    <3>4. first_gpd_idx # free_idx => Off(first_gpd_idx) >= used_gpd_num
      BY <1>1 DEF PacketInv, Aligned, Boundaries
    <3> QED
      BY <2>2, <3>1, <3>3, <3>4, BehindFree DEF Inv
  <2>9. \A i \in Slots : /\ i + d < GpdNum => new(i) = FromFirst(i + d)
                         /\ i + d >= GpdNum => new(i) = FromFirst(i + d - GpdNum)
    BY <2>1, <2>2, PastPacket DEF FromFirst, Dist
  <2>10. T = {i \in Slots : sw_gpd_ring'[new(i)] # NULL}
    BY SlotsNat DEF Starts, FromFirst
  <2> HIDE DEF d, new, S, T
  <2>11. \A i \in Slots : i + d < GpdNum =>
            /\ i + d \in Slots /\ i + d # 0
            /\ sw_gpd_ring'[new(i)] = sw_gpd_ring[FromFirst(i + d)]
    <3> TAKE i \in Slots
    <3> HAVE i + d < GpdNum
    <3>1. i + d \in Slots /\ i + d # 0
      BY <2>2, SlotsNat
    <3>2. FromFirst(i + d) \in Slots /\ FromFirst(i + d) # first_gpd_idx
      BY <2>4, <2>5, <3>1
    <3> QED
      BY <2>3, <2>9, <3>1, <3>2
  <2>12. \A i \in Slots : i + d >= GpdNum => sw_gpd_ring'[new(i)] = NULL
    <3> TAKE i \in Slots
    <3> HAVE i + d >= GpdNum
    <3> DEFINE j == i + d - GpdNum
    <3>1. j \in Slots /\ j < d /\ new(i) = FromFirst(j)
      BY <2>2, <2>9, SlotsNat
    <3> HIDE DEF j
    <3>2. j \in S => j = 0
      <4>1. j \in S \ {0} => j >= d /\ j \in Nat
        BY <2>4, <2>8
      <4> QED
        BY <2>2, <3>1, <4>1
    <3>3. FromFirst(j) \in Slots /\ (FromFirst(j) # first_gpd_idx => sw_gpd_ring[FromFirst(j)] = NULL)
      BY <2>4, <2>5, <3>1, <3>2
    <3> QED
      BY <2>3, <3>1, <3>3
  <2>13. T \in SUBSET Nat /\ \A i \in Nat : i \in T <=> i + d \in S \ {0}
    <3>1. T \in SUBSET Nat
      BY <2>10, SlotsNat
    <3>2. ASSUME NEW i \in Nat PROVE i \in T <=> i + d \in S \ {0}
      <4>1. CASE i + d < GpdNum
        <5>1. i \in Slots
          BY <2>2, <4>1, SlotsNat
        <5> QED
          BY <2>4, <2>10, <2>11, <4>1, <5>1
      <4>2. CASE ~(i + d < GpdNum)
        <5>1. i + d \notin Slots /\ i + d >= GpdNum
          BY <2>2, <4>2, SlotsNat
        <5> QED
          BY <2>4, <2>10, <2>12, <5>1
      <4> QED
        BY <4>1, <4>2
    <3> QED
      BY <3>1, <3>2
  <2>14. /\ IsFiniteSet(T) /\ Cardinality(T) = Cardinality(S) - 1
         /\ Nth(S, 1) = 0
         /\ \A k \in 1 .. Cardinality(T) : Nth(S, k + 1) = Nth(T, k) + d
    BY <2>2, <2>4, <2>7, <2>8, <2>13, NthShift
  <2>15. /\ Pending \in Seq(Packets) /\ Len(Pending) = Cardinality(S)
         /\ Cardinality(S) \in Nat /\ bulk \in Seq(Packets)
    BY PendingFacts DEF Inv, PacketInv, OwedIsInDriver, S
  <2>16. /\ Pending' \in Seq(Packets) /\ Len(Pending') = Cardinality(T)
         /\ Cardinality(T) \in Nat
    BY PendingFactsNext DEF Inv, PacketInv, OwedIsInDriver, T
  <2>17. /\ Pending = [k \in 1 .. Cardinality(S) |-> sw_gpd_ring[FromFirst(Nth(S, k))]]
         /\ Pending' = [k \in 1 .. Cardinality(T) |-> sw_gpd_ring'[new(Nth(T, k))]]
    BY DEF Pending, S, T, new, FromFirst
  <2>18. p = Pending[1] /\ p \in Packets
    BY <2>5, <2>14, <2>15, <2>16, <2>17
  <2>19. \A k \in 1 .. Cardinality(T) : Pending'[k] = Pending[k + 1]
    <3> TAKE k \in 1 .. Cardinality(T)
    <3>1. Nth(T, k) \in T
      BY <2>13, <2>14, NthType
    <3>2. Nth(T, k) \in Slots /\ sw_gpd_ring'[new(Nth(T, k))] # NULL
      BY <2>10, <3>1
    <3>3. Nth(T, k) + d < GpdNum
      <4>1. ~(Nth(T, k) + d >= GpdNum)
        BY <2>12, <3>2
      <4> QED
        BY <2>2, <3>2, <4>1, SlotsNat
    <3>4. sw_gpd_ring'[new(Nth(T, k))] = sw_gpd_ring[FromFirst(Nth(S, k + 1))]
      BY <2>11, <2>14, <3>2, <3>3
    <3>5. k + 1 \in 1 .. Cardinality(S)
      BY <2>14, <2>15, <2>16
    <3> QED
      BY <2>17, <3>4, <3>5
  <2>20. Pending = << p >> \o Pending'
    <3> HIDE DEF p
    <3> DEFINE q == << p >> \o Pending'
    <3>1. << p >> \in Seq(Packets) /\ Len(<< p >>) = 1 /\ << p >>[1] = p
      BY <2>18
    <3>2. /\ q \in Seq(Packets) /\ Len(q) = 1 + Cardinality(T)
          /\ q[1] = p
          /\ \A k \in 1 .. Cardinality(T) : q[k + 1] = Pending'[k]
      BY <2>16, <3>1
    <3> HIDE DEF q
    <3>3. Len(q) = Len(Pending)
      BY <2>14, <2>15, <2>16, <3>2
    <3>4. \A k \in 1 .. Len(Pending) : Pending[k] = q[k]
      <4> TAKE k \in 1 .. Len(Pending)
      <4>1. CASE k = 1
        BY <2>18, <3>2, <4>1
      <4>2. CASE k # 1
        <5>1. k - 1 \in 1 .. Cardinality(T) /\ (k - 1) + 1 = k
          BY <2>14, <2>15, <2>16, <4>2
        <5> QED
          BY <2>19, <3>2, <5>1
      <4> QED
        BY <4>1, <4>2
    <3>5. Pending = q
      BY <2>15, <3>2, <3>3, <3>4, SeqEqual
    <3> QED
      BY <3>5 DEF q
  <2>21. (bulk \o Pending)' = bulk \o Pending
    <3>1. Append(bulk, p) \o Pending' = bulk \o (<< p >> \o Pending')
      BY <2>15, <2>16, <2>18, AppendConcat
    <3> QED
      BY <2>1, <2>20, <3>1
  <2> QED
    BY <1>1, <2>21 DEF Service!svars
<1> QED
  BY <1>2, <1>3

(* Recovery meets an empty ring.                                           *)
LEMMA RecoverRepairs ==
    ASSUME Inv, Inv', PacketInv, PacketInv', TdRecover
    PROVE  Service!Repair
<1>1. /\ td_pc = "flush" /\ idx = GpdNum /\ err_flag' = FALSE
      /\ UNCHANGED << sw_gpd_ring, bulk >>
  BY DEF TdRecover
<1>2. err_flag /\ \A s \in Slots : sw_gpd_ring[s] = NULL
  BY <1>1, SlotsNat DEF PacketInv, Flushed
<1>3. Starts = {}
  BY <1>2, DistFacts DEF Inv
<1>4. Starts' = {}
  <2>1. first_gpd_idx' = 0
    BY DEF TdRecover
  <2>2. \A i \in Slots : Wrap(first_gpd_idx' + i) \in Slots
    BY <2>1, SlotsNat DEF Wrap
  <2> QED
    BY <1>1, <1>2, <2>2, SlotsNat DEF Starts, FromFirst
<1>5. Pending = << >> /\ Pending' = << >>
  BY <1>3, <1>4, FS_EmptySet DEF Pending
<1> QED
  BY <1>1, <1>2, <1>5 DEF Service!Repair

LEMMA SendService ==
    ASSUME Inv, PacketInv, NEW p \in Packets,
           \/ \E d \in Ports : NetDevTx(d, p)
           \/ \E n \in 1 .. MaxChain : DevTx(p, n)
    PROVE  Service!Accept(p) \/ UNCHANGED Service!svars
<1>1. ASSUME NEW d \in Ports, NetDevTx(d, p), CanSend(1)
      PROVE  Service!Accept(p)
  <2>1. PICK m \in 0 .. 1 : Copied(1, m) /\ Fill(p, 1, m)
    BY <1>1 DEF NetDevTx
  <2> QED
    BY <1>1, <2>1, FillAccepts DEF NetDevTx
<1>2. ASSUME NEW d \in Ports, NetDevTx(d, p), ~CanSend(1)
      PROVE  UNCHANGED Service!svars
  <2>1. UNCHANGED << bulk, sw_gpd_ring, first_gpd_idx, err_flag >>
    BY <1>2 DEF NetDevTx, td_local
  <2> QED
    BY <2>1, SamePending DEF Service!svars
<1>3. ASSUME NEW n \in 1 .. MaxChain, DevTx(p, n)
      PROVE  Service!Accept(p)
  <2>1. PICK m \in 0 .. n : Copied(n, m) /\ Fill(p, n, m)
    BY <1>3 DEF DevTx
  <2> QED
    BY <1>3, <2>1, FillAccepts, TxConstants DEF DevTx
<1> QED
  BY <1>1, <1>2, <1>3

(* Every step of the channel is a step of the service, or none.            *)
LEMMA NextService ==
    ASSUME Inv, Inv', PacketInv, PacketInv', [Next]_vars
    PROVE  [Service!ServiceNext]_(Service!svars)
<1>1. ASSUME UNCHANGED << bulk, sw_gpd_ring, first_gpd_idx, err_flag >>
      PROVE  UNCHANGED Service!svars
  BY <1>1, SamePending DEF Service!svars
<1>2. CASE Senders
  <2>1. CASE \E d \in Ports : StartXmit(d)
    BY <1>1, <2>1 DEF StartXmit, td_local
  <2> QED
    BY <1>2, <2>1, SendService DEF Senders, Service!ServiceNext
<1>3. CASE Hardware \/ DispatchTch \/ DispatchOther \/ ErrRead \/ ErrTrigger
  BY <1>1, <1>3 DEF Hardware, HwDone, HwFault, DispatchTch, DispatchOther, Dispatch,
                    ErrRead, ErrTrigger, td_local
<1>4. CASE ErrSet
  <2>1. UNCHANGED << bulk, sw_gpd_ring, first_gpd_idx >> /\ err_flag' = TRUE
    BY <1>4 DEF ErrSet, td_local
  <2>2. Service!Break
    BY <2>1, SamePending DEF Service!Break
  <2> QED
    BY <2>2 DEF Service!ServiceNext
<1>5. CASE TdWake \/ TdClear \/ TdLock \/ TdBroken \/ TdDrained \/ TdFinish \/ TdAgain
  BY <1>1, <1>5 DEF TdWake, TdClear, TdLock, TdBroken, TdDrained, TdFinish, TdAgain,
                    td_local
<1>6. CASE TdReclaim
  BY <1>6, ReclaimService
<1>7. CASE TdFlush
  BY <1>7, FlushRearranges DEF Service!ServiceNext
<1>8. CASE TdRecover
  BY <1>8, RecoverRepairs DEF Service!ServiceNext
<1>9. CASE TdCallback
  BY <1>9, CallbackReturns DEF Service!ServiceNext
<1>10. CASE UNCHANGED vars
  BY <1>1, <1>10 DEF vars, td_local
<1> QED
  BY <1>2, <1>3, <1>4, <1>5, <1>6, <1>7, <1>8, <1>9, <1>10 DEF Next, ErrTask, TdTask

(* Where the hardware gives back whole packets, the channel keeps the      *)
(* promise of TxService: it accepts a packet only while it is not broken,  *)
(* returns each accepted packet once and in the order of acceptance, and a *)
(* recovery loses none.                                                    *)
THEOREM ServiceCorrect ==
    ASSUME WriteBack = "packet"
    PROVE  Spec => ImplementsService
<1>1. /\ Inv /\ Inv' /\ PacketInv /\ PacketInv' /\ [Next]_vars
      => [Service!ServiceNext]_(Service!svars)
  BY NextService
<1>2. Spec => []Inv
  BY Invariance
<1>3. Spec => []PacketInv
  BY PacketInvariance
<1> QED
  BY <1>1, <1>2, <1>3, ServiceInit, PTL DEF Spec, ImplementsService, Service!ServiceSpec
=============================================================================
