--------------------------- MODULE NetlinkProofs ---------------------------
(***************************************************************************)
(* Proofs about Netlink, for any number of families, groups and Rx         *)
(* channels: that the size of a message is right for every packet, and the *)
(* safety properties, under the discipline of a process that destroys its  *)
(* families before it deinitialises the driver, on a machine with memory   *)
(* for the groups.                                                         *)
(*                                                                         *)
(* FamiliesKnown and GroupsOwned are inductive together, once it is known  *)
(* that a driver that is not initialised has no families (LifeInv): that   *)
(* is what makes the clearing of the table harmless.  ForwardRight then    *)
(* follows from the ioctls keeping out of the tasks' packets.              *)
(***************************************************************************)
EXTENDS Netlink, TLAPS

Discipline == ~GroupsFail /\ ~LeavesFamilies

-----------------------------------------------------------------------------
(* Sizes.                                                                  *)

(* For a packet of any length: the message has no more of it than there    *)
(* is, header and data fit the largest message, the length of the data's   *)
(* attribute fits its 16 bits, and nothing is cut off that would fit.      *)
THEOREM MessageFits ==
    \A n \in Nat : /\ DataLen(n) \in 0 .. n
                   /\ HdrLen + TotalSize(DataLen(n)) <= PktLenMax
                   /\ AttrSize(DataLen(n)) < 2^16
                   /\ HdrLen + TotalSize(n) <= PktLenMax => DataLen(n) = n
<1>1. HdrLen = 40
  BY DEF HdrLen, TotalSize, AttrSize, Align
<1>2. ASSUME NEW n \in Nat
      PROVE  /\ TotalSize(n) \in Int
             /\ n + 4 <= TotalSize(n) /\ TotalSize(n) <= n + 7
  BY <1>2 DEF TotalSize, AttrSize, Align
<1>3. TotalSize(9168) = 9172
  BY DEF TotalSize, AttrSize, Align
<1>4. 2^16 = 65536
  OBVIOUS
<1>5. SUFFICES ASSUME NEW n \in Nat
               PROVE  /\ DataLen(n) \in 0 .. n
                      /\ HdrLen + TotalSize(DataLen(n)) <= PktLenMax
                      /\ AttrSize(DataLen(n)) < 65536
                      /\ HdrLen + TotalSize(n) <= PktLenMax => DataLen(n) = n
  BY <1>4
<1>6. CASE HdrLen + TotalSize(n) > PktLenMax
  BY <1>1, <1>2, <1>3, <1>6 DEF DataLen, PktLenMax, AttrSize
<1>7. CASE ~(HdrLen + TotalSize(n) > PktLenMax)
  BY <1>1, <1>2, <1>7 DEF DataLen, PktLenMax, AttrSize
<1>8. QED  BY <1>6, <1>7

LEMMA MessageType ==
    ASSUME NEW pkt \in Packets, NEW k \in Nat,
           rate \in [Ports -> Rates], seq_num \in 0 .. SeqMod - 1
    PROVE  Message(pkt, k) \in Messages
<1>1. pkt.len \in Nat /\ pkt.port \in Ports
  BY NetlinkConstants DEF Packets
<1>2. DataLen(pkt.len) \in Int
  BY <1>1, MessageFits
<1>3. QED  BY <1>1, <1>2 DEF Message, Messages

-----------------------------------------------------------------------------
(* The inductive invariant.                                                *)

LifeInv == /\ ~init_drv => Valid = {}
           /\ proc = "up" => init_drv

TaskInv == \A c \in Channels : rx[c].pc # "idle" => rx[c].pkt \in Packets

Inv == /\ TypeOK /\ LifeInv /\ TaskInv
       /\ FamiliesKnown /\ GroupsOwned /\ ForwardRight

(* A cleared table.                                                        *)
LEMMA ClearedType ==
    /\ [i \in Slots |-> Unused] \in [Slots -> [valid : BOOLEAN,
                                               name : Names \cup {Nil},
                                               mcgrps : Arrays \cup {Nil}]]
    /\ [p \in Ports |-> 0] \in [Ports -> Rates]
    /\ 0 \in 0 .. SeqMod - 1
    /\ 0 \in Slots
<1>1. 0 \in Rates /\ 0 \in 0 .. SeqMod - 1 /\ 0 \in Slots
  BY NetlinkConstants DEF Slots
<1>2. QED  BY <1>1 DEF Unused

LEMMA InitInv ==
    Init => Inv
<1> SUFFICES ASSUME Init PROVE Inv
  OBVIOUS
<1>1. TypeOK
  BY ClearedType DEF Init, TypeOK, Idle
<1>2. Valid = {}
  BY DEF Init, Valid, Unused
<1>3. ForwardRight
  BY DEF Init, ForwardRight, Idle
<1>4. GroupsOwned
  BY <1>2 DEF Init, GroupsOwned
<1>5. TaskInv
  BY DEF Init, TaskInv, Idle
<1>6. QED  BY <1>1, <1>2, <1>3, <1>4, <1>5
    DEF Init, Inv, LifeInv, FamiliesKnown

-----------------------------------------------------------------------------
(* The ioctls.                                                             *)

(* With every channel locked nothing is under way.                         *)
LEMMA LockedForward ==
    ASSUME AllLocked, UNCHANGED rx
    PROVE  ForwardRight'
BY DEF AllLocked, ForwardRight

LEMMA CreateInv ==
    ASSUME Inv, Discipline, NEW f \in Families, CreateNetlink(f)
    PROVE  Inv'
<1>1. PICK i \in Slots \ Valid, a \in Arrays :
         groups[a] = Nil /\ (Created(i, f, a) \/ Refused(i, f, a))
  BY DEF CreateNetlink, NoGroups, Discipline, Lowest
<1>2. f.name \in Names /\ f.groups \in GroupLists /\ f.groups # Nil
  BY NetlinkConstants DEF Families
<1> DEFINE e(v) == [valid |-> v, name |-> f.name, mcgrps |-> a]
<1>3. PICK v \in BOOLEAN : entry' = [entry EXCEPT ![i] = e(v)]
  BY <1>1 DEF Created, Refused
<1>4. /\ UNCHANGED << proc, init_drv, rate, seq_num, rx >>
      /\ init_drv
      /\ AllLocked
  BY DEF CreateNetlink, life, Inv, LifeInv
<1>5. TypeOK'
  <2>1. entry' \in [Slots -> [valid : BOOLEAN, name : Names \cup {Nil},
                             mcgrps : Arrays \cup {Nil}]]
    BY <1>2, <1>3 DEF Inv, TypeOK
  <2>2. /\ groups' \in [Arrays -> GroupLists \cup {Nil}]
        /\ registered' \subseteq Slots
    BY <1>1, <1>2 DEF Inv, TypeOK, Created, Refused, Registers
  <2>3. QED  BY <1>4, <2>1, <2>2 DEF Inv, TypeOK
<1>6. CASE Created(i, f, a)
  <2>1. entry' = [entry EXCEPT ![i] = e(TRUE)]
    BY <1>6 DEF Created
  <2>2. Valid' = Valid \cup {i}
    BY <2>1 DEF Valid, Inv, TypeOK
  <2>3. /\ registered' = registered \cup {i}
        /\ \A j \in Valid : entry[j].name # f.name
        /\ groups' = [groups EXCEPT ![a] = f.groups]
    BY <1>6 DEF Created, Registers, NameKnown, Inv, FamiliesKnown
  <2>4. \A j \in Valid : entry'[j] = entry[j] /\ entry[j].mcgrps # a
    BY <1>1, <2>1 DEF Inv, TypeOK, GroupsOwned, Valid
  <2>5. entry'[i].name = f.name /\ entry'[i].mcgrps = a
    BY <2>1 DEF Inv, TypeOK
  <2>6. FamiliesKnown'
    BY <2>2, <2>3, <2>4, <2>5 DEF Inv, FamiliesKnown
  <2>7. groups'[a] # Nil /\ \A b \in Arrays \ {a} : groups'[b] = groups[b]
    BY <1>2, <2>3 DEF Inv, TypeOK
  <2>8. GroupsOwned'
    BY <2>2, <2>4, <2>5, <2>7 DEF Inv, GroupsOwned
  <2>9. QED  BY <1>4, <1>5, <2>6, <2>8, LockedForward DEF Inv, LifeInv, TaskInv
<1>7. CASE Refused(i, f, a)
  <2>1. entry' = [entry EXCEPT ![i] = e(FALSE)]
    BY <1>7 DEF Refused
  <2>2. Valid' = Valid
    BY <2>1 DEF Valid, Inv, TypeOK
  <2>3. UNCHANGED << registered, groups >>
    BY <1>7 DEF Refused
  <2>4. \A j \in Valid : entry'[j] = entry[j]
    BY <2>1 DEF Inv, TypeOK, Valid
  <2>5. FamiliesKnown' /\ GroupsOwned'
    BY <2>2, <2>3, <2>4 DEF Inv, FamiliesKnown, GroupsOwned
  <2>6. QED  BY <1>4, <1>5, <2>5, LockedForward DEF Inv, LifeInv, TaskInv
<1>8. QED  BY <1>1, <1>6, <1>7

(* Destroying any set of families leaves the others as they were.          *)
LEMMA DestroyFams ==
    ASSUME Inv, NEW S, Destroy(S)
    PROVE  /\ entry' \in [Slots -> [valid : BOOLEAN, name : Names \cup {Nil},
                                    mcgrps : Arrays \cup {Nil}]]
           /\ groups' \in [Arrays -> GroupLists \cup {Nil}]
           /\ registered' \subseteq Slots
           /\ Valid' = Valid \ S
           /\ FamiliesKnown' /\ GroupsOwned'
<1>1. Destroyed(S) = S \cap Valid
  BY DEF Destroyed, Inv, FamiliesKnown
<1>2. /\ entry' \in [Slots -> [valid : BOOLEAN, name : Names \cup {Nil},
                              mcgrps : Arrays \cup {Nil}]]
      /\ registered' \subseteq Slots
  BY DEF Destroy, Inv, TypeOK
<1>3. groups' \in [Arrays -> GroupLists \cup {Nil}]
  BY DEF Destroy, Inv, TypeOK
<1>4. Valid' = Valid \ S
  BY <1>1 DEF Destroy, Valid, Inv, TypeOK
<1>5. \A i \in Valid \ S : entry'[i] = entry[i]
  BY <1>1 DEF Destroy, Valid
<1>6. FamiliesKnown'
  BY <1>1, <1>4, <1>5 DEF Destroy, Inv, FamiliesKnown
<1>7. ASSUME NEW a \in Arrays
      PROVE  groups'[a] = IF \E i \in Valid \cap S : entry[i].mcgrps = a
                          THEN Nil ELSE groups[a]
  BY <1>1 DEF Destroy
<1>8. GroupsOwned'
  <2>1. ASSUME NEW i \in Valid \ S
        PROVE  entry'[i].mcgrps \in Arrays /\ groups'[entry'[i].mcgrps] # Nil
    BY <1>5, <1>7, <2>1 DEF Inv, GroupsOwned
  <2>2. ASSUME NEW a \in Arrays, groups'[a] # Nil
        PROVE  \E i \in Valid \ S : entry'[i].mcgrps = a
    BY <1>5, <1>7, <2>2 DEF Inv, GroupsOwned
  <2>3. QED  BY <1>4, <1>5, <2>1, <2>2 DEF Inv, GroupsOwned
<1>9. QED  BY <1>2, <1>3, <1>4, <1>6, <1>8

LEMMA DestroyInv ==
    ASSUME Inv, NEW i \in Slots, DestroyNetlink(i)
    PROVE  Inv'
<1>1. /\ Destroy({i}) /\ AllLocked
      /\ UNCHANGED << proc, init_drv, rate, seq_num, rx >>
  BY DEF DestroyNetlink, life
<1>2. TypeOK' /\ Valid' \subseteq Valid /\ FamiliesKnown' /\ GroupsOwned'
  BY <1>1, DestroyFams DEF Inv, TypeOK
<1>3. QED  BY <1>1, <1>2, LockedForward DEF Inv, LifeInv, TaskInv

LEMMA PropertyInv ==
    ASSUME Inv, NEW p \in Ports, NEW r \in Rates, SetIntfProperty(p, r)
    PROVE  Inv'
<1>1. UNCHANGED << proc, init_drv, entry, groups, registered, seq_num, rx >>
  BY DEF SetIntfProperty, life, fams
<1>2. TypeOK'
  BY <1>1 DEF SetIntfProperty, Inv, TypeOK
<1>3. ForwardRight'
  BY <1>1, LockedForward DEF SetIntfProperty
<1>4. QED  BY <1>1, <1>2, <1>3
    DEF Inv, LifeInv, TaskInv, FamiliesKnown, GroupsOwned, Valid

-----------------------------------------------------------------------------
(* The life of the driver.                                                 *)

(* A table without families can be cleared, and nothing is under way.      *)
LEMMA ClearedInv ==
    ASSUME Inv, Valid = {},
           entry' = [i \in Slots |-> Unused],
           rate' = [p \in Ports |-> 0], seq_num' = 0,
           UNCHANGED << groups, registered, rx >>
    PROVE  Valid' = {} /\ FamiliesKnown' /\ GroupsOwned' /\ ForwardRight'
<1>1. Valid' = {}
  BY DEF Valid, Unused
<1>2. \A c \in Channels : rx[c].pc = "idle"
  BY DEF Inv, FamiliesKnown, ForwardRight
<1>3. ForwardRight'
  BY <1>2 DEF ForwardRight
<1>4. QED  BY <1>1, <1>3 DEF Inv, FamiliesKnown, GroupsOwned

LEMMA OpenInv ==
    ASSUME Inv, Open
    PROVE  Inv'
<1>1. CASE init_drv
  <2>1. proc' = "open" /\ UNCHANGED << init_drv, fams, rate, seq_num, rx >>
    BY <1>1 DEF Open, fams
  <2>2. QED  BY <1>1, <2>1 DEF Inv, TypeOK, LifeInv, TaskInv, FamiliesKnown,
                             GroupsOwned, ForwardRight, Valid, Listed, fams
<1>2. CASE ~init_drv
  <2>1. TypeOK'
    BY <1>2, ClearedType DEF Open, Inv, TypeOK
  <2>2. QED  BY <1>2, <2>1, ClearedInv DEF Open, Inv, LifeInv, TaskInv
<1>3. QED  BY <1>1, <1>2

LEMMA InitDrvInv ==
    ASSUME Inv, InitDrv
    PROVE  Inv'
<1>1. AllLocked /\ proc' = "up" /\ init_drv' = TRUE
      /\ UNCHANGED << rate, seq_num, rx >>
  BY DEF InitDrv
<1>2. TypeOK' /\ FamiliesKnown' /\ GroupsOwned'
  <2>1. CASE Destroy(Slots)
    BY <1>1, <2>1, DestroyFams DEF Inv, TypeOK
  <2>2. CASE UNCHANGED fams
    BY <1>1, <2>2 DEF Inv, TypeOK, FamiliesKnown, GroupsOwned, Valid, fams
  <2>3. QED  BY <2>1, <2>2 DEF InitDrv
<1>3. QED  BY <1>1, <1>2, LockedForward DEF Inv, LifeInv, TaskInv

LEMMA DeinitDrvInv ==
    ASSUME Inv, Discipline, DeinitDrv
    PROVE  Inv'
<1>1. UNCHANGED << entry, groups, registered, rate, seq_num, rx >>
      /\ proc' = "down" /\ init_drv' = FALSE /\ Valid = {}
  BY DEF DeinitDrv, fams, Discipline
<1>2. QED  BY <1>1 DEF Inv, TypeOK, LifeInv, TaskInv, FamiliesKnown,
                      GroupsOwned, ForwardRight, Valid, Listed

LEMMA EndInv ==
    ASSUME Inv, End
    PROVE  Inv'
BY DEF End, fams, Inv, TypeOK, LifeInv, TaskInv, FamiliesKnown, GroupsOwned,
       ForwardRight, Valid, Listed

LEMMA ReloadInv ==
    ASSUME Inv, Discipline, Reload
    PROVE  Inv'
<1>1. Valid = {}
  BY DEF Reload, Discipline
<1>2. TypeOK'
  BY ClearedType DEF Reload, Inv, TypeOK
<1>3. QED  BY <1>1, <1>2, ClearedInv DEF Reload, Inv, LifeInv, TaskInv

-----------------------------------------------------------------------------
(* The tasks.                                                              *)

LEMMA ForwardInv ==
    ASSUME Inv, NEW c \in Channels, Forward(c)
    PROVE  Inv'
<1>1. UNCHANGED << proc, init_drv, entry, groups, registered, rate >>
  BY DEF Forward, RxFind, RxNothing, RxBuild, RxCount, RxSend, life, fams
<1>2. LifeInv' /\ FamiliesKnown' /\ GroupsOwned'
  BY <1>1 DEF Inv, LifeInv, TaskInv, FamiliesKnown, GroupsOwned, Valid
<1> DEFINE Task == [pc : {"idle", "group", "count", "send"},
                    pkt : Packets \cup {Nil}, slot : Slots,
                    msg : Messages \cup {Nil}]
           Right(r) ==
             r.pc # "idle" =>
               /\ r.pkt \in Packets
               /\ r.slot \in registered /\ entry[r.slot].name = r.pkt.name
               /\ r.pc # "group" =>
                    LET l == Listed(r.slot)
                    IN  /\ r.msg.group \in DOMAIN l
                        /\ l[r.msg.group] = r.pkt.group
                        /\ r.msg.rate = rate[r.pkt.port]
                        /\ r.msg.bytes <= r.pkt.len
                        /\ HdrLen + TotalSize(r.msg.bytes) <= PktLenMax
<1>3. rx[c] \in Task /\ Right(rx[c])
  BY DEF Inv, TypeOK, TaskInv, ForwardRight
<1>4. SUFFICES /\ \E r \in Task : Right(r) /\ rx' = [rx EXCEPT ![c] = r]
               /\ seq_num' \in 0 .. SeqMod - 1
  <2> HIDE DEF Task, Right
  <2>1. PICK r \in Task : Right(r) /\ rx' = [rx EXCEPT ![c] = r]
    BY <1>4
  <2>2. \A d \in Channels : rx'[d] \in Task /\ Right(rx'[d])
    BY <2>1 DEF Inv, TypeOK, TaskInv, ForwardRight, Task, Right
  <2>3. rx' \in [Channels -> Task]
    BY <2>1, <2>2 DEF Inv, TypeOK
  <2>4. TypeOK'
    BY <1>1, <1>4, <2>3 DEF Inv, TypeOK, Task
  <2>5. \A i : Listed(i)' = Listed(i)
    BY <1>1 DEF Listed
  <2>6. TaskInv' /\ ForwardRight'
    BY <1>1, <2>2, <2>5 DEF TaskInv, ForwardRight, Right
  <2>7. QED  BY <1>2, <2>4, <2>6 DEF Inv
<1>5. ASSUME NEW pkt \in Packets, RxFind(c, pkt)
      PROVE  \E r \in Task : Right(r) /\ rx' = [rx EXCEPT ![c] = r]
  <2>1. PICK i \in Named(pkt.name) :
          rx' = [rx EXCEPT ![c] = [pc |-> "group", pkt |-> pkt, slot |-> i,
                                   msg |-> Nil]]
    BY <1>5 DEF RxFind, Lowest
  <2> DEFINE r == [pc |-> "group", pkt |-> pkt, slot |-> i, msg |-> Nil]
  <2>2. i \in Slots /\ i \in registered /\ entry[i].name = pkt.name
    BY DEF Named, Valid, Inv, FamiliesKnown
  <2>3. r \in Task /\ Right(r)
    BY <2>2
  <2>4. QED  BY <2>1, <2>3
<1>6. ASSUME RxDrop(c)
      PROVE  \E r \in Task : Right(r) /\ rx' = [rx EXCEPT ![c] = r]
  <2>1. Idle \in Task /\ Right(Idle)
    BY NetlinkConstants DEF Idle, Slots
  <2>2. QED  BY <1>6, <2>1 DEF RxDrop
<1>7. ASSUME RxBuild(c)
      PROVE  \E r \in Task : Right(r) /\ rx' = [rx EXCEPT ![c] = r]
  <2>1. PICK k \in Places(Listed(rx[c].slot), rx[c].pkt.group) :
          rx' = [rx EXCEPT ![c].pc = "count",
                           ![c].msg = Message(rx[c].pkt, k)]
    BY <1>7 DEF RxBuild, Lowest
  <2> DEFINE r == [rx[c] EXCEPT !.pc = "count", !.msg = Message(rx[c].pkt, k)]
  <2>2. rx' = [rx EXCEPT ![c] = r]
    BY <2>1 DEF Inv, TypeOK
  <2>3. rx[c].pkt \in Packets /\ rx[c].pc = "group"
    BY <1>3, <1>7 DEF RxBuild
  <2>4. Listed(rx[c].slot) \in Seq(GroupNames)
    BY NetlinkConstants DEF Listed, Inv, TypeOK
  <2>5. /\ k \in Nat /\ k \in DOMAIN Listed(rx[c].slot)
        /\ Listed(rx[c].slot)[k] = rx[c].pkt.group
    BY <2>4 DEF Places
  <2>6. Message(rx[c].pkt, k) \in Messages
    BY <2>3, <2>5, MessageType DEF Inv, TypeOK
  <2>7. /\ DataLen(rx[c].pkt.len) <= rx[c].pkt.len
        /\ HdrLen + TotalSize(DataLen(rx[c].pkt.len)) <= PktLenMax
    <3>1. rx[c].pkt.len \in Nat
      BY <2>3, NetlinkConstants DEF Packets
    <3>2. \A n \in Nat : /\ DataLen(n) \in 0 .. n
                         /\ HdrLen + TotalSize(DataLen(n)) <= PktLenMax
      BY MessageFits, Zenon
    <3> HIDE DEF Task, Right
    <3>3. DataLen(rx[c].pkt.len) \in 0 .. rx[c].pkt.len
      BY <3>1, <3>2
    <3>4. QED  BY <3>1, <3>2, <3>3
  <2>8. r \in Task
    BY <1>3, <2>6
  <2>9. Right(r)
    <3>1. /\ r.slot = rx[c].slot /\ r.pkt = rx[c].pkt
          /\ r.msg = Message(rx[c].pkt, k)
      BY <1>3
    <3>2. r.slot \in registered /\ entry[r.slot].name = r.pkt.name
      BY <1>3, <2>3, <3>1
    <3>3. r.msg.group = k /\ r.msg.rate = rate[r.pkt.port]
      BY <3>1 DEF Message
    <3>4. r.msg.bytes = DataLen(r.pkt.len)
      BY <3>1 DEF Message
    <3> HIDE DEF r
    <3>5. QED  BY <2>3, <2>5, <2>7, <3>1, <3>2, <3>3, <3>4
  <2>10. QED  BY <2>2, <2>8, <2>9
<1>8. ASSUME RxCount(c)
      PROVE  \E r \in Task : Right(r) /\ rx' = [rx EXCEPT ![c] = r]
  <2> DEFINE r == [rx[c] EXCEPT !.pc = "send"]
  <2>1. rx' = [rx EXCEPT ![c] = r] /\ rx[c].pc = "count"
    BY <1>8 DEF RxCount, Inv, TypeOK
  <2>2. r \in Task /\ Right(r)
    BY <1>3, <2>1
  <2>3. QED  BY <2>1, <2>2
<1>9. seq_num' \in 0 .. SeqMod - 1
  BY NetlinkConstants DEF Forward, RxFind, RxNothing, RxBuild, RxCount, RxSend,
                          Inv, TypeOK
<1>10. QED  BY <1>5, <1>6, <1>7, <1>8, <1>9 DEF Forward, RxNothing, RxSend

-----------------------------------------------------------------------------
LEMMA NextInv ==
    ASSUME Discipline
    PROVE  Inv /\ [Next]_vars => Inv'
<1> SUFFICES ASSUME Inv, [Next]_vars PROVE Inv'
  OBVIOUS
<1>1. CASE UNCHANGED vars
  BY <1>1 DEF vars, life, fams, Inv, TypeOK, LifeInv, TaskInv, FamiliesKnown,
              GroupsOwned, ForwardRight, Valid, Listed
<1>2. CASE Ioctl
  BY <1>2, CreateInv, DestroyInv, PropertyInv DEF Ioctl
<1>3. CASE Life
  BY <1>3, OpenInv, InitDrvInv, DeinitDrvInv, EndInv, ReloadInv DEF Life
<1>4. CASE \E c \in Channels : Forward(c)
  BY <1>4, ForwardInv
<1>5. QED  BY <1>1, <1>2, <1>3, <1>4 DEF Next

(* Inv always holds, for any number of families, arrays and channels.      *)
THEOREM Invariance ==
    ASSUME Discipline
    PROVE  Spec => []Inv
BY InitInv, NextInv, PTL DEF Spec

-----------------------------------------------------------------------------
(* What follows from it.                                                   *)

(* The table of netif_nl.c and the kernel's registry always agree.         *)
THEOREM FamiliesKnownCorrect ==
    ASSUME Discipline
    PROVE  Spec => []FamiliesKnown
<1>1. Inv => FamiliesKnown
  BY DEF Inv
<1>2. QED  BY <1>1, Invariance, PTL

(* No list of groups is leaked, shared or freed while it is in use.        *)
THEOREM GroupsOwnedCorrect ==
    ASSUME Discipline
    PROVE  Spec => []GroupsOwned
<1>1. Inv => GroupsOwned
  BY DEF Inv
<1>2. QED  BY <1>1, Invariance, PTL

(* An RxDone task only sends to a registered family and its own group,     *)
(* with the rate in force, whatever the ioctls do meanwhile.               *)
THEOREM ForwardRightCorrect ==
    ASSUME Discipline
    PROVE  Spec => []ForwardRight
<1>1. Inv => ForwardRight
  BY DEF Inv
<1>2. QED  BY <1>1, Invariance, PTL
=============================================================================
