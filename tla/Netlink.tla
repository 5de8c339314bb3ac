------------------------------ MODULE Netlink ------------------------------
(***************************************************************************)
(* The netlink families of netif_nl.c: the table of families, the memory   *)
(* of their multicast groups, what the kernel has registered, the ioctls   *)
(* that create and destroy families and set sampling rates, and the        *)
(* forwarding of received packets by the RxDone tasks.                     *)
(*                                                                         *)
(* These ioctls hold the semaphores of all Rx channels from their first    *)
(* step to their last, so each is one action, taken when no task is in the *)
(* middle of a packet (ProfileDb has the semaphores, one by one).  A task  *)
(* holds its own channel's only: two may forward at the same time.         *)
(*                                                                         *)
(* The kernel's registry refers to a family by the address of its record,  *)
(* that is by its slot of the table.                                       *)
(***************************************************************************)
EXTENDS Integers, Sequences, FiniteSets

CONSTANTS
    NumFamilies,    \* NETIF_NL_FAMILY_NUM_MAX
    Names,          \* names of families
    SampleNames,    \* those the driver can write messages for: psample, mod
    GroupNames,     \* names of multicast groups
    GroupLists,     \* groups a family may be created with, in order
    Arrays,         \* memory for lists of groups
    Channels,       \* RxDone tasks
    Ports, Rates, Lengths,  \* of packets
    SeqMod,         \* where seq_num wraps
    GroupsFail,     \* may the allocation of the groups fail?
    LeavesFamilies, \* may the process deinitialise the driver, or the module
                    \* be removed, with families left?
    Nil

ASSUME NetlinkConstants ==
    /\ NumFamilies \in Nat \ {0} /\ SeqMod \in Nat \ {0}
    /\ SampleNames \subseteq Names
    /\ GroupLists \subseteq Seq(GroupNames)
    /\ 0 \in Rates /\ Lengths \subseteq Nat
    /\ Nil \notin Names \cup Arrays \cup GroupLists
    /\ {GroupsFail, LeavesFamilies} \subseteq BOOLEAN

Slots == 0 .. NumFamilies - 1

(* What a profile's destination and the packet determine.                  *)
Packets == [name : Names, group : GroupNames, port : Ports, len : Lengths]

VARIABLES
    proc, init_drv, \* the process and INIT_DRV of init_flag
    entry,          \* fam_entry: valid, name, and the pointer mcgrps
    groups,         \* what each array holds, Nil if it is not allocated
    registered,     \* slots whose family the kernel knows (external)
    rate,           \* igr_sample_rate
    seq_num,
    rx              \* the tasks: packet, family found, message

life == << proc, init_drv >>
fams == << entry, groups, registered >>
vars == << life, fams, rate, seq_num, rx >>

Unused == [valid |-> FALSE, name |-> Nil, mcgrps |-> Nil]
Idle   == [pc |-> "idle", pkt |-> Nil, slot |-> 0, msg |-> Nil]

Init ==
    /\ proc = "none" /\ init_drv = FALSE
    /\ entry = [i \in Slots |-> Unused]
    /\ groups = [a \in Arrays |-> Nil]
    /\ registered = {}
    /\ rate = [p \in Ports |-> 0] /\ seq_num = 0
    /\ rx = [c \in Channels |-> Idle]

Valid == {i \in Slots : entry[i].valid}

(* lockRxChannelAll has every semaphore.                                   *)
AllLocked == \A c \in Channels : rx[c].pc = "idle"

-----------------------------------------------------------------------------
(* Sizes of a message, in bytes.                                           *)

(* nla_attr_size and nla_total_size (external).                            *)
Align(n)     == ((n + 3) \div 4) * 4
AttrSize(n)  == 4 + n
TotalSize(n) == Align(AttrSize(n))

PktLenMax == 9216

(* One attribute of 16 bits, four of 32.                                   *)
HdrLen == TotalSize(2) + 4 * TotalSize(4)

(* How much of a packet of n bytes the message carries.                    *)
DataLen(n) == IF HdrLen + TotalSize(n) > PktLenMax
              THEN PktLenMax - HdrLen - 4 - 4
              ELSE n

-----------------------------------------------------------------------------
(* The ioctls.                                                             *)

(* Where a search from 0 on ends, if it ends.                              *)
Lowest(S) == {i \in S : \A j \in S : i <= j}

NameKnown(n) == \E i \in registered : entry[i].name = n

(* genl_register_family refuses a known name, and may fail otherwise.      *)
Registers(i, n) == ~NameKnown(n) /\ registered' = registered \cup {i}

(* The groups are freed, and the slot; the pointer stays as it was set.    *)
Refused(i, f, a) ==
    /\ entry' = [entry EXCEPT ![i] = [valid |-> FALSE, name |-> f.name,
                                      mcgrps |-> a]]
    /\ UNCHANGED << groups, registered >>

Created(i, f, a) ==
    /\ Registers(i, f.name)
    /\ entry' = [entry EXCEPT ![i] = [valid |-> TRUE, name |-> f.name,
                                      mcgrps |-> a]]
    /\ groups' = [groups EXCEPT ![a] = f.groups]

(* Without memory for the groups the ioctl returns with the slot taken and *)
(* the pointer of the slot's last family in it.                            *)
NoGroups(i, f) ==
    /\ GroupsFail
    /\ entry' = [entry EXCEPT ![i].valid = TRUE, ![i].name = f.name]
    /\ UNCHANGED << groups, registered >>

CreateNetlink(f) ==
    /\ proc = "up" /\ AllLocked
    /\ \E i \in Lowest(Slots \ Valid) :
          \/ \E a \in Arrays : /\ groups[a] = Nil
                               /\ Created(i, f, a) \/ Refused(i, f, a)
          \/ NoGroups(i, f)
    /\ UNCHANGED << life, rate, seq_num, rx >>

(* genl_unregister_family fails for what is not registered.                *)
Destroyed(S) == S \cap Valid \cap registered

(* Mutant: the groups stay allocated.                                      *)
DestroyKeep(S) ==
    /\ entry' = [i \in Slots |-> IF i \in Destroyed(S)
                                 THEN [entry[i] EXCEPT !.valid = FALSE]
                                 ELSE entry[i]]
    /\ registered' = registered \ Destroyed(S)
    /\ UNCHANGED groups

Destroy(S) ==
    /\ entry' = [i \in Slots |-> IF i \in Destroyed(S)
                                 THEN [entry[i] EXCEPT !.valid = FALSE]
                                 ELSE entry[i]]
    /\ groups' = [a \in Arrays |->
                    IF \E i \in Destroyed(S) : entry[i].mcgrps = a
                    THEN Nil ELSE groups[a]]
    /\ registered' = registered \ Destroyed(S)

(* Mutant: the ioctl does not keep the RxDone tasks out.                   *)
DestroyUnlocked(i) ==
    /\ proc = "up"
    /\ Destroy({i})
    /\ UNCHANGED << life, rate, seq_num, rx >>

DestroyNetlink(i) ==
    /\ proc = "up" /\ AllLocked
    /\ Destroy({i})
    /\ UNCHANGED << life, rate, seq_num, rx >>

SetIntfProperty(p, r) ==
    /\ proc = "up" /\ AllLocked
    /\ rate' = [rate EXCEPT ![p] = r]
    /\ UNCHANGED << life, fams, seq_num, rx >>

-----------------------------------------------------------------------------
(* The life of the driver, as far as the families are concerned.           *)

(* netif_nl_init clears everything, unless init_flag tells that it is in   *)
(* use.                                                                    *)
Open ==
    /\ proc = "none"
    /\ proc' = "open"
    /\ IF init_drv THEN UNCHANGED << entry, rate, seq_num >>
       ELSE /\ entry' = [i \in Slots |-> Unused]
            /\ rate' = [p \in Ports |-> 0] /\ seq_num' = 0
    /\ UNCHANGED << init_drv, groups, registered, rx >>

(* Mutant: the families of a killed process are not destroyed.             *)
InitDrvUnclean ==
    /\ proc \in {"open", "down"} /\ AllLocked
    /\ proc' = "up" /\ init_drv' = TRUE
    /\ entry' = IF init_drv THEN [i \in Slots |-> Unused] ELSE entry
    /\ UNCHANGED << groups, registered, rate, seq_num, rx >>

(* INIT_DRV and INIT_TASK; what a killed process left is taken down first, *)
(* "destroy all of NETLINK" with it.                                       *)
InitDrv ==
    /\ proc \in {"open", "down"} /\ AllLocked
    /\ proc' = "up" /\ init_drv' = TRUE
    /\ IF init_drv THEN Destroy(Slots) ELSE UNCHANGED fams
    /\ UNCHANGED << rate, seq_num, rx >>

(* DEINIT_TASK, which waits for the RxDone tasks, and DEINIT_DRV.          *)
DeinitDrv ==
    /\ proc = "up" /\ AllLocked
    /\ LeavesFamilies \/ Valid = {}
    /\ proc' = "down" /\ init_drv' = FALSE
    /\ UNCHANGED << fams, rate, seq_num, rx >>

(* The process ends, in order or killed.                                   *)
End ==
    /\ proc \in {"open", "up", "down"}
    /\ proc' = "none"
    /\ UNCHANGED << init_drv, fams, rate, seq_num, rx >>

(* The module is removed and loaded again: its tables are new, the kernel  *)
(* and the heap are not.                                                   *)
Reload ==
    /\ proc = "none" /\ AllLocked
    /\ LeavesFamilies \/ Valid = {}
    /\ init_drv' = FALSE
    /\ entry' = [i \in Slots |-> Unused]
    /\ rate' = [p \in Ports |-> 0] /\ seq_num' = 0
    /\ UNCHANGED << proc, groups, registered, rx >>

-----------------------------------------------------------------------------
(* netif_nl_rxSkb, in an RxDone task that holds its channel's semaphore.   *)

(* getFamilyByName: the first family of that name.  Without one the packet *)
(* is freed, as it is in the end of every other case.                      *)
Named(n) == {i \in Valid : entry[i].name = n}

RxFind(c, pkt) ==
    /\ rx[c].pc = "idle" /\ init_drv
    /\ \E i \in Lowest(Named(pkt.name)) :
          rx' = [rx EXCEPT ![c] = [pc |-> "group", pkt |-> pkt, slot |-> i,
                                   msg |-> Nil]]
    /\ UNCHANGED << life, fams, rate, seq_num >>

(* The list the family's pointer leads to; freed memory holds nothing in   *)
(* particular, and ForwardRight says that it is never read.                *)
Listed(i) ==
    LET a == entry[i].mcgrps
    IN  IF a \in Arrays /\ groups[a] # Nil THEN groups[a] ELSE << >>

Places(l, g) == {k \in DOMAIN l : l[k] = g}

RxDrop(c) == rx' = [rx EXCEPT ![c] = Idle]

(* No such group, no messages for this family, or no memory for one.       *)
RxNothing(c) ==
    /\ rx[c].pc = "group"
    /\ RxDrop(c)
    /\ UNCHANGED << life, fams, rate, seq_num >>

Message(pkt, k) ==
    [group |-> k, rate |-> rate[pkt.port], seq |-> seq_num,
     bytes |-> DataLen(pkt.len)]

(* getMcgrpIdByName, and allocPsampleSkb up to its use of seq_num.         *)
RxBuild(c) ==
    LET r == rx[c]
    IN  /\ r.pc = "group" /\ entry[r.slot].name \in SampleNames
        /\ \E k \in Lowest(Places(Listed(r.slot), r.pkt.group)) :
              rx' = [rx EXCEPT ![c].pc = "count",
                               ![c].msg = Message(r.pkt, k)]
        /\ UNCHANGED << life, fams, rate, seq_num >>

(* seq_num++, with nothing held that the other tasks would wait for.       *)
RxCount(c) ==
    /\ rx[c].pc = "count"
    /\ rx' = [rx EXCEPT ![c].pc = "send"]
    /\ seq_num' = (seq_num + 1) % SeqMod
    /\ UNCHANGED << life, fams, rate >>

(* The message is gone, whether or not anybody listens; so is the packet.  *)
RxSend(c) ==
    /\ rx[c].pc = "send"
    /\ RxDrop(c)
    /\ UNCHANGED << life, fams, rate, seq_num >>

-----------------------------------------------------------------------------
Families == [name : Names, groups : GroupLists]

Ioctl == \/ \E f \in Families : CreateNetlink(f)
         \/ \E i \in Slots : DestroyNetlink(i)
         \/ \E p \in Ports, r \in Rates : SetIntfProperty(p, r)

Life == Open \/ InitDrv \/ DeinitDrv \/ End \/ Reload

Forward(c) == \/ \E pkt \in Packets : RxFind(c, pkt)
              \/ RxNothing(c) \/ RxBuild(c) \/ RxCount(c) \/ RxSend(c)

Next == Ioctl \/ Life \/ \E c \in Channels : Forward(c)

Spec == Init /\ [][Next]_vars

-----------------------------------------------------------------------------
(* PROPERTIES                                                              *)

Messages == [group : Nat, rate : Rates, seq : 0 .. SeqMod - 1, bytes : Int]

TypeOK ==
    /\ proc \in {"none", "open", "up", "down"} /\ init_drv \in BOOLEAN
    /\ entry \in [Slots -> [valid : BOOLEAN, name : Names \cup {Nil},
                            mcgrps : Arrays \cup {Nil}]]
    /\ groups \in [Arrays -> GroupLists \cup {Nil}]
    /\ registered \subseteq Slots
    /\ rate \in [Ports -> Rates] /\ seq_num \in 0 .. SeqMod - 1
    /\ rx \in [Channels -> [pc : {"idle", "group", "count", "send"},
                            pkt : Packets \cup {Nil}, slot : Slots,
                            msg : Messages \cup {Nil}]]

(* The driver and the kernel agree: the valid families are the registered  *)
(* ones, wherever a process was killed, and no two have one name.          *)
FamiliesKnown ==
    /\ registered = Valid
    /\ \A i, j \in Valid : entry[i].name = entry[j].name => i = j

(* Every family's groups are allocated and its own, and nothing else is    *)
(* allocated: no list is leaked, shared or freed while it is in use.       *)
GroupsOwned ==
    /\ \A i \in Valid : /\ entry[i].mcgrps \in Arrays
                        /\ groups[entry[i].mcgrps] # Nil
    /\ \A i, j \in Valid : entry[i].mcgrps = entry[j].mcgrps => i = j
    /\ \A a \in Arrays : groups[a] # Nil =>
         \E i \in Valid : entry[i].mcgrps = a

(* A message that is under way is for a registered family of the name and  *)
(* a group of the name the profile asks for, it tells the rate that is in  *)
(* force, and its bytes are the packet's and fit the largest message.      *)
ForwardRight ==
    \A c \in Channels : LET r == rx[c] IN
      r.pc # "idle" =>
        /\ r.slot \in registered /\ entry[r.slot].name = r.pkt.name
        /\ r.pc # "group" =>
             LET l == Listed(r.slot)
             IN  /\ r.msg.group \in DOMAIN l /\ l[r.msg.group] = r.pkt.group
                 /\ r.msg.rate = rate[r.pkt.port]
                 /\ r.msg.bytes <= r.pkt.len
                 /\ HdrLen + TotalSize(r.msg.bytes) <= PktLenMax
=============================================================================
