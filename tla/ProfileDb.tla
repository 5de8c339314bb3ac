----------------------------- MODULE ProfileDb -----------------------------
(***************************************************************************)
(* Interfaces and profiles of the Lightning packet driver: the table of    *)
(* profiles, the list of them every port has, sorted by priority, the      *)
(* lookup the RxDone tasks make for each packet, and the ioctls that       *)
(* change or read the tables.                                              *)
(*                                                                         *)
(* An ioctl that changes them takes the semaphores of all Rx channels, one *)
(* after another; an RxDone task holds its channel's.  A semaphore is      *)
(* taken with down_interruptible and nobody looks at what it returns.  The *)
(* ioctls that only read take none.                                        *)
(*                                                                         *)
(* A profile's id stands for its memory too, and <<port, id>> for a node   *)
(* of the port's list.  What a profile asks of a packet is one reason, or  *)
(* none in particular, and one pattern, or none.  A task takes one packet  *)
(* each time it holds its semaphore.                                       *)
(***************************************************************************)
EXTENDS Integers, FiniteSets, SequencesExt

CONSTANTS
    RxChannels,  \* number of Rx channels
    Ports,
    NumProfiles, \* size of the table
    Profiles,    \* what the user may ask for: [port, prio, reason, pattern]
    Packets,     \* what may arrive: [port, reason, pattern]
    Threads,     \* threads of the user process
    StackValues, \* what the uninitialised "hit" may be found to be
    Signals,     \* may a thread get a signal while it waits?
    AnyPort, AnyValue, None

Ids      == 0 .. NumProfiles - 1
Channels == 1 .. RxChannels
MaxSema  == 2   \* bound: a semaphore given twice

ASSUME ProfileConstants ==
    /\ RxChannels \in Nat \ {0} /\ NumProfiles \in Nat \ {0}
    /\ AnyPort \notin Ports /\ None \notin Ports \cup Profiles
    /\ \A x \in Ports \cup {None} : x \notin Ids
    /\ \A p \in Profiles : p.port \in Ports \cup {AnyPort} /\ p.prio \in Nat
    /\ \A p \in Packets : p.port \in Ports
    /\ StackValues \subseteq BOOLEAN /\ Signals \in BOOLEAN

VARIABLES
    intf,      \* ports with a net device
    lists,     \* each port's ptr_profile_list, as ids
    entry,     \* _ptr_hal_lightning_pkt_profile_entry
    sema,      \* the Rx channels' semaphores
    pc, next,  \* threads; the semaphore a thread takes next
    held,      \* the node or the entry a reading ioctl is looking at
    rx         \* RxDone tasks: the packet and the lookup in it

tables  == << intf, lists, entry >>
threads == << pc, next, held >>
vars    == << tables, sema, threads, rx >>

Idle == [pc |-> "idle", pkt |-> None, node |-> None, hit |-> FALSE,
         dest |-> None]

Init ==
    /\ intf = {}
    /\ lists = [p \in Ports |-> << >>]
    /\ entry = [i \in Ids |-> None]
    /\ sema = [c \in Channels |-> 1]
    /\ pc = [t \in Threads |-> "idle"]
    /\ next = [t \in Threads |-> 1]
    /\ held = [t \in Threads |-> None]
    /\ rx = [c \in Channels |-> Idle]

Live(i)   == entry[i] # None
BoundTo(f) == IF f.port = AnyPort THEN Ports ELSE {f.port}

-----------------------------------------------------------------------------
(* The lists.                                                              *)

(* Mutant: the order upside down.                                          *)
PlaceBefore(l, f) == SelectInSeq(l, LAMBDA i : entry[i].prio < f.prio)

(* addProfToList goes past what comes first, or is as urgent.              *)
Place(l, f) == SelectInSeq(l, LAMBDA i : entry[i].prio > f.prio)

Inserted(l, i, f) == LET at == Place(l, f)
                     IN  InsertAt(l, IF at = 0 THEN Len(l) + 1 ELSE at, i)

(* Mutant: only from the lists of the ports that have an interface.        *)
RemovedIntf(i) ==
    [p \in Ports |-> IF p \in intf THEN RemoveFirst(lists[p], i) ELSE lists[p]]

(* delProfFromAllIntfById                                                  *)
Removed(i) == [p \in Ports |-> RemoveFirst(lists[p], i)]

(* The node behind one.                                                    *)
After(p, i) == LET l == lists[p]
                   n == SelectInSeq(l, LAMBDA j : j = i)
               IN  IF n = 0 \/ n = Len(l) THEN None ELSE l[n + 1]

HeadOf(p) == IF lists[p] = << >> THEN None ELSE Head(lists[p])

-----------------------------------------------------------------------------
(* The semaphores.  next[t] counts through lockRxChannelAll.               *)

(* Mutant: the last channel is forgotten.                                  *)
LockedEarly(n) == n >= RxChannels

LockedAll(n) == n > RxChannels

LockStart(t) ==
    /\ pc[t] = "idle"
    /\ pc' = [pc EXCEPT ![t] = "lock"] /\ next' = [next EXCEPT ![t] = 1]
    /\ UNCHANGED << tables, sema, held, rx >>

(* With a signal pending, down_interruptible returns instead of waiting,   *)
(* and lockRxChannelAll goes on.                                           *)
LockTake(t) ==
    /\ pc[t] = "lock" /\ ~LockedAll(next[t])
    /\ \/ /\ sema[next[t]] > 0
          /\ sema' = [sema EXCEPT ![next[t]] = @ - 1]
       \/ /\ sema[next[t]] = 0 /\ Signals
          /\ UNCHANGED sema
    /\ next' = [next EXCEPT ![t] = @ + 1]
    /\ UNCHANGED << tables, pc, held, rx >>

(* unlockRxChannelAll gives them all, whatever was taken.                  *)
Unlock(t) ==
    /\ \A c \in Channels : sema[c] < MaxSema
    /\ sema' = [c \in Channels |-> sema[c] + 1]
    /\ pc' = [pc EXCEPT ![t] = "idle"] /\ next' = [next EXCEPT ![t] = 1]
    /\ UNCHANGED << held, rx >>

Locked(t) == pc[t] = "lock" /\ LockedAll(next[t])

-----------------------------------------------------------------------------
(* The ioctls that change the tables, to the unlock at their end.          *)

(* Nothing happens when the port has a device, or the name is taken.       *)
CreateIntf(t, p) ==
    /\ Locked(t)
    /\ intf' = intf \cup {p}
    /\ UNCHANGED << lists, entry >>
    /\ Unlock(t)

(* The port's whole record is cleared, its list of profiles with it.       *)
DestroyIntf(t, p) ==
    /\ Locked(t)
    /\ intf' = intf \ {p}
    /\ lists' = IF p \in intf THEN [lists EXCEPT ![p] = << >>] ELSE lists
    /\ UNCHANGED entry
    /\ Unlock(t)

FreeIds == {i \in Ids : entry[i] = None}

(* allocProfEntry takes the first free entry, if there is one.             *)
CreateProfile(t, f) ==
    /\ Locked(t)
    /\ IF FreeIds = {} THEN UNCHANGED << lists, entry >>
       ELSE LET i == CHOOSE j \in FreeIds : \A k \in FreeIds : j <= k
            IN  /\ entry' = [entry EXCEPT ![i] = f]
                /\ lists' = [p \in Ports |-> IF p \in BoundTo(f)
                                             THEN Inserted(lists[p], i, f)
                                             ELSE lists[p]]
    /\ UNCHANGED intf
    /\ Unlock(t)

DestroyProfile(t, i) ==
    /\ Locked(t)
    /\ lists' = Removed(i)
    /\ entry' = [entry EXCEPT ![i] = None]
    /\ UNCHANGED intf
    /\ Unlock(t)

-----------------------------------------------------------------------------
(* The ioctls that read, without a semaphore.                              *)

(* getIntf and setIntf go through the port's list, to log it.              *)
GetIntf(t, p) ==
    /\ pc[t] = "idle" /\ p \in intf /\ HeadOf(p) # None
    /\ pc' = [pc EXCEPT ![t] = "read"]
    /\ held' = [held EXCEPT ![t] = [port |-> p, id |-> HeadOf(p)]]
    /\ UNCHANGED << tables, sema, next, rx >>

(* getProfile copies the profile to the user, which may sleep.             *)
GetProfile(t, i) ==
    /\ pc[t] = "idle" /\ Live(i)
    /\ pc' = [pc EXCEPT ![t] = "read"]
    /\ held' = [held EXCEPT ![t] = [port |-> AnyPort, id |-> i]]
    /\ UNCHANGED << tables, sema, next, rx >>

GetNext(t) ==
    /\ pc[t] = "read"
    /\ LET h == held[t]
           n == IF h.port = AnyPort THEN None ELSE After(h.port, h.id)
       IN  IF n = None
           THEN /\ held' = [held EXCEPT ![t] = None]
                /\ pc' = [pc EXCEPT ![t] = "idle"]
           ELSE held' = [held EXCEPT ![t].id = n] /\ UNCHANGED pc
    /\ UNCHANGED << tables, sema, next, rx >>

-----------------------------------------------------------------------------
(* An RxDone task: matchUserProfile, and what the lookup returned in use.  *)

RxLock(c, p) ==
    /\ rx[c].pc = "idle" /\ sema[c] > 0
    /\ sema' = [sema EXCEPT ![c] = @ - 1]
    /\ \E v \in StackValues :
         rx' = [rx EXCEPT ![c] = [pc |-> "match", pkt |-> p,
                                  node |-> HeadOf(p.port), hit |-> v,
                                  dest |-> None]]
    /\ UNCHANGED << tables, threads >>

(* A reason the profile does not ask for leaves hit as it was.             *)
ReasonHit(f, p, hit) == f.reason \in {AnyValue, p.reason} \/ hit

PatternHit(f, p) == f.pattern \in {AnyValue, p.pattern}

Hit(f, p, hit) == ReasonHit(f, p, hit) /\ PatternHit(f, p)

RxMatch(c) ==
    LET r == rx[c]
        p == r.pkt
        h == Hit(entry[r.node], p, r.hit)
    IN  /\ r.pc = "match" /\ r.node # None /\ Live(r.node)
        /\ rx' = [rx EXCEPT ![c] =
                    IF h THEN [r EXCEPT !.pc = "deliver", !.dest = r.node,
                                        !.hit = TRUE]
                    ELSE [r EXCEPT !.node = After(p.port, r.node),
                                   !.hit = FALSE]]
        /\ UNCHANGED << tables, sema, threads >>

(* At the end of the list the packet is for the port's net device.         *)
RxMiss(c) ==
    /\ rx[c].pc = "match" /\ rx[c].node = None
    /\ rx' = [rx EXCEPT ![c].pc = "deliver",
                        ![c].dest = IF rx[c].pkt.port \in intf
                                    THEN rx[c].pkt.port ELSE None]
    /\ UNCHANGED << tables, sema, threads >>

(* The packet goes to the profile's netlink group, to the net device, or   *)
(* is dropped.                                                             *)
RxDeliver(c) ==
    /\ rx[c].pc = "deliver" /\ sema[c] < MaxSema
    /\ sema' = [sema EXCEPT ![c] = @ + 1]
    /\ rx' = [rx EXCEPT ![c] = Idle]
    /\ UNCHANGED << tables, threads >>

-----------------------------------------------------------------------------

(* The driver is initialised again, or the module removed: no tasks, no    *)
(* ioctls; destroyAllProfile, destroyAllIntf.                              *)
DestroyAll ==
    /\ \A t \in Threads : pc[t] = "idle"
    /\ \A c \in Channels : rx[c].pc = "idle"
    /\ intf' = {} /\ lists' = [p \in Ports |-> << >>]
    /\ entry' = [i \in Ids |-> None]
    /\ UNCHANGED << sema, threads, rx >>

Change(t) ==
    \/ \E p \in Ports : CreateIntf(t, p) \/ DestroyIntf(t, p)
    \/ \E f \in Profiles : CreateProfile(t, f)
    \/ \E i \in Ids : DestroyProfile(t, i)

Read(t) == \/ \E p \in Ports : GetIntf(t, p)
           \/ \E i \in Ids : GetProfile(t, i)
           \/ GetNext(t)

Ioctl(t) == LockStart(t) \/ LockTake(t) \/ Change(t) \/ Read(t)

RxTask(c) == \/ \E p \in Packets : RxLock(c, p)
             \/ RxMatch(c) \/ RxMiss(c) \/ RxDeliver(c)

Next == \/ \E t \in Threads : Ioctl(t)
        \/ \E c \in Channels : RxTask(c)
        \/ DestroyAll

Spec == Init /\ [][Next]_vars

-----------------------------------------------------------------------------
(* PROPERTIES                                                              *)

Pointers == Ids \cup {None}

(* One type for each variable.                                             *)
TypeOK ==
    /\ intf \subseteq Ports
    /\ lists \in [Ports -> Seq(Ids)]
    /\ entry \in [Ids -> Profiles \cup {None}]
    /\ sema \in [Channels -> 0 .. IF Signals THEN MaxSema ELSE 1]
    /\ pc \in [Threads -> {"idle", "lock", "read"}]
    /\ next \in [Threads -> 1 .. RxChannels + 1]
    /\ held \in [Threads ->
                  [port : Ports \cup {AnyPort}, id : Ids] \cup {None}]
    /\ rx \in [Channels -> [pc : {"idle", "match", "deliver"},
                            pkt : Packets \cup {None}, node : Pointers,
                            hit : BOOLEAN, dest : Pointers \cup Ports]]

(* A port's list has each profile once, only profiles that are in the      *)
(* table and bound to the port, and they come by priority: whatever was    *)
(* created, destroyed and created again under the same id.                 *)
ListsConsistent ==
    \A p \in Ports :
      LET l == lists[p]
      IN  /\ IsInjective(l)
          /\ \A n \in DOMAIN l : Live(l[n]) /\ p \in BoundTo(entry[l[n]])
          /\ \A m, n \in DOMAIN l :
               m < n => entry[l[m]].prio <= entry[l[n]].prio

Asked(f, p) ==
    f.reason \in {AnyValue, p.reason} /\ f.pattern \in {AnyValue, p.pattern}

(* "1st match reason", "Then, check pattern": a lookup ends with a profile *)
(* of the packet's port that asks for the packet, and none that asks for   *)
(* it is more urgent; or with none, if none asks for it.  "hit" is on the  *)
(* stack and not initialised, and rxCheckReason leaves it as it is when    *)
(* the reason is not asked for: TLC refutes this where it may be TRUE.     *)
LookupFindsBest ==
    \A c \in Channels : rx[c].pc = "deliver" =>
      LET asked == {i \in ToSet(lists[rx[c].pkt.port]) :
                      Asked(entry[i], rx[c].pkt)}
      IN  IF rx[c].dest \in Ids
          THEN /\ rx[c].dest \in asked
               /\ \A i \in asked : entry[rx[c].dest].prio <= entry[i].prio
          ELSE asked = {}

(* Whatever "hit" is found to be, it can only mislead the first look: a    *)
(* lookup misses no profile that asks for the packet and is more urgent    *)
(* than what it ends with, and that asks for the packet too, or is the     *)
(* first of the list and has the packet's pattern.                         *)
LookupMissesNone ==
    \A c \in Channels : rx[c].pc = "deliver" =>
      LET asked == {i \in ToSet(lists[rx[c].pkt.port]) :
                      Asked(entry[i], rx[c].pkt)}
      IN  IF rx[c].dest \in Ids
          THEN /\ PatternHit(entry[rx[c].dest], rx[c].pkt)
               /\ rx[c].dest \in asked \/ rx[c].dest = HeadOf(rx[c].pkt.port)
               /\ \A i \in asked : entry[rx[c].dest].prio <= entry[i].prio
          ELSE asked = {}

(* A channel's semaphore is free, or one task or one ioctl has it.         *)
OneHolder ==
    \A c \in Channels :
      LET users == {t \in Threads : pc[t] = "lock" /\ next[t] > c}
      IN  sema[c] + Cardinality(users)
            + (IF rx[c].pc = "idle" THEN 0 ELSE 1) = 1

(* What an RxDone task is looking at, node, profile or net device, is not  *)
(* freed before it is done with it.                                        *)
RxUsesLive ==
    \A c \in Channels : LET r == rx[c] IN
      /\ r.pc = "match" /\ r.node # None => r.node \in ToSet(lists[r.pkt.port])
      /\ r.pc = "deliver" => \/ r.dest = None
                             \/ r.dest \in Ids /\ Live(r.dest)
                             \/ r.dest \in intf

(* The same of the ioctls that read.                                       *)
ReadersUseLive ==
    \A t \in Threads : pc[t] = "read" =>
      IF held[t].port = AnyPort THEN Live(held[t].id)
      ELSE held[t].id \in ToSet(lists[held[t].port])

(* "In fact, the profile is binding to "port" not "intf"": a profile stays *)
(* on the lists of its ports until it is destroyed.                        *)
ProfilesStay ==
    \A i \in Ids : Live(i) =>
      \A p \in BoundTo(entry[i]) : i \in ToSet(lists[p])

=============================================================================
