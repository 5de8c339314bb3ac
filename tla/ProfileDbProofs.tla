-------------------------- MODULE ProfileDbProofs --------------------------
(***************************************************************************)
(* Proofs about ProfileDb: the lists of profiles stay consistent whatever  *)
(* the ioctls do; and, where a wait for a semaphore cannot be interrupted, *)
(* every semaphore has one holder, an RxDone task uses nothing that has    *)
(* been freed, and its lookup finds the most urgent profile that asks for  *)
(* the packet.                                                             *)
(***************************************************************************)
EXTENDS ProfileDb, FiniteSetTheorems, SequenceTheorems, TLAPS

LEMMA Bounds ==
    /\ RxChannels \in Nat /\ RxChannels > 0 /\ NumProfiles \in Nat /\ NumProfiles > 0
    /\ Ids = 0 .. NumProfiles - 1 /\ Channels = 1 .. RxChannels /\ MaxSema = 2
BY ProfileConstants DEF Ids, Channels, MaxSema

LEMMA Distinct ==
    /\ None \notin Ids /\ None \notin Ports /\ None \notin Profiles
    /\ AnyPort \notin Ports /\ Ports \cap Ids = {}
BY ProfileConstants

-----------------------------------------------------------------------------
(* The first element of a sequence that passes a test.                     *)

LEMMA LeastIndex ==
    ASSUME NEW S \in SUBSET Nat, S # {}
    PROVE  Min(S) \in S /\ \A n \in S : Min(S) <= n
<1>1. PICK m \in S : \A n \in S : ~(<< n, m >> \in OpToRel(<, Nat))
  BY NatLessThanWellFounded, WFMin
<1>2. \A n \in S : << n, m >> \in OpToRel(<, Nat) <=> n < m
  BY DEF OpToRel
<1>3. \A n \in S : ~(n < m)
  BY <1>1, <1>2
<1>4. \A n \in S : m <= n
  BY <1>3
<1> QED
  BY <1>4 DEF Min

LEMMA PlaceFacts ==
    ASSUME NEW l \in Seq(Ids), NEW f
    PROVE  LET k == Place(l, f) IN
           \/ k = 0 /\ \A n \in 1 .. Len(l) : ~(entry[l[n]].prio > f.prio)
           \/ /\ k \in 1 .. Len(l) /\ entry[l[k]].prio > f.prio
              /\ \A n \in 1 .. Len(l) : n < k => ~(entry[l[n]].prio > f.prio)
<1> DEFINE S == {n \in 1 .. Len(l) : entry[l[n]].prio > f.prio}
           k == Place(l, f)
<1>1. k = IF S # {} THEN Min(S) ELSE 0
  BY DEF Place, SelectInSeq
<1>2. S \in SUBSET Nat
  OBVIOUS
<1>3. S # {} => Min(S) \in S /\ \A n \in S : Min(S) <= n
  BY <1>2, LeastIndex
<1>4. CASE S = {}
  BY <1>1, <1>4
<1>5. CASE S # {}
  <2>1. k \in S /\ \A n \in S : k <= n
    BY <1>1, <1>3, <1>5
  <2> HIDE DEF k
  <2>2. \A n \in 1 .. Len(l) : n < k => ~(n \in S)
    BY <2>1
  <2> QED
    BY <2>1, <2>2 DEF k
<1> QED
  BY <1>4, <1>5

LEMMA IndexFacts ==
    ASSUME NEW l \in Seq(Ids), NEW i
    PROVE  LET k == SelectInSeq(l, LAMBDA j : j = i) IN
           \/ k = 0 /\ \A n \in 1 .. Len(l) : l[n] # i
           \/ k \in 1 .. Len(l) /\ l[k] = i
<1> DEFINE S == {n \in 1 .. Len(l) : l[n] = i}
           k == SelectInSeq(l, LAMBDA j : j = i)
<1>1. k = IF S # {} THEN Min(S) ELSE 0
  BY DEF SelectInSeq
<1>2. S \in SUBSET Nat
  OBVIOUS
<1>3. S # {} => Min(S) \in S
  BY <1>2, LeastIndex
<1> QED
  BY <1>1, <1>3

-----------------------------------------------------------------------------
(* One list: insertion and removal.                                        *)

Sorted(l, e) ==
    \A m, n \in DOMAIN l : m < n => e[l[m]].prio <= e[l[n]].prio

Good(l, e, p) ==
    /\ IsInjective(l)
    /\ \A n \in DOMAIN l : e[l[n]] # None /\ p \in BoundTo(e[l[n]])
    /\ Sorted(l, e)

LEMMA ListsAreGood ==
    ListsConsistent <=> \A p \in Ports : Good(lists[p], entry, p)
BY DEF ListsConsistent, Good, Sorted, Live

LEMMA InsertAtFacts ==
    ASSUME NEW l \in Seq(Ids), NEW i \in Ids, NEW at \in 1 .. Len(l) + 1
    PROVE  /\ InsertAt(l, at, i) \in Seq(Ids)
           /\ Len(InsertAt(l, at, i)) = Len(l) + 1
           /\ \A n \in 1 .. Len(l) + 1 :
                InsertAt(l, at, i)[n] = IF n < at THEN l[n]
                                        ELSE IF n = at THEN i ELSE l[n - 1]
<1> DEFINE a == SubSeq(l, 1, at - 1)
           b == SubSeq(l, at, Len(l))
<1>1. a \in Seq(Ids) /\ Len(a) = at - 1 /\ \A n \in 1 .. at - 1 : a[n] = l[n]
  OBVIOUS
<1>2. /\ b \in Seq(Ids) /\ Len(b) = Len(l) - at + 1
      /\ \A n \in 1 .. Len(l) - at + 1 : b[n] = l[at + n - 1]
  OBVIOUS
<1>3. << i >> \in Seq(Ids) /\ Len(<< i >>) = 1 /\ << i >>[1] = i
  OBVIOUS
<1>4. InsertAt(l, at, i) = (a \o << i >>) \o b
  BY DEF InsertAt
<1> HIDE DEF a, b
<1> DEFINE c == a \o << i >>
<1>5. /\ c \in Seq(Ids) /\ Len(c) = at
      /\ \A n \in 1 .. at : c[n] = IF n < at THEN l[n] ELSE i
  BY <1>1, <1>3
<1> HIDE DEF c
<1>6. /\ c \o b \in Seq(Ids) /\ Len(c \o b) = Len(l) + 1
      /\ \A n \in 1 .. Len(l) + 1 : (c \o b)[n] = IF n <= at THEN c[n] ELSE b[n - at]
  <2>1. Len(c \o b) = Len(c) + Len(b)
    BY <1>2, <1>5, ConcatProperties
  <2>2. Len(c) + Len(b) = Len(l) + 1
    BY <1>2, <1>5
  <2> QED
    BY <1>2, <1>5, <2>1, <2>2, ConcatProperties
<1>7. \A n \in 1 .. Len(l) + 1 : n > at => b[n - at] = l[n - 1]
  <2> TAKE n \in 1 .. Len(l) + 1
  <2> HAVE n > at
  <2>1. n - at \in 1 .. Len(l) - at + 1 /\ at + (n - at) - 1 = n - 1
    OBVIOUS
  <2> QED
    BY <1>2, <2>1
<1> QED
  BY <1>4, <1>5, <1>6, <1>7 DEF c

LEMMA RemoveAtFacts ==
    ASSUME NEW l \in Seq(Ids), NEW at \in 1 .. Len(l)
    PROVE  /\ RemoveAt(l, at) \in Seq(Ids)
           /\ Len(RemoveAt(l, at)) = Len(l) - 1
           /\ \A n \in 1 .. Len(l) - 1 :
                RemoveAt(l, at)[n] = IF n < at THEN l[n] ELSE l[n + 1]
<1> DEFINE a == SubSeq(l, 1, at - 1)
           b == SubSeq(l, at + 1, Len(l))
<1>1. a \in Seq(Ids) /\ Len(a) = at - 1 /\ \A n \in 1 .. at - 1 : a[n] = l[n]
  OBVIOUS
<1>2. /\ b \in Seq(Ids) /\ Len(b) = Len(l) - at
      /\ \A n \in 1 .. Len(l) - at : b[n] = l[at + n]
  OBVIOUS
<1>3. RemoveAt(l, at) = a \o b
  BY DEF RemoveAt
<1> HIDE DEF a, b
<1>4. /\ a \o b \in Seq(Ids) /\ Len(a \o b) = Len(l) - 1
      /\ \A n \in 1 .. Len(l) - 1 :
           (a \o b)[n] = IF n <= at - 1 THEN a[n] ELSE b[n - (at - 1)]
  <2>1. Len(a \o b) = Len(a) + Len(b)
    BY <1>1, <1>2, ConcatProperties
  <2>2. Len(a) + Len(b) = Len(l) - 1
    BY <1>1, <1>2
  <2> QED
    BY <1>1, <1>2, <2>1, <2>2, ConcatProperties
<1>5. \A n \in 1 .. Len(l) - 1 : n >= at => b[n - (at - 1)] = l[n + 1]
  <2> TAKE n \in 1 .. Len(l) - 1
  <2> HAVE n >= at
  <2>1. n - (at - 1) \in 1 .. Len(l) - at /\ at + (n - (at - 1)) = n + 1
    OBVIOUS
  <2> QED
    BY <1>2, <2>1
<1>6. \A n \in 1 .. Len(l) - 1 : (a \o b)[n] = IF n < at THEN l[n] ELSE l[n + 1]
  <2> TAKE n \in 1 .. Len(l) - 1
  <2>1. n < at => n <= at - 1 /\ n \in 1 .. at - 1
    OBVIOUS
  <2>2. ~(n < at) => n >= at /\ ~(n <= at - 1)
    OBVIOUS
  <2> QED
    BY <1>1, <1>4, <1>5, <2>1, <2>2
<1> QED
  BY <1>3, <1>4, <1>6

EntryType == entry \in [Ids -> Profiles \cup {None}]

(* A profile that is not on the list may change.                           *)
LEMMA KeepGood ==
    ASSUME EntryType, NEW l \in Seq(Ids), NEW p, Good(l, entry, p),
           NEW i \in Ids, NEW f, \A n \in 1 .. Len(l) : l[n] # i
    PROVE  Good(l, [entry EXCEPT ![i] = f], p)
<1>1. DOMAIN l = 1 .. Len(l) /\ \A n \in 1 .. Len(l) : l[n] \in Ids
  OBVIOUS
<1>2. \A n \in 1 .. Len(l) : [entry EXCEPT ![i] = f][l[n]] = entry[l[n]]
  BY <1>1 DEF EntryType
<1> HIDE DEF EntryType
<1> QED
  BY <1>1, <1>2 DEF Good, Sorted

(* addProfToList keeps the list sorted.                                    *)
LEMMA InsertGood ==
    ASSUME EntryType, NEW l \in Seq(Ids), NEW p, Good(l, entry, p),
           NEW i \in Ids, entry[i] = None, NEW f \in Profiles, p \in BoundTo(f)
    PROVE  /\ Inserted(l, i, f) \in Seq(Ids)
           /\ Good(Inserted(l, i, f), [entry EXCEPT ![i] = f], p)
<1> DEFINE k == Place(l, f)
           at == IF k = 0 THEN Len(l) + 1 ELSE k
           r == Inserted(l, i, f)
           e == [entry EXCEPT ![i] = f]
<1>1. Len(l) \in Nat /\ DOMAIN l = 1 .. Len(l) /\ \A n \in 1 .. Len(l) : l[n] \in Ids
  OBVIOUS
<1>2. \/ k = 0 /\ \A n \in 1 .. Len(l) : ~(entry[l[n]].prio > f.prio)
      \/ /\ k \in 1 .. Len(l) /\ entry[l[k]].prio > f.prio
         /\ \A n \in 1 .. Len(l) : n < k => ~(entry[l[n]].prio > f.prio)
  BY PlaceFacts
<1>3. r = InsertAt(l, at, i)
  BY DEF Inserted
<1> HIDE DEF k, r
<1>4. at \in 1 .. Len(l) + 1
  BY <1>1, <1>2
<1>5. /\ \A n \in 1 .. Len(l) : n < at => ~(entry[l[n]].prio > f.prio)
      /\ at <= Len(l) => entry[l[at]].prio > f.prio
  BY <1>1, <1>2
<1> HIDE DEF at
<1>6. /\ r \in Seq(Ids) /\ Len(r) = Len(l) + 1 /\ DOMAIN r = 1 .. Len(l) + 1
      /\ \A n \in 1 .. Len(l) + 1 :
           r[n] = IF n < at THEN l[n] ELSE IF n = at THEN i ELSE l[n - 1]
  <2>1. /\ r \in Seq(Ids) /\ Len(r) = Len(l) + 1
        /\ \A n \in 1 .. Len(l) + 1 :
             r[n] = IF n < at THEN l[n] ELSE IF n = at THEN i ELSE l[n - 1]
    <3>1. /\ InsertAt(l, at, i) \in Seq(Ids)
          /\ Len(InsertAt(l, at, i)) = Len(l) + 1
          /\ \A n \in 1 .. Len(l) + 1 :
               InsertAt(l, at, i)[n] = IF n < at THEN l[n]
                                       ELSE IF n = at THEN i ELSE l[n - 1]
      BY ONLY <1>4, InsertAtFacts, l \in Seq(Ids), i \in Ids
    <3> QED
      BY <1>3, <3>1
  <2> QED
    BY <2>1, LenProperties
<1>7. \A n \in 1 .. Len(l) : entry[l[n]] \in Profiles /\ l[n] # i /\ e[l[n]] = entry[l[n]]
  BY <1>1 DEF EntryType, Good
<1>8. e[i] = f /\ f # None /\ f.prio \in Nat
  BY ProfileConstants DEF EntryType
<1> HIDE DEF e
<1>9. \A n \in 1 .. Len(l) : e[l[n]].prio \in Nat
  BY <1>7, ProfileConstants
<1>10. \A m, n \in 1 .. Len(l) : m < n => e[l[m]].prio <= e[l[n]].prio
  BY <1>1, <1>7 DEF Good, Sorted
<1>11. /\ \A n \in 1 .. Len(l) : n < at => e[l[n]].prio <= f.prio
       /\ \A n \in 1 .. Len(l) : n >= at => f.prio <= e[l[n]].prio
  <2>1. \A n \in 1 .. Len(l) : n < at => e[l[n]].prio <= f.prio
    BY <1>5, <1>7, <1>8, <1>9
  <2>2. ASSUME NEW n \in 1 .. Len(l), n >= at
        PROVE  f.prio <= e[l[n]].prio
    <3>1. at \in 1 .. Len(l)
      BY <1>1, <1>4, <2>2
    <3>2. f.prio < e[l[at]].prio
      BY <1>5, <1>7, <1>8, <1>9, <3>1
    <3>3. n = at \/ e[l[at]].prio <= e[l[n]].prio
      BY <1>10, <2>2, <3>1
    <3> QED
      BY <1>8, <1>9, <3>1, <3>2, <3>3
  <2> QED
    BY <2>1, <2>2
<1>12. IsInjective(r)
  <2> SUFFICES ASSUME NEW m \in 1 .. Len(l) + 1, NEW n \in 1 .. Len(l) + 1, m < n
               PROVE  r[m] # r[n]
    BY <1>1, <1>6 DEF IsInjective
  <2>1. \A x, y \in 1 .. Len(l) : l[x] = l[y] => x = y
    BY <1>1 DEF Good, IsInjective
  <2>2. CASE n < at
    BY <1>1, <1>4, <1>6, <2>1, <2>2
  <2>3. CASE n = at
    BY <1>1, <1>4, <1>6, <1>7, <2>3
  <2>4. CASE n > at
    <3>1. n - 1 \in 1 .. Len(l) /\ r[n] = l[n - 1]
      BY <1>1, <1>4, <1>6, <2>4
    <3>2. CASE m < at
      <4>1. m \in 1 .. Len(l) /\ r[m] = l[m] /\ m # n - 1
        BY <1>1, <1>4, <1>6, <2>4, <3>2
      <4> QED
        BY <2>1, <3>1, <4>1
    <3>3. CASE m = at
      BY <1>6, <1>7, <3>1, <3>3
    <3>4. CASE m > at
      <4>1. m - 1 \in 1 .. Len(l) /\ r[m] = l[m - 1] /\ m - 1 # n - 1
        BY <1>1, <1>4, <1>6, <3>4
      <4> QED
        BY <2>1, <3>1, <4>1
    <3> QED
      BY <1>4, <3>2, <3>3, <3>4
  <2> QED
    BY <1>4, <2>2, <2>3, <2>4
<1>13. \A n \in 1 .. Len(l) + 1 : r[n] = i \/ \E m \in 1 .. Len(l) : r[n] = l[m]
  <2> TAKE n \in 1 .. Len(l) + 1
  <2>1. n < at => n \in 1 .. Len(l) /\ r[n] = l[n]
    BY <1>1, <1>4, <1>6
  <2>2. n > at => n - 1 \in 1 .. Len(l) /\ r[n] = l[n - 1]
    BY <1>1, <1>4, <1>6
  <2>3. n = at => r[n] = i
    BY <1>6
  <2> QED
    BY <1>4, <2>1, <2>2, <2>3
<1>14. \A n \in 1 .. Len(l) + 1 : e[r[n]] # None /\ p \in BoundTo(e[r[n]])
  <2>1. \A m \in 1 .. Len(l) : e[l[m]] # None /\ p \in BoundTo(e[l[m]])
    BY <1>1, <1>7 DEF Good
  <2> QED
    BY <1>8, <1>13, <2>1
<1>15. Sorted(r, e)
  <2> SUFFICES ASSUME NEW m \in 1 .. Len(l) + 1, NEW n \in 1 .. Len(l) + 1, m < n
               PROVE  e[r[m]].prio <= e[r[n]].prio
    BY <1>6 DEF Sorted
  <2>1. CASE n < at
    <3>1. m \in 1 .. Len(l) /\ n \in 1 .. Len(l) /\ r[m] = l[m] /\ r[n] = l[n]
      BY <1>1, <1>4, <1>6, <2>1
    <3> QED
      BY <1>10, <3>1
  <2>2. CASE n = at
    <3>1. m \in 1 .. Len(l) /\ m < at /\ r[m] = l[m] /\ r[n] = i
      BY <1>1, <1>4, <1>6, <2>2
    <3> QED
      BY <1>8, <1>11, <3>1
  <2>3. CASE n > at
    <3>1. n - 1 \in 1 .. Len(l) /\ n - 1 >= at /\ r[n] = l[n - 1]
      BY <1>1, <1>4, <1>6, <2>3
    <3>2. CASE m < at
      <4>1. m \in 1 .. Len(l) /\ m < n - 1 /\ r[m] = l[m]
        BY <1>1, <1>4, <1>6, <2>3, <3>2
      <4> QED
        BY <1>10, <3>1, <4>1
    <3>3. CASE m = at
      BY <1>6, <1>8, <1>11, <3>1, <3>3
    <3>4. CASE m > at
      <4>1. m - 1 \in 1 .. Len(l) /\ m - 1 < n - 1 /\ r[m] = l[m - 1]
        BY <1>1, <1>4, <1>6, <3>4
      <4> QED
        BY <1>10, <3>1, <4>1
    <3> QED
      BY <1>4, <3>2, <3>3, <3>4
  <2> QED
    BY <1>4, <2>1, <2>2, <2>3
<1>16. r \in Seq(Ids) /\ Good(r, e, p)
  BY <1>6, <1>12, <1>14, <1>15 DEF Good
<1> QED
  BY <1>16 DEF r, e

(* delProfFromAllIntfById leaves nothing of the profile behind.            *)
LEMMA RemoveGood ==
    ASSUME EntryType, NEW l \in Seq(Ids), NEW p, Good(l, entry, p), NEW i \in Ids
    PROVE  /\ RemoveFirst(l, i) \in Seq(Ids)
           /\ Good(RemoveFirst(l, i), [entry EXCEPT ![i] = None], p)
<1> DEFINE k == SelectInSeq(l, LAMBDA j : j = i)
           r == RemoveAt(l, k)
           e == [entry EXCEPT ![i] = None]
<1>1. Len(l) \in Nat /\ DOMAIN l = 1 .. Len(l) /\ \A n \in 1 .. Len(l) : l[n] \in Ids
  OBVIOUS
<1>2. RemoveFirst(l, i) = IF \E n \in 1 .. Len(l) : l[n] = i THEN r ELSE l
  BY DEF RemoveFirst
<1>3. \/ k = 0 /\ \A n \in 1 .. Len(l) : l[n] # i
      \/ k \in 1 .. Len(l) /\ l[k] = i
  BY IndexFacts
<1> HIDE DEF k
<1>4. CASE \A n \in 1 .. Len(l) : l[n] # i
  BY <1>2, <1>4, KeepGood
<1>5. CASE k \in 1 .. Len(l) /\ l[k] = i
  <2>1. /\ r \in Seq(Ids) /\ Len(r) = Len(l) - 1 /\ DOMAIN r = 1 .. Len(l) - 1
        /\ \A n \in 1 .. Len(l) - 1 : r[n] = IF n < k THEN l[n] ELSE l[n + 1]
    <3>1. /\ r \in Seq(Ids) /\ Len(r) = Len(l) - 1
          /\ \A n \in 1 .. Len(l) - 1 : r[n] = IF n < k THEN l[n] ELSE l[n + 1]
      BY <1>5, RemoveAtFacts
    <3> QED
      BY <3>1, LenProperties
  <2> HIDE DEF r
  <2> DEFINE old(n) == IF n < k THEN n ELSE n + 1
  <2>2. \A n \in 1 .. Len(l) - 1 :
           old(n) \in 1 .. Len(l) /\ old(n) # k /\ r[n] = l[old(n)]
    BY <1>1, <1>5, <2>1
  <2>3. \A m, n \in 1 .. Len(l) - 1 : m < n => old(m) < old(n)
    BY <1>1, <1>5
  <2> HIDE DEF old
  <2>4. \A x, y \in 1 .. Len(l) : l[x] = l[y] => x = y
    BY <1>1 DEF Good, IsInjective
  <2>5. \A n \in 1 .. Len(l) - 1 : r[n] # i /\ r[n] \in Ids
    BY <1>1, <1>5, <2>2, <2>4
  <2>6. \A n \in 1 .. Len(l) - 1 : e[r[n]] = entry[l[old(n)]]
    BY <2>2, <2>5 DEF EntryType
  <2> HIDE DEF e
  <2>7. IsInjective(r)
    <3> SUFFICES ASSUME NEW m \in 1 .. Len(l) - 1, NEW n \in 1 .. Len(l) - 1, m < n
                 PROVE  r[m] # r[n]
      BY <1>1, <2>1 DEF IsInjective
    <3>1. old(m) < old(n) /\ old(m) \in 1 .. Len(l) /\ old(n) \in 1 .. Len(l)
      BY <2>2, <2>3
    <3>2. old(m) # old(n)
      BY <3>1
    <3> QED
      BY <2>2, <2>4, <3>1, <3>2
  <2>8. \A n \in 1 .. Len(l) - 1 : e[r[n]] # None /\ p \in BoundTo(e[r[n]])
    BY <1>1, <2>2, <2>6 DEF Good
  <2>9. Sorted(r, e)
    <3> SUFFICES ASSUME NEW m \in 1 .. Len(l) - 1, NEW n \in 1 .. Len(l) - 1, m < n
                 PROVE  e[r[m]].prio <= e[r[n]].prio
      BY <2>1 DEF Sorted
    <3>1. old(m) < old(n) /\ old(m) \in 1 .. Len(l) /\ old(n) \in 1 .. Len(l)
      BY <2>2, <2>3
    <3>2. entry[l[old(m)]].prio <= entry[l[old(n)]].prio
      BY <1>1, <3>1 DEF Good, Sorted
    <3> QED
      BY <2>6, <3>2
  <2>10. RemoveFirst(l, i) = r
    BY <1>2, <1>5
  <2> QED
    BY <2>1, <2>7, <2>8, <2>9, <2>10 DEF Good, e
<1> QED
  BY <1>3, <1>4, <1>5

-----------------------------------------------------------------------------
(* The tables and the lists.                                               *)

TypeTables == intf \subseteq Ports /\ lists \in [Ports -> Seq(Ids)] /\ EntryType

TablesInv == TypeTables /\ ListsConsistent

LEMMA EmptyGood == \A e, p : Good(<< >>, e, p)
BY DEF Good, IsInjective, Sorted

LEMMA InitTables == Init => TablesInv
<1> SUFFICES ASSUME Init PROVE TablesInv
  OBVIOUS
<1>1. TypeTables /\ \A p \in Ports : lists[p] = << >>
  BY DEF Init, TypeTables, EntryType
<1> QED
  BY <1>1, EmptyGood, ListsAreGood DEF TablesInv

LEMMA ListsAreGoodNext ==
    (ListsConsistent <=> \A p \in Ports : Good(lists[p], entry, p))'
BY ListsAreGood, PTL

LEMMA QuietTables == TablesInv /\ UNCHANGED tables => TablesInv'
BY DEF TablesInv, TypeTables, EntryType, ListsConsistent, Live, tables

LEMMA CreateProfileTables ==
    ASSUME TablesInv, NEW t \in Threads, NEW f \in Profiles, CreateProfile(t, f)
    PROVE  TablesInv'
<1> DEFINE i == CHOOSE j \in FreeIds : \A k \in FreeIds : j <= k
<1>1. CASE FreeIds = {}
  BY <1>1, QuietTables DEF CreateProfile, tables
<1>2. CASE FreeIds # {}
  <2>1. i \in FreeIds
    <3>1. FreeIds \in SUBSET Nat
      BY Bounds DEF FreeIds
    <3>2. Min(FreeIds) \in FreeIds /\ \A n \in FreeIds : Min(FreeIds) <= n
      BY <1>2, <3>1, LeastIndex
    <3> QED
      BY <3>2
  <2>2. /\ entry' = [entry EXCEPT ![i] = f] /\ intf' = intf
        /\ lists' = [p \in Ports |-> IF p \in BoundTo(f)
                                     THEN Inserted(lists[p], i, f) ELSE lists[p]]
    BY <1>2 DEF CreateProfile
  <2> HIDE DEF i
  <2>3. i \in Ids /\ entry[i] = None
    BY <2>1 DEF FreeIds
  <2>4. ASSUME NEW p \in Ports
        PROVE  lists'[p] \in Seq(Ids) /\ Good(lists'[p], entry', p)
    <3>1. lists[p] \in Seq(Ids) /\ Good(lists[p], entry, p) /\ EntryType
      BY ListsAreGood DEF TablesInv, TypeTables
    <3>2. CASE p \in BoundTo(f)
      BY <2>2, <2>3, <3>1, <3>2, InsertGood
    <3>3. CASE p \notin BoundTo(f)
      <4>1. \A n \in 1 .. Len(lists[p]) : lists[p][n] # i
        <5>1. DOMAIN lists[p] = 1 .. Len(lists[p])
          BY <3>1, LenProperties
        <5> QED
          BY <2>3, <3>1, <5>1 DEF Good
      <4> QED
        BY <2>2, <2>3, <3>1, <3>3, <4>1, KeepGood
    <3> QED
      BY <3>2, <3>3
  <2>5. TypeTables'
    BY <2>2, <2>3, <2>4 DEF TablesInv, TypeTables, EntryType
  <2> QED
    BY <2>4, <2>5, ListsAreGoodNext DEF TablesInv
<1> QED
  BY <1>1, <1>2

LEMMA DestroyProfileTables ==
    ASSUME TablesInv, NEW t \in Threads, NEW i \in Ids, DestroyProfile(t, i)
    PROVE  TablesInv'
<1>1. /\ entry' = [entry EXCEPT ![i] = None] /\ intf' = intf
      /\ lists' = [p \in Ports |-> RemoveFirst(lists[p], i)]
  BY DEF DestroyProfile, Removed
<1>2. ASSUME NEW p \in Ports
      PROVE  lists'[p] \in Seq(Ids) /\ Good(lists'[p], entry', p)
  <2>1. lists[p] \in Seq(Ids) /\ Good(lists[p], entry, p) /\ EntryType
    BY ListsAreGood DEF TablesInv, TypeTables
  <2> QED
    BY <1>1, <2>1, RemoveGood
<1>3. TypeTables'
  BY <1>1, <1>2 DEF TablesInv, TypeTables, EntryType
<1> QED
  BY <1>2, <1>3, ListsAreGoodNext DEF TablesInv

LEMMA DestroyIntfTables ==
    ASSUME TablesInv, NEW t \in Threads, NEW q \in Ports, DestroyIntf(t, q)
    PROVE  TablesInv'
<1>1. /\ entry' = entry /\ intf' = intf \ {q}
      /\ lists' = IF q \in intf THEN [lists EXCEPT ![q] = << >>] ELSE lists
  BY DEF DestroyIntf
<1>2. TypeTables'
  BY <1>1 DEF TablesInv, TypeTables, EntryType
<1>3. \A p \in Ports : Good(lists'[p], entry', p)
  <2> TAKE p \in Ports
  <2>1. lists'[p] = lists[p] \/ lists'[p] = << >>
    BY <1>1 DEF TablesInv, TypeTables
  <2> QED
    BY <1>1, <2>1, EmptyGood, ListsAreGood DEF TablesInv
<1> QED
  BY <1>2, <1>3, ListsAreGoodNext DEF TablesInv

LEMMA NextTables == TablesInv /\ [Next]_vars => TablesInv'
<1> SUFFICES ASSUME TablesInv, [Next]_vars PROVE TablesInv'
  OBVIOUS
<1>1. ASSUME NEW t \in Threads, Ioctl(t)
      PROVE  TablesInv'
  <2>1. CASE LockStart(t) \/ LockTake(t) \/ Read(t)
    BY <2>1, QuietTables DEF LockStart, LockTake, Read, GetIntf, GetProfile, GetNext
  <2>2. ASSUME NEW p \in Ports, CreateIntf(t, p)
        PROVE  TablesInv'
    <3>1. UNCHANGED << lists, entry >> /\ intf' = intf \cup {p}
      BY <2>2 DEF CreateIntf
    <3>2. ListsConsistent'
      BY <3>1 DEF TablesInv, ListsConsistent, Live
    <3> QED
      BY <3>1, <3>2 DEF TablesInv, TypeTables, EntryType
  <2> QED
    BY <1>1, <2>1, <2>2, CreateProfileTables, DestroyProfileTables, DestroyIntfTables
    DEF Ioctl, Change
<1>2. ASSUME NEW c \in Channels, RxTask(c)
      PROVE  TablesInv'
  BY <1>2, QuietTables DEF RxTask, RxLock, RxMatch, RxMiss, RxDeliver
<1>3. CASE DestroyAll
  <2>1. TypeTables' /\ \A p \in Ports : lists'[p] = << >>
    BY <1>3 DEF DestroyAll, TypeTables, EntryType
  <2> QED
    BY <2>1, EmptyGood, ListsAreGoodNext DEF TablesInv
<1>4. CASE UNCHANGED vars
  BY <1>4, QuietTables DEF vars
<1> QED
  BY <1>1, <1>2, <1>3, <1>4 DEF Next

(* The profile table is well typed and every list of an interface holds    *)
(* allocated profiles, each once, most urgent first, after any ioctl.      *)
THEOREM TablesInvariance == Spec => []TablesInv
BY InitTables, NextTables, PTL DEF Spec

(* Whatever interfaces and profiles are created and destroyed, in whatever *)
(* order and by however many threads, signals or not: every port's list    *)
(* names live profiles of that port, each once, by priority.               *)
THEOREM ListsCorrect == Spec => []ListsConsistent
<1>1. TablesInv => ListsConsistent
  BY DEF TablesInv
<1> QED
  BY <1>1, TablesInvariance, PTL

-----------------------------------------------------------------------------
(* The threads and the RxDone tasks.                                       *)

TypeThreads ==
    /\ pc \in [Threads -> {"idle", "lock", "read"}]
    /\ next \in [Threads -> 1 .. RxChannels + 1]
    /\ held \in [Threads ->
                  [port : Ports \cup {AnyPort}, id : Ids] \cup {None}]

Reading == \A t \in Threads :
             pc[t] = "read" => held[t] \in [port : Ports \cup {AnyPort}, id : Ids]

TypeRx ==
    rx \in [Channels -> [pc : {"idle", "match", "deliver"},
                         pkt : Packets \cup {None}, node : Pointers,
                         hit : BOOLEAN, dest : Pointers \cup Ports]]

Serving == \A c \in Channels : rx[c].pc # "idle" => rx[c].pkt \in Packets

ControlInv == TypeThreads /\ Reading /\ TypeRx /\ Serving

LEMMA HeadOfType == TypeTables => \A p \in Ports : HeadOf(p) \in Pointers
<1> SUFFICES ASSUME TypeTables, NEW p \in Ports, lists[p] # << >>
             PROVE  Head(lists[p]) \in Ids
  BY DEF HeadOf, Pointers
<1>1. lists[p] \in Seq(Ids)
  BY DEF TypeTables
<1> QED
  BY <1>1, HeadTailProperties

LEMMA AfterType == TypeTables => \A p \in Ports : \A i : After(p, i) \in Pointers
<1> SUFFICES ASSUME TypeTables, NEW p \in Ports, NEW i
             PROVE  After(p, i) \in Pointers
  OBVIOUS
<1> DEFINE l == lists[p]
           k == SelectInSeq(l, LAMBDA j : j = i)
<1>1. l \in Seq(Ids)
  BY DEF TypeTables
<1>2. After(p, i) = IF k = 0 \/ k = Len(l) THEN None ELSE l[k + 1]
  BY DEF After
<1> HIDE DEF l
<1>3. \/ k = 0 /\ \A n \in 1 .. Len(l) : l[n] # i
      \/ k \in 1 .. Len(l) /\ l[k] = i
  BY <1>1, IndexFacts
<1> HIDE DEF k
<1>4. k # 0 /\ k # Len(l) => l[k + 1] \in Ids
  BY <1>1, <1>3
<1> QED
  BY <1>2, <1>4 DEF Pointers

LEMMA InitControl == Init => ControlInv
<1> SUFFICES ASSUME Init PROVE ControlInv
  OBVIOUS
<1>1. TypeThreads /\ Reading
  BY Bounds DEF Init, TypeThreads, Reading
<1>2. TypeRx /\ Serving
  BY DEF Init, TypeRx, Serving, Idle, Pointers
<1> QED
  BY <1>1, <1>2 DEF ControlInv

LEMMA NextThreads ==
    ASSUME TypeTables, TypeThreads, Reading, NEW t \in Threads, Ioctl(t)
    PROVE  TypeThreads' /\ Reading'
<1>1. CASE LockStart(t)
  BY <1>1, Bounds DEF LockStart, TypeThreads, Reading
<1>2. CASE LockTake(t)
  <2>1. next[t] \in 1 .. RxChannels + 1 /\ ~(next[t] > RxChannels)
    BY <1>2 DEF LockTake, LockedAll, TypeThreads
  <2>2. next[t] + 1 \in 1 .. RxChannels + 1
    BY <2>1, Bounds
  <2> QED
    BY <1>2, <2>2 DEF LockTake, TypeThreads, Reading
<1>3. CASE Change(t)
  <2>1. Unlock(t)
    BY <1>3 DEF Change, CreateIntf, DestroyIntf, CreateProfile, DestroyProfile
  <2> QED
    BY <2>1, Bounds DEF Unlock, TypeThreads, Reading
<1>4. CASE Read(t)
  <2>1. ASSUME NEW p \in Ports, GetIntf(t, p)
        PROVE  TypeThreads' /\ Reading'
    <3>1. HeadOf(p) \in Ids
      BY <2>1, HeadOfType DEF GetIntf, Pointers
    <3> QED
      BY <2>1, <3>1 DEF GetIntf, TypeThreads, Reading
  <2>2. ASSUME NEW i \in Ids, GetProfile(t, i)
        PROVE  TypeThreads' /\ Reading'
    BY <2>2 DEF GetProfile, TypeThreads, Reading
  <2>3. CASE GetNext(t)
    <3> DEFINE h == held[t]
               n == IF h.port = AnyPort THEN None ELSE After(h.port, h.id)
    <3>1. h \in [port : Ports \cup {AnyPort}, id : Ids]
      BY <2>3 DEF GetNext, Reading
    <3>2. n \in Pointers
      BY <3>1, AfterType DEF Pointers
    <3>3. /\ next' = next
          /\ IF n = None
             THEN held' = [held EXCEPT ![t] = None] /\ pc' = [pc EXCEPT ![t] = "idle"]
             ELSE held' = [held EXCEPT ![t] = [h EXCEPT !.id = n]] /\ pc' = pc
      BY <2>3 DEF GetNext
    <3> HIDE DEF n
    <3>4. n # None => [h EXCEPT !.id = n] \in [port : Ports \cup {AnyPort}, id : Ids]
      BY <3>1, <3>2 DEF Pointers
    <3> QED
      BY <3>3, <3>4 DEF TypeThreads, Reading
  <2> QED
    BY <1>4, <2>1, <2>2, <2>3 DEF Read
<1> QED
  BY <1>1, <1>2, <1>3, <1>4 DEF Ioctl

LEMMA NextRx ==
    ASSUME TypeTables, TypeRx, Serving, NEW c \in Channels, RxTask(c)
    PROVE  TypeRx' /\ Serving'
<1> DEFINE RxRecord == [pc : {"idle", "match", "deliver"},
                        pkt : Packets \cup {None}, node : Pointers,
                        hit : BOOLEAN, dest : Pointers \cup Ports]
<1>1. ASSUME NEW r \in RxRecord, rx' = [rx EXCEPT ![c] = r],
             r.pc # "idle" => r.pkt \in Packets
      PROVE  TypeRx' /\ Serving'
  BY <1>1 DEF TypeRx, Serving
<1>2. rx[c] \in RxRecord
  BY DEF TypeRx
<1>3. \A p \in Packets : p.port \in Ports
  BY ProfileConstants
<1>4. ASSUME NEW p \in Packets, RxLock(c, p)
      PROVE  TypeRx' /\ Serving'
  <2>1. PICK v \in StackValues :
           rx' = [rx EXCEPT ![c] = [pc |-> "match", pkt |-> p, node |-> HeadOf(p.port),
                                    hit |-> v, dest |-> None]]
    BY <1>4 DEF RxLock
  <2>2. v \in BOOLEAN /\ HeadOf(p.port) \in Pointers /\ None \in Pointers
    BY <1>3, HeadOfType, ProfileConstants DEF Pointers
  <2> QED
    BY <1>1, <2>1, <2>2
<1>5. CASE RxMatch(c)
  <2> DEFINE r == rx[c]
             h == Hit(entry[r.node], r.pkt, r.hit)
             hit == [r EXCEPT !.pc = "deliver", !.dest = r.node, !.hit = TRUE]
             miss == [r EXCEPT !.node = After(r.pkt.port, r.node), !.hit = FALSE]
  <2>1. rx' = [rx EXCEPT ![c] = IF h THEN hit ELSE miss] /\ r.pc = "match"
    BY <1>5 DEF RxMatch
  <2>2. r.pkt \in Packets /\ After(r.pkt.port, r.node) \in Pointers
    BY <1>3, <2>1, AfterType DEF Serving
  <2>3. hit \in RxRecord /\ hit.pkt \in Packets
    BY <1>2, <2>2
  <2>4. miss \in RxRecord /\ miss.pkt \in Packets
    BY <1>2, <2>2
  <2> HIDE DEF h, hit, miss, RxRecord
  <2> QED
    BY <1>1, <2>1, <2>3, <2>4
<1>6. CASE RxMiss(c)
  <2> DEFINE r == rx[c]
             d == IF r.pkt.port \in intf THEN r.pkt.port ELSE None
             new == [r EXCEPT !.pc = "deliver", !.dest = d]
  <2>1. rx' = [rx EXCEPT ![c] = new] /\ r.pc = "match"
    BY <1>6 DEF RxMiss
  <2>2. r.pkt \in Packets
    BY <2>1 DEF Serving
  <2>3. d \in Pointers \cup Ports
    BY <1>3, <2>2 DEF Pointers
  <2> HIDE DEF d
  <2>4. new \in RxRecord /\ new.pkt \in Packets
    BY <1>2, <2>2, <2>3
  <2> QED
    BY <1>1, <2>1, <2>4
<1>7. CASE RxDeliver(c)
  <2>1. Idle \in RxRecord /\ Idle.pc = "idle"
    BY DEF Idle, Pointers
  <2> QED
    BY <1>1, <1>7, <2>1 DEF RxDeliver
<1> QED
  BY <1>4, <1>5, <1>6, <1>7 DEF RxTask

LEMMA NextControl ==
    ASSUME TypeTables, ControlInv, [Next]_vars
    PROVE  ControlInv'
<1>1. UNCHANGED threads /\ TypeThreads /\ Reading => TypeThreads' /\ Reading'
  BY DEF threads, TypeThreads, Reading
<1>2. UNCHANGED rx /\ TypeRx /\ Serving => TypeRx' /\ Serving'
  BY DEF TypeRx, Serving
<1>3. ASSUME NEW t \in Threads, Ioctl(t)
      PROVE  ControlInv'
  <2>1. UNCHANGED rx
    BY <1>3 DEF Ioctl, LockStart, LockTake, Change, CreateIntf, DestroyIntf,
       CreateProfile, DestroyProfile, Unlock, Read, GetIntf, GetProfile, GetNext
  <2> QED
    BY <1>2, <1>3, <2>1, NextThreads DEF ControlInv
<1>4. ASSUME NEW c \in Channels, RxTask(c)
      PROVE  ControlInv'
  <2>1. UNCHANGED threads
    BY <1>4 DEF RxTask, RxLock, RxMatch, RxMiss, RxDeliver
  <2> QED
    BY <1>1, <1>4, <2>1, NextRx DEF ControlInv
<1>5. CASE DestroyAll \/ UNCHANGED vars
  <2>1. UNCHANGED << threads, rx >>
    BY <1>5 DEF DestroyAll, vars
  <2> QED
    BY <1>1, <1>2, <2>1 DEF ControlInv
<1> QED
  BY <1>3, <1>4, <1>5 DEF Next

(* The ioctl threads and the RxDone tasks are well typed: a read goes for  *)
(* a set of ports and an id, and a task that is not idle has a packet.     *)
THEOREM ControlInvariance == Spec => []ControlInv
<1>1. TablesInv => TypeTables
  BY DEF TablesInv
<1>2. TypeTables /\ ControlInv /\ [Next]_vars => ControlInv'
  BY NextControl
<1> QED
  BY <1>1, <1>2, InitControl, TablesInvariance, PTL DEF Spec

-----------------------------------------------------------------------------
(* The semaphores.                                                         *)

Uses(t, c) == pc[t] = "lock" /\ next[t] > c

(* A channel's semaphore is taken by the one ioctl that has gone past it,  *)
(* or by the channel's RxDone task, and by nobody else.                    *)
Exclusive ==
    /\ \A c \in Channels, t \in Threads :
         Uses(t, c) => sema[c] = 0 /\ rx[c].pc = "idle"
    /\ \A c \in Channels : rx[c].pc # "idle" => sema[c] = 0
    /\ \A c \in Channels, t, u \in Threads : Uses(t, c) /\ Uses(u, c) => t = u
    /\ \A c \in Channels : sema[c] = 0 =>
         rx[c].pc # "idle" \/ \E t \in Threads : Uses(t, c)

TypeSema == sema \in [Channels -> 0 .. IF Signals THEN MaxSema ELSE 1]

SemaInv == TypeSema /\ (~Signals => Exclusive)

LEMMA InitSema == Init => SemaInv
<1> SUFFICES ASSUME Init PROVE SemaInv
  OBVIOUS
<1>1. \A c \in Channels : sema[c] = 1 /\ rx[c].pc = "idle"
  BY DEF Init, Idle
<1>2. \A c \in Channels, t \in Threads : ~Uses(t, c)
  BY DEF Init, Uses
<1>3. TypeSema
  BY Bounds DEF Init, TypeSema
<1>4. \A c \in Channels : sema[c] # 0
  BY <1>1
<1> QED
  BY <1>1, <1>2, <1>3, <1>4 DEF SemaInv, Exclusive

(* Every channel is locked by a thread that changes the tables.            *)
LEMMA LockedUsesAll ==
    ASSUME TypeThreads, NEW t \in Threads, Locked(t), NEW c \in Channels
    PROVE  Uses(t, c)
BY Bounds DEF Locked, LockedAll, Uses, TypeThreads

LEMMA QuietSema ==
    ASSUME SemaInv, UNCHANGED sema,
           \A c \in Channels : rx'[c].pc = "idle" <=> rx[c].pc = "idle",
           \A t \in Threads, c \in Channels : Uses(t, c)' <=> Uses(t, c)
    PROVE  SemaInv'
BY DEF SemaInv, TypeSema, Exclusive

LEMMA LockTakeSema ==
    ASSUME TypeThreads, SemaInv, NEW t \in Threads, LockTake(t)
    PROVE  SemaInv'
<1> DEFINE k == next[t]
<1>1. k \in Channels /\ pc[t] = "lock" /\ k \in Nat
  BY Bounds DEF LockTake, LockedAll, TypeThreads
<1>2. UNCHANGED << pc, rx >> /\ next' = [next EXCEPT ![t] = k + 1]
  BY DEF LockTake
<1>3. \A u \in Threads, c \in Channels :
         Uses(u, c)' <=> Uses(u, c) \/ (u = t /\ c = k)
  <2> TAKE u \in Threads, c \in Channels
  <2>1. c \in Nat /\ (k + 1 > c <=> k > c \/ c = k)
    BY <1>1, Bounds
  <2>2. next'[u] = IF u = t THEN k + 1 ELSE next[u]
    BY <1>2 DEF TypeThreads
  <2> QED
    BY <1>1, <1>2, <2>1, <2>2 DEF Uses
<1>4. CASE sema[k] > 0 /\ sema' = [sema EXCEPT ![k] = @ - 1]
  <2>1. TypeSema'
    BY <1>1, <1>4, Bounds DEF SemaInv, TypeSema
  <2>2. ASSUME ~Signals PROVE Exclusive'
    <3>1. \A c \in Channels : sema[c] \in 0 .. 1
      BY <2>2 DEF SemaInv, TypeSema
    <3>2. \A c \in Channels : sema'[c] = IF c = k THEN 0 ELSE sema[c]
      <4>1. sema[k] = 1
        BY <1>1, <1>4, <3>1
      <4> QED
        BY <1>4, <4>1 DEF SemaInv, TypeSema
    <3>3. rx[k].pc = "idle" /\ \A u \in Threads : ~Uses(u, k)
      BY <1>1, <1>4, <2>2 DEF SemaInv, Exclusive
    <3> QED
      BY <1>1, <1>2, <1>3, <2>2, <3>2, <3>3 DEF SemaInv, Exclusive
  <2> QED
    BY <2>1, <2>2 DEF SemaInv
<1>5. CASE Signals /\ UNCHANGED sema
  BY <1>5 DEF SemaInv, TypeSema
<1> QED
  BY <1>4, <1>5 DEF LockTake

LEMMA UnlockSema ==
    ASSUME TypeThreads, SemaInv, NEW t \in Threads, Locked(t), Unlock(t)
    PROVE  SemaInv'
<1>1. /\ sema' = [c \in Channels |-> sema[c] + 1] /\ rx' = rx
      /\ pc' = [pc EXCEPT ![t] = "idle"] /\ next' = [next EXCEPT ![t] = 1]
      /\ \A c \in Channels : sema[c] < MaxSema
  BY DEF Unlock
<1>2. CASE Signals
  <2>1. \A c \in Channels : sema[c] \in 0 .. 2 /\ sema[c] < 2
    BY <1>1, <1>2, Bounds DEF SemaInv, TypeSema
  <2>2. \A c \in Channels : sema[c] + 1 \in 0 .. 2
    BY <2>1
  <2> QED
    BY <1>1, <1>2, <2>2, Bounds DEF SemaInv, TypeSema
<1>3. CASE ~Signals
  <2>1. \A c \in Channels : sema[c] = 0 /\ rx[c].pc = "idle"
    BY <1>3, LockedUsesAll DEF SemaInv, Exclusive
  <2>2. \A c \in Channels : sema'[c] = 1
    BY <1>1, <2>1
  <2>3. TypeSema'
    BY <1>1, <1>3, <2>1 DEF TypeSema
  <2>4. \A u \in Threads, c \in Channels : ~Uses(u, c)'
    <3> TAKE u \in Threads, c \in Channels
    <3>1. CASE u = t
      BY <1>1, <3>1 DEF Uses, TypeThreads
    <3>2. CASE u # t
      <4>1. ~Uses(u, c)
        BY <1>3, <3>2, LockedUsesAll DEF SemaInv, Exclusive
      <4> QED
        BY <1>1, <3>2, <4>1 DEF Uses, TypeThreads
    <3> QED
      BY <3>1, <3>2
  <2>5. \A c \in Channels : rx'[c].pc = "idle" /\ sema'[c] # 0
    BY <1>1, <2>1, <2>2
  <2> QED
    BY <2>3, <2>4, <2>5 DEF SemaInv, Exclusive
<1> QED
  BY <1>2, <1>3

LEMMA IoctlSema ==
    ASSUME TypeThreads, SemaInv, NEW t \in Threads, Ioctl(t)
    PROVE  SemaInv'
<1>1. CASE LockStart(t)
  <2>1. UNCHANGED << sema, rx >>
    BY <1>1 DEF LockStart
  <2>2. \A u \in Threads, c \in Channels : Uses(u, c)' <=> Uses(u, c)
    <3> TAKE u \in Threads, c \in Channels
    <3>1. ~(1 > c)
      BY Bounds
    <3> QED
      BY <1>1, <3>1 DEF LockStart, Uses, TypeThreads
  <2> QED
    BY <2>1, <2>2, QuietSema
<1>2. CASE Change(t)
  <2>1. Locked(t) /\ Unlock(t)
    BY <1>2 DEF Change, CreateIntf, DestroyIntf, CreateProfile, DestroyProfile
  <2> QED
    BY <2>1, UnlockSema
<1>3. CASE Read(t)
  <2>1. UNCHANGED << sema, rx, next >>
    BY <1>3 DEF Read, GetIntf, GetProfile, GetNext
  <2>2. \A u \in Threads : pc'[u] = "lock" <=> pc[u] = "lock"
    BY <1>3 DEF Read, GetIntf, GetProfile, GetNext, TypeThreads
  <2> QED
    BY <2>1, <2>2, QuietSema DEF Uses
<1> QED
  BY <1>1, <1>2, <1>3, LockTakeSema DEF Ioctl

LEMMA RxSema ==
    ASSUME TypeThreads, TypeRx, SemaInv, NEW c \in Channels, RxTask(c)
    PROVE  SemaInv'
<1>1. UNCHANGED << pc, next >>
  BY DEF RxTask, RxLock, RxMatch, RxMiss, RxDeliver, threads
<1>2. \A u \in Threads, d \in Channels : Uses(u, d)' <=> Uses(u, d)
  BY <1>1 DEF Uses
<1>3. ASSUME NEW r, rx' = [rx EXCEPT ![c] = r]
      PROVE  \A d \in Channels : rx'[d] = IF d = c THEN r ELSE rx[d]
  BY <1>3 DEF TypeRx
<1>4. ASSUME NEW p \in Packets, RxLock(c, p)
      PROVE  SemaInv'
  <2>1. /\ rx[c].pc = "idle" /\ sema[c] > 0 /\ sema' = [sema EXCEPT ![c] = @ - 1]
        /\ \A d \in Channels : d # c => rx'[d] = rx[d]
        /\ rx'[c].pc = "match"
    BY <1>4, <1>3 DEF RxLock, TypeRx
  <2>2. TypeSema'
    BY <2>1, Bounds DEF SemaInv, TypeSema
  <2>3. ASSUME ~Signals PROVE Exclusive'
    <3>1. sema[c] = 1
      BY <2>1, <2>3 DEF SemaInv, TypeSema
    <3>2. \A d \in Channels : sema'[d] = IF d = c THEN 0 ELSE sema[d]
      BY <2>1, <3>1 DEF SemaInv, TypeSema
    <3>3. \A u \in Threads : ~Uses(u, c)
      BY <2>3, <3>1 DEF SemaInv, Exclusive
    <3>4. \A d \in Channels : rx'[d].pc = "idle" <=> d # c /\ rx[d].pc = "idle"
      BY <2>1
    <3>5. \A u \in Threads, d \in Channels : Uses(u, d) => d # c
      BY <3>3
    <3> QED
      BY <1>2, <2>3, <3>2, <3>4, <3>5 DEF SemaInv, Exclusive
  <2> QED
    BY <2>2, <2>3 DEF SemaInv
<1>5. CASE RxMatch(c) \/ RxMiss(c)
  <2>1. sema' = sema /\ rx[c].pc = "match"
    BY <1>5 DEF RxMatch, RxMiss
  <2>2. \A d \in Channels : rx'[d].pc = "idle" <=> rx[d].pc = "idle"
    <3>1. rx'[c].pc \in {"match", "deliver"} /\ \A d \in Channels : d # c => rx'[d] = rx[d]
      <4>1. CASE RxMatch(c)
        BY <2>1, <4>1 DEF RxMatch, TypeRx
      <4>2. CASE RxMiss(c)
        BY <2>1, <4>2 DEF RxMiss, TypeRx
      <4> QED
        BY <1>5, <4>1, <4>2
    <3> QED
      BY <2>1, <3>1
  <2> QED
    BY <1>2, <2>1, <2>2, QuietSema
<1>6. CASE RxDeliver(c)
  <2>1. /\ rx[c].pc = "deliver" /\ sema[c] < MaxSema
        /\ sema' = [sema EXCEPT ![c] = sema[c] + 1]
        /\ \A d \in Channels : rx'[d] = IF d = c THEN Idle ELSE rx[d]
    BY <1>6, <1>3 DEF RxDeliver
  <2>2. CASE Signals
    BY <2>1, <2>2, Bounds DEF SemaInv, TypeSema
  <2>3. CASE ~Signals
    <3>1. sema[c] = 0 /\ \A u \in Threads : ~Uses(u, c)
      BY <2>1, <2>3 DEF SemaInv, Exclusive
    <3>2. \A d \in Channels : sema'[d] = IF d = c THEN 1 ELSE sema[d]
      BY <2>1, <3>1 DEF SemaInv, TypeSema
    <3>3. TypeSema'
      BY <2>1, <2>3, <3>1 DEF SemaInv, TypeSema
    <3>4. Idle.pc = "idle"
      BY DEF Idle
    <3>5. \A d \in Channels : sema'[d] = 0 => d # c /\ sema[d] = 0
      BY <3>2
    <3> QED
      BY <1>2, <2>1, <2>3, <3>1, <3>2, <3>3, <3>4, <3>5 DEF SemaInv, Exclusive
  <2> QED
    BY <2>2, <2>3
<1> QED
  BY <1>4, <1>5, <1>6 DEF RxTask

LEMMA NextSema ==
    ASSUME TypeThreads, TypeRx, SemaInv, [Next]_vars
    PROVE  SemaInv'
<1>1. CASE DestroyAll \/ UNCHANGED vars
  <2>1. UNCHANGED << sema, pc, next, rx >>
    BY <1>1 DEF DestroyAll, vars, threads
  <2> QED
    BY <2>1, QuietSema DEF Uses
<1> QED
  BY <1>1, IoctlSema, RxSema DEF Next

(* A semaphore is free or taken; it has one holder at most unless a wait   *)
(* for it can be interrupted and the code goes on without it.              *)
THEOREM SemaInvariance == Spec => []SemaInv
<1>1. ControlInv /\ SemaInv /\ [Next]_vars => SemaInv'
  BY NextSema DEF ControlInv
<1> QED
  BY <1>1, InitSema, ControlInvariance, PTL DEF Spec

(* The fields hold what the driver can put in them; where no signal        *)
(* arrives, no semaphore is ever given twice.                              *)
THEOREM TypeCorrect == Spec => []TypeOK
<1>1. TablesInv /\ ControlInv /\ SemaInv => TypeOK
  BY DEF TablesInv, TypeTables, EntryType, ControlInv, TypeThreads, TypeRx, SemaInv,
         TypeSema, TypeOK
<1> QED
  BY <1>1, TablesInvariance, ControlInvariance, SemaInvariance, PTL

(* Where no signal arrives, a channel's semaphore is free, or one RxDone   *)
(* task or one ioctl has it.                                               *)
THEOREM HolderCorrect ==
    ASSUME ~Signals
    PROVE  Spec => []OneHolder
<1>1. TypeSema /\ Exclusive => OneHolder
  <2> SUFFICES ASSUME TypeSema, Exclusive, NEW c \in Channels
               PROVE  LET users == {t \in Threads : pc[t] = "lock" /\ next[t] > c}
                      IN  sema[c] + Cardinality(users)
                            + (IF rx[c].pc = "idle" THEN 0 ELSE 1) = 1
    BY DEF OneHolder
  <2> DEFINE users == {t \in Threads : pc[t] = "lock" /\ next[t] > c}
  <2>1. \A t \in Threads : t \in users <=> Uses(t, c)
    BY DEF Uses
  <2>2. sema[c] \in {0, 1}
    BY DEF TypeSema
  <2>3. CASE users = {}
    <3>1. Cardinality(users) = 0
      BY <2>3, FS_EmptySet
    <3>2. sema[c] = 1 <=> rx[c].pc = "idle"
      BY <2>1, <2>2, <2>3 DEF Exclusive
    <3> HIDE DEF users
    <3>3. sema[c] + Cardinality(users) + (IF rx[c].pc = "idle" THEN 0 ELSE 1) = 1
      BY <2>2, <3>1, <3>2
    <3> QED
      BY <3>3 DEF users
  <2>4. CASE users # {}
    <3>1. PICK t \in Threads : users = {t}
      BY <2>1, <2>4 DEF Exclusive
    <3>2. Cardinality(users) = 1
      BY <3>1, FS_Singleton
    <3>3. sema[c] = 0 /\ rx[c].pc = "idle"
      BY <2>1, <3>1 DEF Exclusive
    <3> HIDE DEF users
    <3>4. sema[c] + Cardinality(users) + (IF rx[c].pc = "idle" THEN 0 ELSE 1) = 1
      BY <3>2, <3>3
    <3> QED
      BY <3>4 DEF users
  <2> QED
    BY <2>3, <2>4
<1>2. SemaInv => OneHolder
  BY <1>1 DEF SemaInv
<1> QED
  BY <1>2, SemaInvariance, PTL

-----------------------------------------------------------------------------
(* What an RxDone task looks at.                                           *)

(* The tables change only while no RxDone task holds its semaphore.        *)
LEMMA ChangeExcludesRx ==
    ASSUME TypeThreads, Exclusive, [Next]_vars
    PROVE  \/ UNCHANGED << tables, rx >>
           \/ rx' = rx /\ \A c \in Channels : rx[c].pc = "idle"
           \/ UNCHANGED tables /\ \E c \in Channels : RxTask(c)
<1>1. ASSUME NEW t \in Threads, Change(t)
      PROVE  rx' = rx /\ \A c \in Channels : rx[c].pc = "idle"
  <2>1. Locked(t) /\ rx' = rx
    BY <1>1 DEF Change, CreateIntf, DestroyIntf, CreateProfile, DestroyProfile, Unlock
  <2> QED
    BY <2>1, LockedUsesAll DEF Exclusive
<1>2. ASSUME NEW t \in Threads, LockStart(t) \/ LockTake(t) \/ Read(t)
      PROVE  UNCHANGED << tables, rx >>
  BY <1>2 DEF LockStart, LockTake, Read, GetIntf, GetProfile, GetNext
<1>3. ASSUME NEW c \in Channels, RxTask(c)
      PROVE  UNCHANGED tables
  BY <1>3 DEF RxTask, RxLock, RxMatch, RxMiss, RxDeliver
<1>4. CASE DestroyAll
  BY <1>4 DEF DestroyAll
<1>5. CASE UNCHANGED vars
  BY <1>5 DEF vars
<1> QED
  BY <1>1, <1>2, <1>3, <1>4, <1>5 DEF Next, Ioctl

(* The list a task goes through.                                           *)
LEMMA ListFacts ==
    ASSUME TablesInv, NEW p \in Ports
    PROVE  /\ lists[p] \in Seq(Ids) /\ Len(lists[p]) \in Nat
           /\ DOMAIN lists[p] = 1 .. Len(lists[p])
           /\ \A n \in 1 .. Len(lists[p]) :
                lists[p][n] \in Ids /\ lists[p][n] # None /\ Live(lists[p][n])
           /\ \A m, n \in 1 .. Len(lists[p]) : lists[p][m] = lists[p][n] => m = n
           /\ \A i : i \in ToSet(lists[p]) <=>
                      \E n \in 1 .. Len(lists[p]) : lists[p][n] = i
<1>1. lists[p] \in Seq(Ids)
  BY DEF TablesInv, TypeTables
<1>2. Len(lists[p]) \in Nat /\ DOMAIN lists[p] = 1 .. Len(lists[p])
  BY <1>1, LenProperties
<1>3. \A n \in 1 .. Len(lists[p]) : lists[p][n] \in Ids
  BY <1>1
<1>4. /\ IsInjective(lists[p])
      /\ \A n \in 1 .. Len(lists[p]) : Live(lists[p][n])
  BY <1>2 DEF TablesInv, ListsConsistent
<1> QED
  BY <1>1, <1>2, <1>3, <1>4, Distinct DEF IsInjective, ToSet

LEMMA HeadOfFacts ==
    ASSUME TablesInv, NEW p \in Ports
    PROVE  /\ Len(lists[p]) = 0 => HeadOf(p) = None
           /\ Len(lists[p]) > 0 => HeadOf(p) = lists[p][1]
<1>1. lists[p] \in Seq(Ids)
  BY ListFacts
<1> QED
  BY <1>1 DEF HeadOf

LEMMA AfterFacts ==
    ASSUME TablesInv, NEW p \in Ports, NEW n \in 1 .. Len(lists[p])
    PROVE  After(p, lists[p][n]) = IF n = Len(lists[p]) THEN None ELSE lists[p][n + 1]
<1> DEFINE l == lists[p]
           i == l[n]
           k == SelectInSeq(l, LAMBDA j : j = i)
<1>1. l \in Seq(Ids) /\ \A x, y \in 1 .. Len(l) : l[x] = l[y] => x = y
  BY ListFacts
<1>2. After(p, i) = IF k = 0 \/ k = Len(l) THEN None ELSE l[k + 1]
  BY DEF After
<1>3. l[n] = i /\ n # 0
  OBVIOUS
<1> HIDE DEF i
<1> HIDE DEF l
<1>4. \/ k = 0 /\ \A m \in 1 .. Len(l) : l[m] # i
      \/ k \in 1 .. Len(l) /\ l[k] = i
  BY <1>1, IndexFacts
<1> HIDE DEF k
<1>5. n \in 1 .. Len(l)
  BY DEF l
<1>6. k = n
  BY <1>1, <1>3, <1>4, <1>5
<1>7. After(p, i) = IF n = Len(l) THEN None ELSE l[n + 1]
  BY <1>2, <1>3, <1>6
<1> QED
  BY <1>7 DEF l, i

LEMMA RxLive ==
    ASSUME TablesInv, ControlInv, RxUsesLive, UNCHANGED tables,
           NEW c \in Channels, RxTask(c)
    PROVE  RxUsesLive'
<1> DEFINE Fine(r) == /\ r.pc = "match" /\ r.node # None
                           => r.node \in ToSet(lists[r.pkt.port])
                      /\ r.pc = "deliver" => \/ r.dest = None
                                             \/ r.dest \in Ids /\ Live(r.dest)
                                             \/ r.dest \in intf
<1>1. ASSUME NEW r, rx' = [rx EXCEPT ![c] = r], Fine(r)
      PROVE  RxUsesLive'
  <2>1. \A d \in Channels : rx'[d] = IF d = c THEN r ELSE rx[d]
    BY <1>1 DEF ControlInv, TypeRx
  <2>2. \A d \in Channels : Fine(rx'[d])
    BY <1>1, <2>1 DEF RxUsesLive
  <2> QED
    BY <2>2 DEF RxUsesLive, Live, tables
<1>2. Fine(rx[c])
  BY DEF RxUsesLive
<1>3. rx[c].pc # "idle" => rx[c].pkt.port \in Ports
  BY ProfileConstants DEF ControlInv, Serving
<1>4. ASSUME NEW p \in Packets, RxLock(c, p)
      PROVE  RxUsesLive'
  <2>1. PICK v \in StackValues :
           rx' = [rx EXCEPT ![c] = [pc |-> "match", pkt |-> p, node |-> HeadOf(p.port),
                                    hit |-> v, dest |-> None]]
    BY <1>4 DEF RxLock
  <2>2. p.port \in Ports
    BY ProfileConstants
  <2>3. HeadOf(p.port) # None => HeadOf(p.port) \in ToSet(lists[p.port])
    <3>1. Len(lists[p.port]) \in Nat
      BY <2>2, ListFacts
    <3>2. Len(lists[p.port]) = 0 \/ 1 \in 1 .. Len(lists[p.port])
      BY <3>1
    <3>3. HeadOf(p.port) # None => /\ lists[p.port][1] = HeadOf(p.port)
                                   /\ 1 \in 1 .. Len(lists[p.port])
      BY <2>2, <3>1, <3>2, HeadOfFacts
    <3> QED
      BY <2>2, <3>3, ListFacts
  <2> QED
    BY <1>1, <2>1, <2>3
<1>5. CASE RxMatch(c)
  <2> DEFINE r == rx[c]
             h == Hit(entry[r.node], r.pkt, r.hit)
             hit == [r EXCEPT !.pc = "deliver", !.dest = r.node, !.hit = TRUE]
             miss == [r EXCEPT !.node = After(r.pkt.port, r.node), !.hit = FALSE]
  <2>1. /\ rx' = [rx EXCEPT ![c] = IF h THEN hit ELSE miss]
        /\ r.pc = "match" /\ r.node # None
    BY <1>5 DEF RxMatch
  <2>2. r.pkt.port \in Ports
    BY <1>3, <2>1
  <2>3. PICK n \in 1 .. Len(lists[r.pkt.port]) : lists[r.pkt.port][n] = r.node
    BY <1>2, <2>1, <2>2, ListFacts
  <2>4. r.node \in Ids /\ Live(r.node)
    BY <2>2, <2>3, ListFacts
  <2>5. After(r.pkt.port, r.node) # None =>
          After(r.pkt.port, r.node) \in ToSet(lists[r.pkt.port])
    <3>1. n # Len(lists[r.pkt.port]) => n + 1 \in 1 .. Len(lists[r.pkt.port])
      BY <2>2, <2>3, ListFacts
    <3>2. After(r.pkt.port, r.node) =
            IF n = Len(lists[r.pkt.port]) THEN None ELSE lists[r.pkt.port][n + 1]
      BY <2>2, <2>3, AfterFacts
    <3>3. \A m \in 1 .. Len(lists[r.pkt.port]) :
             lists[r.pkt.port][m] \in ToSet(lists[r.pkt.port])
      <4>1. DOMAIN lists[r.pkt.port] = 1 .. Len(lists[r.pkt.port])
        BY <2>2, ListFacts
      <4> QED
        BY <4>1 DEF ToSet
    <3> QED
      BY <3>1, <3>2, <3>3
  <2>6. DOMAIN r = {"pc", "pkt", "node", "hit", "dest"}
    BY DEF ControlInv, TypeRx
  <2>7. hit.pc = "deliver" /\ hit.dest = r.node
    BY <2>6
  <2>8. miss.pc = "match" /\ miss.node = After(r.pkt.port, r.node) /\ miss.pkt = r.pkt
    BY <2>1, <2>6
  <2> HIDE DEF hit, miss, h
  <2>9. Fine(hit)
    BY <2>4, <2>7
  <2>10. Fine(miss)
    BY <2>5, <2>8
  <2> QED
    BY <1>1, <2>1, <2>9, <2>10
<1>6. CASE RxMiss(c)
  <2> DEFINE r == rx[c]
             d == IF r.pkt.port \in intf THEN r.pkt.port ELSE None
             new == [r EXCEPT !.pc = "deliver", !.dest = d]
  <2>1. rx' = [rx EXCEPT ![c] = new]
    BY <1>6 DEF RxMiss
  <2>2. DOMAIN r = {"pc", "pkt", "node", "hit", "dest"}
    BY DEF ControlInv, TypeRx
  <2>3. new.pc = "deliver" /\ new.dest = d /\ (d = None \/ d \in intf)
    BY <2>2
  <2> HIDE DEF new, d
  <2> QED
    BY <1>1, <2>1, <2>3
<1>7. CASE RxDeliver(c)
  <2>1. Fine(Idle)
    BY DEF Idle
  <2> QED
    BY <1>1, <1>7, <2>1 DEF RxDeliver
<1> QED
  BY <1>4, <1>5, <1>6, <1>7 DEF RxTask

LEMMA NextLive ==
    ASSUME TablesInv, ControlInv, Exclusive, RxUsesLive, [Next]_vars
    PROVE  RxUsesLive'
<1>1. CASE UNCHANGED << tables, rx >>
  BY <1>1 DEF RxUsesLive, Live, tables
<1>2. CASE rx' = rx /\ \A c \in Channels : rx[c].pc = "idle"
  BY <1>2 DEF RxUsesLive
<1>3. CASE UNCHANGED tables /\ \E c \in Channels : RxTask(c)
  BY <1>3, RxLive
<1> QED
  BY <1>1, <1>2, <1>3, ChangeExcludesRx DEF ControlInv

(* Where no signal arrives, what an RxDone task is looking at, node,       *)
(* profile or net device, is not freed before it is done with it.          *)
THEOREM UsesLiveCorrect ==
    ASSUME ~Signals
    PROVE  Spec => []RxUsesLive
<1>1. Init => RxUsesLive
  BY DEF Init, Idle, RxUsesLive
<1>2. TablesInv /\ ControlInv /\ SemaInv /\ RxUsesLive /\ [Next]_vars => RxUsesLive'
  BY NextLive DEF SemaInv
<1> QED
  BY <1>1, <1>2, TablesInvariance, ControlInvariance, SemaInvariance, PTL DEF Spec

-----------------------------------------------------------------------------
(* What the lookup finds.                                                  *)

(* Nothing before place n of the list asks for the packet.                 *)
NoneBefore(l, n, pkt) == \A m \in 1 .. Len(l) : Asked(entry[l[m]], pkt) => n <= m

NoneAsks(l, pkt) == \A m \in 1 .. Len(l) : ~Asked(entry[l[m]], pkt)

(* A lookup has passed nothing that asks for the packet; "hit" is known    *)
(* behind the first profile.                                               *)
Searched(r) ==
    LET l == lists[r.pkt.port]
    IN  /\ r.pc = "match" =>
             IF r.node = None THEN NoneAsks(l, r.pkt)
             ELSE \E n \in 1 .. Len(l) : /\ l[n] = r.node /\ NoneBefore(l, n, r.pkt)
                                         /\ r.hit => n = 1
        /\ r.pc = "deliver" =>
             IF r.dest \in Ids
             THEN \E n \in 1 .. Len(l) : /\ l[n] = r.dest /\ NoneBefore(l, n, r.pkt)
                                         /\ PatternHit(entry[r.dest], r.pkt)
                                         /\ Asked(entry[r.dest], r.pkt) \/ n = 1
             ELSE NoneAsks(l, r.pkt)

LookupInv == \A c \in Channels : Searched(rx[c])

LEMMA RxSearched ==
    ASSUME TablesInv, ControlInv, LookupInv, UNCHANGED tables,
           NEW c \in Channels, RxTask(c)
    PROVE  LookupInv'
<1>1. ASSUME NEW r, rx' = [rx EXCEPT ![c] = r], Searched(r)
      PROVE  LookupInv'
  <2>1. \A d \in Channels : rx'[d] = IF d = c THEN r ELSE rx[d]
    BY <1>1 DEF ControlInv, TypeRx
  <2>2. \A d \in Channels : Searched(rx'[d])
    BY <1>1, <2>1 DEF LookupInv
  <2>3. lists' = lists /\ entry' = entry
    BY DEF tables
  <2>4. ASSUME NEW d \in Channels PROVE Searched(rx[d])'
    <3>1. Searched(rx'[d])
      BY <2>2
    <3> QED
      BY <2>3, <3>1 DEF Searched, NoneAsks, NoneBefore
  <2> QED
    BY <2>4 DEF LookupInv
<1>2. Searched(rx[c]) /\ DOMAIN rx[c] = {"pc", "pkt", "node", "hit", "dest"}
  BY DEF LookupInv, ControlInv, TypeRx
<1>3. rx[c].pc # "idle" => rx[c].pkt.port \in Ports
  BY ProfileConstants DEF ControlInv, Serving
<1>4. ASSUME NEW p \in Packets, RxLock(c, p)
      PROVE  LookupInv'
  <2>1. PICK v \in StackValues :
           rx' = [rx EXCEPT ![c] = [pc |-> "match", pkt |-> p, node |-> HeadOf(p.port),
                                    hit |-> v, dest |-> None]]
    BY <1>4 DEF RxLock
  <2>2. p.port \in Ports
    BY ProfileConstants
  <2> DEFINE l == lists[p.port]
  <2>3. Len(l) \in Nat
    BY <2>2, ListFacts
  <2>4. CASE Len(l) = 0
    <3>1. HeadOf(p.port) = None
      BY <2>2, <2>4, HeadOfFacts
    <3>2. NoneAsks(l, p)
      BY <2>4 DEF NoneAsks
    <3> QED
      BY <1>1, <2>1, <2>2, <3>1, <3>2 DEF Searched
  <2>5. CASE Len(l) > 0
    <3>1. HeadOf(p.port) = l[1] /\ 1 \in 1 .. Len(l)
      BY <2>2, <2>3, <2>5, HeadOfFacts
    <3>2. HeadOf(p.port) # None
      BY <2>2, <3>1, ListFacts
    <3>3. NoneBefore(l, 1, p)
      BY <2>3 DEF NoneBefore
    <3> QED
      BY <1>1, <2>1, <2>2, <3>1, <3>2, <3>3 DEF Searched
  <2> QED
    BY <2>3, <2>4, <2>5
<1>5. CASE RxMatch(c)
  <2> DEFINE r == rx[c]
             p == r.pkt
             l == lists[p.port]
             h == Hit(entry[r.node], p, r.hit)
             hit == [r EXCEPT !.pc = "deliver", !.dest = r.node, !.hit = TRUE]
             miss == [r EXCEPT !.node = After(p.port, r.node), !.hit = FALSE]
  <2>1. /\ rx' = [rx EXCEPT ![c] = IF h THEN hit ELSE miss]
        /\ r.pc = "match" /\ r.node # None
    BY <1>5 DEF RxMatch
  <2>2. p.port \in Ports
    BY <1>3, <2>1
  <2>3. /\ Asked(entry[r.node], p) => h
        /\ h => PatternHit(entry[r.node], p)
        /\ h => Asked(entry[r.node], p) \/ r.hit
    BY DEF Hit, ReasonHit, PatternHit, Asked
  <2>5. PICK n \in 1 .. Len(l) : /\ l[n] = r.node /\ NoneBefore(l, n, p)
                                 /\ r.hit => n = 1
    BY <1>2, <2>1 DEF Searched
  <2>6. r.node \in Ids /\ Len(l) \in Nat
    BY <2>2, <2>5, ListFacts
  <2>7. hit.pc = "deliver" /\ hit.dest = r.node /\ hit.pkt = p
    BY <1>2
  <2>8. miss.pc = "match" /\ miss.node = After(p.port, r.node) /\ miss.pkt = p /\ ~miss.hit
    BY <1>2, <2>1
  <2> HIDE DEF hit, miss, h
  <2>9. CASE h
    <3>1. Searched(hit)
      BY <2>3, <2>5, <2>6, <2>7, <2>9 DEF Searched
    <3> QED
      BY <1>1, <2>1, <2>9, <3>1
  <2>10. CASE ~h
    <3>1. \A m \in 1 .. Len(l) : Asked(entry[l[m]], p) => n <= m /\ n # m
      BY <2>3, <2>5, <2>10 DEF NoneBefore
    <3>2. CASE n = Len(l)
      <4>1. miss.node = None
        BY <2>2, <2>5, <2>8, <3>2, AfterFacts
      <4>2. NoneAsks(l, p)
        BY <2>6, <3>1, <3>2 DEF NoneAsks
      <4> QED
        BY <1>1, <2>1, <2>8, <2>10, <4>1, <4>2 DEF Searched
    <3>3. CASE n # Len(l)
      <4>1. miss.node = l[n + 1] /\ n + 1 \in 1 .. Len(l)
        BY <2>2, <2>5, <2>6, <2>8, <3>3, AfterFacts
      <4>2. NoneBefore(l, n + 1, p)
        <5>1. \A m \in 1 .. Len(l) : n <= m /\ n # m => n + 1 <= m
          BY <2>6
        <5> QED
          BY <3>1, <5>1 DEF NoneBefore
      <4>3. miss.node # None
        BY <2>2, <4>1, ListFacts
      <4>4. Searched(miss)
        BY <2>8, <4>1, <4>2, <4>3 DEF Searched
      <4> QED
        BY <1>1, <2>1, <2>10, <4>4
    <3> QED
      BY <3>2, <3>3
  <2> QED
    BY <2>9, <2>10
<1>6. CASE RxMiss(c)
  <2> DEFINE r == rx[c]
             d == IF r.pkt.port \in intf THEN r.pkt.port ELSE None
             new == [r EXCEPT !.pc = "deliver", !.dest = d]
  <2>1. rx' = [rx EXCEPT ![c] = new] /\ r.pc = "match" /\ r.node = None
    BY <1>6 DEF RxMiss
  <2>2. new.pc = "deliver" /\ new.dest = d /\ new.pkt = r.pkt
    BY <1>2
  <2>3. d \notin Ids
    BY <1>3, <2>1, Distinct
  <2>4. NoneAsks(lists[r.pkt.port], r.pkt)
    BY <1>2, <2>1 DEF Searched
  <2> HIDE DEF new, d
  <2>5. Searched(new)
    BY <2>2, <2>3, <2>4 DEF Searched
  <2> QED
    BY <1>1, <2>1, <2>5
<1>7. CASE RxDeliver(c)
  <2>1. Searched(Idle)
    BY DEF Idle, Searched
  <2> QED
    BY <1>1, <1>7, <2>1 DEF RxDeliver
<1> QED
  BY <1>4, <1>5, <1>6, <1>7 DEF RxTask

LEMMA NextLookup ==
    ASSUME TablesInv, ControlInv, Exclusive, LookupInv, [Next]_vars
    PROVE  LookupInv'
<1>1. CASE UNCHANGED << tables, rx >>
  BY <1>1 DEF LookupInv, Searched, NoneAsks, NoneBefore, tables
<1>2. CASE rx' = rx /\ \A c \in Channels : rx[c].pc = "idle"
  BY <1>2 DEF LookupInv, Searched
<1>3. CASE UNCHANGED tables /\ \E c \in Channels : RxTask(c)
  BY <1>3, RxSearched
<1> QED
  BY <1>1, <1>2, <1>3, ChangeExcludesRx DEF ControlInv

LEMMA SearchedMissesNone ==
    ASSUME TablesInv, ControlInv, LookupInv
    PROVE  LookupMissesNone
<1> SUFFICES ASSUME NEW c \in Channels, rx[c].pc = "deliver"
             PROVE  LET asked == {i \in ToSet(lists[rx[c].pkt.port]) :
                                    Asked(entry[i], rx[c].pkt)}
                    IN  IF rx[c].dest \in Ids
                        THEN /\ PatternHit(entry[rx[c].dest], rx[c].pkt)
                             /\ rx[c].dest \in asked \/ rx[c].dest = HeadOf(rx[c].pkt.port)
                             /\ \A i \in asked : entry[rx[c].dest].prio <= entry[i].prio
                        ELSE asked = {}
  BY DEF LookupMissesNone
<1> DEFINE p == rx[c].pkt
           l == lists[p.port]
           d == rx[c].dest
<1>1. p.port \in Ports /\ Searched(rx[c])
  BY ProfileConstants DEF ControlInv, Serving, LookupInv
<1>2. \A i : i \in ToSet(l) <=> \E n \in 1 .. Len(l) : l[n] = i
  BY <1>1, ListFacts
<1>3. CASE d \in Ids
  <2>1. PICK n \in 1 .. Len(l) : /\ l[n] = d /\ NoneBefore(l, n, p)
                                 /\ PatternHit(entry[d], p)
                                 /\ Asked(entry[d], p) \/ n = 1
    BY <1>1, <1>3 DEF Searched
  <2>2. ASSUME NEW i \in ToSet(l), Asked(entry[i], p)
        PROVE  entry[d].prio <= entry[i].prio
    <3>1. PICK m \in 1 .. Len(l) : l[m] = i
      BY <1>2
    <3>2. n <= m
      BY <2>1, <2>2, <3>1 DEF NoneBefore
    <3>3. \A x, y \in 1 .. Len(l) : x < y => entry[l[x]].prio <= entry[l[y]].prio
      <4>1. Sorted(l, entry) /\ DOMAIN l = 1 .. Len(l)
        BY <1>1, ListFacts, ListsAreGood DEF TablesInv, Good
      <4> QED
        BY <4>1 DEF Sorted
    <3>4. entry[d].prio \in Nat
      BY <1>1, <2>1, ListFacts, ProfileConstants DEF TablesInv, TypeTables, EntryType, Live
    <3>5. CASE n = m
      BY <2>1, <3>1, <3>4, <3>5
    <3>6. CASE n < m
      BY <2>1, <3>1, <3>3, <3>6
    <3>7. n \in Nat /\ m \in Nat
      OBVIOUS
    <3> QED
      BY <3>2, <3>5, <3>6, <3>7
  <2>3. n = 1 => d = HeadOf(p.port)
    BY <1>1, <2>1, ListFacts, HeadOfFacts
  <2> QED
    BY <1>2, <1>3, <2>1, <2>2, <2>3
<1>4. CASE d \notin Ids
  BY <1>1, <1>2, <1>4 DEF Searched, NoneAsks
<1> QED
  BY <1>3, <1>4

(* Where no signal arrives, a lookup misses no profile that asks for the   *)
(* packet and is more urgent than what it ends with, whatever the stack    *)
(* held; and only the first profile of the list may be chosen in error.    *)
THEOREM LookupCorrect ==
    ASSUME ~Signals
    PROVE  Spec => []LookupMissesNone
<1>1. Init => LookupInv
  BY DEF Init, Idle, LookupInv, Searched
<1>2. TablesInv /\ ControlInv /\ SemaInv /\ LookupInv /\ [Next]_vars => LookupInv'
  BY NextLookup DEF SemaInv
<1>3. TablesInv /\ ControlInv /\ LookupInv => LookupMissesNone
  BY SearchedMissesNone
<1> QED
  BY <1>1, <1>2, <1>3, TablesInvariance, ControlInvariance, SemaInvariance, PTL DEF Spec

=============================================================================
