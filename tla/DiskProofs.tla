----------------------------- MODULE DiskProofs -----------------------------
(***************************************************************************)
(* The driver of module Disk is safe and is a BlockDevice, for every       *)
(* number of processes, every ring size NUM and every width of the ring    *)
(* indices that NUM divides.                                               *)
(*                                                                         *)
(* What module DiskStepProofs leaves is about the rings: what a window of  *)
(* a ring holds, and what adding an entry at its end and taking one from   *)
(* its start do to it.  The rings never overflow because their entries are *)
(* heads of different chains, and one more head is elsewhere whenever an   *)
(* entry is added (lemma Room).                                            *)
(***************************************************************************)
EXTENDS DiskStepProofs, FiniteSetTheorems

\* Time for the provers.
USE SMTT(30), ZenonT(30)

\* Quotient and remainder, as \div and % define them.
LEMMA Division == \A m \in Nat \ {0} : \A x \in Int : x = (x \div m) * m + (x % m)
BY SMTT(30)

\* A number has one remainder.
LEMMA ModUnique ==
  ASSUME NEW m \in Nat \ {0}, NEW q \in Int, NEW r \in 0 .. m - 1 PROVE (q * m + r) % m = r
OBVIOUS

\* The ring index does not notice that a counter has wrapped.
LEMMA ModShift ==
  ASSUME NEW m \in Nat \ {0}, NEW u \in Nat, u % m = 0, NEW x \in Nat PROVE (x + u) % m = x % m
<1> DEFINE q == x \div m
           s == u \div m
           r == x % m
<1>1. q \in Int /\ s \in Int /\ r \in 0 .. m - 1
  OBVIOUS
<1>2. x = q * m + r
  BY Division
<1>3. u = s * m
  BY Division
<1> HIDE DEF q, s, r
<1>4. x + u = (q + s) * m + r
  BY <1>1, <1>2, <1>3
<1>5. (x + u) % m = r
  <2>1. \A k \in Int : (k * m + r) % m = r
    BY <1>1, ModUnique, Zenon
  <2>2. q + s \in Int
    BY <1>1
  <2>3. ((q + s) * m + r) % m = r
    BY <2>1, <2>2, Zenon
  <2> QED
    BY <1>4, <2>3, Zenon
<1> QED
  BY <1>5, Zenon DEF r

\* Positions less than the size of the ring apart are different slots.
LEMMA ModApart ==
  ASSUME NEW m \in Nat \ {0}, NEW x \in Nat, NEW y \in Nat, x < y, y - x < m PROVE x % m # y % m
<1> SUFFICES ASSUME x % m = y % m PROVE FALSE
  BY Zenon
<1> DEFINE q == x \div m
           s == y \div m
           r == x % m
<1>1. q \in Int /\ s \in Int /\ r \in 0 .. m - 1
  OBVIOUS
<1>2. x = q * m + r /\ y = s * m + r
  BY Division
<1> HIDE DEF q, s, r
<1>3. y - x = (s - q) * m
  BY <1>1, <1>2
<1>4. CASE s - q <= 0
  <2>1. (s - q) * m <= 0
    BY <1>1, <1>4
  <2> QED
    BY <1>3, <2>1
<1>5. CASE s - q >= 1
  <2>1. (s - q) * m >= m
    BY <1>1, <1>5
  <2> QED
    BY <1>3, <2>1
<1> QED
  BY <1>1, <1>4, <1>5

-----------------------------------------------------------------------------
(* The rings.                                                              *)

\* The slot of a position is that of the index before it is reduced.
LEMMA SlotIs == ASSUME NEW a \in Indices, NEW j \in Indices PROVE ((a + j) % UINT16) % NUM = Slot(a, j)
<1> USE DiskAssumption
<1>1. a \in Nat /\ j \in Nat /\ UINT16 \in Nat /\ NUM \in Nat \ {0} /\ UINT16 % NUM = 0
  BY DEF Indices
<1>2. CASE a + j < UINT16
  <2>1. (a + j) % UINT16 = a + j
    BY <1>1, <1>2
  <2> QED
    BY <2>1, Zenon DEF Slot
<1>3. CASE a + j >= UINT16
  <2> DEFINE x == a + j - UINT16
  <2>1. x \in Nat /\ x < UINT16 /\ a + j = x + UINT16
    BY <1>1, <1>3 DEF Indices
  <2>2. (a + j) % UINT16 = x
    BY <1>1, <2>1
  <2> HIDE DEF x
  <2>3. (x + UINT16) % NUM = x % NUM
    BY <1>1, <2>1, ModShift, ZenonT(30)
  <2> QED
    BY <2>1, <2>2, <2>3, Zenon DEF Slot
<1> QED
  BY <1>1, <1>2, <1>3

\* b - a in the arithmetic of the indices.
LEMMA CountIs ==
  ASSUME NEW a \in Indices, NEW b \in Indices
  PROVE  /\ Count(a, b) \in Indices
         /\ a <= b => Count(a, b) = b - a
         /\ a > b => Count(a, b) = b - a + UINT16
BY DiskAssumption DEF Count, Indices

\* The entries that the windows of module Disk name.
LEMMA WindowIs ==
  ASSUME NEW a \in Indices, NEW b \in Indices, NEW ring
  PROVE  {ring[k % NUM] : k \in Window(a, b)} = Entries(ring, a, b)
<1>1. \A j \in 0 .. Count(a, b) - 1 : j \in Indices
  BY CountIs, DiskAssumption DEF Indices
<1>2. \A j \in 0 .. Count(a, b) - 1 : ((a + j) % UINT16) % NUM = Slot(a, j)
  BY <1>1, SlotIs, Zenon
<1> QED
  BY <1>2, Zenon DEF Entries, Slots, Window, Count

\* Slots of one turn of the ring are different.
LEMMA SlotsApart ==
  ASSUME NEW a \in Indices, NEW i \in 0 .. NUM - 1, NEW j \in 0 .. NUM - 1, i # j
  PROVE  Slot(a, i) # Slot(a, j)
<1>1. a + i \in Nat /\ a + j \in Nat /\ NUM \in Nat \ {0}
  BY DiskAssumption DEF Indices
<1>2. CASE i < j
  <2>1. a + i < a + j /\ (a + j) - (a + i) < NUM
    BY <1>1, <1>2 DEF Indices
  <2> QED
    BY <1>1, <2>1, ModApart, Zenon DEF Slot
<1>3. CASE i > j
  <2>1. a + j < a + i /\ (a + i) - (a + j) < NUM
    BY <1>1, <1>3 DEF Indices
  <2> QED
    BY <1>1, <2>1, ModApart, Zenon DEF Slot
<1> QED
  BY <1>1, <1>2, <1>3

\* The producer's slot comes after those in use.
LEMMA SlotOfEnd ==
  ASSUME NEW a \in Indices, NEW b \in Indices PROVE Slot(a, Count(a, b)) = b % NUM
<1>1. CASE a <= b
  BY <1>1, CountIs DEF Slot, Indices
<1>2. CASE a > b
  <2>1. a + Count(a, b) = b + UINT16
    BY <1>2, CountIs, DiskAssumption DEF Indices
  <2>2. b \in Nat /\ UINT16 \in Nat /\ NUM \in Nat \ {0} /\ UINT16 % NUM = 0
    BY DiskAssumption DEF Indices
  <2>3. (b + UINT16) % NUM = b % NUM
    BY <2>2, ModShift, ZenonT(30)
  <2> QED
    BY <2>1, <2>3, Zenon DEF Slot
<1> QED
  BY <1>1, <1>2 DEF Indices

\* Slots are numbers of entries.
LEMMA SlotsType ==
  ASSUME NEW a \in Indices, NEW b \in Indices
  PROVE  Slots(a, b) \subseteq Descs /\ a % NUM \in Descs
<1>1. \A x \in Nat : x % NUM \in Descs
  BY DiskAssumption DEF Descs
<1>2. a \in Nat /\ \A j \in 0 .. Count(a, b) - 1 : a + j \in Nat
  BY CountIs, DiskAssumption DEF Indices
<1> QED
  BY <1>1, <1>2, Zenon DEF Slots, Slot

\* An entry is added at the end: its slot was not in use.
LEMMA Produce ==
  ASSUME NEW a \in Indices, NEW b \in Indices, Count(a, b) < NUM
  PROVE  /\ Slots(a, Inc(b)) = Slots(a, b) \cup {b % NUM}
         /\ b % NUM \notin Slots(a, b)
         /\ Count(a, Inc(b)) = Count(a, b) + 1
<1>1. Count(a, b) \in Nat /\ a \in Int /\ b \in Int /\ UINT16 \in Nat /\ NUM \in Nat /\ NUM < UINT16
  BY CountIs, DiskAssumption DEF Indices
<1>2. Count(a, Inc(b)) = Count(a, b) + 1
  <2> DEFINE c == Inc(b)
  <2>1. c \in Indices /\ c = IF b = UINT16 - 1 THEN 0 ELSE b + 1
    BY IncIs, Zenon
  <2> HIDE DEF c
  <2>2. (a <= c => Count(a, c) = c - a) /\ (a > c => Count(a, c) = c - a + UINT16)
    BY <2>1, CountIs, Zenon
  <2>3. (a <= b => Count(a, b) = b - a) /\ (a > b => Count(a, b) = b - a + UINT16)
    BY CountIs, Zenon
  <2>4. a <= UINT16 - 1 /\ b <= UINT16 - 1 /\ 0 <= a /\ 0 <= b
    BY <1>1 DEF Indices
  <2>5. Count(a, c) = Count(a, b) + 1
    BY <1>1, <2>1, <2>2, <2>3, <2>4
  <2> QED
    BY <2>5, Zenon DEF c
<1>3. Slot(a, Count(a, b)) = b % NUM
  BY SlotOfEnd, Zenon
<1>4. 0 .. Count(a, Inc(b)) - 1 = (0 .. Count(a, b) - 1) \cup {Count(a, b)}
  BY <1>1, <1>2
<1>5. ASSUME NEW j \in 0 .. Count(a, b) - 1 PROVE Slot(a, j) # Slot(a, Count(a, b))
  <2>1. j \in 0 .. NUM - 1 /\ Count(a, b) \in 0 .. NUM - 1 /\ j # Count(a, b)
    BY <1>1
  <2> QED
    BY <2>1, SlotsApart, Zenon
<1> QED
  BY <1>2, <1>3, <1>4, <1>5, Zenon DEF Slots

\* The first entry is removed.
LEMMA Consumed ==
  ASSUME NEW a \in Indices, NEW b \in Indices, a # b, Count(a, b) <= NUM
  PROVE  /\ Slots(Inc(a), b) = Slots(a, b) \ {a % NUM}
         /\ a % NUM \in Slots(a, b)
         /\ Count(Inc(a), b) = Count(a, b) - 1
<1>1. Count(a, b) \in Nat /\ a \in Nat /\ b \in Nat /\ UINT16 \in Nat /\ NUM \in Nat /\ NUM < UINT16
  BY CountIs, DiskAssumption DEF Indices
<1>a. a <= UINT16 - 1 /\ b <= UINT16 - 1
  BY <1>1 DEF Indices
<1>b. (a <= b => Count(a, b) = b - a) /\ (a > b => Count(a, b) = b - a + UINT16)
  BY CountIs, Zenon
<1>2. Count(a, b) > 0
  BY <1>1, <1>a, <1>b
<1>3. Count(Inc(a), b) = Count(a, b) - 1
  <2> DEFINE c == Inc(a)
  <2>1. c \in Indices /\ c = IF a = UINT16 - 1 THEN 0 ELSE a + 1
    BY IncIs, Zenon
  <2> HIDE DEF c
  <2>2. (c <= b => Count(c, b) = b - c) /\ (c > b => Count(c, b) = b - c + UINT16)
    BY <2>1, CountIs, Zenon
  <2>3. Count(c, b) = Count(a, b) - 1
    BY <1>1, <1>a, <1>b, <2>1, <2>2
  <2> QED
    BY <2>3, Zenon DEF c
<1>4. ASSUME NEW j \in 0 .. Count(a, b) - 2 PROVE Slot(Inc(a), j) = Slot(a, j + 1)
  <2>1. j \in Indices /\ j + 1 \in Indices /\ 1 \in Indices
    BY <1>1, CountIs DEF Indices
  <2>2. CASE a # UINT16 - 1
    <3>1. Inc(a) + j = a + (j + 1)
      BY <1>1, <2>1, <2>2, IncIs DEF Indices
    <3> QED
      BY <3>1, Zenon DEF Slot
  <2>3. CASE a = UINT16 - 1
    <3>1. Inc(a) + j = j /\ a + (j + 1) = j + UINT16
      BY <1>1, <2>1, <2>3, IncIs DEF Indices
    <3>2. j \in Nat /\ NUM \in Nat \ {0} /\ UINT16 % NUM = 0
      BY DiskAssumption, <1>1
    <3>3. (j + UINT16) % NUM = j % NUM
      BY <1>1, <3>2, ModShift, ZenonT(30)
    <3> QED
      BY <3>1, <3>3, Zenon DEF Slot
  <2> QED
    BY <2>2, <2>3, Zenon
<1>5. Slot(a, 0) = a % NUM
  BY <1>1 DEF Slot
<1>6. ASSUME NEW j \in 0 .. Count(a, b) - 2 PROVE Slot(a, j + 1) # Slot(a, 0)
  <2>1. j + 1 \in 0 .. NUM - 1 /\ 0 \in 0 .. NUM - 1 /\ j + 1 # 0
    BY <1>1
  <2> QED
    BY <2>1, SlotsApart, Zenon
<1>7. ASSUME NEW i \in 0 .. Count(a, b) - 1, i # 0 PROVE i - 1 \in 0 .. Count(a, b) - 2 /\ (i - 1) + 1 = i
  BY <1>1, <1>7
<1>8. \A j \in 0 .. Count(a, b) - 2 : j + 1 \in 0 .. Count(a, b) - 1
  BY <1>1
<1>9. Slots(Inc(a), b) = {Slot(a, j + 1) : j \in 0 .. Count(a, b) - 2}
  BY <1>1, <1>3, <1>4 DEF Slots
<1>10. 0 \in 0 .. Count(a, b) - 1
  BY <1>1, <1>2
<1>11. Slots(a, b) = {Slot(a, 0)} \cup {Slot(a, j + 1) : j \in 0 .. Count(a, b) - 2}
  BY <1>7, <1>8, <1>10, Zenon DEF Slots
<1> QED
  BY <1>3, <1>5, <1>6, <1>9, <1>11, Zenon

\* Nothing is in a ring whose indices are equal.
LEMMA Nothing == ASSUME NEW a \in Indices PROVE Count(a, a) = 0 /\ Slots(a, a) = {}
<1>1. Count(a, a) = 0
  BY CountIs DEF Indices
<1> QED
  BY <1>1 DEF Slots

\* A ring whose entries differ from each other and from one descriptor has room.
LEMMA Room ==
  ASSUME NEW a \in Indices, NEW b \in Indices, Count(a, b) <= NUM,
         NEW ring \in [Descs -> Descs], NEW h \in Descs, h \notin Entries(ring, a, b),
         \A s, t \in Slots(a, b) : ring[s] = ring[t] => s = t
  PROVE  Count(a, b) < NUM
<1> SUFFICES ASSUME Count(a, b) = NUM PROVE FALSE
  BY CountIs, DiskAssumption DEF Indices
<1> DEFINE f == [j \in Descs |-> ring[Slot(a, j)]]
<1>1. \A j \in Descs : Slot(a, j) \in Slots(a, b) /\ Slot(a, j) \in Descs
  BY SlotsType, DiskAssumption DEF Slots, Descs
<1>2. f \in [Descs -> Descs \ {h}]
  BY <1>1, Zenon DEF Entries
<1>3. IsFiniteSet(Descs) /\ Cardinality(Descs) = NUM
  BY FS_Interval, DiskAssumption DEF Descs
<1>4. IsFiniteSet(Descs \ {h}) /\ Cardinality(Descs \ {h}) = NUM - 1
  BY <1>3, FS_RemoveElement, Zenon
<1>5. Cardinality(Descs \ {h}) < Cardinality(Descs)
  BY <1>3, <1>4, DiskAssumption
<1> HIDE DEF f
<1>6. PICK i, j \in Descs : i # j /\ f[i] = f[j]
  BY <1>2, <1>3, <1>4, <1>5, FS_PigeonHole
<1>7. ring[Slot(a, i)] = ring[Slot(a, j)]
  BY <1>6, Zenon DEF f
<1>8. Slot(a, i) = Slot(a, j)
  BY <1>1, <1>7, Zenon
<1> QED
  BY <1>6, <1>8, SlotsApart, Zenon DEF Descs

-----------------------------------------------------------------------------
(* What the steps find, and what they do to the rings.                     *)

\* The windows on the rings, in terms of slots.
Windows == Offered = Entries(aring, seen, aidx) /\ Used = Entries(uring, used_idx, uidx)

\* They are the windows of module Disk.
LEMMA WindowsAre == TypeOK => Windows
BY WindowIs, Zenon DEF TypeOK, Windows, Offered, Used, Indices

\* The lowest free descriptor exists.
LEMMA LowestIs == ASSUME NEW S \in SUBSET Descs, S # {} PROVE Lowest(S) \in S
<1>1. S \subseteq Nat
  BY DiskAssumption DEF Descs
<1>2. PICK x \in S : \A y \in S : ~(<<y, x>> \in OpToRel(<, Nat))
  BY <1>1, NatLessThanWellFounded, WFMin, ZenonT(30)
<1>3. ASSUME NEW y \in S PROVE ~(y < x)
  <2>1. <<y, x>> \notin {ss \in Nat \X Nat : ss[1] < ss[2]}
    BY <1>2, Zenon DEF OpToRel
  <2>2. <<y, x>> \in Nat \X Nat /\ <<y, x>>[1] = y /\ <<y, x>>[2] = x
    BY <1>1, Zenon
  <2> QED
    BY <2>1, <2>2, Zenon
<1>4. \A y \in S : x <= y
  BY <1>1, <1>3
<1> QED
  BY <1>4, Zenon DEF Lowest

\* alloc3_desc() gets three descriptors that are free and different.
LEMMA AllocatedIs == ASSUME NEW S \in SUBSET Descs, S = free, Cardinality(S) >= 3 PROVE Found
<1>1. IsFiniteSet(S)
  <2>1. IsFiniteSet(Descs)
    BY FS_Interval, DiskAssumption DEF Descs
  <2> QED
    BY <2>1, FS_Subset, Zenon
<1> DEFINE a == Lowest(S)
           b == Lowest(S \ {a})
           c == Lowest(S \ {a, b})
<1>2. a \in S
  <2>1. S # {}
    BY FS_EmptySet
  <2> QED
    BY <2>1, LowestIs, Zenon
<1> HIDE DEF a
<1>3. IsFiniteSet(S \ {a}) /\ Cardinality(S \ {a}) >= 2
  <2>1. Cardinality(S) \in Nat
    BY <1>1, FS_CardinalityType, Zenon
  <2>2. IsFiniteSet(S \ {a}) /\ Cardinality(S \ {a}) = Cardinality(S) - 1
    BY <1>1, <1>2, FS_RemoveElement, Zenon
  <2> QED
    BY <2>1, <2>2
<1>4. b \in S \ {a}
  <2>1. S \ {a} # {}
    BY <1>3, FS_EmptySet
  <2> QED
    BY <2>1, LowestIs, Zenon
<1> HIDE DEF b
<1>5. IsFiniteSet((S \ {a}) \ {b}) /\ Cardinality((S \ {a}) \ {b}) >= 1
  <2>1. Cardinality(S \ {a}) \in Nat
    BY <1>3, FS_CardinalityType, Zenon
  <2>2. /\ IsFiniteSet((S \ {a}) \ {b})
        /\ Cardinality((S \ {a}) \ {b}) = Cardinality(S \ {a}) - 1
    BY <1>3, <1>4, FS_RemoveElement, Zenon
  <2> QED
    BY <1>3, <2>1, <2>2
<1>6. c \in S \ {a, b}
  <2>1. S \ {a, b} # {}
    <3>1. (S \ {a}) \ {b} = S \ {a, b}
      BY Zenon
    <3> QED
      BY <1>5, <3>1, FS_EmptySet
  <2> QED
    BY <2>1, LowestIs, Zenon
<1>7. Allocated = <<a, b, c>>
  BY Zenon DEF Allocated, a, b, c
<1> HIDE DEF c
<1> QED
  BY <1>2, <1>4, <1>6, <1>7, Zenon DEF Found

\* While a process is about to offer a chain, the avail ring has room for it ...
LEMMA AvailRoom ==
  ASSUME DInv, NEW p \in Procs, pc[p] \in {"ring", "index"} PROVE Count(seen, aidx) < NUM
<1>1. idx[p][1] \notin Entries(aring, seen, aidx)
  BY WindowsAre, Zenon DEF DInv, Progress, InFlight, Windows
<1>2. idx[p][1] \in Descs
  <2>1. idx[p] # <<>>
    BY Zenon DEF DInv, Chained, Formatted, Without
  <2> QED
    BY <2>1, Zenon DEF DInv, Types
<1> QED
  BY <1>1, <1>2, Room, Zenon DEF DInv, Rings, RingOK, TypeOK, Indices

\* ... and while the device works on one, so has the used ring.
LEMMA UsedRoom == ASSUME DInv, NEW i \in taken PROVE Count(used_idx, uidx) < NUM
<1>1. i \notin Entries(uring, used_idx, uidx)
  BY WindowsAre, Zenon DEF DInv, Rings, Windows
<1> QED
  BY <1>1, Room, Zenon DEF DInv, Rings, RingOK, TypeOK, Indices

\* ring_entry: the slot is not in use, so the ring shows what it did.
LEMMA EntryWrittenIs == ASSUME DInv, TypeOK', NEW p \in Procs, ring_entry(p) PROVE EntryWritten(p)
<1>1. seen \in Indices /\ aidx \in Indices /\ aring \in [Descs -> Descs]
  BY Zenon DEF DInv, TypeOK, Indices
<1>2. Count(seen, aidx) < NUM
  BY AvailRoom, Zenon DEF ring_entry
<1>3. aidx % NUM \notin Slots(seen, aidx) /\ Slots(seen, aidx) \subseteq Descs /\ aidx % NUM \in Descs
  BY <1>1, <1>2, Produce, SlotsType, Zenon
<1>4. \A s \in Slots(seen, aidx) : aring'[s] = aring[s]
  BY <1>1, <1>3, Zenon DEF ring_entry
<1>5. Entries(aring', seen, aidx) = Entries(aring, seen, aidx)
  BY <1>4, Zenon DEF Entries
<1>6. Windows /\ Windows'
  BY WindowsAre, PTL DEF DInv
<1>7. UNCHANGED <<aidx, uring, uidx, used_idx, seen, taken>>
  BY Zenon DEF ring_entry
<1>8. Keeps
  BY <1>5, <1>6, <1>7, Zenon DEF Windows, Keeps
<1>9. RingOK(aring, seen, aidx)'
  BY <1>2, <1>4, <1>7 DEF RingOK, DInv, Rings
<1> QED
  BY <1>1, <1>3, <1>7, <1>8, <1>9, Zenon DEF RingOK, DInv, Rings, ring_entry, EntryWritten, RingsOK

\* ring_index: the chain of p is on offer.
LEMMA IndexWrittenIs == ASSUME DInv, TypeOK', NEW p \in Procs, ring_index(p) PROVE IndexWritten(p)
<1>1. seen \in Indices /\ aidx \in Indices /\ aring \in [Descs -> Descs]
  BY DEF DInv, TypeOK, Indices
<1>2. Count(seen, aidx) < NUM
  BY AvailRoom, Zenon DEF ring_index
<1>3. /\ Slots(seen, Inc(aidx)) = Slots(seen, aidx) \cup {aidx % NUM}
      /\ Count(seen, Inc(aidx)) = Count(seen, aidx) + 1
  BY <1>1, <1>2, Produce, Zenon
<1>4. UNCHANGED <<aring, uring, uidx, used_idx, seen, taken, idx>> /\ aidx' = Inc(aidx) /\ pc[p] = "index"
  BY Zenon DEF ring_index
<1>5. aring[aidx % NUM] = idx[p][1]
  BY <1>4, Zenon DEF DInv, Rings
<1>6. Entries(aring, seen, Inc(aidx)) = Entries(aring, seen, aidx) \cup {idx[p][1]}
  BY <1>3, <1>5, Zenon DEF Entries
<1>7. Windows /\ Windows'
  BY WindowsAre, PTL DEF DInv
<1>8. Offered' = Offered \cup {idx[p][1]} /\ Used' = Used
  BY <1>4, <1>6, <1>7, Zenon DEF Windows
<1>9. idx[p][1] \notin Entries(aring, seen, aidx)
  BY <1>4, <1>7, Zenon DEF Windows, DInv, Progress, InFlight
<1>10. Count(seen, Inc(aidx)) <= NUM
  BY <1>1, <1>2, <1>3, CountIs, DiskAssumption DEF Indices
<1>11. \A s, t \in Slots(seen, Inc(aidx)) : aring[s] = aring[t] => s = t
  BY <1>3, <1>5, <1>9 DEF Entries, DInv, Rings, RingOK
<1> QED
  BY <1>4, <1>8, <1>10, <1>11, Zenon DEF RingOK, DInv, Rings, IndexWritten, RingsOK

\* device_take: a chain moves from the avail ring to the device.
LEMMA ChainTakenIs == ASSUME DInv, TypeOK', device_take PROVE ChainTaken
<1>1. seen \in Indices /\ aidx \in Indices /\ aring \in [Descs -> Descs]
  BY Zenon DEF DInv, TypeOK, Indices
<1>2. seen # aidx /\ Count(seen, aidx) <= NUM
  BY Zenon DEF device_take, DInv, Rings, RingOK
<1>3. /\ Slots(Inc(seen), aidx) = Slots(seen, aidx) \ {seen % NUM} /\ seen % NUM \in Slots(seen, aidx)
      /\ Count(Inc(seen), aidx) = Count(seen, aidx) - 1
  BY <1>1, <1>2, Consumed, Zenon
<1>4. /\ UNCHANGED <<aidx, uring, uidx, used_idx, idx, pc>> /\ seen' = Inc(seen)
      /\ aring' = [aring EXCEPT ![seen % NUM] = 0] /\ taken' = taken \cup {aring[seen % NUM]}
  BY Zenon DEF device_take
<1>5. Slots(seen, aidx) \subseteq Descs
  BY <1>1, SlotsType, Zenon
<1>6. \A s \in Slots(Inc(seen), aidx) : aring'[s] = aring[s]
  BY <1>1, <1>3, <1>4, <1>5, Zenon
<1>7. \A s, t \in Slots(seen, aidx) : aring[s] = aring[t] => s = t
  BY Zenon DEF DInv, Rings, RingOK
<1>8. Entries(aring', Inc(seen), aidx) = Entries(aring, seen, aidx) \ {aring[seen % NUM]}
  BY <1>3, <1>6, <1>7 DEF Entries
<1>9. Windows /\ Windows'
  BY WindowsAre, PTL DEF DInv
<1>10. Offered' = Offered \ {aring[seen % NUM]} /\ aring[seen % NUM] \in Offered /\ Used' = Used
  BY <1>3, <1>4, <1>8, <1>9, Zenon DEF Windows, Entries
<1>11. Count(Inc(seen), aidx) <= NUM
  BY <1>1, <1>2, <1>3, CountIs, DiskAssumption DEF Indices
<1>12. RingOK(aring, seen, aidx)'
  BY <1>3, <1>4, <1>6, <1>7, <1>11 DEF RingOK
<1>13. ASSUME NEW p \in Procs, pc[p] = "index" PROVE aring'[aidx % NUM] = aring[aidx % NUM]
  <2>1. aidx % NUM # seen % NUM
    BY <1>1, <1>3, <1>13, AvailRoom, Produce, Zenon
  <2>2. aidx % NUM \in Descs
    BY <1>1, SlotsType, Zenon
  <2> QED
    BY <1>1, <1>4, <2>1, <2>2, Zenon
<1> QED
  BY <1>4, <1>10, <1>12, <1>13, Zenon DEF RingOK, DInv, Rings, ChainTaken, RingsOK

\* device_complete: the chain moves to the used ring.
LEMMA ChainUsedIs == ASSUME DInv, TypeOK', NEW i \in Descs, device_complete(i) PROVE ChainUsed(i)
<1>1. used_idx \in Indices /\ uidx \in Indices /\ uring \in [Descs -> Descs]
  BY Zenon DEF DInv, TypeOK, Indices
<1>2. Count(used_idx, uidx) < NUM
  BY UsedRoom, Zenon DEF device_complete
<1>3. /\ Slots(used_idx, Inc(uidx)) = Slots(used_idx, uidx) \cup {uidx % NUM}
      /\ uidx % NUM \notin Slots(used_idx, uidx)
      /\ Count(used_idx, Inc(uidx)) = Count(used_idx, uidx) + 1
  BY <1>1, <1>2, Produce, Zenon
<1>4. /\ UNCHANGED <<aring, aidx, seen, used_idx>> /\ uidx' = Inc(uidx)
      /\ uring' = [uring EXCEPT ![uidx % NUM] = i] /\ taken' = taken \ {i} /\ i \in taken
  BY Zenon DEF device_complete
<1>5. Slots(used_idx, uidx) \subseteq Descs /\ uidx % NUM \in Descs
  BY <1>1, SlotsType, Zenon
<1>6. uring'[uidx % NUM] = i /\ \A s \in Slots(used_idx, uidx) : uring'[s] = uring[s]
  BY <1>1, <1>3, <1>4, <1>5, Zenon
<1>7. Entries(uring', used_idx, Inc(uidx)) = Entries(uring, used_idx, uidx) \cup {i}
  BY <1>3, <1>6 DEF Entries
<1>8. Windows /\ Windows'
  BY WindowsAre, PTL DEF DInv
<1>9. Used' = Used \cup {i} /\ Offered' = Offered
  BY <1>4, <1>7, <1>8, ZenonT(30) DEF Windows
<1>10. i \notin Entries(uring, used_idx, uidx)
  BY <1>4, <1>8, Zenon DEF Windows, DInv, Rings
<1>11. Count(used_idx, Inc(uidx)) <= NUM
  BY <1>1, <1>2, <1>3, CountIs, DiskAssumption DEF Indices
<1>12. \A s, t \in Slots(used_idx, Inc(uidx)) : uring'[s] = uring'[t] => s = t
  BY <1>3, <1>6, <1>10 DEF Entries, DInv, Rings, RingOK
<1> QED
  BY <1>4, <1>9, <1>11, <1>12 DEF RingOK, DInv, Rings, ChainUsed, RingsOK

\* used_entry: the first chain leaves the used ring.
LEMMA EntryReadIs == ASSUME DInv, used_entry PROVE uring[used_idx % NUM] \in Used /\ (TypeOK' => EntryRead)
<1>1. used_idx \in Indices /\ uidx \in Indices /\ uring \in [Descs -> Descs]
  BY Zenon DEF DInv, TypeOK, Indices
<1>2. used_idx # uidx /\ Count(used_idx, uidx) <= NUM
  BY Zenon DEF used_entry, DInv, Rings, RingOK
<1>3. /\ Slots(Inc(used_idx), uidx) = Slots(used_idx, uidx) \ {used_idx % NUM}
      /\ used_idx % NUM \in Slots(used_idx, uidx)
      /\ Count(Inc(used_idx), uidx) = Count(used_idx, uidx) - 1
  BY <1>1, <1>2, Consumed, Zenon
<1>4. /\ UNCHANGED <<aring, aidx, seen, uidx, taken>> /\ used_idx' = Inc(used_idx)
      /\ uring' = [uring EXCEPT ![used_idx % NUM] = 0]
  BY Zenon DEF used_entry, Consume
<1>5. Slots(used_idx, uidx) \subseteq Descs
  BY <1>1, SlotsType, Zenon
<1>6. \A s \in Slots(Inc(used_idx), uidx) : uring'[s] = uring[s]
  BY <1>1, <1>3, <1>4, <1>5, Zenon
<1>7. \A s, t \in Slots(used_idx, uidx) : uring[s] = uring[t] => s = t
  BY Zenon DEF DInv, Rings, RingOK
<1>8. Entries(uring', Inc(used_idx), uidx) = Entries(uring, used_idx, uidx) \ {uring[used_idx % NUM]}
  BY <1>3, <1>6, <1>7 DEF Entries
<1>9. Windows /\ (TypeOK' => Windows')
  BY WindowsAre, PTL DEF DInv
<1>10. /\ uring[used_idx % NUM] \in Used
       /\ TypeOK' => Used' = Used \ {uring[used_idx % NUM]} /\ Offered' = Offered
  BY <1>3, <1>4, <1>8, <1>9 DEF Windows, Entries
<1>11. Count(Inc(used_idx), uidx) <= NUM
  BY <1>1, <1>2, <1>3, CountIs, DiskAssumption DEF Indices
<1>12. RingOK(uring, used_idx, uidx)'
  BY <1>3, <1>4, <1>6, <1>7, <1>11 DEF RingOK
<1> QED
  BY <1>4, <1>10, <1>12, Zenon DEF RingOK, DInv, Rings, EntryRead, RingsOK

\* The loop of virtio_disk_intr() ends when the used ring is empty.
LEMMA UsedUp == ASSUME DInv, intr_leave PROVE Used = {}
<1>1. used_idx \in Indices /\ used_idx = uidx
  BY Zenon DEF DInv, TypeOK, Indices, intr_leave
<1>2. Entries(uring, used_idx, uidx) = {}
  BY <1>1, Nothing, Zenon DEF Entries
<1> QED
  BY <1>2, WindowsAre, Zenon DEF DInv, Windows
-----------------------------------------------------------------------------
(* The steps of the device.                                                *)

\* The device takes a chain off the avail ring.
LEMMA TakeStep == ASSUME DInv, device_take, TypeOK' => ChainTaken PROVE DInv'
<1>1. /\ taken' = taken \cup {aring[seen % NUM]} /\ aring' = [aring EXCEPT ![seen % NUM] = 0]
      /\ seen' = Inc(seen)
      /\ UNCHANGED <<free, next, data, ops, infob, status, aidx, uring, uidx, used_idx, irq, lock, pc, idx, bdisk,
                     disk, buf, req>>
  BY Zenon DEF device_take, chains
<1>typeok. TypeOK'
  <2>1. seen \in Indices /\ seen % NUM \in Descs /\ aring \in [Descs -> Descs] /\ taken \subseteq Descs
    BY SlotOf, Zenon DEF DInv, TypeOK, Indices
  <2>2. seen' \in 0 .. UINT16 - 1
    BY <1>1, <2>1, IncIs, Zenon DEF Indices
  <2>3. 0 \in Descs
    BY DiskAssumption DEF Descs
  <2>4. aring' \in [Descs -> Descs]
    BY <1>1, <2>1, <2>3, Zenon
  <2>5. taken' \subseteq Descs
    BY <1>1, <2>1, Zenon
  <2> QED
    BY <1>1, <2>2, <2>4, <2>5 DEF DInv, TypeOK
<1>types. Types'
  BY <1>1, Zenon DEF DInv, Types
<1>2. /\ \E h \in Offered : Offered' = Offered \ {h} /\ taken' = taken \cup {h}
      /\ Used' = Used /\ RingOK(aring, seen, aidx)' /\ RingOK(uring, used_idx, uidx)'
      /\ \A p \in Procs : pc[p] = "index" => aring'[aidx % NUM] = aring[aidx % NUM]
  BY <1>typeok, Zenon DEF ChainTaken, RingsOK
<1>3. InFlight' = InFlight /\ (Offered \cup taken)' = Offered \cup taken
  BY <1>2, Zenon DEF InFlight
<1>lockheld. LockHeld'
  BY <1>1, Zenon DEF DInv, LockHeld
<1>chained. Chained' /\ Disjoint' /\ Covered'
  <2>1. \A q \in Procs : Stays(q)
    BY <1>1, Zenon DEF Stays
  <2> QED
    BY <1>1, <2>1, ChainsStay, Zenon
<1>progress. Progress'
  BY <1>1, <1>3, Zenon DEF DInv, Progress, Given
<1>owned. Owned'
  BY <1>1, <1>3, Zenon DEF DInv, Owned, Given
<1>rings. Rings'
  BY <1>1, <1>2, Zenon DEF DInv, Rings
<1>4. Interrupted' /\ Statuses'
  BY <1>1, <1>2, Zenon DEF DInv, Interrupted, Statuses
<1> QED
  BY <1>typeok, <1>types, <1>lockheld, <1>chained, <1>progress, <1>owned, <1>rings, <1>4, Zenon DEF DInv

\* The device completes a chain: data, status, used ring and interrupt.
LEMMA CompleteStep == ASSUME DInv, NEW i \in Descs, device_complete(i), TypeOK' => ChainUsed(i) PROVE DInv'
<1>1. i \in taken /\ i \in InFlight
  BY Zenon DEF device_complete, InFlight
<1>2. PICK p \in Procs : /\ pc[p] \in Given /\ idx[p] # <<>> /\ idx[p][1] = i /\ data[next[i]] = p
                        /\ req[p] # None /\ ops[i] # None /\ bdisk[p]
                        /\ ops[i].block = req[p].block /\ ops[i].write = req[p].write
  BY <1>1, Owner
<1>3. ops[i] \in Reqs /\ req[p] \in Reqs
  BY <1>2, Zenon DEF DInv, Types
<1>4. ops[i].block \in Blocks
  BY <1>3, Zenon DEF Reqs
<1>5. /\ req' = [req EXCEPT ![p].done = TRUE] /\ status' = [status EXCEPT ![i] = 0]
      /\ uring' = [uring EXCEPT ![uidx % NUM] = i] /\ uidx' = Inc(uidx) /\ taken' = taken \ {i} /\ irq'
      /\ UNCHANGED <<free, next, data, ops, infob, aring, aidx, used_idx, seen, lock, pc, idx, bdisk>>
      /\ irq' \in BOOLEAN
  BY <1>2, Zenon DEF device_complete
<1>6. disk' \in [Blocks -> Values] /\ buf' \in [Procs -> Values]
  <2>1. disk \in [Blocks -> Values] /\ buf \in [Procs -> Values]
    BY Zenon DEF DInv, TypeOK
  <2> QED
    BY <1>2, <1>4, <2>1 DEF device_complete
<1>7. /\ req'[p] = [req[p] EXCEPT !.done = TRUE]
      /\ \A q \in Procs \ {p} : req'[q] = req[q]
  BY <1>5, Zenon DEF DInv, Types
<1>8. /\ req'[p] \in Reqs /\ req'[p].done
      /\ req'[p].block = req[p].block /\ req'[p].write = req[p].write
  BY <1>3, <1>7, Zenon DEF Reqs
<1>9. req'[p] # None
  BY <1>8, DiskAssumption, Zenon DEF Reqs
<1>typeok. TypeOK'
  <2>1. uidx \in Indices /\ uidx % NUM \in Descs /\ uring \in [Descs -> Descs] /\ taken \subseteq Descs
    BY SlotOf, Zenon DEF DInv, TypeOK, Indices
  <2>2. uidx' \in 0 .. UINT16 - 1
    BY <1>5, <2>1, IncIs, Zenon DEF Indices
  <2>3. uring' \in [Descs -> Descs] /\ taken' \subseteq Descs
    BY <1>5, <2>1, Zenon
  <2>4. status' \in [Descs -> {0, 255}]
    BY <1>5, Zenon DEF DInv, TypeOK
  <2> QED
    BY <1>5, <1>6, <2>2, <2>3, <2>4 DEF DInv, TypeOK
<1>types. Types'
  <2>1. req' \in [Procs -> {None} \cup Reqs]
    BY <1>5, <1>7, <1>8, Zenon DEF DInv, Types
  <2> QED
    BY <1>5, <2>1, Zenon DEF DInv, Types
<1>10. /\ Used' = Used \cup {i} /\ taken' = taken \ {i} /\ Offered' = Offered
       /\ RingOK(aring, seen, aidx)' /\ RingOK(uring, used_idx, uidx)'
  BY <1>typeok, Zenon DEF ChainUsed, RingsOK
<1>11. InFlight' = InFlight /\ (Offered \cup taken)' = (Offered \cup taken) \ {i}
  <2>1. i \notin Offered
    BY <1>1, Zenon DEF DInv, Rings
  <2> QED
    BY <1>1, <1>10, <2>1, Zenon DEF InFlight
<1>lockheld. LockHeld'
  BY <1>5, Zenon DEF DInv, LockHeld
<1>chained. Chained' /\ Disjoint' /\ Covered'
  <2>1. Stays(p)
    BY <1>2, <1>5, <1>8, <1>9, Zenon DEF Stays, Given, Without
  <2>2. \A q \in Procs \ {p} : Stays(q)
    BY <1>5, <1>7, Zenon DEF Stays
  <2> QED
    BY <1>5, <2>1, <2>2, ChainsStay, Zenon
<1>progress. Progress'
  <2> SUFFICES ASSUME NEW q \in Procs
               PROVE  /\ pc[q] \in {"ring", "index"} => bdisk[q] /\ ~req'[q].done /\ idx[q][1] \notin InFlight'
                      /\ pc[q] \in Given => /\ bdisk[q] <=> idx[q][1] \in InFlight'
                                            /\ req'[q].done <=> idx[q][1] \notin (Offered \cup taken)'
                      /\ pc[q] = "asleep" => bdisk[q]
                      /\ pc[q] = "reacquire" => ~bdisk[q]
    BY <1>5, Zenon DEF Progress, Given
  <2>1. CASE q = p
    BY <1>1, <1>2, <1>8, <1>11, <2>1 DEF DInv, Progress, Given
  <2>2. CASE q # p
    <3>1. req'[q] = req[q]
      BY <1>7, <2>2, Zenon
    <3>2. pc[q] \notin Without => idx[q][1] # i
      <4>1. pc[q] \notin Without => idx[q] # <<>>
        BY Zenon DEF DInv, Chained, Formatted
      <4> QED
        BY <1>2, <2>2, <4>1, Heads, Zenon
    <3>3. pc[q] \in Given \cup {"ring", "index"} => idx[q][1] # i
      BY <3>2, Zenon DEF Given, Without
    <3> QED
      BY <1>11, <3>1, <3>3, Zenon DEF DInv, Progress
  <2> QED
    BY <2>1, <2>2, Zenon
<1>owned. Owned'
  BY <1>5, <1>11, Zenon DEF DInv, Owned, Given
<1>rings. Rings'
  BY <1>1, <1>5, <1>10, Zenon DEF DInv, Rings
<1>interrupted. Interrupted'
  BY <1>5, Zenon DEF Interrupted
<1>statuses. Statuses'
  <2>1. \A j \in Used : j \in Descs
    BY Owner, Zenon DEF InFlight
  <2> QED
    BY <1>5, <1>10, <2>1 DEF DInv, Statuses, TypeOK
<1> QED
  BY <1>typeok, <1>types, <1>lockheld, <1>chained, <1>progress, <1>owned, <1>rings, <1>interrupted, <1>statuses
     DEF DInv
-----------------------------------------------------------------------------
(* The invariant.                                                          *)

\* A state in which virtio_disk_init() has just run.
LEMMA InitDInv == Init => DInv
<1> SUFFICES ASSUME Init PROVE DInv
  BY Zenon
<1> USE DiskAssumption
<1>1. 0 \in Descs /\ 0 \in Indices /\ Descs \subseteq Int
  BY DEF Descs, Indices
<1>2. (CHOOSE v \in Values : TRUE) \in Values
  BY Zenon
<1>3. TypeOK
  BY <1>1, <1>2, Zenon DEF Init, TypeOK, Places, Indices
<1>4. Offered = {} /\ Used = {} /\ taken = {} /\ InFlight = {}
  <2>1. Entries(aring, seen, aidx) = {} /\ Entries(uring, used_idx, uidx) = {}
    BY <1>1, Nothing, Zenon DEF Init, Entries
  <2> QED
    BY <1>3, <2>1, WindowsAre, Zenon DEF Windows, InFlight, Init
<1>5. Count(seen, aidx) = 0 /\ Slots(seen, aidx) = {} /\ Count(used_idx, uidx) = 0 /\ Slots(used_idx, uidx) = {}
  BY <1>1, Nothing, Zenon DEF Init
<1>6. Types /\ LockHeld /\ Chained /\ Covered
  BY Zenon DEF Init, Types, LockHeld, Holding, Chained, Without, Bare, Covered
<1>7. Disjoint
  BY <1>6, MineAre, Zenon DEF Init, Disjoint, MineIs
<1>8. Progress /\ Owned /\ Interrupted /\ Statuses
  BY <1>4, Zenon DEF Init, Progress, Given, Owned, Interrupted, Statuses
<1>9. Rings
  BY <1>4, <1>5 DEF Init, Rings, RingOK
<1> QED
  BY <1>3, <1>6, <1>7, <1>8, <1>9, Zenon DEF DInv

\* Every step of the driver, the interrupt handler and the device keeps it.
LEMMA NextDInv == DInv /\ [Next]_vars => DInv'
<1> SUFFICES ASSUME DInv, [Next]_vars PROVE DInv'
  BY Zenon
<1>1. CASE Device
  <2>1. device_take => DInv'
    BY TakeStep, ChainTakenIs, Zenon
  <2>2. ASSUME NEW i \in Descs, device_complete(i) PROVE DInv'
    BY <2>2, CompleteStep, ChainUsedIs, Zenon
  <2> QED
    BY <1>1, <2>1, <2>2, Zenon DEF Device
<1>2. CASE Interrupt
  <2>1. used_entry => DInv'
    BY UsedEntryStep, EntryReadIs, Zenon
  <2>2. intr_leave => DInv'
    BY IntrLeaveStep, UsedUp, Zenon
  <2> QED
    BY <1>2, <2>1, <2>2, IntrStep, IntrDoneStep, Zenon DEF Interrupt
<1>3. ASSUME NEW p \in Procs, Driver(p) PROVE DInv'
  <2>1. alloc3_desc(p) => DInv'
    BY AllocStep, AllocatedIs, ZenonT(30) DEF alloc3_desc, DInv, TypeOK
  <2>2. ring_entry(p) => DInv'
    BY RingEntryStep, EntryWrittenIs, Zenon
  <2>3. ring_index(p) => DInv'
    BY RingIndexStep, IndexWrittenIs, Zenon
  <2> QED
    BY <1>3, <2>1, <2>2, <2>3, AcquireStep, AllocFailsStep, SleepStep, FinishStep DEF Driver
<1>4. ASSUME NEW p \in Procs, NEW blk \in Blocks, NEW w \in BOOLEAN, NEW v \in Values, virtio_disk_rw(p, blk, w, v)
      PROVE  DInv'
  BY <1>4, CallStep, Zenon
<1>5. CASE UNCHANGED vars
  <2>1. UNCHANGED <<chains, rings, idx, bdisk, disk, buf, req, pc, lock, irq>>
    BY <1>5, Zenon DEF vars, chains, rings
  <2>2. \A q \in Procs : Stays(q) /\ Moves(q)
    BY <2>1, Zenon DEF Stays, Moves
  <2>3. LockHeld' /\ (Used # {} => irq' \/ lock' = intr)
    BY <2>1, Zenon DEF DInv, LockHeld, Interrupted
  <2>4. pc' \in [Procs -> Places] /\ lock' \in Procs \cup {NULL, intr, leaving} /\ irq' \in BOOLEAN
    BY <2>1, Zenon DEF DInv, TypeOK
  <2> QED
    BY <2>1, <2>2, <2>3, <2>4, PlacesChange, Zenon
<1> QED
  BY <1>1, <1>2, <1>3, <1>4, <1>5, Zenon DEF Next

\* Where every chain is, on every run of the driver, its interrupt handler and the device.
THEOREM DiskInvariant == Spec => []DInv
BY InitDInv, NextDInv, PTL DEF Spec

\* DInv implies what the runs check.
LEMMA DInvImplies == DInv => DiskInv /\ NoLostCompletion
<1> SUFFICES ASSUME DInv PROVE DiskInv /\ NoLostCompletion
  BY Zenon
<1>1. MineIs
  BY MineAre, Zenon DEF DInv
<1>2. ASSUME NEW p \in Procs
      PROVE  /\ Cardinality(Mine(p)) \in {0, 3} /\ Mine(p) \cap free = {} /\ Mine(p) \subseteq Descs
             /\ idx[p] # <<>> => Chain(idx[p][1]) = Mine(p)
  <2>1. CASE idx[p] = <<>>
    BY <1>1, <2>1, FS_EmptySet, Zenon DEF MineIs
  <2>2. CASE idx[p] # <<>>
    <3>1. Formatted(p)
      BY <2>2, Zenon DEF DInv, Chained, Bare
    <3>2. PICK a, b, c \in Descs : a = idx[p][1] /\ b = idx[p][2] /\ c = idx[p][3]
      BY <2>2, Zenon DEF DInv, Types
    <3>3. Mine(p) = {a, b, c} /\ a # b /\ a # c /\ b # c
      BY <1>1, <2>2, <3>1, <3>2, Zenon DEF MineIs, Formatted
    <3>4. Cardinality({a, b, c}) = 3
      <4>1. IsFiniteSet({a}) /\ Cardinality({a}) = 1
        BY FS_Singleton, Zenon
      <4>2. IsFiniteSet({a} \cup {b}) /\ Cardinality({a} \cup {b}) = 2
        <5>1. b \notin {a}
          BY <3>3, Zenon
        <5> QED
          BY <4>1, <5>1, FS_AddElement
      <4>3. Cardinality(({a} \cup {b}) \cup {c}) = 3
        <5>1. c \notin {a} \cup {b}
          BY <3>3, Zenon
        <5>2. Cardinality(({a} \cup {b}) \cup {c}) = Cardinality({a} \cup {b}) + 1
          BY <4>2, <5>1, FS_AddElement, ZenonT(30)
        <5> QED
          BY <4>2, <5>2
      <4>4. ({a} \cup {b}) \cup {c} = {a, b, c}
        BY Zenon
      <4> QED
        BY <4>3, <4>4, Zenon
    <3>5. a # -1 /\ b # -1 /\ c # -1
      BY DiskAssumption DEF Descs
    <3>6. Chain(idx[p][1]) = {a, b, c}
      BY <3>1, <3>2, <3>5, Zenon DEF Chain, Formatted
    <3> QED
      BY <3>1, <3>2, <3>3, <3>4, <3>6, Zenon DEF Formatted
  <2> QED
    BY <2>1, <2>2, Zenon
<1>3. free \cup UNION {Mine(p) : p \in Procs} = Descs
  <2>1. free \subseteq Descs /\ \A p \in Procs : Mine(p) \subseteq Descs
    BY <1>2, Zenon DEF DInv, TypeOK
  <2> QED
    BY <2>1, Zenon DEF DInv, Covered
<1>4. DescriptorsAccounted
  BY <1>2, <1>3, Zenon DEF DescriptorsAccounted, DInv, Disjoint
<1>5. ASSUME NEW i \in Used PROVE status[i] = 0 /\ infob[i] \in Procs /\ bdisk[infob[i]] /\ idx[infob[i]][1] = i
  <2>1. i \in InFlight
    BY Zenon DEF InFlight
  <2>2. \E p \in Procs : infob[i] = p /\ bdisk[p] /\ idx[p][1] = i
    BY <2>1, Owner
  <2> QED
    BY <2>2, Zenon DEF DInv, Statuses
<1>6. DiskInv
  BY <1>4, <1>5, Zenon DEF DiskInv, CompletionsMatch, DInv
<1>7. ASSUME NEW p \in Procs, pc[p] = "asleep" PROVE bdisk[p] /\ idx[p][1] \in Offered \cup taken \cup Used
  BY <1>7, Zenon DEF DInv, Progress, InFlight, Given
<1>8. NoLostCompletion
  BY <1>7, Zenon DEF NoLostCompletion, DInv, Interrupted, Rings
<1> QED
  BY <1>6, <1>8, Zenon

\* Every descriptor is free or in one chain, free_chain() finds the whole of it, and
\* virtio_disk_intr() finds for every entry of the used ring a status of zero and the
\* buffer of a process that still waits.
THEOREM DiskIsSafe == Spec => []DiskInv
BY DiskInvariant, DInvImplies, PTL

\* A process asleep in virtio_disk_rw() has its chain before, in or behind the device,
\* and for what is behind it an interrupt is pending or being handled, even when the
\* device completes a chain while the handler leaves.
THEOREM CompletionsArrive == Spec => []NoLostCompletion
BY DiskInvariant, DInvImplies, PTL
-----------------------------------------------------------------------------
(* The driver and its device are a BlockDevice.                            *)

\* The device completes a chain: the transfer of the request's block.
LEMMA CompleteTransfers ==
  ASSUME DInv, NEW i \in Descs, device_complete(i) PROVE \E p \in Procs : Device1!Transfer(p)
<1>1. i \in taken /\ i \in InFlight /\ i \notin Used
  BY Zenon DEF device_complete, InFlight, DInv, Rings
<1>2. PICK p \in Procs : /\ data[next[i]] = p /\ req[p] # None /\ ~req[p].done
                        /\ ops[i].block = req[p].block /\ ops[i].write = req[p].write
  BY <1>1, Owner
<1>3. Device1!Transfer(p)
  BY <1>2, Zenon DEF device_complete, Device1!Transfer
<1> QED
  BY <1>3, Zenon

\* Only the call, the completion and the return show.
LEMMA DeviceStep == DInv /\ [Next]_vars => [Device1!Next]_<<disk, buf, req>>
<1> SUFFICES ASSUME DInv, [Next]_vars PROVE Device1!Next \/ UNCHANGED <<disk, buf, req>>
  BY Zenon
<1>1. CASE Device
  BY <1>1, CompleteTransfers, Zenon DEF Device, device_take, Device1!Next
<1>2. CASE Interrupt
  BY <1>2, Zenon DEF Interrupt, virtio_disk_intr, used_entry, intr_leave, intr_done
<1>3. ASSUME NEW p \in Procs, finish(p) PROVE Device1!Return(p)
  <2>1. pc[p] = "wait" /\ ~bdisk[p]
    BY <1>3, Zenon DEF finish, Finished
  <2>2. Formatted(p) /\ idx[p][1] \notin InFlight
    BY <2>1, Zenon DEF DInv, Chained, Without, Progress, Given
  <2>3. req[p] # None /\ req[p].done
    BY <2>1, <2>2, Zenon DEF DInv, Progress, Given, InFlight, Formatted
  <2> QED
    BY <1>3, <2>3, Zenon DEF finish, Device1!Return
<1>4. ASSUME NEW p \in Procs, Driver(p) PROVE Device1!Next \/ UNCHANGED <<disk, buf, req>>
  <2>1. finish(p) \/ UNCHANGED <<disk, buf, req>>
    BY <1>4, Zenon DEF Driver, acquire, alloc3_desc, alloc3_desc_fails, ring_entry, ring_index, sleep
  <2> QED
    BY <1>3, <2>1, Zenon DEF Device1!Next
<1>5. ASSUME NEW p \in Procs, NEW blk \in Blocks, NEW w \in BOOLEAN, NEW v \in Values, virtio_disk_rw(p, blk, w, v)
      PROVE  Device1!Start(p)
  <2> DEFINE r == [block |-> blk, write |-> w, done |-> FALSE]
  <2>1. r \in Device1!Reqs /\ ~r.done
    BY Zenon DEF Device1!Reqs
  <2>2. req[p] = None
    BY <1>5, Zenon DEF virtio_disk_rw, DInv, Chained, Bare, Without
  <2> QED
    BY <1>5, <2>1, <2>2, Zenon DEF virtio_disk_rw, Device1!Start
<1>6. CASE UNCHANGED vars
  BY <1>6, Zenon DEF vars
<1> QED
  BY <1>1, <1>2, <1>4, <1>5, <1>6, Zenon DEF Next, Device1!Next

\* The first state of the driver is one of the block device.
LEMMA DeviceInit == Init => Device1!Init
BY DiskAssumption DEF Init, Device1!Init

\* Every call of virtio_disk_rw() takes effect once, between its start and its return,
\* on its own block and buffer, whatever order the device completes chains in.
THEOREM DiskIsLinearizable == Spec => Linearizable
BY DiskInvariant, DeviceInit, DeviceStep, PTL DEF Spec, Linearizable, Device1!Spec
=============================================================================
