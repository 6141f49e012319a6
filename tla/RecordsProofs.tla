------------------------------ MODULE RecordsProofs ------------------------------
(***************************************************************************)
(* Theorems on Records, for any regions, lines, sort keys and slots.       *)
(***************************************************************************)
EXTENDS Records, FiniteSetTheorems, TLAPS

\* A store that a draw finds under way is the one beside it, and it stays the only one.
BesideOK ==
  /\ dpc = "idle" => beside = 0
  /\ beside <= 1
  /\ dpc # "idle" /\ beside = 0 => ppc # "store"
  /\ mixed = 0 => beside = 0

\* The record under way is a region, and its first counts are in its slot.
StoreOK ==
  /\ ppc # "idle" => base \in Regions
  /\ ppc = "store" => rec \in Regions
  /\ ppc # "store" => nput = 0
  /\ mixed = 0 /\ ppc = "store" =>
       /\ nput > 0 => arr[idx].start = rec.start
       /\ nput > 1 => arr[idx].end = rec.end

\* No store having overlapped a draw, every slot is whole.
WholeOK ==
  mixed = 0 =>
    /\ \A i \in Slot : arr[i] \in Regions \cup {Zero} \/ (ppc = "store" /\ i = idx)
    /\ \A i \in Slot : priv[i] \in Regions \cup {Zero}
    /\ \A i \in Used : arr[i] # Zero \/ (ppc = "store" /\ i = idx)

\* The first nr slots are a merge: none is nested with another, and no other is used.
IsMerged(a) ==
  /\ \A i, j \in Used : i # j => ~Nested(a[i], a[j])
  /\ \A i \in Slot : a[i] # Zero <=> i \in Used
InOrder(a) == \A i, j \in Used : i < j => KeyOf(skey, a[i]) >= KeyOf(skey, a[j])

\* What each step of a draw leaves to the next one.
DrawOK ==
  beside = 0 =>
    /\ dpc \in {"back", "keyed", "sorted", "save"} => IsMerged(arr)
    /\ dpc = "keyed" => \A i \in Used : key[i] = KeyOf(skey, arr[i])
    /\ dpc = "sorted" => IsMerged(priv) /\ InOrder(priv)
    /\ dpc = "save" => InOrder(arr)

IInv == TypeOK /\ BesideOK /\ StoreOK /\ WholeOK /\ DrawOK

-----------------------------------------------------------------------------
(* The merge *)

LEMMA SlotFinite == IsFiniteSet(Slot) /\ Cardinality(Slot) = Slots
BY FS_Interval, RecordsConstants DEF Slot

LEMMA KeptFinite ==
  ASSUME NEW a \in [Slot -> Counts]
  PROVE  /\ Kept(a) \subseteq Slot /\ IsFiniteSet(Kept(a))
         /\ Cardinality(Kept(a)) \in 0..Slots
<1>1. Kept(a) \in SUBSET Slot
  BY DEF Kept
<1>2. IsFiniteSet(Kept(a)) /\ Cardinality(Kept(a)) <= Slots
  BY <1>1, SlotFinite, FS_Subset
<1> QED
  BY <1>1, <1>2, FS_CardinalityType, RecordsConstants

\* Two slots kept are not nested; in particular they start apart.
LEMMA KeptApart ==
  ASSUME NEW a \in [Slot -> Counts], NEW i \in Kept(a), NEW j \in Kept(a), i # j
  PROVE  ~Nested(a[i], a[j]) /\ a[i].start # a[j].start
<1>1. /\ i \in Slot /\ j \in Slot /\ i \in Int /\ j \in Int
      /\ a[i].start # 0 /\ a[j].start # 0
  BY DEF Kept, Slot
<1>2. \A k, l \in Slot : Nested(a[k], a[l]) <=> Nested(a[l], a[k])
  BY DEF Nested, Counts
<1>3. ~Nested(a[i], a[j])
  BY <1>1, <1>2 DEF Kept, Superseded
<1> QED
  BY <1>1, <1>3 DEF Nested, Counts

\* The place of a slot that is kept grows with its start.
LEMMA BelowOrder ==
  ASSUME NEW a \in [Slot -> Counts], NEW i \in Kept(a), NEW j \in Kept(a),
         a[i].start < a[j].start
  PROVE  Below(a, i) < Below(a, j)
<1> DEFINE S == {k \in Kept(a) : a[k].start < a[i].start}
           T == {k \in Kept(a) : a[k].start < a[j].start}
<1>1. IsFiniteSet(T) /\ S \in SUBSET T /\ S # T
  <2>1. T \in SUBSET Kept(a)
    OBVIOUS
  <2>2. IsFiniteSet(T)
    BY <2>1, KeptFinite, FS_Subset
  <2>3. \A k \in Kept(a) : a[k].start \in Nat
    BY KeptFinite DEF Counts
  <2>4. i \in T /\ i \notin S /\ S \subseteq T
    BY <2>3
  <2> QED
    BY <2>2, <2>4
<1>2. Cardinality(S) \in Nat /\ Cardinality(T) \in Nat /\ Cardinality(S) <= Cardinality(T)
      /\ Cardinality(S) # Cardinality(T)
  BY <1>1, FS_Subset, FS_CardinalityType
<1> QED
  BY <1>2 DEF Below

LEMMA BelowRange ==
  ASSUME NEW a \in [Slot -> Counts], NEW i \in Kept(a)
  PROVE  Below(a, i) \in 0..(Cardinality(Kept(a)) - 1)
<1> DEFINE S == {k \in Kept(a) : a[k].start < a[i].start}
<1>1. S \in SUBSET Kept(a) /\ i \notin S
  BY KeptFinite DEF Counts
<1>2. Cardinality(S) <= Cardinality(Kept(a)) /\ Cardinality(S) # Cardinality(Kept(a))
  BY <1>1, KeptFinite, FS_Subset
<1>3. Cardinality(S) \in Nat /\ Cardinality(Kept(a)) \in Nat
  BY <1>1, KeptFinite, FS_Subset, FS_CardinalityType
<1> QED
  BY <1>2, <1>3 DEF Below

\* The slots kept are numbered from 0 on, without a gap.
LEMMA BelowOnto ==
  ASSUME NEW a \in [Slot -> Counts]
  PROVE  /\ \A i, j \in Kept(a) : i # j => Below(a, i) # Below(a, j)
         /\ \A n \in 0..(Cardinality(Kept(a)) - 1) : \E i \in Kept(a) : Below(a, i) = n
<1> DEFINE K == Kept(a)
           N == 0..(Cardinality(K) - 1)
           f == [i \in K |-> Below(a, i)]
<1>1. \A i, j \in K : i # j => Below(a, i) # Below(a, j)
  <2> SUFFICES ASSUME NEW i \in K, NEW j \in K, i # j PROVE Below(a, i) # Below(a, j)
    OBVIOUS
  <2>1. a[i].start \in Nat /\ a[j].start \in Nat /\ a[i].start # a[j].start
    BY KeptFinite, KeptApart DEF Counts
  <2>2. CASE a[i].start < a[j].start
    BY <2>2, BelowOrder, BelowRange
  <2>3. CASE a[j].start < a[i].start
    BY <2>3, BelowOrder, BelowRange
  <2> QED
    BY <2>1, <2>2, <2>3
<1>2. f \in Injection(K, N)
  BY <1>1, BelowRange DEF Injection, IsInjective
<1>3. IsFiniteSet(N) /\ Cardinality(N) = Cardinality(K)
  BY FS_Interval, KeptFinite
<1>4. f \in Surjection(K, N)
  BY <1>2, <1>3, FS_Injection
<1>5. \A n \in N : \E i \in K : f[i] = n
  BY <1>4 DEF Surjection
<1> QED
  BY <1>1, <1>5

LEMMA MergedSlots ==
  ASSUME NEW a \in [Slot -> Counts], NEW n \in Slot
  PROVE  \/ Merged(a)[n] = Zero /\ \A i \in Kept(a) : Below(a, i) # n
         \/ \E i \in Kept(a) : Below(a, i) = n /\ Merged(a)[n] = a[i]
<1>1. CASE \E i \in Kept(a) : Below(a, i) = n
  <2> DEFINE c == CHOOSE i \in Kept(a) : Below(a, i) = n
  <2>1. c \in Kept(a) /\ Below(a, c) = n
    BY <1>1
  <2>2. Merged(a)[n] = a[c]
    BY <1>1 DEF Merged
  <2> QED
    BY <2>1, <2>2
<1>2. CASE ~\E i \in Kept(a) : Below(a, i) = n
  BY <1>2 DEF Merged
<1> QED
  BY <1>1, <1>2

LEMMA MergedType ==
  ASSUME NEW a \in [Slot -> Counts]
  PROVE  Merged(a) \in [Slot -> Counts]
<1>1. \A n \in Slot : Merged(a)[n] \in Counts
  <2>1. Zero \in Counts
    BY DEF Zero, Counts
  <2> QED
    BY <2>1, MergedSlots, KeptFinite
<1> QED
  BY <1>1 DEF Merged

\* What proc_countvalue_sort makes of an array: the regions that stay, in front, and
\* none nested with another.
LEMMA MergedIsMerged ==
  ASSUME NEW a \in [Slot -> Counts]
  PROVE  LET used == 0..(Cardinality(Kept(a)) - 1)
         IN  /\ \A i, j \in used : i # j => ~Nested(Merged(a)[i], Merged(a)[j])
             /\ \A i \in Slot : Merged(a)[i] # Zero <=> i \in used
<1> DEFINE used == 0..(Cardinality(Kept(a)) - 1)
<1>1. used \subseteq Slot
  BY KeptFinite, RecordsConstants DEF Slot
<1>2. \A n \in used : \E i \in Kept(a) : Below(a, i) = n /\ Merged(a)[n] = a[i]
  BY <1>1, MergedSlots, BelowOnto
<1>3. \A i, j \in used : i # j => ~Nested(Merged(a)[i], Merged(a)[j])
  BY <1>2, KeptApart
<1>4. \A i \in Kept(a) : a[i] # Zero
  BY DEF Kept, Zero
<1>5. \A i \in Slot : Merged(a)[i] # Zero <=> i \in used
  <2>1. ASSUME NEW i \in used PROVE Merged(a)[i] # Zero
    BY <1>2, <1>4
  <2>2. ASSUME NEW i \in Slot, Merged(a)[i] # Zero PROVE i \in used
    BY <2>2, MergedSlots, BelowRange
  <2> QED
    BY <2>1, <2>2
<1> QED
  BY <1>3, <1>5

-----------------------------------------------------------------------------
(* Types *)

LEMMA ZeroType == Zero \in Counts /\ Cleared \in [Slot -> Counts] /\ Zero \notin Regions
BY RecordsConstants DEF Zero, Cleared, Counts

LEMMA RegionType == Regions \subseteq Counts
BY RecordsConstants DEF Counts

LEMMA KeyType ==
  ASSUME NEW k \in {"START", "SIZE", "NRA"}, NEW r \in Counts
  PROVE  KeyOf(k, r) \in Nat
<1>1. (r.end - r.start) % WordMod \in Nat
  BY RecordsConstants DEF Counts
<1> QED
  BY <1>1 DEF KeyOf, Counts

LEMMA PutType ==
  ASSUME NEW old \in Counts, NEW n \in 0..2, rec \in Counts
  PROVE  /\ Put(old, n) \in Counts
         /\ n = 0 => Put(old, n).start = rec.start
         /\ n = 1 => Put(old, n).start = old.start /\ Put(old, n).end = rec.end
         /\ n = 2 => /\ Put(old, n).start = old.start /\ Put(old, n).end = old.end
                     /\ Put(old, n).acc = rec.acc
<1>1. n = 0 \/ n = 1 \/ n = 2
  OBVIOUS
<1> QED
  BY <1>1 DEF Put, Counts

LEMMA InitTypes == Init => TypeOK
BY ZeroType, RecordsConstants DEF Init, TypeOK, Slot

LEMMA StepTypes == TypeOK /\ [Next]_vars => TypeOK'
<1> SUFFICES ASSUME TypeOK, [Next]_vars PROVE TypeOK'
  OBVIOUS
<1> USE DEF TypeOK
<1>0. Slots \in Nat /\ MaxMixed \in Nat
  BY RecordsConstants
<1>1. CASE SmplBegin
  BY <1>0, <1>1, RegionType DEF SmplBegin, dispVars
<1>2. CASE SmplPass
  BY <1>0, <1>2 DEF SmplPass, dispVars
<1>3. CASE SmplEnd
  BY <1>0, <1>3, ZeroType DEF SmplEnd, dispVars
<1>4. CASE SmplFind
  <2>1. PICK r \in Regions : rec' = MoreAccessed(r)
    BY <1>4 DEF SmplFind
  <2>2. rec' \in Counts
    BY <2>1, RegionType DEF MoreAccessed
  <2>3. idx' \in 0..Slots /\ idx' \in Slot /\ beside' \in Nat
    BY <1>0, <1>4 DEF SmplFind, HasSlot, Slot
  <2> QED
    BY <1>4, <2>2, <2>3 DEF SmplFind, dispVars
<1>5. CASE SmplStore
  <2>1. idx \in Slot /\ arr' = [arr EXCEPT ![idx] = Put(arr[idx], nput)]
    BY <1>5 DEF SmplStore
  <2>2. arr' \in [Slot -> Counts]
    BY <2>1, PutType
  <2>3. nput' \in 0..2 /\ rec' \in Counts /\ ppc' \in {"idle", "next", "store"}
    BY <1>5, ZeroType DEF SmplStore
  <2> QED
    BY <1>5, <2>1, <2>2, <2>3 DEF SmplStore, dispVars
<1>6. CASE DrawCopy
  BY <1>0, <1>6 DEF DrawCopy, perfVars
<1>7. CASE DrawBack
  <2>1. arr' \in [Slot -> Counts] /\ nr' \in 0..Slots /\ priv' \in [Slot -> Counts]
    BY <1>7, MergedType, KeptFinite, ZeroType DEF DrawBack
  <2> QED
    BY <1>7, <2>1 DEF DrawBack, perfVars
<1>8. CASE DrawKeys
  <2>1. skey' \in {"START", "SIZE", "NRA"}
    BY <1>8, RecordsConstants DEF DrawKeys
  <2>2. \A i \in Slot : KeyOf(skey', arr[i]) \in Nat
    BY <2>1, KeyType
  <2>3. key' \in [Slot -> Nat]
    BY <1>8, <2>2 DEF DrawKeys
  <2> QED
    BY <1>8, <2>1, <2>3 DEF DrawKeys, perfVars
<1>9. CASE DrawSort
  <2>1. PICK p \in Perms : priv' = [i \in Slot |-> IF i \in Used THEN arr[p[i]] ELSE Zero]
    BY <1>9 DEF DrawSort
  <2>2. \A i \in Used : p[i] \in Slot
    BY <1>0, <2>1 DEF Perms, Used, Slot
  <2>3. priv' \in [Slot -> Counts] /\ key' \in [Slot -> Nat]
    BY <1>9, <2>1, <2>2, ZeroType DEF DrawSort
  <2> QED
    BY <1>9, <2>3 DEF DrawSort, perfVars
<1>10. CASE DrawSorted
  <2>1. arr' \in [Slot -> Counts] /\ priv' \in [Slot -> Counts]
    BY <1>10, ZeroType DEF DrawSorted
  <2> QED
    BY <1>10, <2>1 DEF DrawSorted, perfVars
<1>11. CASE DrawSave
  BY <1>11 DEF DrawSave, perfVars
<1>12. CASE UNCHANGED vars
  BY <1>12 DEF vars, perfVars, dispVars
<1> QED
  BY <1>1, <1>2, <1>3, <1>4, <1>5, <1>6, <1>7, <1>8, <1>9, <1>10, <1>11, <1>12
     DEF Next, Perf, Disp

-----------------------------------------------------------------------------
(* The two mutexes *)

LEMMA StepBeside == TypeOK /\ BesideOK /\ [Next]_vars => BesideOK'
<1> SUFFICES ASSUME TypeOK, BesideOK, [Next]_vars PROVE BesideOK'
  OBVIOUS
<1>0. beside \in Nat /\ mixed \in Nat
  BY DEF TypeOK
<1> USE DEF BesideOK
<1>1. CASE SmplBegin \/ SmplPass \/ SmplEnd \/ SmplStore
  BY <1>1 DEF SmplBegin, SmplPass, SmplEnd, SmplStore, dispVars
<1>2. CASE SmplFind
  BY <1>2 DEF SmplFind, GroupFree, dispVars
<1>3. CASE DrawCopy
  BY <1>0, <1>3 DEF DrawCopy, perfVars
<1>4. CASE DrawBack \/ DrawKeys \/ DrawSort \/ DrawSorted
  BY <1>4 DEF DrawBack, DrawKeys, DrawSort, DrawSorted, perfVars
<1>5. CASE DrawSave
  BY <1>5 DEF DrawSave
<1>6. CASE UNCHANGED vars
  BY <1>6 DEF vars, perfVars, dispVars
<1> QED
  BY <1>1, <1>2, <1>3, <1>4, <1>5, <1>6 DEF Next, Perf, Disp

LEMMA StepStore == TypeOK /\ BesideOK /\ StoreOK /\ [Next]_vars => StoreOK'
<1> SUFFICES ASSUME TypeOK, BesideOK, StoreOK, [Next]_vars PROVE StoreOK'
  OBVIOUS
<1> USE DEF StoreOK
<1>1. CASE SmplBegin \/ SmplPass \/ SmplEnd
  BY <1>1 DEF SmplBegin, SmplPass, SmplEnd
<1>2. CASE SmplFind
  BY <1>2 DEF SmplFind, MoreAccessed
<1>3. CASE SmplStore
  <2>1. /\ ppc = "store" /\ idx \in Slot /\ arr \in [Slot -> Counts] /\ nput \in 0..2
        /\ arr'[idx] = Put(arr[idx], nput) /\ rec \in Counts /\ idx' = idx /\ base' = base
        /\ mixed' = mixed
    BY <1>3 DEF SmplStore, TypeOK
  <2>2. CASE nput = 2
    BY <1>3, <2>1, <2>2 DEF SmplStore
  <2>3. CASE nput = 0 \/ nput = 1
    <3>1. nput' = nput + 1 /\ UNCHANGED <<ppc, rec>>
      BY <1>3, <2>3 DEF SmplStore
    <3> QED
      BY <2>1, <2>3, <3>1, PutType
  <2> QED
    BY <2>1, <2>2, <2>3
<1>4. CASE DrawCopy
  BY <1>4 DEF DrawCopy, perfVars, TypeOK
<1>5. CASE DrawKeys \/ DrawSort \/ DrawSave
  BY <1>5 DEF DrawKeys, DrawSort, DrawSave, perfVars
<1>6. CASE DrawBack \/ DrawSorted
  <2>1. UNCHANGED <<perfVars, mixed>> /\ dpc # "idle"
    BY <1>6 DEF DrawBack, DrawSorted
  <2>2. mixed = 0 => ppc # "store"
    BY <2>1 DEF BesideOK
  <2> QED
    BY <2>1, <2>2 DEF perfVars
<1>7. CASE UNCHANGED vars
  BY <1>7 DEF vars, perfVars, dispVars
<1> QED
  BY <1>1, <1>2, <1>3, <1>4, <1>5, <1>6, <1>7 DEF Next, Perf, Disp

-----------------------------------------------------------------------------
(* Whole regions *)

LEMMA CountsEqual ==
  ASSUME NEW a \in Counts, NEW b \in Counts,
         a.start = b.start, a.end = b.end, a.acc = b.acc
  PROVE  a = b
BY DEF Counts

\* The last count makes the slot the region that is stored.
LEMMA LastCount ==
  ASSUME TypeOK, StoreOK, mixed = 0, SmplStore, nput = 2
  PROVE  arr'[idx] = rec /\ rec \in Regions
<1>1. /\ ppc = "store" /\ idx \in Slot /\ arr \in [Slot -> Counts] /\ rec \in Counts
      /\ arr'[idx] = Put(arr[idx], 2)
  BY DEF SmplStore, TypeOK
<1>2. arr[idx].start = rec.start /\ arr[idx].end = rec.end /\ rec \in Regions
  BY <1>1 DEF StoreOK
<1> QED
  BY <1>1, <1>2, PutType, CountsEqual

LEMMA StepWhole ==
  TypeOK /\ BesideOK /\ StoreOK /\ DrawOK /\ WholeOK /\ [Next]_vars => WholeOK'
<1> SUFFICES ASSUME TypeOK, BesideOK, StoreOK, DrawOK, WholeOK, [Next]_vars, mixed' = 0
             PROVE  WholeOK'
  BY DEF WholeOK
<1>0. /\ arr \in [Slot -> Counts] /\ priv \in [Slot -> Counts]
      /\ Used \subseteq Slot /\ mixed \in Nat
  BY RecordsConstants DEF TypeOK, Used, Slot
<1>1. CASE SmplBegin \/ SmplPass \/ SmplEnd \/ SmplFind
  BY <1>1 DEF SmplBegin, SmplPass, SmplEnd, SmplFind, dispVars, WholeOK, Used
<1>2. CASE SmplStore
  <2>1. /\ mixed = 0 /\ ppc = "store" /\ idx \in Slot /\ idx' = idx
        /\ UNCHANGED <<nr, priv>> /\ \A i \in Slot \ {idx} : arr'[i] = arr[i]
    BY <1>0, <1>2 DEF SmplStore, TypeOK, dispVars
  <2>2. CASE nput = 2
    BY <1>0, <2>1, <2>2, <1>2, LastCount, ZeroType DEF WholeOK, Used
  <2>3. CASE nput # 2
    <3>1. ppc' = "store"
      BY <1>2, <2>1, <2>3 DEF SmplStore
    <3> QED
      BY <1>0, <2>1, <3>1 DEF WholeOK, Used
  <2> QED
    BY <2>2, <2>3
<1>3. CASE DrawCopy
  <2>1. ppc # "store" /\ mixed = 0 /\ priv' = arr /\ UNCHANGED <<arr, nr, perfVars>>
    BY <1>0, <1>3 DEF DrawCopy
  <2> QED
    BY <2>1 DEF WholeOK, Used, perfVars
<1>4. CASE DrawBack
  <2>1. /\ mixed = 0 /\ arr' = Merged(priv) /\ nr' = Cardinality(Kept(priv))
        /\ priv' = Cleared
    BY <1>4 DEF DrawBack
  <2>2. \A i \in Slot : arr'[i] \in Regions \cup {Zero}
    BY <1>0, <2>1, MergedSlots, KeptFinite DEF WholeOK
  <2>3. Used' \subseteq Slot /\ \A i \in Used' : arr'[i] # Zero
    BY <1>0, <2>1, MergedIsMerged, KeptFinite, RecordsConstants DEF Used, Slot
  <2> QED
    BY <2>1, <2>2, <2>3 DEF WholeOK, Cleared
<1>5. CASE DrawKeys
  BY <1>5 DEF DrawKeys, WholeOK, Used, perfVars
<1>6. CASE DrawSort
  <2>1. PICK p \in Perms : priv' = [i \in Slot |-> IF i \in Used THEN arr[p[i]] ELSE Zero]
    BY <1>6 DEF DrawSort
  <2>2. mixed = 0 /\ dpc # "idle" /\ UNCHANGED <<arr, nr, perfVars>>
    BY <1>6 DEF DrawSort
  <2>3. ppc # "store" /\ \A i \in Used : p[i] \in Slot
    BY <1>0, <2>1, <2>2 DEF BesideOK, Perms
  <2> QED
    BY <2>1, <2>2, <2>3 DEF WholeOK, Used, perfVars
<1>7. CASE DrawSorted
  <2>1. /\ mixed = 0 /\ dpc = "sorted" /\ priv' = Cleared /\ UNCHANGED <<nr, perfVars>>
        /\ arr' = [i \in Slot |-> IF i \in Used THEN priv[i] ELSE arr[i]]
    BY <1>7 DEF DrawSorted
  <2>2. ppc # "store" /\ \A i \in Used : priv[i] # Zero
    BY <1>0, <2>1 DEF BesideOK, DrawOK, IsMerged
  <2> QED
    BY <1>0, <2>1, <2>2 DEF WholeOK, Used, Cleared, perfVars
<1>8. CASE DrawSave
  BY <1>8 DEF DrawSave, WholeOK, Used, perfVars
<1>9. CASE UNCHANGED vars
  BY <1>9 DEF vars, perfVars, dispVars, WholeOK, Used
<1> QED
  BY <1>1, <1>2, <1>3, <1>4, <1>5, <1>6, <1>7, <1>8, <1>9 DEF Next, Perf, Disp

-----------------------------------------------------------------------------
(* The draw *)

LEMMA StepDraw == TypeOK /\ BesideOK /\ DrawOK /\ [Next]_vars => DrawOK'
<1> SUFFICES ASSUME TypeOK, BesideOK, DrawOK, [Next]_vars, beside' = 0 PROVE DrawOK'
  BY DEF DrawOK
<1>0. /\ arr \in [Slot -> Counts] /\ priv \in [Slot -> Counts]
      /\ Used \subseteq Slot /\ Used \subseteq Int
  BY RecordsConstants DEF TypeOK, Used, Slot
<1>1. CASE SmplBegin \/ SmplPass \/ SmplEnd
  BY <1>1 DEF SmplBegin, SmplPass, SmplEnd, dispVars, DrawOK, IsMerged, InOrder, Used
<1>2. CASE SmplFind
  BY <1>2 DEF SmplFind, GroupFree, dispVars, DrawOK
<1>3. CASE SmplStore
  <2>1. dpc = "idle" /\ dpc' = dpc
    BY <1>3 DEF SmplStore, dispVars, BesideOK
  <2> QED
    BY <2>1 DEF DrawOK
<1>4. CASE DrawCopy
  BY <1>4 DEF DrawCopy, DrawOK
<1>5. CASE DrawBack
  <2>1. arr' = Merged(priv) /\ nr' = Cardinality(Kept(priv)) /\ dpc' = "back"
    BY <1>5 DEF DrawBack
  <2>2. IsMerged(arr)'
    BY <1>0, <2>1, MergedIsMerged DEF IsMerged, Used
  <2> QED
    BY <2>1, <2>2 DEF DrawOK
<1>6. CASE DrawKeys
  <2>1. /\ dpc = "back" /\ dpc' = "keyed" /\ UNCHANGED <<arr, nr, beside>>
        /\ \A i \in Used : key'[i] = KeyOf(skey', arr[i])
    BY <1>0, <1>6 DEF DrawKeys
  <2> QED
    BY <2>1 DEF DrawOK, IsMerged, Used
<1>7. CASE DrawSort
  <2>1. /\ dpc = "keyed" /\ dpc' = "sorted" /\ UNCHANGED <<arr, nr, skey, beside>>
    BY <1>7 DEF DrawSort
  <2>2. PICK p \in Perms :
          /\ Sorts(p)
          /\ priv' = [i \in Slot |-> IF i \in Used THEN arr[p[i]] ELSE Zero]
    BY <1>7 DEF DrawSort
  <2>3. /\ \A i \in Used : p[i] \in Used /\ key[p[i]] = KeyOf(skey, arr[p[i]])
        /\ \A i, j \in Used : i # j => p[i] # p[j]
        /\ IsMerged(arr)
    BY <2>1, <2>2 DEF Perms, DrawOK
  <2>4. \A i \in Used : priv'[i] = arr[p[i]]
    BY <1>0, <2>2
  <2>5. IsMerged(arr)'
    BY <2>1, <2>3 DEF IsMerged, Used
  <2>6. IsMerged(priv)'
    <3>1. \A i, j \in Used : i # j => ~Nested(priv'[i], priv'[j])
      BY <2>3, <2>4 DEF IsMerged
    <3>2. \A i \in Slot : priv'[i] # Zero <=> i \in Used
      BY <1>0, <2>2, <2>3, <2>4 DEF IsMerged
    <3> QED
      BY <2>1, <3>1, <3>2 DEF IsMerged, Used
  <2>7. InOrder(priv)'
    <3>1. \A i, j \in Used : i < j => KeyOf(skey, priv'[i]) >= KeyOf(skey, priv'[j])
      BY <2>2, <2>3, <2>4 DEF Sorts
    <3> QED
      BY <2>1, <3>1 DEF InOrder, Used
  <2> QED
    BY <2>1, <2>5, <2>6, <2>7 DEF DrawOK
<1>8. CASE DrawSorted
  <2>1. /\ dpc = "sorted" /\ dpc' = "save" /\ UNCHANGED <<nr, skey, beside>>
        /\ \A i \in Slot : arr'[i] = IF i \in Used THEN priv[i] ELSE arr[i]
    BY <1>8 DEF DrawSorted
  <2>2. IsMerged(arr) /\ IsMerged(priv) /\ InOrder(priv)
    BY <2>1 DEF DrawOK
  <2>3. IsMerged(arr)'
    BY <1>0, <2>1, <2>2 DEF IsMerged, Used
  <2>4. InOrder(arr)'
    BY <1>0, <2>1, <2>2 DEF InOrder, Used
  <2> QED
    BY <2>1, <2>3, <2>4 DEF DrawOK
<1>9. CASE DrawSave
  BY <1>9 DEF DrawSave, DrawOK
<1>10. CASE UNCHANGED vars
  BY <1>10 DEF vars, perfVars, dispVars, DrawOK, IsMerged, InOrder, Used
<1> QED
  BY <1>1, <1>2, <1>3, <1>4, <1>5, <1>6, <1>7, <1>8, <1>9, <1>10 DEF Next, Perf, Disp

-----------------------------------------------------------------------------
(* The theorems *)

LEMMA InitIInv == Init => IInv
<1> SUFFICES ASSUME Init PROVE IInv
  OBVIOUS
<1>1. TypeOK
  BY InitTypes
<1>2. BesideOK
  BY DEF Init, BesideOK
<1>3. StoreOK
  BY DEF Init, StoreOK
<1>4. WholeOK
  BY DEF Init, WholeOK, Cleared, Used
<1>5. DrawOK
  BY DEF Init, DrawOK
<1> QED
  BY <1>1, <1>2, <1>3, <1>4, <1>5 DEF IInv

LEMMA AlwaysIInv == Spec => []IInv
<1>1. IInv /\ [Next]_vars => IInv'
  BY StepTypes, StepBeside, StepStore, StepWhole, StepDraw DEF IInv
<1> QED
  BY <1>1, InitIInv, PTL DEF Spec

\* The array, the sample and the draw keep to their types; in particular no sample
\* writes behind PROC_RECORD_MAX (proc_countval_update).
THEOREM TypeCorrect == Spec => []TypeOK
<1>1. IInv => TypeOK
  BY DEF IInv
<1> QED
  BY <1>1, AlwaysIInv, PTL

\* For any number of slots: at most one store falls into a draw (proc_find against
\* moniproc_data_show).
THEOREM AlwaysOneBeside == Spec => []OneBeside
<1>1. IInv => OneBeside
  BY DEF IInv, BesideOK, OneBeside
<1> QED
  BY <1>1, AlwaysIInv, PTL

\* For any regions and number of slots: a draw that no store overlaps shows the merged
\* regions in the order of the sort key, all of them (proc_countvalue_sort,
\* moniproc_resort).
THEOREM AlwaysDrawnInOrder == Spec => []DrawnInOrder
<1>1. IInv => DrawnInOrder
  BY DEF IInv, DrawOK, IsMerged, InOrder, DrawnInOrder
<1> QED
  BY <1>1, AlwaysIInv, PTL

\* For any regions and number of slots: no region is made up while stores and draws
\* keep apart (proc_countval_update, proc_countvalue_sort, moniproc_sortkey).
THEOREM NoneEverMadeUp == Spec => []NoneMadeUp
<1>1. IInv => NoneMadeUp
  BY DEF IInv, WholeOK, NoneMadeUp
<1> QED
  BY <1>1, AlwaysIInv, PTL

-----------------------------------------------------------------------------
(* The map list *)

LEMMA Smallest ==
  ASSUME NEW T, T \subseteq Nat, T # {}
  PROVE  Least(T) \in T /\ \A y \in T : Least(T) <= y
<1>1. PICK x \in T : \A y \in T : <<y, x>> \notin OpToRel(<, Nat)
  BY NatLessThanWellFounded, WFMin, Zenon
<1>2. \A y \in T : ~(y < x)
  BY <1>1 DEF OpToRel
<1>3. \A y \in T : x <= y
  BY <1>2
<1> QED
  BY <1>3 DEF Least

\* A region that shares addresses with a line, neither holding the other, has an end
\* in it; and nothing else is counted.
LEMMA SharesOrNot ==
  ASSUME NEW l \in Lines, NEW r \in Counts, r.start < r.end
  PROVE  Fits(l, r) \/ Meets(l, r) <=> l.lo < r.end /\ r.start < l.hi
BY RecordsConstants DEF Fits, Meets, Counts

LEMMA HitRight ==
  ASSUME TypeOK, \A i \in Used : arr[i] \in Counts /\ arr[i].start < arr[i].end,
         NEW l \in Lines
  PROVE  IF Hit(l) = 0 THEN 0 \in Shares(l) \/ \A n \in Shares(l) : n >= Most
                       ELSE Hit(l) \in Shares(l)
<1> DEFINE fitting == {i \in Used : Fits(l, arr[i])}
           min == Least(Parts(l) \cup {Most})
<1>0. /\ Used \subseteq Nat /\ Most \in Nat
      /\ \A i \in Used : arr[i].acc \in Nat
  BY RecordsConstants DEF TypeOK, Used, Counts
<1>1. Parts(l) \subseteq Shares(l) /\ 0 \notin Parts(l) /\ Shares(l) \subseteq Nat
  BY <1>0, SharesOrNot DEF Parts, Shares
<1>2. CASE fitting # {}
  <2>1. Least(fitting) \in fitting
    BY <1>0, <1>2, Smallest
  <2>2. Hit(l) = arr[Least(fitting)].acc
    BY <1>2 DEF Hit
  <2>3. Hit(l) \in Shares(l)
    BY <2>1, <2>2, SharesOrNot DEF Shares
  <2> QED
    BY <1>1, <2>3
<1>3. CASE fitting = {}
  <2>1. min \in Parts(l) \cup {Most} /\ \A y \in Parts(l) \cup {Most} : min <= y
    BY <1>0, <1>1, Smallest
  <2>2. Hit(l) = IF min = Most THEN 0 ELSE min
    BY <1>3 DEF Hit
  <2>3. CASE min = Most
    <3>1. ASSUME NEW i \in Used, l.lo < arr[i].end, arr[i].start < l.hi
          PROVE  arr[i].acc = 0 \/ arr[i].acc >= Most
      <4>1. Meets(l, arr[i])
        BY <1>3, <3>1, SharesOrNot
      <4> QED
        BY <1>0, <2>1, <2>3, <4>1 DEF Parts
    <3> QED
      BY <2>2, <2>3, <3>1 DEF Shares
  <2>4. CASE min # Most
    <3>1. min \in Shares(l) /\ min # 0 /\ min \in Nat
      BY <1>1, <2>1, <2>4
    <3> HIDE DEF min
    <3> QED
      BY <2>2, <2>4, <3>1
  <2> QED
    BY <2>3, <2>4
<1> QED
  BY <1>2, <1>3

\* For any lines, regions and number of slots: what stands beside a mapping is of a
\* region that it shares addresses with, or 0, while no store has overlapped a draw or
\* none has left a region that ends before it starts (os_maplist_buf_hit).
THEOREM HitAlwaysWithin == Spec => []HitWithin
<1>1. IInv => HitWithin
  <2> SUFFICES ASSUME IInv, ppc # "store",
                      mixed = 0 \/ \A i \in Used : arr[i].start < arr[i].end,
                      NEW l \in Lines
               PROVE  IF Hit(l) = 0 THEN 0 \in Shares(l) \/ \A n \in Shares(l) : n >= Most
                      ELSE Hit(l) \in Shares(l)
    BY DEF HitWithin
  <2>1. Used \subseteq Slot /\ arr \in [Slot -> Counts]
    BY RecordsConstants DEF IInv, TypeOK, Used, Slot
  <2>2. mixed = 0 => \A i \in Used : arr[i] \in Regions
    BY <2>1 DEF IInv, WholeOK
  <2>3. \A i \in Used : arr[i] \in Counts /\ arr[i].start < arr[i].end
    BY <2>1, <2>2, RecordsConstants
  <2> QED
    BY <2>3, HitRight DEF IInv
<1> QED
  BY <1>1, AlwaysIInv, PTL
=============================================================================
