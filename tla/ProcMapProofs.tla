----------------------------- MODULE ProcMapProofs -----------------------------
(***************************************************************************)
(* Theorems on ProcMap, for any pages, attributes and numbers of changes.  *)
(***************************************************************************)
EXTENDS ProcMap, WellFoundedInduction, TLAPS

\* bsearch needs the entries of a map in the order of their addresses, each before
\* the next.
Ordered(arr) ==
  /\ \A i \in DOMAIN arr : arr[i].start < arr[i].end
  /\ \A i, j \in DOMAIN arr : i < j => arr[i].end <= arr[j].start

AllOrdered == Ordered(map.arr)

\* The map being read: it has an array once it has an entry, and its entries are the
\* lines of the part of the file that has been read.
Reading ==
  /\ ~new.loaded /\ (new.ptr <=> new.arr # <<>>) /\ (~new.ptr => new.max = 0)
  /\ \A i \in DOMAIN new.arr : new.arr[i].end <= cursor
  /\ Ordered(new.arr)
  /\ \A p \in kept : p < cursor => p \in Covered(new.arr)
  /\ CoveredAs(new.arr) \subseteq ever

\* What the kernel still has to write is all of what was mapped when it opened the
\* file and is mapped now.
Tracked ==
  /\ pc = "read" => kept \subseteq Mapped(mem) /\ MappedAs(mem) \subseteq ever
  /\ pc # "read" => new = Zero /\ kept = {}

IInv ==
  /\ TypeOK /\ NoLeak /\ AllOrdered /\ Reading /\ Tracked
  /\ ~map.loaded => ~map.ptr

-----------------------------------------------------------------------------
(* The lines the kernel writes *)

LEMMA Smallest ==
  ASSUME NEW T, T \subseteq Nat, T # {}
  PROVE  \E x \in T : \A y \in T : x <= y
<1>1. PICK x \in T : \A y \in T : <<y, x>> \notin OpToRel(<, Nat)
  BY NatLessThanWellFounded, WFMin, Zenon
<1>2. \A y \in T : ~(y < x)
  BY <1>1 DEF OpToRel
<1> QED
  BY <1>2

\* There is a next line while a page is mapped ahead of the cursor.
LEMMA LineAhead ==
  ASSUME TypeOK, NEW q \in Pages, q >= cursor, mem[q] # NoAttr
  PROVE  Runs(cursor) # {}
<1> DEFINE Ahead == {p \in Pages : p >= cursor /\ mem[p] # NoAttr}
<1>1. Ahead \subseteq Nat /\ q \in Ahead
  BY MapConstants DEF Pages
<1>2. PICK s \in Ahead : \A p \in Ahead : s <= p
  BY <1>1, Smallest, Zenon
<1> DEFINE Ends == {n \in 1..(MaxPage + 1) :
                     n > s /\ (n = MaxPage + 1 \/ mem[n] # mem[s])}
<1>3. Ends \subseteq Nat /\ MaxPage + 1 \in Ends
  BY MapConstants, <1>2 DEF Pages
<1>4. PICK n \in Ends : \A m \in Ends : n <= m
  BY <1>3, Smallest, Zenon
<1> DEFINE e == [start |-> s, end |-> n, attr |-> mem[s]]
<1>5. e \in Entry
  BY <1>2, <1>4 DEF Entry, TypeOK
<1>6. \A p \in s..(n - 1) : mem[p] = mem[s]
  <2> SUFFICES ASSUME NEW p \in s..(n - 1), mem[p] # mem[s] PROVE FALSE
    OBVIOUS
  <2>1. p # s /\ p \in 1..(MaxPage + 1) /\ p > s
    BY <1>2, <1>4, MapConstants DEF Pages
  <2>2. p \in Ends
    BY <2>1
  <2> QED
    BY <2>2, <1>4, <2>1, MapConstants
<1>7. \A p \in cursor..(s - 1) : mem[p] = NoAttr
  BY <1>2, MapConstants DEF Pages, TypeOK
<1>8. e \in Runs(cursor)
  BY <1>2, <1>4, <1>5, <1>6, <1>7 DEF Runs
<1> QED
  BY <1>8

-----------------------------------------------------------------------------
(* One more entry *)

LEMMA AddedEntry ==
  ASSUME NEW m \in MapT, NEW e \in Entry
  PROVE  /\ Added(m, e) \in MapT
         /\ Added(m, e).arr = Append(m.arr, e)
         /\ Added(m, e).ptr = m.ptr /\ Added(m, e).max = m.max
         /\ Added(m, e).loaded = m.loaded
BY DEF Added, MapT

LEMMA AppendedEntry ==
  ASSUME NEW arr \in Seq(Entry), NEW e \in Entry
  PROVE  /\ Append(arr, e) # <<>> /\ Len(Append(arr, e)) = Len(arr) + 1
         /\ DOMAIN Append(arr, e) = DOMAIN arr \cup {Len(arr) + 1}
         /\ \A i \in DOMAIN arr : Append(arr, e)[i] = arr[i]
         /\ Append(arr, e)[Len(arr) + 1] = e
OBVIOUS

LEMMA GrownMap ==
  ASSUME NEW m \in MapT, Len(m.arr) <= m.max, m.ptr <=> m.arr # <<>>
  PROVE  LET g == Grown(m)
         IN /\ g \in MapT /\ g.arr = m.arr /\ g.loaded = m.loaded
            /\ Len(g.arr) < g.max
            /\ Full(m) => g.ptr
            /\ ~Full(m) => g = m
<1>1. m.ptr => Len(m.arr) > 0
  BY DEF MapT
<1>2. ~m.ptr => Len(m.arr) = 0
  BY DEF MapT
<1>3. CASE ~Full(m)
  BY <1>3 DEF Grown, Full, MapT
<1>4. CASE Full(m)
  <2>1. Grown(m).ptr = TRUE /\ Grown(m).arr = m.arr /\ Grown(m).loaded = m.loaded
    BY <1>4 DEF Grown, MapT
  <2>2. m.ptr => Grown(m).max = 2 * m.max
    BY <1>4 DEF Grown, MapT
  <2>3. ~m.ptr => Grown(m).max = EntryNum
    BY <1>4 DEF Grown, MapT
  <2>4. Grown(m).max \in Nat /\ Len(m.arr) < Grown(m).max
    BY <1>1, <1>2, <1>4, <2>2, <2>3, MapConstants DEF Full, MapT
  <2>5. Grown(m) = [ptr |-> TRUE, arr |-> m.arr, max |-> Grown(m).max, loaded |-> m.loaded]
    BY <1>4 DEF Grown, MapT
  <2>6. Grown(m) \in MapT
    <3>1. \A x \in Nat :
            [ptr |-> TRUE, arr |-> m.arr, max |-> x, loaded |-> m.loaded] \in MapT
      BY DEF MapT
    <3> QED
      BY <2>4, <2>5, <3>1, Zenon
  <2> QED
    BY <1>4, <2>1, <2>4, <2>6
<1> QED
  BY <1>3, <1>4

LEMMA ZeroMap ==
  /\ Zero \in MapT /\ Zero.arr = <<>> /\ Len(Zero.arr) <= Zero.max
  /\ ~Zero.ptr /\ ~Zero.loaded /\ Zero.max = 0
BY DEF Zero, MapT

-----------------------------------------------------------------------------
LEMMA InitInv == Init => IInv
<1> SUFFICES ASSUME Init PROVE IInv
  OBVIOUS
<1> USE ZeroMap DEF Init
<1>1. TypeOK
  <2>1. alive \in BOOLEAN
    BY Zenon
  <2> QED
    BY <2>1, MapConstants DEF TypeOK
<1>2. NoLeak /\ AllOrdered
  BY DEF NoLeak, Held, AllOrdered, Ordered
<1>3. Reading
  BY DEF Reading, Ordered, CoveredAs
<1>4. Tracked
  BY DEF Tracked
<1> QED
  BY <1>1, <1>2, <1>3, <1>4 DEF IInv

\* A change of the process takes pages out of kept and adds to ever.
LEMMA BecomeInv ==
  ASSUME IInv, NEW m \in [Pages -> Attrs \cup {NoAttr}], Become(m),
         UNCHANGED <<map, new, cursor, pc, blocks>>, alive' \in BOOLEAN, ops' \in 0..MaxOps
  PROVE  IInv'
<1> USE DEF IInv, Become
<1>1. kept' \subseteq kept /\ ever \subseteq ever'
  OBVIOUS
<1>2. TypeOK'
  <2>1. MappedAs(m) \subseteq Pages \X Attrs
    BY DEF MappedAs
  <2>2. ever' \subseteq Pages \X Attrs
    BY <2>1 DEF TypeOK
  <2>3. kept' \subseteq Pages
    BY <1>1 DEF TypeOK
  <2> QED
    BY <2>2, <2>3 DEF TypeOK
<1>3. NoLeak' /\ AllOrdered'
  BY DEF NoLeak, Held, AllOrdered, Ordered
<1>4. Reading'
  <2>1. CoveredAs(new'.arr) = CoveredAs(new.arr) /\ Covered(new'.arr) = Covered(new.arr)
    BY DEF CoveredAs, Covered
  <2> QED
    BY <1>1, <2>1 DEF Reading, Ordered
<1>5. Tracked'
  BY DEF Tracked, Mapped, MappedAs
<1> QED
  BY <1>2, <1>3, <1>4, <1>5

LEMMA KernelInv == IInv /\ Kernel => IInv'
<1> SUFFICES ASSUME IInv, Kernel PROVE IInv'
  OBVIOUS
<1>1. CASE Change
  <2>1. PICK lo \in Pages, hi \in Pages, a \in Attrs \cup {NoAttr} :
          Become([p \in Pages |-> IF p \in lo..hi THEN a ELSE mem[p]])
    BY <1>1 DEF Change
  <2>2. [p \in Pages |-> IF p \in lo..hi THEN a ELSE mem[p]] \in [Pages -> Attrs \cup {NoAttr}]
    BY DEF IInv, TypeOK
  <2>3. ops' \in 0..MaxOps
    BY <1>1, MapConstants DEF Change, IInv, TypeOK
  <2>4. UNCHANGED <<map, new, cursor, pc, blocks>> /\ alive' \in BOOLEAN
    BY <1>1 DEF Change, IInv, TypeOK
  <2> QED
    BY <2>1, <2>2, <2>3, <2>4, BecomeInv
<1>2. CASE Exit
  <2>1. [p \in Pages |-> NoAttr] \in [Pages -> Attrs \cup {NoAttr}]
    OBVIOUS
  <2>2. ops' \in 0..MaxOps /\ UNCHANGED <<map, new, cursor, pc, blocks>>
    BY <1>2 DEF Exit, IInv, TypeOK
  <2>3. alive' \in BOOLEAN
    BY <1>2, Zenon DEF Exit
  <2>4. Become([p \in Pages |-> NoAttr])
    BY <1>2 DEF Exit
  <2> QED
    BY <2>1, <2>2, <2>3, <2>4, BecomeInv
<1> QED
  BY <1>1, <1>2 DEF Kernel

-----------------------------------------------------------------------------
(* The loads *)

\* A map read_map may return: one with no array unless it is good, in order.
Returned(m) ==
  /\ m \in MapT /\ Len(m.arr) <= m.max /\ Ordered(m.arr)
  /\ ~m.loaded => ~m.ptr

LEMMA ReturnInv ==
  ASSUME IInv, NEW m, NEW n, Returned(m), Return(m, n), UNCHANGED kernelVars,
         pc = "read", n = Held(map) + Held(m)
  PROVE  IInv'
<1> USE ZeroMap DEF Return, Returned
<1>1. TypeOK'
  <2>1. map' \in MapT /\ Len(map'.arr) <= map'.max
    BY DEF IInv, TypeOK
  <2>2. new' \in MapT /\ Len(new'.arr) <= new'.max /\ cursor' \in 0..(MaxPage + 1)
    BY MapConstants
  <2>3. blocks' \in Int
    BY DEF Held
  <2>4. mem' \in [Pages -> Attrs \cup {NoAttr}] /\ alive' \in BOOLEAN /\ ops' \in 0..MaxOps
    BY DEF IInv, TypeOK, kernelVars
  <2> QED
    BY <2>1, <2>2, <2>3, <2>4 DEF TypeOK
<1>2. ~map.loaded => Held(map) = 0
  BY DEF IInv, Held
<1>3. NoLeak'
  BY <1>2 DEF NoLeak, Held
<1>4. AllOrdered' /\ (~map'.loaded => ~map'.ptr)
  BY DEF IInv, AllOrdered
<1>5. Reading' /\ Tracked'
  BY DEF Reading, Tracked, Ordered, Covered, CoveredAs
<1> QED
  BY <1>1, <1>3, <1>4, <1>5 DEF IInv

LEMMA StartInv == IInv /\ Start => IInv'
<1> SUFFICES ASSUME IInv, Start PROVE IInv'
  OBVIOUS
<1> USE ZeroMap DEF Start
<1>1. map' = Target /\ Target \in MapT /\ Len(Target.arr) <= Target.max /\ Ordered(Target.arr)
      /\ (~Target.loaded => ~Target.ptr) /\ Held(Target) = Held(map)
  BY DEF IInv, TypeOK, AllOrdered, Target, Ordered, Held
<1>2. new = Zero /\ kept = {} /\ new' = Zero
  BY DEF IInv, Tracked
<1>3. NoLeak' /\ AllOrdered' /\ (~map'.loaded => ~map'.ptr)
  BY <1>1, <1>2 DEF IInv, NoLeak, AllOrdered, Held
<1>4. TypeOK'
  <2>1. kept' \subseteq Pages /\ ever' \subseteq Pages \X Attrs
    BY DEF IInv, TypeOK, Mapped, MappedAs
  <2> QED
    BY <1>1, <1>2, <2>1, MapConstants DEF IInv, TypeOK, kernelVars
<1>5. Reading'
  <2>1. cursor' = 0 \/ kept' = {}
    BY <1>2
  <2>2. \A p \in kept' : ~(p < 0)
    BY <1>4, MapConstants DEF TypeOK, Pages
  <2> QED
    BY <1>2, <2>1, <2>2 DEF Reading, Ordered, CoveredAs
<1>6. Tracked'
  BY <1>2 DEF IInv, Tracked, kernelVars
<1> QED
  BY <1>3, <1>4, <1>5, <1>6 DEF IInv

LEMMA ReadLineInv ==
  ASSUME IInv, pc = "read", NEW e \in Runs(cursor),
         new' = Added(Grown(new), e), blocks' = blocks - Held(new) + Held(Grown(new)),
         cursor' = e.end, UNCHANGED <<map, pc, kept, ever>>, UNCHANGED kernelVars
  PROVE  IInv'
<1> DEFINE g == Grown(new)
           a == new'.arr
           k == Len(new.arr) + 1
<1>1. /\ g \in MapT /\ g.arr = new.arr /\ ~g.loaded /\ Len(new.arr) < g.max /\ g.ptr
  <2>1. ~Full(new) => new.ptr
    BY GrownMap, ZeroMap DEF IInv, TypeOK, Reading, Full, MapT
  <2> QED
    BY <2>1, GrownMap DEF IInv, TypeOK, Reading
<1>2. e \in Entry /\ cursor <= e.start /\ e.start < e.end
  BY DEF Runs
<1>3. /\ new' \in MapT /\ a # <<>> /\ Len(a) = k /\ new'.ptr = g.ptr /\ new'.max = g.max
      /\ new'.loaded = g.loaded
      /\ DOMAIN a = DOMAIN new.arr \cup {k} /\ a[k] = e
      /\ \A i \in DOMAIN new.arr : a[i] = new.arr[i]
  <2>1. new' = Added(g, e)
    OBVIOUS
  <2> HIDE DEF g
  <2>0. /\ Added(g, e) \in MapT /\ Added(g, e).ptr = g.ptr
        /\ Added(g, e).max = g.max /\ Added(g, e).loaded = g.loaded
    BY <1>1, <1>2, AddedEntry, Zenon
  <2>2. new' \in MapT /\ new'.ptr = g.ptr /\ new'.max = g.max /\ new'.loaded = g.loaded
    BY <2>0, <2>1, Zenon
  <2>3. Added(g, e).arr = Append(g.arr, e) /\ g.arr = new.arr
    BY <1>1, <1>2, AddedEntry
  <2>4. a = Append(new.arr, e)
    BY <2>1, <2>3, Zenon
  <2>5. new.arr \in Seq(Entry)
    BY DEF IInv, TypeOK, MapT
  <2> HIDE DEF a
  <2> QED
    BY <1>2, <2>2, <2>4, <2>5, AppendedEntry
<1>4. DOMAIN new.arr = 1..Len(new.arr) /\ Len(new.arr) \in Nat
  BY DEF IInv, TypeOK, MapT
<1>5. \A i \in DOMAIN new.arr : new.arr[i] \in Entry
  BY DEF IInv, TypeOK, MapT
<1>6. cursor \in Int /\ e.start \in Int /\ e.end \in Int /\ cursor' \in 0..(MaxPage + 1)
  BY <1>2, MapConstants DEF IInv, TypeOK, Entry, Pages
<1>7. NoLeak'
  <2>1. Held(new') = Held(g)
    BY <1>3 DEF Held
  <2>2. Held(g) \in Int /\ Held(map) \in Int /\ Held(new) \in Int
    BY DEF Held
  <2> HIDE DEF g
  <2> QED
    BY <2>1, <2>2 DEF IInv, NoLeak, g
<1> HIDE DEF g, a
<1>8. TypeOK'
  <2>1. Len(new'.arr) <= new'.max
    BY <1>1, <1>3, <1>4 DEF a, MapT
  <2>2. blocks' \in Int
    BY DEF IInv, TypeOK, Held
  <2> QED
    BY <1>3, <1>6, <2>1, <2>2 DEF IInv, TypeOK, kernelVars
<1>9. Ordered(a) /\ \A i \in DOMAIN a : a[i].end <= cursor'
  <2>1. \A i \in DOMAIN new.arr : new.arr[i].end <= cursor /\ new.arr[i].end \in Int
    BY <1>5 DEF IInv, Reading, Entry
  <2>2. \A i \in DOMAIN a : i = k \/ (i \in DOMAIN new.arr /\ i < k /\ a[i] = new.arr[i])
    BY <1>3, <1>4
  <2>3. \A i \in DOMAIN a : a[i].start < a[i].end /\ a[i].end <= cursor'
    BY <1>2, <1>3, <1>6, <2>1, <2>2 DEF IInv, Reading, Ordered
  <2>4. ASSUME NEW i \in DOMAIN a, NEW j \in DOMAIN a, i < j
        PROVE  a[i].end <= a[j].start
    <3>1. i \in DOMAIN new.arr /\ a[i] = new.arr[i]
      BY <2>2, <2>4, <1>3, <1>4
    <3>2. CASE j = k
      BY <3>1, <3>2, <2>1, <1>2, <1>3, <1>6
    <3>3. CASE j # k
      BY <3>1, <3>3, <2>2, <2>4 DEF IInv, Reading, Ordered
    <3> QED
      BY <3>2, <3>3
  <2> QED
    BY <2>3, <2>4 DEF Ordered
<1>10. \A p \in kept' : p < cursor' => p \in Covered(a)
  <2> SUFFICES ASSUME NEW p \in kept, p < e.end PROVE p \in Covered(a)
    OBVIOUS
  <2>1. p \in Pages /\ p \in Int /\ mem[p] # NoAttr
    BY MapConstants DEF IInv, TypeOK, Tracked, Mapped, Pages
  <2>2. CASE p < cursor
    BY <2>1, <2>2, <1>3 DEF IInv, Reading, Covered
  <2>3. CASE p >= cursor
    <3>1. ~(p \in cursor..(e.start - 1))
      BY <2>1 DEF Runs
    <3>2. e.start <= p
      BY <2>1, <2>3, <3>1, <1>6
    <3>3. k \in DOMAIN a
      BY <1>3
    <3> QED
      BY <2>1, <3>2, <3>3, <1>3 DEF Covered
  <2> QED
    BY <2>1, <2>2, <2>3, <1>6
<1>11. CoveredAs(a) \subseteq ever
  <2> SUFFICES ASSUME NEW pa \in CoveredAs(a) PROVE pa \in ever
    OBVIOUS
  <2>1. pa \in Pages \X Attrs /\ pa[1] \in Int
    BY MapConstants DEF CoveredAs, Pages
  <2>2. PICK i \in DOMAIN a : a[i].start <= pa[1] /\ pa[1] < a[i].end /\ a[i].attr = pa[2]
    BY DEF CoveredAs
  <2>3. CASE i = k
    <3>1. pa[1] \in e.start..(e.end - 1) /\ e.attr = pa[2]
      BY <2>1, <2>2, <2>3, <1>3, <1>6
    <3>2. pa \in MappedAs(mem)
      BY <2>1, <3>1 DEF Runs, MappedAs
    <3> QED
      BY <3>2 DEF IInv, Tracked
  <2>4. CASE i # k
    BY <2>1, <2>2, <2>4, <1>3 DEF IInv, Reading, CoveredAs
  <2> QED
    BY <2>3, <2>4
<1>12. Reading'
  BY <1>1, <1>3, <1>9, <1>10, <1>11 DEF Reading, a
<1>13. Tracked' /\ AllOrdered' /\ (~map'.loaded => ~map'.ptr)
  BY DEF IInv, Tracked, AllOrdered, kernelVars
<1> QED
  BY <1>7, <1>8, <1>12, <1>13 DEF IInv

\* What each way out of map_read gives back is a map it may return.
LEMMA NoMemoryReturns ==
  ASSUME IInv, pc = "read", NEW m, m = Discard([new EXCEPT !.ptr = FALSE])
  PROVE  Returned(m) /\ blocks - Held(new) = Held(map) + Held(m) /\ ~m.loaded
<1> DEFINE f == [new EXCEPT !.ptr = FALSE]
<1>1. f.ptr = FALSE /\ f.arr = new.arr /\ f.max = new.max /\ f.loaded = new.loaded
  BY DEF IInv, TypeOK, MapT
<1>2. f \in MapT
  BY Zenon DEF IInv, TypeOK, MapT
<1>3. m = f
  BY <1>1 DEF Discard, MapFree
<1> HIDE DEF f
<1> QED
  BY <1>1, <1>2, <1>3 DEF Returned, Held, IInv, TypeOK, NoLeak, Reading

LEMMA GarbledReturns ==
  ASSUME IInv, NEW m, m = Discard(new)
  PROVE  Returned(m) /\ blocks - Held(new) + Held(m) = Held(map) + Held(m) /\ ~m.loaded
<1>1. m = Zero \/ (m = new /\ ~new.ptr)
  BY DEF IInv, Reading, Discard, MapFree
<1>2. Returned(m) /\ ~m.loaded
  BY <1>1, ZeroMap DEF Returned, Ordered, IInv, TypeOK, Reading
<1>3. Held(m) \in Int /\ Held(new) \in Int /\ Held(map) \in Int
  BY DEF Held
<1> QED
  BY <1>2, <1>3 DEF IInv, NoLeak

LEMMA FinishReturns ==
  ASSUME IInv, NEW m, m = [new EXCEPT !.loaded = new.arr # <<>>]
  PROVE  Returned(m) /\ blocks = Held(map) + Held(m)
<1>1. m.ptr = new.ptr /\ m.arr = new.arr /\ m.max = new.max /\ m.loaded = (new.arr # <<>>)
  BY DEF IInv, TypeOK, MapT
<1>2. m \in MapT
  <2>1. \A x \in BOOLEAN : [new EXCEPT !.loaded = x] \in MapT
    BY DEF IInv, TypeOK, MapT
  <2>2. (new.arr # <<>>) \in BOOLEAN
    BY Zenon
  <2> QED
    BY <2>1, <2>2, Zenon
<1> QED
  BY <1>1, <1>2 DEF Returned, Held, IInv, TypeOK, NoLeak, Reading

LEMMA FiniInv == IInv /\ MapFini => IInv'
<1> SUFFICES ASSUME IInv, MapFini PROVE IInv'
  OBVIOUS
<1>1. map' = Zero \/ (map' = map /\ ~map.ptr)
  BY DEF MapFini, MapFree
<1>2. /\ map' \in MapT /\ Len(map'.arr) <= map'.max /\ Ordered(map'.arr)
      /\ ~map'.ptr
  BY <1>1, ZeroMap DEF IInv, TypeOK, AllOrdered, Ordered
<1>3. new = Zero /\ kept = {}
  BY DEF MapFini, IInv, Tracked
<1>4. NoLeak'
  BY <1>2, <1>3 DEF MapFini, IInv, NoLeak, Held
<1>5. TypeOK'
  BY <1>2, ZeroMap DEF MapFini, IInv, TypeOK, Held, kernelVars
<1>6. Reading' /\ Tracked'
  BY <1>3 DEF MapFini, IInv, Reading, Tracked, Covered, CoveredAs, Ordered, kernelVars
<1> QED
  BY <1>2, <1>4, <1>5, <1>6 DEF IInv, AllOrdered

LEMMA StepInv == IInv /\ [Next]_vars => IInv'
<1> SUFFICES ASSUME IInv, [Next]_vars PROVE IInv'
  OBVIOUS
<1>1. CASE Kernel
  BY <1>1, KernelInv
<1>2. CASE Start
  BY <1>2, StartInv
<1>3. CASE ReadLine
  <2>1. pc = "read" /\ UNCHANGED kernelVars
    BY <1>3 DEF ReadLine
  <2>2. CASE NoMemory
    BY <2>1, <2>2, NoMemoryReturns, ReturnInv DEF NoMemory
  <2>3. CASE ~NoMemory
    <3>1. PICK e \in Runs(cursor) :
            /\ new' = Added(Grown(new), e)
            /\ blocks' = blocks - Held(new) + Held(Grown(new))
            /\ cursor' = e.end
            /\ UNCHANGED <<map, pc, kept, ever>>
      BY <1>3, <2>3 DEF ReadLine
    <3> QED
      BY <2>1, <3>1, ReadLineInv
  <2> QED
    BY <2>2, <2>3
<1>4. CASE Finish
  BY <1>4, FinishReturns, ReturnInv DEF Finish
<1>5. CASE Garbled
  BY <1>5, GarbledReturns, ReturnInv DEF Garbled
<1>6. CASE MapFini
  BY <1>6, FiniInv
<1>7. CASE UNCHANGED vars
  BY <1>7 DEF vars, kernelVars, IInv, TypeOK, NoLeak, AllOrdered, Reading, Tracked, Ordered,
              Held, Covered, CoveredAs, Mapped, MappedAs
<1> QED
  BY <1>1, <1>2, <1>3, <1>4, <1>5, <1>6, <1>7 DEF Next, Load, Terminated

LEMMA AlwaysIInv == Spec => []IInv
<1> QED
  BY InitInv, StepInv, PTL DEF Spec

-----------------------------------------------------------------------------
\* The maps keep to their types, and an array holds no more entries than it has room
\* for (map_entry_add, array_alloc).
THEOREM TypeCorrect == Spec => []TypeOK
<1>1. IInv => TypeOK
  BY DEF IInv
<1> QED
  BY <1>1, AlwaysIInv, PTL

\* Whatever fails, every array that was allocated is in use (map_read, map_free).
THEOREM NeverLeaks == Spec => []NoLeak
<1>1. IInv => NoLeak
  BY DEF IInv
<1> QED
  BY <1>1, AlwaysIInv, PTL

\* The entries of a map are in order and apart, which is what bsearch relies on,
\* although the process changes its mappings between two lines (map_read).
THEOREM AlwaysOrdered == Spec => []AllOrdered
<1>1. IInv => AllOrdered
  BY DEF IInv
<1> QED
  BY <1>1, AlwaysIInv, PTL

\* One step loads, and replaces, a map as Faithful says.
LEMMA StepFaithful ==
  ASSUME IInv, Next, map' # map, pc' # "gone", map.loaded \/ map'.loaded
  PROVE  /\ map'.loaded
         /\ kept \subseteq Covered(map'.arr)
         /\ CoveredAs(map'.arr) \subseteq ever
<1>1. CASE Finish
  <2> DEFINE m == [new EXCEPT !.loaded = new.arr # <<>>]
  <2>1. m.arr = new.arr /\ Return(m, blocks)
    BY <1>1 DEF Finish, IInv, TypeOK, MapT
  <2> HIDE DEF m
  <2>2. m.loaded /\ map' = m
    BY <2>1 DEF Return
  <2>3. kept \subseteq Covered(new.arr)
    <3> SUFFICES ASSUME NEW p \in kept PROVE p \in Covered(new.arr)
      OBVIOUS
    <3>1. p \in Pages /\ mem[p] # NoAttr
      BY <1>1 DEF Finish, IInv, TypeOK, Tracked, Mapped
    <3>2. ~(p >= cursor)
      BY <1>1, <3>1, LineAhead DEF Finish, IInv
    <3>3. p < cursor
      BY <3>1, <3>2, MapConstants DEF IInv, TypeOK, Pages
    <3> QED
      BY <3>3 DEF IInv, Reading
  <2> QED
    BY <2>1, <2>2, <2>3 DEF IInv, Reading
<1>2. CASE ReadLine
  <2>1. NoMemory /\ pc = "read"
    BY <1>2 DEF ReadLine
  <2>2. \A m, n : Return(m, n) /\ ~m.loaded => map' = map \/ (~map.loaded /\ ~map'.loaded)
    BY DEF Return
  <2> QED
    BY <2>1, <2>2, NoMemoryReturns DEF NoMemory
<1>3. CASE Garbled
  <2>1. \A m, n : Return(m, n) /\ ~m.loaded => map' = map \/ (~map.loaded /\ ~map'.loaded)
    BY DEF Return
  <2> QED
    BY <1>3, <2>1, GarbledReturns DEF Garbled
<1>4. CASE Start
  BY <1>4, ZeroMap DEF Start, Target
<1>5. CASE Kernel \/ MapFini \/ Terminated
  BY <1>5 DEF Kernel, Change, Exit, MapFini, Terminated, vars
<1> QED
  BY <1>1, <1>2, <1>3, <1>4, <1>5 DEF Next, Load

\* For any process and any failures: a map is only ever loaded, and a loaded one
\* replaced, by the whole of a good read (map_proc_load).
THEOREM AlwaysFaithful == Spec => Faithful
<1>1. IInv /\ [Next]_vars =>
        [(map' # map /\ pc' # "gone" /\ (map.loaded \/ map'.loaded)) =>
           /\ map'.loaded
           /\ kept \subseteq Covered(map'.arr)
           /\ CoveredAs(map'.arr) \subseteq ever]_vars
  BY StepFaithful
<1> QED
  BY <1>1, AlwaysIInv, PTL DEF Spec, Faithful

-----------------------------------------------------------------------------
(* The search: what bsearch returns on entries in order *)

Within(addr, e) == e.start <= addr /\ addr < e.end

Ranges(arr) == (0..Len(arr)) \X (0..Len(arr))

\* What defines the probes of bsearch.
Halved(f, addr, arr, l, u) ==
  LET i == (l + u) \div 2
  IN IF l >= u THEN 0
     ELSE CASE Compare(addr, arr[i + 1]) = -1 -> f[<<l, i>>]
            [] Compare(addr, arr[i + 1]) = 1 -> f[<<i + 1, u>>]
            [] OTHER -> i + 1
Probes(f, addr, arr) == f = [r \in Ranges(arr) |-> Halved(f, addr, arr, r[1], r[2])]

\* What they come to: the entry the address is in.
Hits(arr, addr, l, u) == {k \in DOMAIN arr : l < k /\ k <= u /\ Within(addr, arr[k])}
Found(addr, arr) ==
  [r \in Ranges(arr) |->
     IF Hits(arr, addr, r[1], r[2]) = {} THEN 0
     ELSE CHOOSE k \in DOMAIN arr : Within(addr, arr[k])]

Searchable(arr) == arr \in Seq(Entry) /\ Ordered(arr)

LEMMA EntryIs ==
  ASSUME NEW arr, Searchable(arr)
  PROVE  /\ Len(arr) \in Nat /\ DOMAIN arr = 1..Len(arr)
         /\ \A k \in DOMAIN arr : arr[k].start \in Int /\ arr[k].end \in Int
         /\ \A i, j \in DOMAIN arr : i < j => arr[i].end <= arr[j].start
         /\ \A i \in DOMAIN arr : arr[i].start < arr[i].end
<1>1. \A k \in DOMAIN arr : arr[k] \in Entry
  BY DEF Searchable
<1>2. \A e \in Entry : e.start \in Int /\ e.end \in Int
  BY MapConstants DEF Entry, Pages
<1> QED
  BY <1>1, <1>2 DEF Searchable, Ordered

LEMMA CompareIs ==
  ASSUME NEW addr \in Int, NEW e, e.start \in Int, e.end \in Int, e.start < e.end
  PROVE  /\ Compare(addr, e) = -1 <=> addr < e.start
         /\ Compare(addr, e) = 1 <=> addr >= e.end
         /\ Compare(addr, e) \notin {-1, 1} <=> Within(addr, e)
<1>1. CASE addr < e.start
  BY <1>1 DEF Compare, Within
<1>2. CASE addr >= e.end
  BY <1>2 DEF Compare, Within
<1>3. CASE ~(addr < e.start) /\ ~(addr >= e.end)
  BY <1>3 DEF Compare, Within
<1> QED
  BY <1>1, <1>2, <1>3

\* An address is in one entry at most.
LEMMA WithinOne ==
  ASSUME NEW arr, Searchable(arr), NEW addr \in Int, NEW i \in DOMAIN arr, NEW j \in DOMAIN arr,
         Within(addr, arr[i]), Within(addr, arr[j])
  PROVE  i = j
BY EntryIs DEF Within

LEMMA FoundIs ==
  ASSUME NEW arr, Searchable(arr), NEW addr \in Int, NEW l \in 0..Len(arr), NEW u \in 0..Len(arr)
  PROVE  /\ Hits(arr, addr, l, u) = {} => Found(addr, arr)[<<l, u>>] = 0
         /\ \A k \in Hits(arr, addr, l, u) : Found(addr, arr)[<<l, u>>] = k
<1>1. <<l, u>> \in Ranges(arr) /\ <<l, u>>[1] = l /\ <<l, u>>[2] = u
  BY DEF Ranges
<1>2. Found(addr, arr)[<<l, u>>] =
        IF Hits(arr, addr, l, u) = {} THEN 0 ELSE CHOOSE k \in DOMAIN arr : Within(addr, arr[k])
  BY <1>1 DEF Found
<1>3. ASSUME NEW k \in Hits(arr, addr, l, u)
      PROVE  (CHOOSE j \in DOMAIN arr : Within(addr, arr[j])) = k
  BY WithinOne DEF Hits
<1> QED
  BY <1>2, <1>3

LEMMA FoundProbes ==
  ASSUME NEW arr, Searchable(arr), NEW addr \in Int PROVE Probes(Found(addr, arr), addr, arr)
<1> DEFINE f == Found(addr, arr)
           L == Len(arr)
<1>0. L \in Nat /\ DOMAIN arr = 1..L
  BY EntryIs
<1>1. ASSUME NEW l \in 0..L, NEW u \in 0..L
      PROVE  f[<<l, u>>] = Halved(f, addr, arr, l, u)
  <2> DEFINE i == (l + u) \div 2
  <2>1. CASE l >= u
    <3>1. Hits(arr, addr, l, u) = {}
      BY <1>0, <2>1 DEF Hits
    <3> QED
      BY <2>1, <3>1, FoundIs DEF Halved
  <2>2. CASE l < u
    <3>1. i \in 0..L /\ i + 1 \in 0..L /\ i + 1 \in DOMAIN arr /\ l <= i /\ i < u /\ i \in Int
      BY <1>0, <2>2
    <3> HIDE DEF i, Halved
    <3> DEFINE e == arr[i + 1]
    <3>2. e.start \in Int /\ e.end \in Int /\ e.start < e.end
      BY <3>1, EntryIs
    <3>3. \A k \in DOMAIN arr : (k < i + 1 => arr[k].end <= e.start)
                                /\ (i + 1 < k => e.end <= arr[k].start)
      BY <3>1, EntryIs
    <3>4. CASE addr < e.start
      <4>1. Hits(arr, addr, l, u) = Hits(arr, addr, l, i)
        <5>1. \A k \in DOMAIN arr : Within(addr, arr[k]) => k <= i
          <6> TAKE k \in DOMAIN arr
          <6>1. arr[k].start \in Int /\ arr[k].end \in Int /\ k \in Int
            BY <1>0, EntryIs
          <6> QED
            BY <3>1, <3>2, <3>3, <3>4, <6>1 DEF Within
        <5>2. DOMAIN arr \subseteq Int
          BY <1>0
        <5> QED
          BY <3>1, <5>1, <5>2 DEF Hits
      <4>2. f[<<l, u>>] = f[<<l, i>>]
        BY <3>1, <4>1, FoundIs
      <4>3. Compare(addr, e) = -1
        BY <3>2, <3>4, CompareIs
      <4> QED
        BY <2>2, <4>2, <4>3 DEF i, Halved
    <3>5. CASE addr >= e.end
      <4>1. Hits(arr, addr, l, u) = Hits(arr, addr, i + 1, u)
        <5>1. \A k \in DOMAIN arr : Within(addr, arr[k]) => i + 1 < k
          <6> TAKE k \in DOMAIN arr
          <6>1. arr[k].start \in Int /\ arr[k].end \in Int /\ k \in Int
            BY <1>0, EntryIs
          <6> QED
            BY <3>1, <3>2, <3>3, <3>5, <6>1 DEF Within
        <5>2. DOMAIN arr \subseteq Int
          BY <1>0
        <5> QED
          BY <3>1, <5>1, <5>2 DEF Hits
      <4>2. f[<<l, u>>] = f[<<i + 1, u>>]
        BY <3>1, <4>1, FoundIs
      <4>3. Compare(addr, e) = 1
        BY <3>2, <3>5, CompareIs
      <4> QED
        BY <2>2, <4>2, <4>3 DEF i, Halved
    <3>6. CASE ~(addr < e.start) /\ ~(addr >= e.end)
      <4>1. i + 1 \in Hits(arr, addr, l, u)
        BY <3>1, <3>2, <3>6 DEF Hits, Within
      <4>2. f[<<l, u>>] = i + 1
        BY <4>1, FoundIs
      <4>3. Compare(addr, e) # -1 /\ Compare(addr, e) # 1
        BY <3>2, <3>6, CompareIs
      <4> QED
        BY <2>2, <4>2, <4>3 DEF i, Halved
    <3> QED
      BY <3>4, <3>5, <3>6
  <2> QED
    BY <1>0, <2>1, <2>2
<1>2. \A r \in Ranges(arr) : r[1] \in 0..L /\ r[2] \in 0..L /\ r = <<r[1], r[2]>>
  BY DEF Ranges
<1>3. \A r \in Ranges(arr) : f[r] = Halved(f, addr, arr, r[1], r[2])
  BY <1>1, <1>2
<1>4. f = [r \in Ranges(arr) |-> f[r]]
  BY DEF Found
<1> HIDE DEF f
<1> QED
  BY <1>3, <1>4, Zenon DEF Probes, f

\* The probes of each part of the array are determined by those of smaller parts.
LEMMA ProbesOnce ==
  ASSUME NEW arr, Searchable(arr), NEW addr, NEW f, NEW g,
         Probes(f, addr, arr), Probes(g, addr, arr)
  PROVE  \A r \in Ranges(arr) : f[r] = g[r]
<1> DEFINE L == Len(arr)
           Apart == {n \in 0..L : \E l, u \in 0..L : n = u - l /\ f[<<l, u>>] # g[<<l, u>>]}
<1>0. L \in Nat
  BY EntryIs
<1>1. ASSUME NEW l \in 0..L, NEW u \in 0..L
      PROVE  /\ f[<<l, u>>] = Halved(f, addr, arr, l, u)
             /\ g[<<l, u>>] = Halved(g, addr, arr, l, u)
  <2>1. <<l, u>> \in Ranges(arr) /\ <<l, u>>[1] = l /\ <<l, u>>[2] = u
    BY DEF Ranges
  <2>2. \A r \in Ranges(arr) : /\ f[r] = Halved(f, addr, arr, r[1], r[2])
                               /\ g[r] = Halved(g, addr, arr, r[1], r[2])
    BY Zenon DEF Probes
  <2> QED
    BY <2>1, <2>2, Zenon
<1>2. ASSUME NEW n \in Apart, \A m \in Apart : n <= m PROVE FALSE
  <2>1. PICK l \in 0..L, u \in 0..L : n = u - l /\ f[<<l, u>>] # g[<<l, u>>]
    OBVIOUS
  <2>2. n \in Nat /\ l \in Int /\ u \in Int
    BY <1>0, <2>1
  <2> DEFINE i == (l + u) \div 2
  <2>3. l < u
    <3>1. l >= u => Halved(f, addr, arr, l, u) = 0 /\ Halved(g, addr, arr, l, u) = 0
      BY DEF Halved
    <3> QED
      BY <1>1, <2>1, <2>2, <3>1
  <2>4. i \in 0..L /\ i + 1 \in 0..L /\ l <= i /\ i < u /\ i \in Int
    BY <1>0, <2>2, <2>3
  <2>5. f[<<l, i>>] = g[<<l, i>>]
    <3>1. i - l \in 0..L /\ ~(n <= i - l)
      BY <1>0, <2>1, <2>2, <2>4
    <3>2. i - l \notin Apart
      BY <1>2, <3>1
    <3> QED
      BY <2>4, <3>1, <3>2
  <2>6. f[<<i + 1, u>>] = g[<<i + 1, u>>]
    <3>1. u - (i + 1) \in 0..L /\ ~(n <= u - (i + 1))
      BY <1>0, <2>1, <2>2, <2>4
    <3>2. u - (i + 1) \notin Apart
      BY <1>2, <3>1
    <3> QED
      BY <2>4, <3>1, <3>2
  <2>7. f[<<l, u>>] = g[<<l, u>>]
    BY <1>1, <2>3, <2>5, <2>6 DEF Halved
  <2> QED
    BY <2>1, <2>7
<1>3. Apart \subseteq Nat
  BY <1>0
<1>4. Apart = {}
  BY <1>2, <1>3, Smallest
<1>5. ASSUME NEW l \in 0..L, NEW u \in 0..L PROVE f[<<l, u>>] = g[<<l, u>>]
  <2>1. CASE l >= u
    BY <1>1, <2>1 DEF Halved
  <2>2. CASE ~(l >= u)
    <3>1. u - l \in 0..L
      BY <1>0, <2>2
    <3> QED
      BY <1>4, <3>1
  <2> QED
    BY <2>1, <2>2
<1>6. \A r \in Ranges(arr) : \E l, u \in 0..L : r = <<l, u>>
  BY DEF Ranges
<1> QED
  BY <1>5, <1>6

\* bsearch gives the entry the address is in, or 0 when there is none.
LEMMA BsearchIs ==
  ASSUME NEW arr, Searchable(arr), NEW addr \in Int
  PROVE  /\ Bsearch(addr, arr) # 0 => Bsearch(addr, arr) \in DOMAIN arr
         /\ \A k \in DOMAIN arr : Bsearch(addr, arr) = k <=> Within(addr, arr[k])
<1> DEFINE L == Len(arr)
<1>0. L \in Nat /\ DOMAIN arr = 1..L /\ 0 \in 0..L /\ L \in 0..L
  BY EntryIs
<1>1. Probes(Found(addr, arr), addr, arr)
  BY FoundProbes
<1>2. Probe(addr, arr) = CHOOSE f : Probes(f, addr, arr)
  BY Zenon DEF Probe, Probes, Halved, Ranges
<1>3. Probes(Probe(addr, arr), addr, arr)
  BY <1>1, <1>2, Zenon
<1>4. Bsearch(addr, arr) = Found(addr, arr)[<<0, L>>]
  <2>1. <<0, L>> \in Ranges(arr)
    BY <1>0 DEF Ranges
  <2> QED
    BY <1>1, <1>3, <2>1, ProbesOnce DEF Bsearch
<1>5. \A k \in DOMAIN arr : k \in Hits(arr, addr, 0, L) <=> Within(addr, arr[k])
  BY <1>0 DEF Hits
<1>6. CASE Hits(arr, addr, 0, L) = {}
  <2>1. Bsearch(addr, arr) = 0
    BY <1>0, <1>4, <1>6, FoundIs
  <2> QED
    BY <1>0, <1>5, <1>6, <2>1
<1>7. CASE Hits(arr, addr, 0, L) # {}
  <2>1. PICK k \in Hits(arr, addr, 0, L) : TRUE
    BY <1>7
  <2>2. Bsearch(addr, arr) = k /\ k \in DOMAIN arr /\ Within(addr, arr[k])
    BY <1>0, <1>4, <2>1, FoundIs DEF Hits
  <2>3. \A j \in DOMAIN arr : Within(addr, arr[j]) => j = k
    BY <2>2, WithinOne
  <2> QED
    BY <2>2, <2>3
<1> QED
  BY <1>6, <1>7

\* A region is found in a loaded map exactly when it lies in one entry, for any process
\* and any changes of it while the map was read (map_entry_find_simiar).
THEOREM AlwaysFindCorrect == Spec => []FindCorrect
<1>1. ASSUME IInv PROVE FindCorrect
  <2>1. Searchable(map.arr)
    BY <1>1 DEF IInv, TypeOK, MapT, AllOrdered, Searchable
  <2>2. ASSUME NEW addr \in Pages, NEW size \in 0..MaxPage, NEW i \in DOMAIN map.arr
        PROVE  FindSimilar(map.arr, addr, size) = i <=>
                 /\ map.arr[i].start <= addr /\ addr < map.arr[i].end
                 /\ addr + size <= map.arr[i].end
    <3> DEFINE b == Bsearch(addr, map.arr)
    <3>1. addr \in Int /\ size \in Int /\ i # 0 /\ map.arr[i].end \in Int
      BY <2>1, MapConstants, EntryIs DEF Pages
    <3>2. /\ b # 0 => b \in DOMAIN map.arr
          /\ b = i <=> Within(addr, map.arr[i])
      BY <2>1, <3>1, BsearchIs
    <3>3. FindSimilar(map.arr, addr, size) =
            IF b # 0 /\ map.arr[b].start <= addr /\ map.arr[b].end >= addr + size THEN b ELSE 0
      BY DEF FindSimilar
    <3> HIDE DEF b
    <3>4. ASSUME FindSimilar(map.arr, addr, size) = i
          PROVE  Within(addr, map.arr[i]) /\ addr + size <= map.arr[i].end
      <4>1. b = i /\ map.arr[b].end >= addr + size
        BY <3>1, <3>3, <3>4
      <4> QED
        BY <3>1, <3>2, <4>1
    <3>5. ASSUME Within(addr, map.arr[i]), addr + size <= map.arr[i].end
          PROVE  FindSimilar(map.arr, addr, size) = i
      <4>1. b = i /\ map.arr[b].start <= addr /\ map.arr[b].end >= addr + size
        BY <3>1, <3>2, <3>5 DEF Within
      <4> QED
        BY <3>1, <3>3, <4>1
    <3> QED
      BY <3>4, <3>5 DEF Within
  <2> QED
    BY <2>2 DEF FindCorrect
<1> QED
  BY <1>1, AlwaysIInv, PTL
=============================================================================
