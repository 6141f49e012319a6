----------------------------- MODULE PageListProofs -----------------------------
(***************************************************************************)
(* Theorems on PageList, for any finite set of addresses.                  *)
(***************************************************************************)
EXTENDS PageList, FiniteSetTheorems, SequenceTheorems, WellFoundedInduction,
        NaturalsInduction, TLAPS

Steps == 0..Cardinality(Addrs)

\* What defines a walk from p.
Follows(w, n, p) ==
  w = [i \in Steps |-> IF i = 0 THEN p ELSE IF w[i - 1] = Null THEN Null ELSE n[w[i - 1]].next]

LEMMA WalkFollows ==
  ASSUME NEW n, NEW p, NEW w, Follows(w, n, p)
  PROVE  Follows(Walk(n, p), n, p)
BY Zenon DEF Walk, Follows, Steps

\* A walk is what a path from p says, s being the path and k its length.
Path(n, p, s, k) ==
  /\ k \in Nat /\ k <= Cardinality(Addrs)
  /\ s \in [1..k -> Addrs]
  /\ p = IF k = 0 THEN Null ELSE s[1]
  /\ \A i \in 1..k : n[s[i]].next = IF i = k THEN Null ELSE s[i + 1]

Along(s, k) == [i \in Steps |-> IF i < k THEN s[i + 1] ELSE Null]

LEMMA CountAddrs == Cardinality(Addrs) \in Nat
BY PageListConstants, FS_CardinalityType

LEMMA PathFollows ==
  ASSUME NEW n, NEW p, NEW s, NEW k, Path(n, p, s, k)
  PROVE  Follows(Along(s, k), n, p)
<1> DEFINE w == Along(s, k)
<1>1. \A i \in Steps : w[i] = IF i = 0 THEN p ELSE IF w[i - 1] = Null THEN Null ELSE n[w[i - 1]].next
  <2> SUFFICES ASSUME NEW i \in Steps
               PROVE  w[i] = IF i = 0 THEN p ELSE IF w[i - 1] = Null THEN Null ELSE n[w[i - 1]].next
    OBVIOUS
  <2>1. i \in Nat /\ (i # 0 => i - 1 \in Steps)
    BY CountAddrs DEF Steps
  <2>2. CASE i = 0
    BY <2>1, <2>2 DEF Along, Path
  <2>3. CASE i # 0 /\ i - 1 < k
    <3>1. i \in 1..k /\ w[i - 1] = s[i] /\ s[i] # Null
      BY <2>1, <2>3, PageListConstants DEF Along, Path
    <3>2. n[s[i]].next = IF i = k THEN Null ELSE s[i + 1]
      BY <3>1 DEF Path
    <3> QED
      BY <2>1, <2>3, <3>1, <3>2 DEF Along, Path
  <2>4. CASE i # 0 /\ ~(i - 1 < k)
    BY <2>1, <2>4 DEF Along, Path
  <2> QED
    BY <2>2, <2>3, <2>4
<1>2. w = [i \in Steps |-> w[i]]
  BY DEF Along
<1> QED
  BY <1>1, <1>2, Zenon DEF Follows

\* There is one walk only.
LEMMA FollowsOnce ==
  ASSUME NEW n, NEW p, NEW v, NEW w, Follows(v, n, p), Follows(w, n, p)
  PROVE  \A i \in Steps : v[i] = w[i]
<1> DEFINE T == {i \in Steps : v[i] # w[i]}
<1> SUFFICES ASSUME T # {} PROVE FALSE
  OBVIOUS
<1>1. T \in SUBSET Nat
  BY CountAddrs DEF Steps
<1>2. PICK x \in T : \A y \in T : ~(<<y, x>> \in OpToRel(<, Nat))
  BY <1>1, NatLessThanWellFounded, WFMin, Zenon
<1>3. \A y \in T : ~(y < x)
  BY <1>1, <1>2 DEF OpToRel
<1>4. x \in Steps /\ x \in Nat /\ v[x] # w[x]
  BY <1>1
<1>5. x # 0
  BY <1>4 DEF Follows
<1>6. x - 1 \in Steps /\ x - 1 < x
  BY <1>4, <1>5, CountAddrs DEF Steps
<1>7. v[x - 1] = w[x - 1]
  BY <1>3, <1>6
<1>8. /\ v[x] = IF v[x - 1] = Null THEN Null ELSE n[v[x - 1]].next
      /\ w[x] = IF w[x - 1] = Null THEN Null ELSE n[w[x - 1]].next
  BY <1>4, <1>5, Zenon DEF Follows
<1> QED
  BY <1>4, <1>7, <1>8

\* So the structures that a list reaches are those of its path.
LEMMA WalkOfPath ==
  ASSUME NEW n, NEW p, NEW s, NEW k, Path(n, p, s, k)
  PROVE  /\ \A i \in Steps : Walk(n, p)[i] = IF i < k THEN s[i + 1] ELSE Null
         /\ Chain(n, p) = {s[i] : i \in 1..k}
<1>1. Follows(Walk(n, p), n, p) /\ Follows(Along(s, k), n, p)
  BY PathFollows, WalkFollows
<1>2. \A i \in Steps : Walk(n, p)[i] = IF i < k THEN s[i + 1] ELSE Null
  BY <1>1, FollowsOnce DEF Along
<1>3. Chain(n, p) = {Walk(n, p)[i] : i \in Steps} \ {Null}
  BY DEF Chain, Steps
<1>4. \A i \in 1..k : i - 1 \in Steps /\ i - 1 < k /\ (i - 1) + 1 = i /\ s[i] # Null
  BY CountAddrs, PageListConstants DEF Path, Steps
<1>5. \A i \in Steps : i < k => i + 1 \in 1..k
  BY CountAddrs DEF Path, Steps
<1>6. Chain(n, p) \subseteq {s[i] : i \in 1..k}
  BY <1>2, <1>3, <1>5
<1>7. {s[i] : i \in 1..k} \subseteq Chain(n, p)
  BY <1>2, <1>3, <1>4
<1> QED
  BY <1>2, <1>6, <1>7

-----------------------------------------------------------------------------
(* What the memory stands for *)

ListT == [head : Ptr, tail : Ptr, cur : Ptr, next_run : Ptr, npages : Nat]
MemOK(m) == m.list \in ListT /\ m.node \in [Addrs -> PageT] /\ m.used \subseteq Addrs

\* The structures allocated are s[1] to s[k], linked in this order and back.
Rep(m, s, k) ==
  /\ Path(m.node, m.list.head, s, k)
  /\ \A i, j \in 1..k : s[i] = s[j] => i = j
  /\ m.list.npages = k
  /\ m.used = {s[i] : i \in 1..k}
  /\ m.list.tail = IF k = 0 THEN Null ELSE s[k]
  /\ \A i \in 1..k : m.node[s[i]].prev = IF i = 1 THEN Null ELSE s[i - 1]

\* Different structures are at most as many as there are addresses.
LEMMA FewEnough ==
  ASSUME NEW k \in Nat, NEW s \in [1..k -> Addrs], \A i, j \in 1..k : s[i] = s[j] => i = j
  PROVE  k <= Cardinality(Addrs)
<1>1. s \in Injection(1..k, Addrs)
  BY DEF Injection, IsInjective
<1>2. Cardinality(1..k) <= Cardinality(Addrs)
  BY <1>1, FS_Injection, PageListConstants
<1>3. Cardinality(1..k) = k
  BY FS_Interval
<1> QED
  BY <1>2, <1>3

\* The chain from the head holds as many structures as the list says.
LEMMA ChainOfRep ==
  ASSUME NEW m, NEW s, NEW k, Rep(m, s, k)
  PROVE  /\ Chain(m.node, m.list.head) = {s[i] : i \in 1..k}
         /\ Cardinality(Chain(m.node, m.list.head)) = k
<1>1. Chain(m.node, m.list.head) = {s[i] : i \in 1..k}
  BY WalkOfPath DEF Rep
<1>2. k \in Nat /\ s \in [1..k -> {s[i] : i \in 1..k}]
  BY DEF Rep, Path
<1>3. s \in Bijection(1..k, {s[i] : i \in 1..k})
  BY <1>2 DEF Rep, Bijection, Injection, IsInjective, Surjection
<1>4. ExistsBijection(1..k, {s[i] : i \in 1..k})
  BY <1>3, Zenon DEF ExistsBijection
<1> QED
  BY <1>1, <1>2, <1>4, FS_CountingElements

\* Nothing follows the last structure, and the last follows the one before it.
LEMMA NothingAfter ==
  ASSUME NEW n
  PROVE  Chain(n, Null) = {}
<1>1. Path(n, Null, << >>, 0)
  BY CountAddrs DEF Path
<1>2. Chain(n, Null) = {<< >>[i] : i \in 1..0}
  BY <1>1, WalkOfPath
<1> QED
  BY <1>2

LEMMA LastAfter ==
  ASSUME NEW n, NEW p \in Addrs, n[p].next = Null
  PROVE  Chain(n, p) = {p}
<1>1. 1 <= Cardinality(Addrs)
  BY PageListConstants, CountAddrs, FS_EmptySet
<1>2. Path(n, p, <<p>>, 1)
  BY <1>1 DEF Path
<1>3. Chain(n, p) = {<<p>>[i] : i \in 1..1}
  BY <1>2, WalkOfPath
<1> QED
  BY <1>3

-----------------------------------------------------------------------------
(* The operations on what the memory stands for *)

LEMMA ZeroedType ==
  ASSUME NEW c \in Opens \cup {"HOME"}
  PROVE  Zeroed(c) \in PageT
<1>1. FALSE \in BOOLEAN
  BY Zenon
<1> QED
  BY <1>1 DEF Zeroed, PageT, Ptr

LEMMA FreedType ==
  ASSUME NEW n \in [Addrs -> PageT], NEW gone
  PROVE  /\ Freed(n, gone) \in [Addrs -> PageT]
         /\ \A a \in Addrs : a \notin gone => Freed(n, gone)[a] = n[a]
<1>1. Zeroed("HOME") \in PageT
  BY ZeroedType
<1> QED
  BY <1>1 DEF Freed

LEMMA ListFiniRep ==
  ASSUME NEW m, MemOK(m), NEW s, NEW k, Rep(m, s, k)
  PROVE  /\ MemOK(ListFini(m)) /\ Rep(ListFini(m), << >>, 0)
         /\ ListFini(m).list = Empty
<1> DEFINE gone == Chain(m.node, m.list.head)
<1>1. /\ ListFini(m).list = Empty /\ ListFini(m).node = Freed(m.node, gone)
      /\ ListFini(m).used = m.used \ gone
  BY DEF ListFini
<1>2. m.used \ gone = {}
  <2>1. gone = {s[i] : i \in 1..k}
    BY ChainOfRep
  <2>2. m.used = {s[i] : i \in 1..k}
    BY DEF Rep
  <2> QED
    BY <2>1, <2>2
<1>3. Freed(m.node, gone) \in [Addrs -> PageT]
  BY FreedType DEF MemOK
<1>4. Empty \in ListT
  BY DEF Empty, ListT, Ptr
<1>5. MemOK(ListFini(m))
  BY <1>1, <1>2, <1>3, <1>4 DEF MemOK
<1>6. Path(ListFini(m).node, Empty.head, << >>, 0)
  BY CountAddrs DEF Path, Empty
<1> QED
  BY <1>1, <1>2, <1>5, <1>6 DEF Rep, Empty

\* What the abstract stack keeps of a page.
View(q) == [cmd |-> q.cmd, inited |-> q.inited, ever |-> q.ever]

\* What page_create makes of the memory, field by field: dropping what follows the
\* current page drops nothing, because it is the last.
LEMMA CreatedIs ==
  ASSUME NEW m, MemOK(m), NEW s, NEW k, Rep(m, s, k), m.list.cur = m.list.tail,
         NEW p \in Addrs \ m.used, NEW c \in Opens \cup {"HOME"}
  PROVE  LET r == Created(m, p, c)
         IN /\ r.used = m.used \cup {p}
            /\ r.list \in ListT /\ r.list.head = IF k = 0 THEN p ELSE s[1]
            /\ r.list.tail = p /\ r.list.cur = m.list.cur /\ r.list.next_run = p
            /\ r.list.npages = k + 1
            /\ r.node \in [Addrs -> PageT]
            /\ r.node[p].prev = m.list.tail /\ r.node[p].next = Null
            /\ View(r.node[p]) = [cmd |-> c, inited |-> FALSE, ever |-> FALSE]
            /\ \A a \in Addrs \ {p} :
                 /\ View(r.node[a]) = View(m.node[a]) /\ r.node[a].prev = m.node[a].prev
                 /\ r.node[a].next = IF a = m.list.tail THEN p ELSE m.node[a].next
<1> DEFINE fresh == [list |-> m.list, node |-> [m.node EXCEPT ![p] = Zeroed(c)],
                     used |-> m.used \cup {p}]
           cut == IF m.list.cur = Null THEN fresh ELSE DropNext(fresh, m.list.cur)
<1>0. /\ m.list \in ListT /\ m.node \in [Addrs -> PageT] /\ k \in Nat
      /\ s \in [1..k -> Addrs] /\ Null \notin Addrs /\ m.list.npages = k
      /\ m.list.tail = IF k = 0 THEN Null ELSE s[k]
      /\ m.list.head = IF k = 0 THEN Null ELSE s[1]
      /\ m.used = {s[i] : i \in 1..k}
  BY PageListConstants DEF MemOK, Rep, Path
<1>1. fresh.node \in [Addrs -> PageT]
  BY <1>0, ZeroedType
<1>2. cut = fresh
  <2>1. CASE m.list.cur # Null
    <3>1. m.list.cur \in Addrs /\ m.list.cur # p /\ k # 0 /\ m.list.cur = s[k]
      BY <1>0, <2>1
    <3>2. fresh.node[m.list.cur] = m.node[m.list.cur] /\ m.node[m.list.cur].next = Null
      BY <1>0, <3>1 DEF Rep, Path
    <3>3. After(fresh, m.list.cur) = {}
      BY <3>2, NothingAfter DEF After
    <3>4. Freed(fresh.node, {}) = fresh.node
      BY <1>1 DEF Freed
    <3>5. [fresh.node EXCEPT ![m.list.cur].next = Null] = fresh.node
      <4>1. fresh.node[m.list.cur] \in PageT /\ fresh.node[m.list.cur].next = Null
        BY <1>1, <3>1, <3>2
      <4>2. [fresh.node[m.list.cur] EXCEPT !.next = Null] = fresh.node[m.list.cur]
        BY <4>1 DEF PageT
      <4> QED
        BY <1>1, <3>1, <4>2
    <3>6. Cut(fresh, m.list.cur, {}) = m.list
      <4>1. Cardinality({}) = 0
        BY FS_EmptySet
      <4>2. m.list.npages - 0 = m.list.npages
        BY <1>0
      <4> QED
        BY <1>0, <4>1, <4>2 DEF Cut, ListT
    <3>7. DropNext(fresh, m.list.cur) =
            [list |-> Cut(fresh, m.list.cur, {}),
             node |-> [Freed(fresh.node, {}) EXCEPT ![m.list.cur].next = Null],
             used |-> fresh.used \ {}]
      BY <3>3, Zenon DEF DropNext
    <3>8. fresh.used \ {} = fresh.used
      OBVIOUS
    <3>9. DropNext(fresh, m.list.cur) =
            [list |-> m.list, node |-> fresh.node, used |-> fresh.used]
      BY <3>4, <3>5, <3>6, <3>7, <3>8, Zenon
    <3> QED
      BY <2>1, <3>9
  <2>2. CASE m.list.cur = Null
    BY <2>2
  <2> QED
    BY <2>1, <2>2
<1>3. Created(m, p, c) = [list |-> [Appended(cut, p).list EXCEPT !.next_run = p],
                          node |-> Appended(cut, p).node, used |-> Appended(cut, p).used]
  BY Zenon DEF Created
<1>4. Created(m, p, c) = [list |-> [Appended(fresh, p).list EXCEPT !.next_run = p],
                          node |-> Appended(fresh, p).node, used |-> Appended(fresh, p).used]
  BY <1>2, <1>3, Zenon
<1> DEFINE A == Appended(fresh, p)
           L == [A.list EXCEPT !.next_run = p]
<1>5. A.used = m.used \cup {p}
  BY DEF Appended
<1>6. /\ A.list \in ListT /\ A.list.head = IF k = 0 THEN p ELSE s[1]
      /\ A.list.tail = p /\ A.list.cur = m.list.cur /\ A.list.npages = k + 1
  <2>1. A.list = [m.list EXCEPT !.npages = @ + 1, !.tail = p,
                                !.head = IF m.list.tail = Null THEN p ELSE @]
    BY DEF Appended
  <2>2. m.list.tail = Null <=> k = 0
    BY <1>0
  <2>3. p \in Ptr /\ k + 1 \in Nat
    BY <1>0 DEF Ptr
  <2> HIDE DEF A
  <2> QED
    BY <1>0, <2>1, <2>2, <2>3 DEF ListT
<1>7. /\ L \in ListT /\ L.head = IF k = 0 THEN p ELSE s[1]
      /\ L.tail = p /\ L.cur = m.list.cur /\ L.next_run = p /\ L.npages = k + 1
  BY <1>6 DEF ListT, Ptr
<1>8. /\ A.node \in [Addrs -> PageT]
      /\ A.node[p].prev = m.list.tail /\ A.node[p].next = Null
      /\ View(A.node[p]) = [cmd |-> c, inited |-> FALSE, ever |-> FALSE]
      /\ \A a \in Addrs \ {p} :
           /\ View(A.node[a]) = View(m.node[a]) /\ A.node[a].prev = m.node[a].prev
           /\ A.node[a].next = IF a = m.list.tail THEN p ELSE m.node[a].next
  <2>1. A.node = [a \in Addrs |->
             IF a = p THEN [fresh.node[p] EXCEPT !.prev = m.list.tail, !.next = Null]
             ELSE IF a = m.list.tail THEN [fresh.node[a] EXCEPT !.next = p]
             ELSE fresh.node[a]]
    BY DEF Appended
  <2>2. /\ fresh.node[p] = Zeroed(c) /\ Zeroed(c) \in PageT
        /\ \A a \in Addrs \ {p} : fresh.node[a] = m.node[a]
    BY <1>0, ZeroedType
  <2>3. m.list.tail \in Ptr /\ p \in Ptr /\ Null \in Ptr
    BY <1>0 DEF ListT, Ptr
  <2>4. \A q \in PageT : /\ [q EXCEPT !.next = p] \in PageT
                         /\ [q EXCEPT !.next = p].next = p
                         /\ [q EXCEPT !.next = p].prev = q.prev
                         /\ View([q EXCEPT !.next = p]) = View(q)
    BY <2>3 DEF PageT, View
  <2> DEFINE z == [Zeroed(c) EXCEPT !.prev = m.list.tail, !.next = Null]
  <2>5. /\ z \in PageT /\ z.prev = m.list.tail /\ z.next = Null
        /\ z.cmd = Zeroed(c).cmd /\ z.inited = Zeroed(c).inited /\ z.ever = Zeroed(c).ever
    BY <2>2, <2>3 DEF PageT
  <2>6. View(z) = [cmd |-> c, inited |-> FALSE, ever |-> FALSE]
    BY <2>5 DEF View, Zeroed
  <2> HIDE DEF A, fresh
  <2>7. A.node[p] = z
    BY <2>1, <2>2
  <2>8. \A a \in Addrs \ {p} :
          A.node[a] = IF a = m.list.tail THEN [m.node[a] EXCEPT !.next = p] ELSE m.node[a]
    BY <2>1, <2>2
  <2> HIDE DEF z
  <2>9. ASSUME NEW a \in Addrs \ {p}
        PROVE  /\ A.node[a] \in PageT
               /\ View(A.node[a]) = View(m.node[a]) /\ A.node[a].prev = m.node[a].prev
               /\ A.node[a].next = IF a = m.list.tail THEN p ELSE m.node[a].next
    <3>1. m.node[a] \in PageT
      BY <1>0
    <3>2. CASE a = m.list.tail
      <4>1. A.node[a] = [m.node[a] EXCEPT !.next = p]
        BY <2>8, <3>2
      <4> QED
        BY <2>4, <3>1, <3>2, <4>1
    <3>3. CASE a # m.list.tail
      <4>1. A.node[a] = m.node[a]
        BY <2>8, <3>3
      <4> QED
        BY <3>1, <3>3, <4>1
    <3> QED
      BY <3>2, <3>3
  <2>10. \A a \in Addrs : A.node[a] \in PageT
    BY <2>5, <2>7, <2>9
  <2>11. A.node \in [Addrs -> PageT]
    BY <2>1, <2>10
  <2> QED
    BY <2>5, <2>6, <2>7, <2>9, <2>11
<1>9. /\ Created(m, p, c).list = L /\ Created(m, p, c).node = A.node
      /\ Created(m, p, c).used = A.used
  BY <1>4
<1> HIDE DEF fresh, cut, A, L
<1> QED
  BY <1>5, <1>7, <1>8, <1>9

\* page_create appends the new page.
Added(s, k, p) == [i \in 1..(k + 1) |-> IF i = k + 1 THEN p ELSE s[i]]

LEMMA CreatedRep ==
  ASSUME NEW m, MemOK(m), NEW s, NEW k, Rep(m, s, k), m.list.cur = m.list.tail,
         NEW p \in Addrs \ m.used, NEW c \in Opens \cup {"HOME"}
  PROVE  LET r == Created(m, p, c)
         IN /\ MemOK(r) /\ Rep(r, Added(s, k, p), k + 1)
            /\ r.list.next_run = p /\ r.list.cur = m.list.cur
            /\ View(r.node[p]) = [cmd |-> c, inited |-> FALSE, ever |-> FALSE]
            /\ \A i \in 1..k : View(r.node[s[i]]) = View(m.node[s[i]])
<1> DEFINE r == Created(m, p, c)
           t == Added(s, k, p)
<1>0. /\ k \in Nat /\ s \in [1..k -> Addrs] /\ Null \notin Addrs
      /\ \A i \in 1..k : s[i] # p
      /\ m.used \subseteq Addrs /\ m.used = {s[i] : i \in 1..k}
      /\ m.list.tail = IF k = 0 THEN Null ELSE s[k]
  BY PageListConstants DEF MemOK, Rep, Path
<1>1. /\ r.used = m.used \cup {p}
      /\ r.list \in ListT /\ r.list.head = IF k = 0 THEN p ELSE s[1]
      /\ r.list.tail = p /\ r.list.cur = m.list.cur /\ r.list.next_run = p
      /\ r.list.npages = k + 1
      /\ r.node \in [Addrs -> PageT]
      /\ r.node[p].prev = m.list.tail /\ r.node[p].next = Null
      /\ View(r.node[p]) = [cmd |-> c, inited |-> FALSE, ever |-> FALSE]
      /\ \A a \in Addrs \ {p} :
           /\ View(r.node[a]) = View(m.node[a]) /\ r.node[a].prev = m.node[a].prev
           /\ r.node[a].next = IF a = m.list.tail THEN p ELSE m.node[a].next
  BY CreatedIs
<1> HIDE DEF r
<1>2. MemOK(r)
  BY <1>0, <1>1 DEF MemOK
<1>3. /\ t \in [1..(k + 1) -> Addrs] /\ t[k + 1] = p
      /\ \A i \in 1..k : i \in 1..(k + 1) /\ t[i] = s[i] /\ i # k + 1
      /\ \A i \in 1..(k + 1) : i = k + 1 \/ i \in 1..k
  BY <1>0 DEF Added
<1> HIDE DEF t
<1>4. \A i, j \in 1..(k + 1) : t[i] = t[j] => i = j
  BY <1>0, <1>3 DEF Rep
<1>5. r.used = {t[i] : i \in 1..(k + 1)}
  <2>1. {t[i] : i \in 1..(k + 1)} \subseteq r.used
    BY <1>0, <1>1, <1>3
  <2>2. r.used \subseteq {t[i] : i \in 1..(k + 1)}
    <3>1. k + 1 \in 1..(k + 1)
      BY <1>0
    <3> QED
      BY <1>0, <1>1, <1>3, <3>1
  <2> QED
    BY <2>1, <2>2
<1>6. \A i \in 1..(k + 1) : r.node[t[i]].next = IF i = k + 1 THEN Null ELSE t[i + 1]
  <2> SUFFICES ASSUME NEW i \in 1..k PROVE r.node[s[i]].next = t[i + 1]
    BY <1>1, <1>3
  <2>1. m.node[s[i]].next = IF i = k THEN Null ELSE s[i + 1]
    BY DEF Rep, Path
  <2>2. s[i] = m.list.tail <=> i = k
    BY <1>0 DEF Rep
  <2>3. i # k => i + 1 \in 1..k
    BY <1>0
  <2> QED
    BY <1>0, <1>1, <1>3, <2>1, <2>2, <2>3
<1>7. \A i \in 1..(k + 1) : r.node[t[i]].prev = IF i = 1 THEN Null ELSE t[i - 1]
  <2>1. r.node[p].prev = IF k + 1 = 1 THEN Null ELSE t[k]
    BY <1>0, <1>1, <1>3
  <2>2. ASSUME NEW i \in 1..k PROVE r.node[s[i]].prev = IF i = 1 THEN Null ELSE t[i - 1]
    <3>1. m.node[s[i]].prev = IF i = 1 THEN Null ELSE s[i - 1]
      BY DEF Rep
    <3>2. i # 1 => i - 1 \in 1..k
      BY <1>0
    <3> QED
      BY <1>0, <1>1, <1>3, <3>1, <3>2
  <2>3. (k + 1) - 1 = k
    BY <1>0
  <2> QED
    BY <1>3, <2>1, <2>2, <2>3
<1>8. Path(r.node, r.list.head, t, k + 1)
  <2>1. k + 1 <= Cardinality(Addrs)
    BY <1>0, <1>3, <1>4, FewEnough
  <2>2. r.list.head = IF k + 1 = 0 THEN Null ELSE t[1]
    BY <1>0, <1>1, <1>3
  <2> QED
    BY <1>0, <1>3, <1>6, <2>1, <2>2 DEF Path
<1>9. Rep(r, t, k + 1)
  <2>1. r.list.tail = IF k + 1 = 0 THEN Null ELSE t[k + 1]
    BY <1>0, <1>1, <1>3
  <2> QED
    BY <1>1, <1>4, <1>5, <1>7, <1>8, <2>1 DEF Rep
<1>10. \A i \in 1..k : View(r.node[s[i]]) = View(m.node[s[i]])
  BY <1>0, <1>1
<1> QED
  BY <1>1, <1>2, <1>9, <1>10 DEF r, t

\* page_next_execute of the last page: it becomes the current one, and its window may
\* be initialised.
IsExecuted(r, m, s, k, smpl, ok) ==
  /\ MemOK(r) /\ Rep(r, s, k)
  /\ r.list.cur = s[k] /\ r.list.next_run = IF smpl THEN s[k] ELSE Null
  /\ View(r.node[s[k]]) = Stack!Opened(View(m.node[s[k]]), ok)
  /\ \A i \in 1..k : i # k => View(r.node[s[i]]) = View(m.node[s[i]])

LEMMA ExecutedRep ==
  ASSUME NEW m, MemOK(m), NEW s, NEW k, Rep(m, s, k), k # 0, m.list.next_run = s[k],
         scr_ok \in BOOLEAN, NEW smpl \in BOOLEAN, NEW ok \in BOOLEAN
  PROVE  IsExecuted(Executed(m, smpl, ok), m, s, k, smpl, ok)
<1> DEFINE r == Executed(m, smpl, ok)
           opens == scr_ok /\ ok /\ ~m.node[s[k]].inited
           q == [m.node[s[k]] EXCEPT !.inited = @ \/ opens, !.ever = @ \/ opens]
           L == [m.list EXCEPT !.cur = m.list.next_run,
                               !.next_run = IF smpl THEN @ ELSE Null]
<1>0. /\ k \in Nat /\ k \in 1..k /\ s \in [1..k -> Addrs] /\ s[k] \in Addrs
      /\ m.list \in ListT /\ m.node \in [Addrs -> PageT] /\ m.node[s[k]] \in PageT
  BY DEF MemOK, Rep, Path
<1>1. r.list = L /\ r.used = m.used /\ r.node = [m.node EXCEPT ![s[k]] = q]
  BY DEF Executed, Shown
<1>2. /\ q \in PageT /\ q.prev = m.node[s[k]].prev /\ q.next = m.node[s[k]].next
      /\ View(q) = Stack!Opened(View(m.node[s[k]]), ok)
  <2>1. CASE opens
    <3>1. q = [m.node[s[k]] EXCEPT !.inited = TRUE, !.ever = TRUE]
      BY <2>1
    <3> QED
      BY <1>0, <2>1, <3>1 DEF PageT, View, Stack!Opened
  <2>2. CASE ~opens
    <3>1. m.node[s[k]].inited \in BOOLEAN /\ m.node[s[k]].ever \in BOOLEAN
      BY <1>0 DEF PageT
    <3>2. q = [m.node[s[k]] EXCEPT !.inited = @, !.ever = @]
      BY <2>2, <3>1
    <3>3. q = m.node[s[k]]
      BY <1>0, <3>2 DEF PageT
    <3> QED
      BY <1>0, <2>2, <3>3 DEF View, Stack!Opened
  <2> QED
    BY <2>1, <2>2
<1>3. /\ L \in ListT /\ L.cur = s[k] /\ L.next_run = (IF smpl THEN s[k] ELSE Null)
      /\ L.head = m.list.head /\ L.tail = m.list.tail /\ L.npages = m.list.npages
  BY <1>0 DEF ListT, Ptr
<1> HIDE DEF q, L, r
<1>4. /\ r.node \in [Addrs -> PageT] /\ r.node[s[k]] = q
      /\ \A a \in Addrs \ {s[k]} : r.node[a] = m.node[a]
  BY <1>0, <1>1, <1>2
<1>5. MemOK(r)
  BY <1>1, <1>3, <1>4 DEF MemOK
<1>6. \A i \in 1..k : /\ r.node[s[i]].next = m.node[s[i]].next
                      /\ r.node[s[i]].prev = m.node[s[i]].prev
  BY <1>0, <1>2, <1>4
<1>7. Rep(r, s, k)
  BY <1>1, <1>3, <1>6 DEF Rep, Path
<1>8. \A i \in 1..k : i # k => View(r.node[s[i]]) = View(m.node[s[i]])
  <2>1. \A i \in 1..k : i # k => s[i] \in Addrs \ {s[k]}
    BY <1>0 DEF Rep
  <2> QED
    BY <1>4, <2>1
<1> QED
  BY <1>1, <1>2, <1>3, <1>4, <1>5, <1>7, <1>8 DEF r, IsExecuted

-----------------------------------------------------------------------------
\* op_page_prev goes back to the last page but one: page_drop_next frees the last.
Back(m) ==
  LET prev == m.node[m.list.cur].prev
      cut == DropNext(m, prev)
  IN [list |-> [cut.list EXCEPT !.cur = prev, !.next_run = prev],
      node |-> cut.node, used |-> cut.used]

Without(s, k) == [i \in 1..(k - 1) |-> s[i]]

LEMMA BackIs ==
  ASSUME NEW m, MemOK(m), NEW s, NEW k, Rep(m, s, k), m.list.cur = m.list.tail,
         m.list.cur # Null, m.node[m.list.cur].prev # Null
  PROVE  LET r == Back(m)
         IN /\ k - 1 \in 1..k /\ k - 1 # 0 /\ m.node[m.list.cur].prev = s[k - 1]
            /\ r.used = m.used \ {s[k]}
            /\ r.list \in ListT /\ r.list.head = s[1] /\ r.list.tail = s[k - 1]
            /\ r.list.cur = s[k - 1] /\ r.list.next_run = s[k - 1]
            /\ r.list.npages = k - 1
            /\ r.node \in [Addrs -> PageT]
            /\ r.node[s[k - 1]].next = Null
            /\ \A a \in Addrs \ {s[k]} :
                 /\ View(r.node[a]) = View(m.node[a]) /\ r.node[a].prev = m.node[a].prev
                 /\ a # s[k - 1] => r.node[a].next = m.node[a].next
<1>0. /\ m.list \in ListT /\ m.node \in [Addrs -> PageT] /\ k \in Nat
      /\ s \in [1..k -> Addrs] /\ Null \notin Addrs /\ m.list.npages = k
      /\ m.list.tail = IF k = 0 THEN Null ELSE s[k]
      /\ m.list.head = IF k = 0 THEN Null ELSE s[1]
  BY PageListConstants DEF MemOK, Rep, Path
<1>1. k # 0 /\ k \in 1..k /\ m.list.cur = s[k]
  BY <1>0
<1>2. k # 1 /\ m.node[s[k]].prev = s[k - 1]
  BY <1>0, <1>1 DEF Rep
<1>3. k - 1 \in 1..k /\ k - 1 # 0 /\ k - 1 \in Nat /\ (k - 1) + 1 = k /\ k - 1 # k
  BY <1>0, <1>1, <1>2
<1>4. s[k - 1] \in Addrs /\ s[k] \in Addrs /\ s[k - 1] # s[k]
  BY <1>0, <1>1, <1>3 DEF Rep
<1>5. m.node[s[k - 1]].next = s[k] /\ m.node[s[k]].next = Null
  BY <1>1, <1>3 DEF Rep, Path
<1> DEFINE p == s[k - 1]
           gone == {s[k]}
           F == Freed(m.node, gone)
           N == [F EXCEPT ![p].next = Null]
           C == Cut(m, p, gone)
           L == [C EXCEPT !.cur = p, !.next_run = p]
<1>6. After(m, p) = gone
  BY <1>4, <1>5, LastAfter DEF After
<1>7. DropNext(m, p) = [list |-> C, node |-> N, used |-> m.used \ gone]
  BY <1>6, Zenon DEF DropNext
<1>8. Back(m).list = L /\ Back(m).node = N /\ Back(m).used = m.used \ gone
  <2> HIDE DEF C, N, gone
  <2> QED
    BY <1>1, <1>2, <1>7 DEF Back
<1>9. /\ L \in ListT /\ L.head = s[1] /\ L.tail = p /\ L.cur = p /\ L.next_run = p
      /\ L.npages = k - 1
  <2>1. Cardinality(gone) = 1
    BY FS_Singleton
  <2>2. C = [m.list EXCEPT !.tail = p, !.npages = @ - Cardinality(gone)]
    BY DEF Cut
  <2>3. /\ C \in ListT /\ C.head = s[1] /\ C.tail = p /\ C.npages = k - 1
    <3> HIDE DEF C, gone
    <3> QED
      BY <1>0, <1>1, <1>3, <1>4, <2>1, <2>2 DEF ListT, Ptr
  <2> HIDE DEF C
  <2> QED
    BY <1>4, <2>3 DEF ListT, Ptr
<1>10. F \in [Addrs -> PageT] /\ \A a \in Addrs : a \notin gone => F[a] = m.node[a]
  BY <1>0, FreedType
<1>11. \A q \in PageT : /\ [q EXCEPT !.next = Null] \in PageT
                        /\ [q EXCEPT !.next = Null].next = Null
                        /\ [q EXCEPT !.next = Null].prev = q.prev
                        /\ View([q EXCEPT !.next = Null]) = View(q)
  BY DEF PageT, View, Ptr
<1> HIDE DEF F
<1>12. /\ N \in [Addrs -> PageT] /\ N[p] = [F[p] EXCEPT !.next = Null]
       /\ \A a \in Addrs : a # p => N[a] = F[a]
  BY <1>4, <1>10, <1>11
<1> HIDE DEF N
<1>13. N[p].next = Null
  BY <1>4, <1>10, <1>11, <1>12
<1>14. ASSUME NEW a \in Addrs \ {s[k]}
       PROVE  /\ View(N[a]) = View(m.node[a]) /\ N[a].prev = m.node[a].prev
              /\ a # p => N[a].next = m.node[a].next
  <2>1. F[a] = m.node[a] /\ m.node[a] \in PageT
    <3>1. a \notin gone
      OBVIOUS
    <3> QED
      BY <1>0, <1>10, <3>1
  <2>2. CASE a = p
    <3>1. N[a] = [m.node[a] EXCEPT !.next = Null]
      BY <1>12, <2>1, <2>2, Zenon
    <3> QED
      BY <1>11, <2>1, <2>2, <3>1
  <2>3. CASE a # p
    BY <1>12, <2>1, <2>3
  <2> QED
    BY <2>2, <2>3
<1> HIDE DEF L
<1> QED
  BY <1>1, <1>2, <1>3, <1>8, <1>9, <1>12, <1>13, <1>14

LEMMA BackRep ==
  ASSUME NEW m, MemOK(m), NEW s, NEW k, Rep(m, s, k), m.list.cur = m.list.tail,
         m.list.cur # Null, m.node[m.list.cur].prev # Null
  PROVE  LET r == Back(m)
             t == Without(s, k)
         IN /\ MemOK(r) /\ Rep(r, t, k - 1) /\ k - 1 \in Nat /\ k - 1 # 0
            /\ r.list.next_run = t[k - 1]
            /\ \A i \in 1..(k - 1) : t[i] = s[i] /\ View(r.node[t[i]]) = View(m.node[s[i]])
<1> DEFINE r == Back(m)
           t == Without(s, k)
<1>0. /\ k \in Nat /\ s \in [1..k -> Addrs] /\ m.used \subseteq Addrs
      /\ m.used = {s[i] : i \in 1..k} /\ k <= Cardinality(Addrs)
  BY DEF MemOK, Rep, Path
<1>1. /\ k - 1 \in 1..k /\ k - 1 # 0
      /\ r.used = m.used \ {s[k]}
      /\ r.list \in ListT /\ r.list.head = s[1] /\ r.list.tail = s[k - 1]
      /\ r.list.cur = s[k - 1] /\ r.list.next_run = s[k - 1]
      /\ r.list.npages = k - 1
      /\ r.node \in [Addrs -> PageT]
      /\ r.node[s[k - 1]].next = Null
      /\ \A a \in Addrs \ {s[k]} :
           /\ View(r.node[a]) = View(m.node[a]) /\ r.node[a].prev = m.node[a].prev
           /\ a # s[k - 1] => r.node[a].next = m.node[a].next
  BY BackIs
<1> HIDE DEF r
<1>2. /\ k - 1 \in Nat /\ k \in 1..k /\ 1 \in 1..(k - 1) /\ k - 1 \in 1..(k - 1)
      /\ \A i \in 1..(k - 1) : i \in 1..k /\ i # k
      /\ \A i \in 1..k : i = k \/ i \in 1..(k - 1)
  BY <1>0, <1>1
<1>3. t \in [1..(k - 1) -> Addrs] /\ \A i \in 1..(k - 1) : t[i] = s[i] /\ t[i] # s[k]
  BY <1>0, <1>2 DEF Without, Rep
<1> HIDE DEF t
<1>4. MemOK(r)
  BY <1>0, <1>1 DEF MemOK
<1>5. \A i, j \in 1..(k - 1) : t[i] = t[j] => i = j
  BY <1>2, <1>3 DEF Rep
<1>6. r.used = {t[i] : i \in 1..(k - 1)}
  <2>1. {t[i] : i \in 1..(k - 1)} \subseteq r.used
    BY <1>0, <1>1, <1>2, <1>3
  <2>2. r.used \subseteq {t[i] : i \in 1..(k - 1)}
    BY <1>0, <1>1, <1>2, <1>3
  <2> QED
    BY <2>1, <2>2
<1>7. \A i \in 1..(k - 1) : r.node[t[i]].prev = IF i = 1 THEN Null ELSE t[i - 1]
  <2> SUFFICES ASSUME NEW i \in 1..(k - 1)
               PROVE  r.node[t[i]].prev = IF i = 1 THEN Null ELSE t[i - 1]
    OBVIOUS
  <2>1. m.node[s[i]].prev = IF i = 1 THEN Null ELSE s[i - 1]
    BY <1>2 DEF Rep
  <2>2. i # 1 => i - 1 \in 1..(k - 1)
    BY <1>0
  <2> QED
    BY <1>1, <1>3, <2>1, <2>2
<1>8. \A i \in 1..(k - 1) : r.node[t[i]].next = IF i = k - 1 THEN Null ELSE t[i + 1]
  <2> SUFFICES ASSUME NEW i \in 1..(k - 1)
               PROVE  r.node[t[i]].next = IF i = k - 1 THEN Null ELSE t[i + 1]
    OBVIOUS
  <2>1. CASE i = k - 1
    BY <1>1, <1>3, <2>1
  <2>2. CASE i # k - 1
    <3>1. i + 1 \in 1..(k - 1) /\ i # k /\ i \in 1..k
      BY <1>0, <2>2
    <3>2. m.node[s[i]].next = s[i + 1]
      BY <3>1 DEF Rep, Path
    <3>3. s[i] # s[k - 1]
      BY <1>1, <2>2, <3>1 DEF Rep
    <3> QED
      BY <1>1, <1>3, <2>2, <3>1, <3>2, <3>3
  <2> QED
    BY <2>1, <2>2
<1>9. Path(r.node, r.list.head, t, k - 1)
  <2>1. k - 1 <= Cardinality(Addrs)
    BY <1>0, CountAddrs
  <2> QED
    BY <1>1, <1>2, <1>3, <1>8, <2>1 DEF Path
<1>10. r.list.tail = IF k - 1 = 0 THEN Null ELSE t[k - 1]
  BY <1>1, <1>2, <1>3
<1>11. Rep(r, t, k - 1)
  BY <1>1, <1>5, <1>6, <1>7, <1>9, <1>10 DEF Rep
<1>12. \A i \in 1..(k - 1) : View(r.node[t[i]]) = View(m.node[s[i]])
  BY <1>1, <1>3
<1> QED
  BY <1>1, <1>2, <1>3, <1>4, <1>11, <1>12 DEF r, t

-----------------------------------------------------------------------------
(* The operations as the stack sees them *)

\* The inductive invariant, of a memory: it holds a list, the current page is the
\* last, and no other page is pending.
Stands(m, s, k) ==
  /\ MemOK(m) /\ Rep(m, s, k)
  /\ m.list.cur = m.list.tail /\ m.list.next_run \in {Null, m.list.cur}

StackIn(m) == [i \in 1..m.list.npages |-> View(m.node[Walk(m.node, m.list.head)[i - 1]])]

LEMMA StackInIs ==
  ASSUME NEW m, NEW s, NEW k, Rep(m, s, k)
  PROVE  StackIn(m) = [i \in 1..k |-> View(m.node[s[i]])]
<1>1. Path(m.node, m.list.head, s, k) /\ m.list.npages = k
  BY DEF Rep
<1>2. \A i \in 1..k : i - 1 \in Steps /\ i - 1 < k /\ (i - 1) + 1 = i
  BY <1>1, CountAddrs DEF Path, Steps
<1>3. \A i \in 1..k : Walk(m.node, m.list.head)[i - 1] = s[i]
  BY <1>1, <1>2, WalkOfPath
<1> QED
  BY <1>1, <1>3 DEF StackIn

LEMMA SameFunction ==
  ASSUME NEW D, NEW T, NEW f \in [D -> T], NEW g \in [D -> T], \A x \in D : f[x] = g[x]
  PROVE  f = g
OBVIOUS

LEMMA StackType ==
  ASSUME NEW m, NEW s, NEW k, MemOK(m), Rep(m, s, k)
  PROVE  /\ StackIn(m) \in Seq(Stack!Page) /\ Len(StackIn(m)) = k
         /\ \A i \in 1..k : StackIn(m)[i] = View(m.node[s[i]])
<1>1. k \in Nat /\ s \in [1..k -> Addrs] /\ m.node \in [Addrs -> PageT]
  BY DEF Rep, Path, MemOK
<1>2. \A q \in PageT : View(q) \in Stack!Page
  BY PageListConstants DEF PageT, View, Stack!Page, Stack!PageCmds
<1>3. \A i \in 1..k : View(m.node[s[i]]) \in Stack!Page
  BY <1>1, <1>2
<1>4. StackIn(m) = [i \in 1..k |-> View(m.node[s[i]])]
  BY StackInIs
<1> HIDE DEF StackIn
<1> QED
  BY <1>1, <1>3, <1>4

\* A page is opened on top.
IsOpened(r, m, s, k, p, c, smpl, ok) ==
  /\ Stands(r, Added(s, k, p), k + 1)
  /\ (r.list.next_run # Null) = smpl
  /\ StackIn(r) = Append(StackIn(m), Stack!Opened(Stack!NewPage(c), ok))

LEMMA OpenStands ==
  ASSUME NEW m, NEW s, NEW k, Stands(m, s, k), NEW p \in Addrs \ m.used,
         NEW c \in Opens \cup {"HOME"}, scr_ok \in BOOLEAN,
         NEW smpl \in BOOLEAN, NEW ok \in BOOLEAN
  PROVE  IsOpened(Executed(Created(m, p, c), smpl, ok), m, s, k, p, c, smpl, ok)
<1> DEFINE b == Created(m, p, c)
           r == Executed(b, smpl, ok)
           t == Added(s, k, p)
<1>0. MemOK(m) /\ Rep(m, s, k) /\ m.list.cur = m.list.tail
  BY DEF Stands
<1>1. k \in Nat /\ k + 1 \in 1..(k + 1) /\ k + 1 # 0 /\ p \in Addrs /\ Null \notin Addrs
  BY <1>0, PageListConstants DEF Rep, Path
<1>2. t[k + 1] = p /\ \A i \in 1..k : i \in 1..(k + 1) /\ i # k + 1 /\ t[i] = s[i]
  BY <1>1 DEF Added
<1>3. /\ MemOK(b) /\ Rep(b, t, k + 1) /\ b.list.next_run = p
      /\ View(b.node[p]) = Stack!NewPage(c)
      /\ \A i \in 1..k : View(b.node[s[i]]) = View(m.node[s[i]])
  BY <1>0, CreatedRep DEF Stack!NewPage
<1> HIDE DEF b, t
<1>4. /\ MemOK(r) /\ Rep(r, t, k + 1)
      /\ r.list.cur = t[k + 1] /\ r.list.next_run = IF smpl THEN t[k + 1] ELSE Null
      /\ View(r.node[t[k + 1]]) = Stack!Opened(View(b.node[t[k + 1]]), ok)
      /\ \A i \in 1..(k + 1) : i # k + 1 => View(r.node[t[i]]) = View(b.node[t[i]])
  <2>1. b.list.next_run = t[k + 1]
    BY <1>2, <1>3
  <2>2. IsExecuted(r, b, t, k + 1, smpl, ok)
    BY <1>1, <1>3, <2>1, ExecutedRep, Zenon
  <2> QED
    BY <2>2, Zenon DEF IsExecuted
<1> HIDE DEF r
<1>5. Stands(r, t, k + 1)
  <2>1. r.list.tail = t[k + 1]
    BY <1>1, <1>4 DEF Rep
  <2> QED
    BY <1>4, <2>1 DEF Stands
<1>6. (r.list.next_run # Null) = smpl
  BY <1>1, <1>2, <1>4
<1>7. StackIn(r) = Append(StackIn(m), Stack!Opened(Stack!NewPage(c), ok))
  <2>1. /\ StackIn(m) = [i \in 1..k |-> View(m.node[s[i]])]
        /\ StackIn(r) = [i \in 1..(k + 1) |-> View(r.node[t[i]])]
    BY <1>0, <1>4, StackInIs
  <2>2. View(r.node[t[k + 1]]) = Stack!Opened(Stack!NewPage(c), ok)
    BY <1>2, <1>3, <1>4
  <2>3. \A i \in 1..k : View(r.node[t[i]]) = View(m.node[s[i]])
    BY <1>2, <1>3, <1>4
  <2>4. StackIn(m) \in Seq(Stack!Page) /\ Len(StackIn(m)) = k
    BY <1>0, StackType
  <2> DEFINE top == Stack!Opened(Stack!NewPage(c), ok)
             S == StackIn(m)
             R == StackIn(r)
  <2>5. /\ R \in Seq(Stack!Page) /\ Len(R) = k + 1 /\ R[k + 1] = top
        /\ \A i \in 1..k : R[i] = S[i]
    <3>1. R \in Seq(Stack!Page) /\ Len(R) = k + 1
      BY <1>4, StackType
    <3> QED
      BY <1>1, <1>2, <2>1, <2>2, <2>3, <3>1
  <2>6. top \in Stack!Page
    <3>1. Stack!NewPage(c) \in Stack!Page
      BY PageListConstants DEF Stack!NewPage, Stack!Page, Stack!PageCmds
    <3> QED
      BY <3>1 DEF Stack!Opened, Stack!Page
  <2> HIDE DEF top, S, R
  <2>7. R = Append(S, top)
    <3>1. S \in Seq(Stack!Page) /\ Len(S) = k
      BY <2>4 DEF S
    <3> DEFINE A == Append(S, top)
    <3>2. /\ A \in Seq(Stack!Page) /\ Len(A) = Len(S) + 1
          /\ \A i \in 1..Len(S) : A[i] = S[i]
          /\ A[Len(S) + 1] = top
      BY <2>6, <3>1, AppendProperties
    <3> HIDE DEF A
    <3>3. A \in [1..(k + 1) -> Stack!Page]
      <4>1. A \in [1..Len(A) -> Stack!Page]
        BY <3>2, LenProperties
      <4>2. Len(A) = k + 1
        BY <3>1, <3>2
      <4> QED
        BY <4>1, <4>2, Zenon
    <3>4. \A i \in 1..(k + 1) : R[i] = A[i]
      BY <1>1, <2>5, <3>1, <3>2
    <3>5. R \in [1..(k + 1) -> Stack!Page]
      <4>1. R \in [1..Len(R) -> Stack!Page]
        BY <2>5, LenProperties
      <4>2. Len(R) = k + 1
        BY <2>5
      <4> QED
        BY <4>1, <4>2
    <3>6. R = A
      <4> DEFINE D == 1..(k + 1)
                 P == Stack!Page
      <4>1. A \in [D -> P] /\ R \in [D -> P] /\ \A i \in D : R[i] = A[i]
        BY <3>3, <3>4, <3>5, Zenon
      <4> HIDE DEF D, P
      <4> QED
        BY <4>1, SameFunction
    <3> QED
      BY <3>6 DEF A
  <2> QED
    BY <2>7 DEF top, S, R
<1> QED
  BY <1>5, <1>6, <1>7, Zenon DEF r, b, t, IsOpened

\* The pending page, which is the top one, is executed.
IsReady(r, m, s, k, smpl, ok) ==
  /\ Stands(r, s, k)
  /\ (r.list.next_run # Null) = smpl
  /\ StackIn(r) = Stack!WithTop(StackIn(m), Stack!Opened(StackIn(m)[k], ok))

LEMMA ReadyStands ==
  ASSUME NEW m, NEW s, NEW k, MemOK(m), Rep(m, s, k), k # 0, m.list.next_run = s[k],
         scr_ok \in BOOLEAN, NEW smpl \in BOOLEAN, NEW ok \in BOOLEAN
  PROVE  IsReady(Executed(m, smpl, ok), m, s, k, smpl, ok)
<1> DEFINE r == Executed(m, smpl, ok)
<1>1. /\ k \in Nat /\ k \in 1..k /\ s[k] \in Addrs /\ Null \notin Addrs
  BY PageListConstants DEF Rep, Path
<1>2. /\ MemOK(r) /\ Rep(r, s, k)
      /\ r.list.cur = s[k] /\ r.list.next_run = IF smpl THEN s[k] ELSE Null
      /\ View(r.node[s[k]]) = Stack!Opened(View(m.node[s[k]]), ok)
      /\ \A i \in 1..k : i # k => View(r.node[s[i]]) = View(m.node[s[i]])
  <2>1. IsExecuted(r, m, s, k, smpl, ok)
    BY <1>1, ExecutedRep, Zenon
  <2> QED
    BY <2>1, Zenon DEF IsExecuted
<1> HIDE DEF r
<1>3. Stands(r, s, k)
  <2>1. r.list.tail = s[k]
    BY <1>1, <1>2 DEF Rep
  <2> QED
    BY <1>2, <2>1 DEF Stands
<1>4. (r.list.next_run # Null) = smpl
  BY <1>1, <1>2
<1> DEFINE S == StackIn(m)
           R == StackIn(r)
           top == Stack!Opened(S[k], ok)
<1>5. /\ S = [i \in 1..k |-> View(m.node[s[i]])]
      /\ R = [i \in 1..k |-> View(r.node[s[i]])]
  BY <1>2, StackInIs
<1>6. S \in Seq(Stack!Page) /\ Len(S) = k
  BY StackType
<1>7. /\ S = [i \in 1..k |-> S[i]] /\ R = [i \in 1..k |-> R[i]]
      /\ \A i \in 1..k : i # k => R[i] = S[i]
  BY <1>2, <1>5
<1>8. R[k] = top
  BY <1>1, <1>2, <1>5
<1> HIDE DEF S, R, top
<1>9. R = [S EXCEPT ![Len(S)] = top]
  BY <1>1, <1>6, <1>7, <1>8
<1>10. R = Stack!WithTop(S, top)
  BY <1>9, Zenon DEF Stack!WithTop
<1> QED
  BY <1>3, <1>4, <1>10, Zenon DEF r, S, R, top, IsReady

\* The page below the top one comes back and is executed.
LEMMA BackStands ==
  ASSUME NEW m, NEW s, NEW k, Stands(m, s, k),
         m.list.cur # Null, m.node[m.list.cur].prev # Null, scr_ok \in BOOLEAN,
         NEW smpl \in BOOLEAN, NEW ok \in BOOLEAN
  PROVE  LET r == Executed(Back(m), smpl, ok)
             S == StackIn(m)
         IN /\ Stands(r, Without(s, k), k - 1) /\ k - 1 \in Nat
            /\ (r.list.next_run # Null) = smpl
            /\ Len(S) > 1
            /\ StackIn(r) = Stack!WithTop(Stack!Below(S), Stack!Opened(S[Len(S) - 1], ok))
<1> DEFINE b == Back(m)
           r == Executed(b, smpl, ok)
           t == Without(s, k)
           S == StackIn(m)
           B == StackIn(b)
<1>0. MemOK(m) /\ Rep(m, s, k) /\ m.list.cur = m.list.tail /\ k \in Nat
  BY DEF Stands, Rep, Path
<1>1. /\ MemOK(b) /\ Rep(b, t, k - 1) /\ k - 1 \in Nat /\ k - 1 # 0
      /\ b.list.next_run = t[k - 1]
      /\ \A i \in 1..(k - 1) : t[i] = s[i] /\ View(b.node[t[i]]) = View(m.node[s[i]])
  BY <1>0, BackRep
<1> HIDE DEF b, t
<1>2. /\ Stands(r, t, k - 1) /\ (r.list.next_run # Null) = smpl
      /\ StackIn(r) = Stack!WithTop(B, Stack!Opened(B[k - 1], ok))
  <2>1. IsReady(r, b, t, k - 1, smpl, ok)
    BY <1>1, ReadyStands, Zenon
  <2> QED
    BY <2>1, Zenon DEF IsReady
<1>3. /\ S \in Seq(Stack!Page) /\ Len(S) = k
      /\ \A i \in 1..k : S[i] = View(m.node[s[i]])
  BY <1>0, StackType
<1>4. /\ B \in Seq(Stack!Page) /\ Len(B) = k - 1
      /\ \A i \in 1..(k - 1) : B[i] = View(b.node[t[i]])
  BY <1>1, StackType
<1>5. \A i \in 1..(k - 1) : i \in 1..k
  BY <1>0, <1>1
<1>6. \A i \in 1..(k - 1) : B[i] = S[i]
  BY <1>1, <1>3, <1>4, <1>5
<1> HIDE DEF B, S, r
<1>7. B = SubSeq(S, 1, Len(S) - 1)
  BY <1>0, <1>1, <1>3, <1>4, <1>6
<1>8. k - 1 \in 1..(k - 1) /\ Len(S) - 1 = k - 1 /\ Len(S) > 1
  BY <1>0, <1>1, <1>3
<1>9. B[k - 1] = S[Len(S) - 1]
  BY <1>6, <1>8
<1>10. B = Stack!Below(S)
  BY <1>7, Zenon DEF Stack!Below
<1> QED
  BY <1>1, <1>2, <1>8, <1>9, <1>10 DEF r, b, t, S

-----------------------------------------------------------------------------
(* The invariant and the refinement *)

Inv ==
  /\ scr_ok \in BOOLEAN
  /\ \E k \in Nat : \E s \in [1..k -> Addrs] : Stands(Memory, s, k)

LEMMA StackNow == StackOf = StackIn(Memory)
BY DEF StackOf, StackIn, Memory, View

\* What an operation makes of the memory is what the variables hold next.
LEMMA Becoming ==
  ASSUME NEW r, NEW s, NEW k, Stands(r, s, k), Becomes(r), scr_ok' \in BOOLEAN
  PROVE  /\ Inv' /\ StackOf' = StackIn(r)
         /\ (list.next_run # Null)' = (r.list.next_run # Null)
<1>1. list' = r.list /\ node' = r.node /\ used' = r.used
  BY DEF Becomes
<1>2. k \in Nat /\ s \in [1..k -> Addrs]
  BY DEF Stands, Rep, Path
<1>3. Stands(Memory, s, k)'
  BY <1>1, Zenon DEF Memory, Stands, MemOK, Rep, Path
<1>4. StackOf' = StackIn(r)
  BY <1>1 DEF StackOf, StackIn, View
<1> QED
  BY <1>1, <1>2, <1>3, <1>4 DEF Inv

\* A step keeps the invariant, and is a step of the stack or a stutter.
Good == Inv' /\ [Stack!StackNext]_(Stack!stackVars)

LEMMA InitInv == Init => Inv /\ Stack!StackInit
<1> SUFFICES ASSUME Init PROVE Inv /\ Stack!StackInit
  OBVIOUS
<1>1. /\ list = Empty /\ node = [a \in Addrs |-> Zeroed("HOME")]
      /\ used = {} /\ scr_ok = TRUE
  BY DEF Init
<1>2. Zeroed("HOME") \in PageT /\ Empty \in ListT
  BY ZeroedType DEF Empty, ListT, Ptr
<1>3. MemOK(Memory)
  BY <1>1, <1>2 DEF MemOK, Memory
<1>4. Path(node, list.head, << >>, 0)
  BY <1>1, CountAddrs DEF Path, Empty
<1>5. Rep(Memory, << >>, 0)
  BY <1>1, <1>4 DEF Rep, Memory, Empty
<1>6. Stands(Memory, << >>, 0)
  BY <1>1, <1>3, <1>5 DEF Stands, Memory, Empty
<1>7. scr_ok \in BOOLEAN
  BY <1>1, Zenon
<1>8. << >> \in [1..0 -> Addrs] /\ 0 \in Nat
  OBVIOUS
<1>9. Inv
  BY <1>6, <1>7, <1>8 DEF Inv
<1>10. StackOf = << >>
  BY <1>1 DEF StackOf, Empty
<1>11. (list.next_run # Null) = FALSE
  BY <1>1 DEF Empty
<1> QED
  BY <1>1, <1>9, <1>10, <1>11 DEF Stack!StackInit

LEMMA Emptied ==
  ASSUME NEW m, NEW s, NEW k, Stands(m, s, k)
  PROVE  /\ Stands(ListFini(m), << >>, 0) /\ StackIn(ListFini(m)) = << >>
         /\ ListFini(m).list.next_run = Null
<1>1. /\ MemOK(ListFini(m)) /\ Rep(ListFini(m), << >>, 0)
      /\ ListFini(m).list = Empty
  BY ListFiniRep DEF Stands
<1>2. StackIn(ListFini(m)) = [i \in 1..0 |-> View(ListFini(m).node[<< >>[i]])]
  BY <1>1, StackInIs
<1>3. Stands(ListFini(m), << >>, 0)
  BY <1>1 DEF Stands, Empty
<1> QED
  BY <1>1, <1>2, <1>3 DEF Empty

LEMMA PageNextGood ==
  ASSUME NEW k, NEW s, Stands(Memory, s, k), scr_ok \in BOOLEAN, OpPageNext
  PROVE  Good
<1>1. PICK c \in Opens : Open(Memory, c) /\ scr_ok' = scr_ok
  BY Zenon DEF OpPageNext
<1>2. ASSUME NEW p \in Addrs \ Memory.used, NEW smpl \in BOOLEAN, NEW ok \in BOOLEAN,
             Becomes(Executed(Created(Memory, p, c), smpl, ok))
      PROVE  Good
  <2> DEFINE r == Executed(Created(Memory, p, c), smpl, ok)
  <2>1. /\ Stands(r, Added(s, k, p), k + 1)
        /\ (r.list.next_run # Null) = smpl
        /\ StackIn(r) = Append(StackIn(Memory), Stack!Opened(Stack!NewPage(c), ok))
    <3>1. IsOpened(r, Memory, s, k, p, c, smpl, ok)
      BY OpenStands
    <3> QED
      BY <3>1, Zenon DEF IsOpened
  <2> HIDE DEF r
  <2>2. scr_ok' \in BOOLEAN /\ Becomes(r)
    BY <1>1, <1>2 DEF r
  <2>3. Inv' /\ StackOf' = StackIn(r) /\ (list.next_run # Null)' = (r.list.next_run # Null)
    BY <2>1, <2>2, Becoming, Zenon
  <2>4. Stack!Next_(c, smpl, ok)
    BY <1>1, <2>1, <2>3, StackNow, Zenon DEF Stack!Next_
  <2>5. c \in Stack!PageCmds
    BY PageListConstants DEF Stack!PageCmds
  <2>6. Stack!StackNext
    BY <2>4, <2>5, Zenon DEF Stack!StackNext
  <2> QED
    BY <2>3, <2>6 DEF Good
<1>3. CASE Becomes(Memory)
  <2>1. Inv' /\ StackOf' = StackIn(Memory) /\ (list.next_run # Null)' = (Memory.list.next_run # Null)
    BY <1>1, <1>3, Becoming
  <2>2. UNCHANGED Stack!stackVars
    BY <1>1, <2>1, StackNow DEF Stack!stackVars, Memory
  <2> QED
    BY <2>1, <2>2 DEF Good
<1> QED
  BY <1>1, <1>2, <1>3, Zenon DEF Open

LEMMA HomeGood ==
  ASSUME NEW k, NEW s, Stands(Memory, s, k), scr_ok \in BOOLEAN, OpHome
  PROVE  Good
<1> DEFINE m == ListFini(Memory)
<1>1. Open(m, "HOME") /\ scr_ok' = scr_ok
  BY Zenon DEF OpHome
<1>2. Stands(m, << >>, 0) /\ StackIn(m) = << >> /\ m.list.next_run = Null
  BY Emptied
<1> HIDE DEF m
<1>3. ASSUME NEW p \in Addrs \ m.used, NEW smpl \in BOOLEAN, NEW ok \in BOOLEAN,
             Becomes(Executed(Created(m, p, "HOME"), smpl, ok))
      PROVE  Good
  <2> DEFINE r == Executed(Created(m, p, "HOME"), smpl, ok)
             top == Stack!Opened(Stack!NewPage("HOME"), ok)
  <2>1. /\ Stands(r, Added(<< >>, 0, p), 0 + 1)
        /\ (r.list.next_run # Null) = smpl
        /\ StackIn(r) = Append(StackIn(m), top)
    <3>1. "HOME" \in Opens \cup {"HOME"}
      OBVIOUS
    <3>2. Stands(m, << >>, 0)
      BY <1>2
    <3>3. IsOpened(r, m, << >>, 0, p, "HOME", smpl, ok)
      BY <3>1, <3>2, OpenStands
    <3> QED
      BY <3>3, Zenon DEF IsOpened
  <2> HIDE DEF r, top
  <2>2. scr_ok' \in BOOLEAN /\ Becomes(r)
    BY <1>1, <1>3 DEF r
  <2>3. Inv' /\ StackOf' = StackIn(r) /\ (list.next_run # Null)' = (r.list.next_run # Null)
    BY <2>1, <2>2, Becoming, Zenon
  <2>4. StackOf' = <<top>>
    BY <1>2, <2>1, <2>3
  <2>5. Stack!Home(smpl, ok)
    BY <1>1, <2>1, <2>3, <2>4, Zenon DEF Stack!Home, top
  <2>6. Stack!StackNext
    BY <2>5, Zenon DEF Stack!StackNext
  <2> QED
    BY <2>3, <2>6 DEF Good
<1>4. CASE Becomes(m)
  <2>1. Inv' /\ StackOf' = << >> /\ (list.next_run # Null)' = FALSE
    <3>1. Inv' /\ StackOf' = StackIn(m) /\ (list.next_run # Null)' = (m.list.next_run # Null)
      BY <1>1, <1>2, <1>4, Becoming
    <3> QED
      BY <1>2, <3>1
  <2>2. Stack!Fini
    BY <1>1, <2>1, Zenon DEF Stack!Fini
  <2> QED
    BY <2>1, <2>2 DEF Good, Stack!StackNext
<1> QED
  BY <1>1, <1>3, <1>4, Zenon DEF Open

LEMMA PrevGood ==
  ASSUME NEW k, NEW s, Stands(Memory, s, k), scr_ok \in BOOLEAN, OpPagePrev
  PROVE  Good
<1>1. Memory.list = list /\ Memory.node = node
  BY DEF Memory
<1>2. /\ list.cur # Null /\ node[list.cur].prev # Null /\ scr_ok' = scr_ok
      /\ \E smpl, ok \in BOOLEAN : Becomes(Executed(Back(Memory), smpl, ok))
  BY <1>1 DEF OpPagePrev, Back
<1>3. PICK smpl \in BOOLEAN, ok \in BOOLEAN : Becomes(Executed(Back(Memory), smpl, ok))
  BY <1>2, Zenon
<1> DEFINE r == Executed(Back(Memory), smpl, ok)
           S == StackIn(Memory)
<1>4. Memory.list.cur # Null /\ Memory.node[Memory.list.cur].prev # Null
  BY <1>1, <1>2
<1>5. /\ Stands(r, Without(s, k), k - 1)
      /\ (r.list.next_run # Null) = smpl
      /\ Len(S) > 1
      /\ StackIn(r) = Stack!WithTop(Stack!Below(S), Stack!Opened(S[Len(S) - 1], ok))
  BY <1>4, BackStands
<1> HIDE DEF r
<1>6. scr_ok' \in BOOLEAN /\ Becomes(r)
  BY <1>2, <1>3 DEF r
<1>7. Inv' /\ StackOf' = StackIn(r) /\ (list.next_run # Null)' = (r.list.next_run # Null)
  BY <1>5, <1>6, Becoming, Zenon
<1>8. Stack!Prev(smpl, ok)
  BY <1>2, <1>5, <1>7, StackNow, Zenon DEF Stack!Prev
<1>9. Stack!StackNext
  BY <1>8, Zenon DEF Stack!StackNext
<1> QED
  BY <1>7, <1>9 DEF Good

LEMMA RefreshGood ==
  ASSUME NEW k, NEW s, Stands(Memory, s, k), scr_ok \in BOOLEAN, OpRefresh
  PROVE  Good
<1> DEFINE L == [list EXCEPT !.next_run = list.cur]
           r == [list |-> L, node |-> node, used |-> used]
<1>1. /\ list.cur # Null /\ list' = L /\ node' = node /\ used' = used /\ scr_ok' = scr_ok
  BY DEF OpRefresh
<1>2. /\ MemOK(Memory) /\ Rep(Memory, s, k) /\ list.cur = list.tail /\ list \in ListT
  BY DEF Stands, Memory, MemOK
<1>3. /\ L \in ListT /\ L.next_run = list.cur /\ L.cur = list.cur /\ L.head = list.head
      /\ L.tail = list.tail /\ L.npages = list.npages
  BY <1>2 DEF ListT
<1> HIDE DEF L
<1>4. /\ r.list = L /\ r.node = Memory.node /\ r.used = Memory.used /\ Memory.list = list
  BY DEF Memory
<1>5. Becomes(r)
  BY <1>1 DEF Becomes
<1> HIDE DEF r
<1>6. Stands(r, s, k)
  BY <1>2, <1>3, <1>4 DEF Stands, MemOK, Rep
<1>7. StackIn(r) = StackIn(Memory)
  BY <1>3, <1>4 DEF StackIn
<1>8. /\ Inv' /\ StackOf' = StackIn(r)
      /\ (list.next_run # Null)' = (r.list.next_run # Null)
  BY <1>1, <1>5, <1>6, Becoming
<1>9. (list.next_run # Null)' = TRUE
  BY <1>1, <1>3, <1>4, <1>8
<1>10. Stack!HasCur
  <2>1. k # 0
    BY <1>1, <1>2, <1>4 DEF Rep
  <2>2. Len(StackOf) = k
    BY <1>2, StackType, StackNow
  <2> QED
    BY <2>1, <2>2 DEF Stack!HasCur
<1>11. Stack!Refresh
  BY <1>1, <1>7, <1>8, <1>9, <1>10, StackNow, Zenon DEF Stack!Refresh
<1> QED
  BY <1>8, <1>11 DEF Good, Stack!StackNext

LEMMA ReadyGood ==
  ASSUME NEW k, NEW s, Stands(Memory, s, k), scr_ok \in BOOLEAN, Ready
  PROVE  Good
<1>1. PICK ok \in BOOLEAN : Becomes(Executed(Memory, FALSE, ok))
  BY Zenon DEF Ready
<1>2. list.next_run # Null /\ scr_ok' = scr_ok
  BY Zenon DEF Ready
<1>3. /\ MemOK(Memory) /\ Rep(Memory, s, k) /\ Memory.list.next_run = list.next_run
      /\ Memory.list.tail = list.tail /\ list.next_run = list.tail
  BY <1>2 DEF Stands, Memory
<1>4. k # 0 /\ Memory.list.next_run = s[k]
  BY <1>2, <1>3 DEF Rep
<1> DEFINE r == Executed(Memory, FALSE, ok)
           S == StackIn(Memory)
<1>5. FALSE \in BOOLEAN
  BY Zenon
<1>6. IsReady(r, Memory, s, k, FALSE, ok)
  BY <1>3, <1>4, <1>5, ReadyStands, Zenon
<1>7. /\ Stands(r, s, k) /\ (r.list.next_run # Null) = FALSE
      /\ StackIn(r) = Stack!WithTop(S, Stack!Opened(S[k], ok))
  BY <1>6, Zenon DEF IsReady
<1> HIDE DEF r
<1>8. scr_ok' \in BOOLEAN /\ Becomes(r)
  BY <1>1, <1>2 DEF r
<1>9. /\ Inv' /\ StackOf' = StackIn(r)
      /\ (list.next_run # Null)' = (r.list.next_run # Null)
  BY <1>7, <1>8, Becoming, Zenon
<1>10. Len(S) = k
  BY <1>3, StackType
<1>11. StackOf' = Stack!WithTop(StackOf, Stack!Opened(Stack!Cur, ok))
  BY <1>7, <1>9, <1>10, StackNow, Zenon DEF Stack!Cur
<1>12. Stack!Execute(ok)
  BY <1>2, <1>7, <1>9, <1>11, Zenon DEF Stack!Execute
<1>13. Stack!StackNext
  BY <1>12, Zenon DEF Stack!StackNext
<1> QED
  BY <1>9, <1>13 DEF Good

LEMMA ResizeGood ==
  ASSUME NEW k, NEW s, Stands(Memory, s, k), Resize
  PROVE  Good
<1> DEFINE N == [a \in Addrs |-> IF a \in Chain(node, list.head)
                                 THEN [node[a] EXCEPT !.inited = FALSE] ELSE node[a]]
           r == [list |-> list, node |-> N, used |-> used]
<1>1. node' = N /\ scr_ok' \in BOOLEAN /\ list' = list /\ used' = used
  BY DEF Resize
<1>2. /\ MemOK(Memory) /\ Rep(Memory, s, k) /\ list.cur = list.tail /\ list \in ListT
      /\ list.next_run \in {Null, list.cur} /\ node \in [Addrs -> PageT]
  BY DEF Stands, Memory, MemOK
<1>3. k \in Nat /\ s \in [1..k -> Addrs] /\ Chain(node, list.head) = {s[i] : i \in 1..k}
  <2>1. Chain(Memory.node, Memory.list.head) = {s[i] : i \in 1..k}
    BY <1>2, ChainOfRep
  <2> QED
    BY <1>2, <2>1 DEF Memory, Rep, Path
<1>4. ASSUME NEW q \in PageT
      PROVE  /\ [q EXCEPT !.inited = FALSE] \in PageT
             /\ [q EXCEPT !.inited = FALSE].prev = q.prev
             /\ [q EXCEPT !.inited = FALSE].next = q.next
             /\ View([q EXCEPT !.inited = FALSE]) = [View(q) EXCEPT !.inited = FALSE]
  <2>1. FALSE \in BOOLEAN
    BY Zenon
  <2> DEFINE z == [q EXCEPT !.inited = FALSE]
  <2>2. /\ z \in PageT /\ z.prev = q.prev /\ z.next = q.next
        /\ z.cmd = q.cmd /\ z.inited = FALSE /\ z.ever = q.ever
    BY <2>1 DEF PageT
  <2>3. [View(q) EXCEPT !.inited = FALSE] = [cmd |-> q.cmd, inited |-> FALSE, ever |-> q.ever]
    <3>1. ASSUME NEW b PROVE [View(q) EXCEPT !.inited = b] = [cmd |-> q.cmd, inited |-> b, ever |-> q.ever]
      BY DEF View
    <3> QED
      BY <3>1
  <2> HIDE DEF z
  <2>4. View(z) = [cmd |-> q.cmd, inited |-> FALSE, ever |-> q.ever]
    BY <2>2, Zenon DEF View
  <2> QED
    BY <2>2, <2>3, <2>4 DEF z
<1>5. ASSUME NEW a \in Addrs
      PROVE  N[a] \in PageT /\ N[a].prev = node[a].prev /\ N[a].next = node[a].next
  <2>1. node[a] \in PageT
    BY <1>2
  <2>2. CASE a \in Chain(node, list.head)
    BY <1>4, <2>1, <2>2
  <2>3. CASE a \notin Chain(node, list.head)
    BY <2>1, <2>3
  <2> QED
    BY <2>2, <2>3
<1>6. N \in [Addrs -> PageT]
  BY <1>5
<1>7. \A i \in 1..k : View(N[s[i]]) = [View(node[s[i]]) EXCEPT !.inited = FALSE]
  <2> SUFFICES ASSUME NEW i \in 1..k
               PROVE  View(N[s[i]]) = [View(node[s[i]]) EXCEPT !.inited = FALSE]
    OBVIOUS
  <2>1. s[i] \in Addrs /\ s[i] \in Chain(node, list.head) /\ node[s[i]] \in PageT
    BY <1>2, <1>3
  <2>2. N[s[i]] = [node[s[i]] EXCEPT !.inited = FALSE]
    BY <2>1
  <2> QED
    BY <1>4, <2>1, <2>2
<1> HIDE DEF N
<1>8. r.list = Memory.list /\ r.node = N /\ r.used = Memory.used /\ Memory.node = node
  BY DEF Memory
<1>9. Becomes(r)
  BY <1>1 DEF Becomes
<1>10. r.list = list
  OBVIOUS
<1> HIDE DEF r
<1>11. MemOK(r) /\ Rep(r, s, k)
  <2>1. MemOK(r)
    BY <1>2, <1>6, <1>8 DEF MemOK
  <2>2. \A i \in 1..k : r.node[s[i]].next = node[s[i]].next /\ r.node[s[i]].prev = node[s[i]].prev
    BY <1>3, <1>5, <1>8
  <2>3. Path(r.node, r.list.head, s, k)
    BY <1>2, <1>8, <2>2 DEF Rep, Path
  <2> QED
    BY <1>2, <1>8, <2>1, <2>2, <2>3 DEF Rep
<1>12. Stands(r, s, k)
  BY <1>2, <1>10, <1>11 DEF Stands
<1>13. /\ Inv' /\ StackOf' = StackIn(r)
       /\ (list.next_run # Null)' = (r.list.next_run # Null)
  BY <1>1, <1>9, <1>12, Becoming
<1>14. StackOf' = [i \in DOMAIN StackOf |-> [StackOf[i] EXCEPT !.inited = FALSE]]
  <2>1. StackOf = [i \in 1..k |-> View(node[s[i]])]
    BY <1>2, <1>8, StackInIs, StackNow
  <2>2. StackOf' = [i \in 1..k |-> View(N[s[i]])]
    BY <1>8, <1>11, <1>13, StackInIs
  <2>3. DOMAIN StackOf = 1..k /\ \A i \in 1..k : StackOf[i] = View(node[s[i]])
    BY <2>1
  <2>4. StackOf' = [i \in 1..k |-> [StackOf[i] EXCEPT !.inited = FALSE]]
    BY <1>7, <2>2, <2>3
  <2> QED
    BY <2>3, <2>4, Zenon
<1>15. Stack!Resize(scr_ok')
  BY <1>1, <1>14, Zenon DEF Stack!Resize
<1>16. Stack!StackNext
  BY <1>1, <1>15, Zenon DEF Stack!StackNext
<1> QED
  BY <1>13, <1>16 DEF Good

LEMMA ExitGood ==
  ASSUME NEW k, NEW s, Stands(Memory, s, k), scr_ok \in BOOLEAN, ListExit
  PROVE  Good
<1> DEFINE r == ListFini(Memory)
<1>1. Becomes(r) /\ scr_ok' = scr_ok
  BY DEF ListExit
<1>2. Stands(r, << >>, 0) /\ StackIn(r) = << >> /\ r.list.next_run = Null
  BY Emptied
<1> HIDE DEF r
<1>3. Inv' /\ StackOf' = StackIn(r) /\ (list.next_run # Null)' = (r.list.next_run # Null)
  BY <1>1, <1>2, Becoming
<1>4. StackOf' = << >> /\ (list.next_run # Null)' = FALSE
  BY <1>2, <1>3
<1>5. Stack!Fini
  BY <1>1, <1>4, Zenon DEF Stack!Fini
<1> QED
  BY <1>3, <1>5 DEF Good, Stack!StackNext

LEMMA StutterGood ==
  ASSUME NEW k, NEW s, Stands(Memory, s, k), scr_ok \in BOOLEAN, UNCHANGED vars
  PROVE  Good
<1>1. list' = list /\ node' = node /\ used' = used /\ scr_ok' = scr_ok
  BY DEF vars
<1>2. Becomes(Memory)
  BY <1>1 DEF Becomes, Memory
<1>3. /\ Inv' /\ StackOf' = StackIn(Memory)
      /\ (list.next_run # Null)' = (Memory.list.next_run # Null)
  BY <1>1, <1>2, Becoming
<1>4. UNCHANGED Stack!stackVars
  BY <1>1, <1>3, StackNow DEF Stack!stackVars, Memory
<1> QED
  BY <1>3, <1>4 DEF Good

LEMMA StepGood == Inv /\ [Next]_vars => Good
<1> SUFFICES ASSUME Inv, [Next]_vars PROVE Good
  OBVIOUS
<1>1. scr_ok \in BOOLEAN
  BY DEF Inv
<1>2. PICK k \in Nat : \E s \in [1..k -> Addrs] : Stands(Memory, s, k)
  BY DEF Inv
<1>3. PICK s \in [1..k -> Addrs] : Stands(Memory, s, k)
  BY <1>2
<1> QED
  BY <1>1, <1>3, PageNextGood, HomeGood, PrevGood, RefreshGood, ReadyGood, ResizeGood,
     ExitGood, StutterGood, Zenon DEF Next

-----------------------------------------------------------------------------
LEMMA InvAlways == Spec => []Inv
<1>1. Inv /\ [Next]_vars => Inv'
  BY StepGood DEF Good
<1> QED
  BY <1>1, InitInv, PTL DEF Spec

\* What the invariant says of the list.
LEMMA InvSays == Inv => TypeOK /\ ListOK
<1> SUFFICES ASSUME Inv PROVE TypeOK /\ ListOK
  OBVIOUS
<1>1. PICK k \in Nat : \E s \in [1..k -> Addrs] : Stands(Memory, s, k)
  BY DEF Inv
<1>2. PICK s \in [1..k -> Addrs] : Stands(Memory, s, k)
  BY <1>1
<1>3. /\ Memory.list = list /\ Memory.node = node /\ Memory.used = used
  BY DEF Memory
<1>4. /\ list \in ListT /\ node \in [Addrs -> PageT] /\ used \subseteq Addrs
      /\ list.cur = list.tail /\ list.next_run \in {Null, list.cur}
  BY <1>2, <1>3 DEF Stands, MemOK
<1>5. TypeOK
  BY <1>4 DEF TypeOK, ListT, Inv
<1> DEFINE chain == Chain(node, list.head)
<1>6. chain = {s[i] : i \in 1..k} /\ Cardinality(chain) = k
  BY <1>2, <1>3, ChainOfRep DEF Stands
<1>7. /\ list.npages = k /\ used = {s[i] : i \in 1..k} /\ Null \notin Addrs
      /\ list.tail = (IF k = 0 THEN Null ELSE s[k])
      /\ list.head = (IF k = 0 THEN Null ELSE s[1])
      /\ \A i, j \in 1..k : s[i] = s[j] => i = j
      /\ \A i \in 1..k : node[s[i]].prev = IF i = 1 THEN Null ELSE s[i - 1]
      /\ \A i \in 1..k : node[s[i]].next = IF i = k THEN Null ELSE s[i + 1]
  BY <1>2, <1>3, PageListConstants DEF Stands, Rep, Path
<1> HIDE DEF chain
<1>8. ASSUME NEW i \in 1..k, NEW j \in 1..k
      PROVE  node[s[i]].next = s[j] <=> node[s[j]].prev = s[i]
  <2>1. s[i] \in Addrs /\ s[j] \in Addrs
    OBVIOUS
  <2>2. node[s[i]].next = s[j] <=> j = i + 1
    <3>1. CASE i = k
      BY <1>7, <2>1, <3>1
    <3>2. CASE i # k
      <4>1. i + 1 \in 1..k
        BY <3>2
      <4> QED
        BY <1>7, <3>2, <4>1
    <3> QED
      BY <3>1, <3>2
  <2>3. node[s[j]].prev = s[i] <=> i = j - 1
    <3>1. CASE j = 1
      BY <1>7, <2>1, <3>1
    <3>2. CASE j # 1
      <4>1. j - 1 \in 1..k
        BY <3>2
      <4> QED
        BY <1>7, <3>2, <4>1
    <3> QED
      BY <3>1, <3>2
  <2> QED
    BY <2>2, <2>3
<1>9. \A i \in 1..k : node[s[i]].next = Null <=> s[i] = list.tail
  <2> SUFFICES ASSUME NEW i \in 1..k
               PROVE  node[s[i]].next = Null <=> s[i] = list.tail
    OBVIOUS
  <2>1. CASE i = k
    BY <1>7, <2>1
  <2>2. CASE i # k
    <3>1. i + 1 \in 1..k /\ s[i + 1] \in Addrs /\ k \in 1..k /\ k # 0
      BY <2>2
    <3> QED
      BY <1>7, <2>2, <3>1
  <2> QED
    BY <2>1, <2>2
<1>10. list.tail = Null <=> list.head = Null
  <2>1. k # 0 => s[1] \in Addrs /\ s[k] \in Addrs
    OBVIOUS
  <2> QED
    BY <1>7, <2>1
<1>11. Linked
  <2>1. \A a, b \in chain : node[a].next = b <=> node[b].prev = a
    BY <1>6, <1>8
  <2>2. \A a \in chain : node[a].next = Null <=> a = list.tail
    BY <1>6, <1>9
  <2>3. Cardinality(chain) = list.npages
    BY <1>6, <1>7
  <2> QED
    BY <1>4, <1>10, <2>1, <2>2, <2>3, Zenon DEF Linked, chain
<1>12. NoneLeaked
  BY <1>4, <1>6, <1>7 DEF NoneLeaked, chain
<1> QED
  BY <1>5, <1>11, <1>12 DEF ListOK

\* The lists, pages and pointers always have the shape the code gives them (page_t,
\* page_list_t).
THEOREM TypeCorrect == Spec => []TypeOK
BY InvAlways, InvSays, PTL

\* For any number of pages, after any sequence of page_create, page_drop_next,
\* page_next_execute, page_list_fini and failed zallocs, the list is linked both ways,
\* npages is its length, the current page is the last, nothing is leaked and no freed
\* page is pending.
THEOREM ListAlwaysOK == Spec => []ListOK
BY InvAlways, InvSays, PTL

\* For any number of pages, the pointers of page.c implement the stack of pages that
\* the display thread's model runs on.
THEOREM ImplementsAlways == Spec => ImplementsStack
<1>1. Inv /\ [Next]_vars => [Stack!StackNext]_(Stack!stackVars)
  BY StepGood DEF Good
<1> QED
  BY <1>1, InvAlways, InitInv, PTL DEF Spec, ImplementsStack, Stack!StackSpec
=============================================================================
