---------------------------- MODULE RingBufferProofs ----------------------------
(***************************************************************************)
(* The reads of the ring keep to the records, for any size of the ring and *)
(* of the integers, any records and any interleaving with the kernel.      *)
(***************************************************************************)
EXTENDS RingBuffer, FiniteSetTheorems, TLAPS

(* Arithmetic modulo m, with a variable m: what the provers know of % and  *)
(* \div is DivMod, and the rest follows from congruences.                  *)

Cong(x, y, m) == \E k \in Int : x - y = m * k

LEMMA DivMod ==
  ASSUME NEW x \in Int, NEW m \in Nat \ {0}
  PROVE  x % m \in 0..(m - 1) /\ x \div m \in Int /\ x = (m * (x \div m)) + (x % m)
OBVIOUS

LEMMA MulGe ==
  ASSUME NEW m \in Nat, NEW k \in Int, k >= 1 PROVE m * k >= m
OBVIOUS

LEMMA MulLe ==
  ASSUME NEW m \in Nat, NEW k \in Int, k <= -1 PROVE m * k <= -m
OBVIOUS

LEMMA MulAdd ==
  ASSUME NEW m \in Int, NEW j \in Int, NEW k \in Int
  PROVE  /\ m * j \in Int /\ m * k \in Int
         /\ m * (j - k) = (m * j) - (m * k) /\ m * (j + k) = (m*j) + (m*k)
OBVIOUS

LEMMA MulAssoc ==
  ASSUME NEW m \in Int, NEW j \in Int, NEW k \in Int PROVE (m * j) * k = m * (j * k) /\ j * k \in Int
OBVIOUS

LEMMA CongNear ==
  ASSUME NEW m \in Nat, NEW x \in Int, NEW y \in Int, Cong(x, y, m), -m < x - y, x - y < m
  PROVE  x = y
<1>1. PICK k \in Int : x - y = m * k
  BY DEF Cong
<1>2. ~(k >= 1) /\ ~(k <= -1)
  BY <1>1, MulGe, MulLe
<1>3. k = 0
  BY <1>2
<1> QED BY <1>1, <1>3

LEMMA CongAdd ==
  ASSUME NEW m \in Nat, NEW a \in Int, NEW b \in Int, NEW c \in Int, NEW d \in Int,
         Cong(a, b, m), Cong(c, d, m)
  PROVE  Cong(a + c, b + d, m) /\ Cong(a - c, b - d, m)
<1>1. PICK k \in Int : a - b = m * k
  BY DEF Cong
<1>2. PICK l \in Int : c - d = m * l
  BY DEF Cong
<1>3. m * (k + l) = (m * k) + (m * l) /\ m * (k - l) = (m * k) - (m * l) /\ m * k \in Int /\ m * l \in Int
  BY MulAdd
<1>4. (a + c) - (b + d) = m * (k + l) /\ (a - c) - (b - d) = m * (k - l)
  BY <1>1, <1>2, <1>3
<1>5. k + l \in Int /\ k - l \in Int
  OBVIOUS
<1> QED BY <1>4, <1>5 DEF Cong

LEMMA CongRefl == ASSUME NEW m \in Nat, NEW x \in Int PROVE Cong(x, x, m)
<1>1. x - x = m * 0
  OBVIOUS
<1> QED BY <1>1 DEF Cong

LEMMA CongSym ==
  ASSUME NEW m \in Nat, NEW x \in Int, NEW y \in Int, Cong(x, y, m) PROVE Cong(y, x, m)
<1>1. PICK k \in Int : x - y = m * k
  BY DEF Cong
<1>2. y - x = m * (-k) /\ -k \in Int
  BY <1>1
<1> QED BY <1>2 DEF Cong

LEMMA CongTrans ==
  ASSUME NEW m \in Nat, NEW x \in Int, NEW y \in Int, NEW z \in Int,
         Cong(x, y, m), Cong(y, z, m)
  PROVE  Cong(x, z, m)
<1>1. Cong(x + y, y + z, m)
  BY CongAdd
<1>2. (x + y) - (y + z) = x - z
  OBVIOUS
<1> QED BY <1>1, <1>2 DEF Cong

LEMMA CongMod ==
  ASSUME NEW m \in Nat \ {0}, NEW x \in Int PROVE Cong(x % m, x, m)
<1>1. x % m \in Int /\ x \div m \in Int /\ x = (m * (x \div m)) + (x % m)
  BY DivMod
<1>2. (x % m) - x = m * (-(x \div m)) /\ -(x \div m) \in Int
  BY <1>1
<1> QED BY <1>2 DEF Cong

LEMMA ModSame ==
  ASSUME NEW m \in Nat \ {0}, NEW x \in Int, NEW y \in Int
  PROVE  Cong(x, y, m) <=> x % m = y % m
<1>1. /\ x % m \in Int /\ y % m \in Int
      /\ -m < (x % m) - (y % m) /\ (x % m) - (y % m) < m
  BY DivMod
<1>a. Cong(x % m, x, m) /\ Cong(y % m, y, m)
  BY CongMod
<1>2. Cong(x % m, x, m) /\ Cong(y % m, y, m) /\ Cong(x, x % m, m)
  BY <1>1, <1>a, CongSym
<1>3. ASSUME Cong(x, y, m) PROVE x % m = y % m
  <2>1. Cong(y, y % m, m)
    BY <1>1, <1>2, CongSym
  <2>2. Cong(x % m, y, m)
    BY <1>1, <1>2, <1>3, CongTrans
  <2>3. Cong(x % m, y % m, m)
    BY <1>1, <2>1, <2>2, CongTrans
  <2> QED BY <1>1, <2>3, CongNear
<1>4. ASSUME x % m = y % m PROVE Cong(x, y, m)
  BY <1>1, <1>2, <1>4, CongTrans
<1> QED BY <1>3, <1>4

LEMMA ModZero ==
  ASSUME NEW m \in Nat \ {0}, NEW x \in Int, x % m = 0 PROVE \E k \in Int : x = m * k
<1>1. x \div m \in Int /\ x = (m * (x \div m)) + (x % m) /\ m * (x \div m) \in Int
  BY DivMod, MulAdd
<1> QED BY <1>1

LEMMA CongDivides ==
  ASSUME NEW m \in Nat \ {0}, NEW n \in Nat, n % m = 0, NEW x \in Int, NEW y \in Int,
         Cong(x, y, n)
  PROVE  Cong(x, y, m)
<1>1. PICK k \in Int : x - y = n * k
  BY DEF Cong
<1>2. n = m * (n \div m) /\ n \div m \in Int
  BY DivMod
<1>3. n * k = m * ((n \div m) * k) /\ (n \div m) * k \in Int
  BY <1>2, MulAssoc
<1> QED BY <1>1, <1>3 DEF Cong

LEMMA ModUnique ==
  ASSUME NEW m \in Nat \ {0}, NEW x \in Int, NEW r \in Int, 0 <= r, r < m, Cong(x, r, m)
  PROVE  x % m = r
<1>0. x % m \in 0..(m - 1)
  BY DivMod
<1>1. x % m \in Int /\ -m < (x % m) - r /\ (x % m) - r < m
  BY <1>0
<1>2. Cong(x % m, x, m)
  BY CongMod
<1>3. Cong(x % m, r, m)
  BY <1>1, <1>2, CongTrans
<1> QED BY <1>1, <1>3, CongNear

-----------------------------------------------------------------------------
(* The 32-bit and the 64-bit numbers.                                      *)

Half == IntMod \div 2

LEMMA HalfIs == Half \in Nat /\ IntMod = 2 * Half /\ RingSize <= Half
<1>1. 2 * RingSize \in Nat \ {0} /\ IntMod \in Nat \ {0} /\ RingSize \in Nat
  BY RingConstants
<1>2. IntMod % (2 * RingSize) = 0
  BY RingConstants
<1>3. PICK k \in Int : IntMod = (2 * RingSize) * k
  BY <1>1, <1>2, ModZero
<1>4. (2 * RingSize) * k = 2 * (RingSize * k) /\ RingSize * k \in Int
  BY <1>1, <1>3, MulAssoc
<1>5. k >= 1
  <2>1. k # 0 /\ ~(k <= -1)
    BY <1>1, <1>3, MulLe
  <2> QED BY <1>3, <2>1
<1>6. RingSize * k >= RingSize
  BY <1>1, <1>3, <1>5, MulGe
<1> QED BY <1>1, <1>3, <1>4, <1>6 DEF Half

LEMMA I32Is ==
  ASSUME NEW x \in Int
  PROVE  /\ I32(x) \in Int /\ -Half <= I32(x) /\ I32(x) < Half
         /\ Cong(I32(x), x, IntMod)
<1>1. Half \in Nat /\ IntMod = 2 * Half /\ IntMod \in Nat \ {0}
  BY HalfIs, RingConstants
<1>2. x + Half \in Int
  BY <1>1
<1>3. (x + Half) % IntMod \in 0..(IntMod - 1)
  BY <1>1, <1>2, DivMod
<1>4. Cong((x + Half) % IntMod, x + Half, IntMod)
  BY <1>1, <1>2, CongMod
<1>5. I32(x) = ((x + Half) % IntMod) - Half
  BY DEF I32, Half
<1>6. Cong(Half, Half, IntMod) /\ (x + Half) - Half = x
  BY <1>1, CongRefl
<1>7. Cong(I32(x), x, IntMod)
  <2>1. Cong(((x + Half) % IntMod) - Half, (x + Half) - Half, IntMod)
    BY <1>1, <1>2, <1>3, <1>4, <1>6, CongAdd
  <2> QED BY <1>5, <1>6, <2>1
<1> QED BY <1>1, <1>3, <1>5, <1>7

LEMMA I32Same ==
  ASSUME NEW x \in Int, NEW y \in Int, -Half <= y, y < Half, Cong(x, y, IntMod)
  PROVE  I32(x) = y
<1>1. Half \in Nat /\ IntMod = 2 * Half /\ IntMod \in Nat
  BY HalfIs, RingConstants
<1>2. I32(x) \in Int /\ -Half <= I32(x) /\ I32(x) < Half /\ Cong(I32(x), x, IntMod)
  BY I32Is
<1>3. Cong(I32(x), y, IntMod)
  BY <1>1, <1>2, CongTrans
<1>4. -IntMod < I32(x) - y /\ I32(x) - y < IntMod
  BY <1>1, <1>2
<1> QED BY <1>1, <1>2, <1>3, <1>4, CongNear

LEMMA U64Is ==
  ASSUME NEW x \in Int PROVE U64(x) \in 0..(WordMod - 1) /\ Cong(U64(x), x, IntMod)
<1>1. WordMod \in Nat \ {0} /\ IntMod \in Nat \ {0} /\ WordMod % IntMod = 0
  BY RingConstants
<1>2. U64(x) \in 0..(WordMod - 1)
  <2>1. x % WordMod \in 0..(WordMod - 1)
    BY <1>1, DivMod
  <2> QED BY <2>1 DEF U64
<1>3. Cong(U64(x), x, WordMod) /\ U64(x) \in Int
  <2>1. Cong(x % WordMod, x, WordMod)
    BY <1>1, CongMod
  <2> QED BY <1>1, <1>2, <2>1 DEF U64
<1> QED BY <1>1, <1>2, <1>3, CongDivides

\* The ring divides the integers, so congruent positions are the same place in it.
LEMMA CongRing ==
  ASSUME NEW x \in Int, NEW y \in Int, Cong(x, y, IntMod)
  PROVE  Cong(x, y, RingSize) /\ x % RingSize = y % RingSize
<1>1. RingSize \in Nat \ {0} /\ IntMod \in Nat /\ 2 * RingSize \in Nat \ {0}
  BY RingConstants
<1>2. Cong(x, y, 2 * RingSize)
  BY <1>1, RingConstants, CongDivides
<1>3. PICK k \in Int : x - y = (2 * RingSize) * k
  BY <1>2 DEF Cong
<1>4. x - y = RingSize * (2 * k) /\ 2 * k \in Int
  BY <1>1, <1>3
<1>5. Cong(x, y, RingSize)
  BY <1>4 DEF Cong
<1> QED BY <1>1, <1>5, ModSame

-----------------------------------------------------------------------------
(* What the reader relies on.                                              *)

\* What the reader has not taken yet, and the unit at a position of the stream.
Dist == I32(head - tail)
At(p) == ring[p % RingSize]
Unread == Pos..(head - 1)

DistOK == Dist \in 0..(RingSize - 1)

\* Whatever is left unread belongs to whole records that the kernel wrote one after
\* another.
CellOK(p) ==
  LET c == At(p)
  IN /\ c.at \in Nat /\ c.len \in Nat /\ c.at <= p /\ p < c.at + c.len /\ c.at + c.len <= head
     /\ c.off = p - c.at
     /\ c.type = "SAMPLE" => c.dlen \in DataLens /\ c.len = SampleLen(c.dlen)
SameRecord(p, q) ==
  At(p).at <= q /\ q < At(p).at + At(p).len =>
    /\ At(q).at = At(p).at /\ At(q).len = At(p).len
    /\ At(q).type = At(p).type /\ At(q).dlen = At(p).dlen
RingOK == \A p \in Unread : CellOK(p) /\ \A q \in Unread : SameRecord(p, q)

\* A record starts at position p, or nothing is left to read there.
StartsAt(p) == p = head \/ (p < head /\ At(p).at = p)

\* Between two records, or inside one of which `size' units are left.
ReadOK ==
  /\ pc \in {"idle", "header"} =>
       size = 0 /\ field = 1 /\ data_size = 0 /\ ret = "none" /\ StartsAt(Pos)
  /\ pc \in {"field", "data", "skip"} =>
       /\ size > 0 /\ size <= Dist /\ StartsAt(Pos + size)
       /\ \A p \in Pos..(Pos + size - 1) : At(p).at = at
  /\ pc = "field" =>
       /\ At(Pos).type = "SAMPLE" /\ size = FieldsFrom[field] + At(Pos).dlen
       /\ data_size = 0 /\ ret = "none"
  /\ pc = "data" => size = data_size /\ data_size \in DataLens /\ ret = "none"
  /\ pc = "skip" => ret \in {"none", "fail"}

\* The samples that are still to be stored have room.
Samples == {p \in Unread : At(p).at = p /\ At(p).type = "SAMPLE"}
CountOK ==
  /\ nrec <= BufCap + added
  /\ pc \in {"header", "skip"} => nrec + Cardinality(Samples) <= BufCap + added
  /\ pc \in {"field", "data"} => nrec + 1 + Cardinality(Samples) <= BufCap + added

RingInv == TypeOK /\ DistOK /\ RingOK /\ ReadOK /\ CountOK

-----------------------------------------------------------------------------
(* Where a step leaves the reader.                                         *)

Positions == head \in Nat /\ tail \in Int /\ DistOK

LEMMA PosIs ==
  ASSUME Positions
  PROVE  /\ Dist \in Nat /\ Dist < RingSize /\ Pos = head - Dist /\ Pos \in Int
         /\ Cong(head - tail, Dist, IntMod) /\ Cong(tail, Pos, IntMod)
<1>1. head - tail \in Int /\ RingSize \in Nat /\ IntMod \in Nat
  BY RingConstants DEF Positions
<1>2. Dist \in Nat /\ Dist < RingSize /\ Pos = head - Dist /\ Pos \in Int
  BY <1>1 DEF Positions, DistOK, Pos, Dist
<1>3. Cong(Dist, head - tail, IntMod)
  BY <1>1, I32Is DEF Dist
<1>4. Cong(head - tail, Dist, IntMod)
  BY <1>1, <1>2, <1>3, CongSym
<1>5. Cong(head, head, IntMod) /\ head \in Int /\ tail \in Int
  BY <1>1, CongRefl DEF Positions
<1>6. Cong(head - (head - tail), head - Dist, IntMod)
  BY <1>1, <1>2, <1>4, <1>5, CongAdd
<1>7. head - (head - tail) = tail
  BY <1>5
<1> QED BY <1>2, <1>4, <1>6, <1>7

\* The distance is known by what it is congruent to.
LEMMA DistTo ==
  ASSUME Positions, head' \in Nat, tail' \in Int,
         NEW d \in Nat, d < RingSize, Cong(head' - tail', d, IntMod)
  PROVE  Dist' = d /\ Pos' = head' - d /\ Positions'
<1>1. RingSize <= Half /\ Half \in Nat /\ RingSize \in Nat /\ head' - tail' \in Int
  BY HalfIs, RingConstants
<1>2. I32(head' - tail') = d
  BY <1>1, I32Same
<1> QED BY <1>1, <1>2 DEF Dist, Pos, Positions, DistOK

LEMMA Moved ==
  ASSUME Positions, NEW n \in Nat, n <= Dist, head' = head, tail' = U64(tail + n)
  PROVE  Dist' = Dist - n /\ Pos' = Pos + n /\ Positions'
<1>1. Dist \in Nat /\ Dist < RingSize /\ Pos = head - Dist /\ Cong(head - tail, Dist, IntMod)
  BY PosIs
<1>2. tail + n \in Int /\ head \in Int /\ tail \in Int /\ IntMod \in Nat /\ RingSize \in Nat
  BY RingConstants DEF Positions
<1>3. tail' \in Int /\ Cong(tail', tail + n, IntMod)
  <2>1. tail' \in 0..(WordMod - 1) /\ Cong(tail', tail + n, IntMod)
    BY <1>2, U64Is
  <2> QED BY <2>1, RingConstants
<1>4. Cong(head, head, IntMod) /\ Cong(n, n, IntMod)
  BY <1>2, CongRefl
<1>5. Cong(head - tail', head - (tail + n), IntMod)
  BY <1>2, <1>3, <1>4, CongAdd
<1>6. Cong((head - tail) - n, Dist - n, IntMod)
  BY <1>1, <1>2, <1>4, CongAdd
<1>7. (head - tail) - n = head - (tail + n)
  BY <1>2
<1>8. Cong(head - tail', Dist - n, IntMod)
  BY <1>1, <1>2, <1>3, <1>5, <1>6, <1>7, CongTrans
<1>9. Dist - n \in Nat /\ Dist - n < RingSize
  BY <1>1, <1>2
<1>10. Dist' = Dist - n /\ Pos' = head' - (Dist - n) /\ Positions'
  BY <1>2, <1>3, <1>8, <1>9, DistTo DEF Positions
<1> QED BY <1>1, <1>2, <1>10

LEMMA MovedToHead ==
  ASSUME Positions, head' = head, tail' \in Int, Cong(tail', head, IntMod)
  PROVE  Dist' = 0 /\ Pos' = head /\ Positions'
<1>1. head \in Nat /\ head \in Int /\ IntMod \in Nat /\ RingSize \in Nat \ {0}
  BY RingConstants DEF Positions
<1>2. Cong(head, head, IntMod)
  BY <1>1, CongRefl
<1>3. Cong(head - tail', head - head, IntMod)
  BY <1>1, <1>2, CongAdd
<1>4. Dist' = 0 /\ Pos' = head' - 0 /\ Positions'
  BY <1>1, <1>3, DistTo
<1> QED BY <1>1, <1>4

LEMMA WasReset ==
  ASSUME Positions, head' = head, tail' = U64(I32(head))
  PROVE  Dist' = 0 /\ Pos' = head /\ Positions'
<1>1. head \in Int /\ IntMod \in Nat
  BY RingConstants DEF Positions
<1>2. I32(head) \in Int /\ Cong(I32(head), head, IntMod)
  BY <1>1, I32Is
<1>3. tail' \in Int /\ Cong(tail', I32(head), IntMod)
  <2>1. tail' \in 0..(WordMod - 1) /\ Cong(tail', I32(head), IntMod)
    BY <1>2, U64Is
  <2> QED BY <2>1, RingConstants
<1> QED BY <1>1, <1>2, <1>3, CongTrans, MovedToHead

\* A skip passes n units, or all there is when the position's sign turns between them.
LEMMA WasSkipped ==
  ASSUME Positions, NEW n \in Nat, n <= Dist, head' = head, tail' = Skipped(n)
  PROVE  /\ Positions'
         /\ \/ Dist' = Dist - n /\ Pos' = Pos + n
            \/ Dist' = 0 /\ Pos' = head /\ I32(head) < 0 /\ I32(tail + n) >= 0
<1>1. /\ Dist \in Nat /\ Dist < RingSize /\ Pos = head - Dist
      /\ Cong(head - tail, Dist, IntMod)
  BY PosIs
<1>2. /\ tail + n \in Int /\ head \in Int /\ tail \in Int /\ head \in Nat
      /\ IntMod = 2 * Half /\ Half \in Nat /\ RingSize <= Half /\ RingSize \in Nat /\ IntMod \in Nat
  BY HalfIs, RingConstants DEF Positions
<1>3. CASE ~(I32(tail + n) > I32(head))
  BY <1>3, Moved DEF Skipped
<1>4. CASE I32(tail + n) > I32(head)
  <2>1. /\ I32(head) \in Int /\ -Half <= I32(head) /\ I32(head) < Half
        /\ Cong(I32(head), head, IntMod)
    BY <1>2, I32Is
  <2>2. /\ I32(tail + n) \in Int /\ -Half <= I32(tail + n) /\ I32(tail + n) < Half
        /\ Cong(I32(tail + n), tail + n, IntMod)
    BY <1>2, I32Is
  <2>3. Pos' = head /\ Dist' = 0 /\ Positions'
    <3> DEFINE e == I32(head) - tail
    <3>1. e \in Int /\ Cong(tail, tail, IntMod) /\ IntMod \in Nat
      BY <1>2, <2>1, CongRefl
    <3>2. I32(e) \in Int /\ Cong(I32(e), e, IntMod)
      BY <3>1, I32Is
    <3>3. Cong(tail + I32(e), tail + e, IntMod)
      BY <1>2, <3>1, <3>2, CongAdd
    <3>4. tail + e = I32(head) /\ tail + I32(e) \in Int
      BY <1>2, <2>1, <3>2
    <3>5. Cong(tail + I32(e), head, IntMod)
      BY <1>2, <2>1, <3>1, <3>3, <3>4, CongTrans
    <3>6. tail' = U64(tail + I32(e))
      BY <1>4 DEF Skipped
    <3>7. tail' \in Int /\ Cong(tail', tail + I32(e), IntMod)
      <4>1. tail' \in 0..(WordMod - 1) /\ Cong(tail', tail + I32(e), IntMod)
        BY <3>4, <3>6, U64Is
      <4> QED BY <4>1, RingConstants
    <3>8. Cong(tail', head, IntMod)
      BY <1>2, <3>1, <3>4, <3>5, <3>7, CongTrans
    <3> QED BY <3>7, <3>8, MovedToHead
  <2>4. Cong(I32(head) - I32(tail + n), Dist - n, IntMod)
    <3>1. Cong(n, n, IntMod)
      BY <1>2, CongRefl
    <3>2. Cong((head - tail) - n, Dist - n, IntMod)
      BY <1>1, <1>2, <3>1, CongAdd
    <3>3. Cong(I32(head) - I32(tail + n), head - (tail + n), IntMod)
      BY <1>2, <2>1, <2>2, CongAdd
    <3>4. head - (tail + n) = (head - tail) - n
      BY <1>2
    <3> QED BY <1>1, <1>2, <2>1, <2>2, <3>2, <3>3, <3>4, CongTrans
  <2>5. I32(head) < 0 /\ I32(tail + n) >= 0
    <3> DEFINE u == I32(head)
               v == I32(tail + n)
               g == Dist - n
    <3>1. u \in Int /\ v \in Int /\ g \in Nat /\ g < RingSize /\ v > u
      BY <1>1, <1>2, <1>4, <2>1, <2>2
    <3>2. PICK k \in Int : (u - v) - g = IntMod * k
      BY <2>4 DEF Cong
    <3> HIDE DEF u, v, g
    <3>3. k # 0
      BY <1>2, <3>1, <3>2
    <3>4. ~(k >= 1)
      <4>1. k >= 1 => IntMod * k >= IntMod
        BY <1>2, MulGe
      <4>2. (u - v) - g < IntMod
        BY <1>2, <3>1
      <4> QED BY <1>2, <3>1, <3>2, <4>1, <4>2
    <3>5. IntMod * k <= -IntMod
      BY <1>2, <3>2, <3>3, <3>4, MulLe
    <3>6. -Half <= u /\ u < Half /\ -Half <= v /\ v < Half
      BY <2>1, <2>2 DEF u, v
    <3>7. (u - v) - g <= -(2 * Half)
      BY <1>2, <3>2, <3>5
    <3>8. u < 0 /\ v >= 0
      BY <1>2, <3>1, <3>6, <3>7
    <3> QED BY <3>8 DEF u, v
  <2> QED BY <2>3, <2>5
<1> QED BY <1>3, <1>4

-----------------------------------------------------------------------------
(* The lengths of the records.                                             *)

LEMMA LeastNat ==
  ASSUME NEW T \in SUBSET Nat, T # {}
  PROVE  \E x \in T : \A y \in T : x <= y
<1>1. PICK x \in T : \A y \in T : ~(<<y, x>> \in OpToRel(<, Nat))
  BY NatLessThanWellFounded, WFMin, Zenon
<1>2. \A y \in T : ~(y < x)
  BY <1>1 DEF OpToRel
<1> QED BY <1>2

\* f gives the sums of the fields from the j-th on.
Sums(f, j) ==
  /\ f = [k \in j..(Len(Fields) + 1) |-> f[k]]
  /\ \A k \in j..(Len(Fields) + 1) :
       f[k] = (IF k > Len(Fields) THEN 0 ELSE Fields[k] + f[k + 1]) /\ f[k] \in Nat

LEMMA FieldIs == Len(Fields) \in Nat \ {0} /\ \A k \in 1..Len(Fields) : Fields[k] \in Nat \ {0}
BY RingConstants

LEMMA SumsOneMore ==
  ASSUME NEW j \in 1..Len(Fields), NEW f, Sums(f, j + 1) PROVE \E g : Sums(g, j)
<1> DEFINE L == Len(Fields)
           g == [k \in j..(L + 1) |-> IF k = j THEN Fields[j] + f[j + 1] ELSE f[k]]
<1>1. L \in Nat /\ Fields[j] \in Nat
  BY FieldIs
<1>2. f[j + 1] \in Nat
  BY <1>1 DEF Sums
<1>3. ASSUME NEW k \in j..(L + 1)
      PROVE  g[k] = (IF k > L THEN 0 ELSE Fields[k] + g[k + 1]) /\ g[k] \in Nat
  <2>1. CASE k = j
    BY <1>1, <1>2, <2>1
  <2>2. CASE k # j
    <3>1. k \in (j + 1)..(L + 1)
      BY <1>1, <2>2
    <3>2. f[k] = (IF k > L THEN 0 ELSE Fields[k] + f[k + 1]) /\ f[k] \in Nat
      BY <3>1 DEF Sums
    <3>3. g[k] = f[k] /\ (k <= L => g[k + 1] = f[k + 1])
      BY <1>1, <2>2, <3>1
    <3> QED BY <1>1, <3>1, <3>2, <3>3
  <2> QED BY <2>1, <2>2
<1>4. g = [k \in j..(L + 1) |-> g[k]]
  OBVIOUS
<1> HIDE DEF g
<1> QED BY <1>3, <1>4 DEF Sums

LEMMA SumsExist == \E f : Sums(f, 1)
<1> DEFINE L == Len(Fields)
           Short == {n \in 0..L : ~\E f : Sums(f, L + 1 - n)}
<1>1. L \in Nat
  BY FieldIs
<1>2. 0 \notin Short
  <2> DEFINE f == [k \in (L + 1)..(L + 1) |-> 0]
  <2>1. \A k \in (L + 1)..(L + 1) : k > L /\ f[k] = 0
    BY <1>1
  <2>2. Sums(f, L + 1)
    BY <1>1, <2>1 DEF Sums
  <2>3. L + 1 - 0 = L + 1
    BY <1>1
  <2> HIDE DEF f
  <2> QED BY <2>2, <2>3
<1>3. ASSUME NEW n \in Short, \A y \in Short : n <= y PROVE FALSE
  <2>1. n \in 1..L /\ n - 1 \in 0..L /\ ~(n - 1 >= n)
    BY <1>1, <1>2
  <2>2. n - 1 \notin Short
    BY <1>1, <1>3, <2>1
  <2>3. PICK f : Sums(f, L + 1 - (n - 1))
    BY <2>1, <2>2
  <2>4. L + 1 - n \in 1..L /\ L + 1 - (n - 1) = (L + 1 - n) + 1
    BY <1>1, <2>1
  <2>5. \E g : Sums(g, L + 1 - n)
    BY <2>3, <2>4, SumsOneMore
  <2> QED BY <2>5
<1>4. Short \subseteq Nat
  BY <1>1
<1>5. Short = {}
  BY <1>3, <1>4, LeastNat
<1>6. L \in 0..L /\ L + 1 - L = 1
  BY <1>1
<1> QED BY <1>5, <1>6

LEMMA FieldsIs ==
  \A k \in 1..(Len(Fields) + 1) :
    /\ FieldsFrom[k] = (IF k > Len(Fields) THEN 0 ELSE Fields[k] + FieldsFrom[k + 1])
    /\ FieldsFrom[k] \in Nat
<1> DEFINE L == Len(Fields)
           Eq(f) == f = [k \in 1..(L + 1) |-> IF k > L THEN 0 ELSE Fields[k] + f[k + 1]]
<1>1. PICK f : Sums(f, 1)
  BY SumsExist
<1>2. Eq(f)
  BY <1>1 DEF Sums
<1>3. FieldsFrom = CHOOSE g : Eq(g)
  BY Zenon DEF FieldsFrom
<1>4. Eq(FieldsFrom)
  BY <1>2, <1>3, Zenon
<1>5. \A k \in 1..(L + 1) :
        FieldsFrom[k] = (IF k > L THEN 0 ELSE Fields[k] + FieldsFrom[k + 1])
  BY <1>4
<1>6. \A k \in 1..(L + 1) : FieldsFrom[k] \in Nat
  <2> DEFINE Odd == {n \in 0..L : FieldsFrom[L + 1 - n] \notin Nat}
  <2>1. L \in Nat
    BY FieldIs
  <2>2. ASSUME NEW n \in Odd, \A y \in Odd : n <= y PROVE FALSE
    <3>1. L + 1 - n \in 1..(L + 1) /\ n \in Nat
      BY <2>1
    <3>2. n # 0
      BY <1>5, <2>1, <3>1
    <3>3. L + 1 - n \in 1..L /\ (L + 1 - n) + 1 = L + 1 - (n - 1) /\ n - 1 \in 0..L /\ ~(n - 1 >= n)
      BY <2>1, <3>1, <3>2
    <3>4. FieldsFrom[L + 1 - (n - 1)] \in Nat
      BY <2>2, <3>1, <3>3
    <3>5. FieldsFrom[L + 1 - n] = Fields[L + 1 - n] + FieldsFrom[L + 1 - (n - 1)]
      BY <1>5, <2>1, <3>1, <3>3
    <3> QED BY <3>3, <3>4, <3>5, FieldIs
  <2>3. Odd \in SUBSET Nat
    BY <2>1
  <2>4. Odd = {}
    BY <2>2, <2>3, LeastNat
  <2>5. ASSUME NEW k \in 1..(L + 1) PROVE FieldsFrom[k] \in Nat
    <3>1. L + 1 - k \in 0..L /\ L + 1 - (L + 1 - k) = k
      BY <2>1
    <3> QED BY <2>4, <3>1
  <2> QED BY <2>5
<1> QED BY <1>5, <1>6

LEMMA SampleLenIs ==
  ASSUME NEW d \in DataLens
  PROVE  /\ d \in Nat \ {0} /\ SampleLen(d) = HeaderLen + FieldsFrom[1] + d
         /\ FieldsFrom[1] \in Nat /\ SampleLen(d) \in Nat /\ SampleLen(d) > HeaderLen
<1>1. FieldsFrom[1] \in Nat
  BY FieldsIs, FieldIs
<1> QED BY <1>1, RingConstants DEF SampleLen

-----------------------------------------------------------------------------
(* The contents of the ring.                                               *)

LEMMA RingLenIs == RingSize \in Nat \ {0} /\ RingSize \in Nat /\ HeaderLen \in Nat \ {0}
BY RingConstants

\* i units behind a position that lies at place r of the ring.
LEMMA PlaceOf ==
  ASSUME NEW x \in Int, NEW i \in Int, NEW y \in Int,
         0 <= y, y < RingSize, Cong(x, y - i, RingSize)
  PROVE  (x + i) % RingSize = y
<1>1. Cong(i, i, RingSize) /\ y - i \in Int /\ x + i \in Int
  BY RingLenIs, CongRefl
<1>2. Cong(x + i, (y - i) + i, RingSize)
  BY <1>1, RingLenIs, CongAdd
<1>3. (y - i) + i = y
  OBVIOUS
<1> QED BY <1>1, <1>2, <1>3, RingLenIs, ModUnique

LEMMA Copies ==
  ASSUME Positions, NEW n \in Nat, n <= RingSize, NEW i \in 0..(n - 1)
  PROVE  Copied(n)[i] = At(Pos + i)
<1> DEFINE from == tail % RingSize
<1>1. /\ Pos \in Int /\ tail \in Int /\ Cong(tail, Pos, IntMod) /\ i \in Int
      /\ RingSize \in Nat \ {0} /\ IntMod \in Nat
  BY PosIs, RingConstants DEF Positions
<1>2. from \in 0..(RingSize - 1) /\ Cong(from, tail, RingSize)
  BY <1>1, DivMod, CongMod
<1> HIDE DEF from
<1>3. Cong(tail, Pos, RingSize)
  BY <1>1, CongRing
<1>4. Cong(from, Pos, RingSize) /\ from \in Int
  BY <1>1, <1>2, <1>3, CongTrans
<1>5. Cong(Pos, from, RingSize)
  BY <1>1, <1>4, CongSym
<1>6. CASE i < RingSize - from
  <2>1. Cong(i, i, RingSize)
    BY <1>1, CongRefl
  <2>2. Cong(Pos + i, from + i, RingSize) /\ from + i \in Int /\ Pos + i \in Int
    BY <1>1, <1>4, <1>5, <2>1, CongAdd
  <2>3. (Pos + i) % RingSize = from + i
    <3>1. 0 <= from + i /\ from + i < RingSize
      BY <1>1, <1>2, <1>6
    <3> QED BY <1>1, <2>2, <3>1, ModUnique
  <2>4. Copied(n)[i] = ring[from + i]
    BY <1>6 DEF Copied, from
  <2> QED BY <2>3, <2>4 DEF At
<1>7. CASE ~(i < RingSize - from)
  <2> DEFINE y == i - (RingSize - from)
  <2>1. y \in Int /\ 0 <= y /\ y < RingSize /\ y - i = from - RingSize
    BY <1>1, <1>2, <1>7
  <2>2. from - (from - RingSize) = RingSize * 1
    BY <1>1, <1>4
  <2>3. Cong(from, from - RingSize, RingSize) /\ from - RingSize \in Int
    BY <1>1, <1>4, <2>2 DEF Cong
  <2>4. Cong(Pos, from - RingSize, RingSize)
    BY <1>1, <1>4, <1>5, <2>3, CongTrans
  <2>5. (Pos + i) % RingSize = y
    BY <1>1, <2>1, <2>4, PlaceOf
  <2>6. Copied(n)[i] = ring[y]
    BY <1>7 DEF Copied, from
  <2> QED BY <2>5, <2>6 DEF At
<1> QED BY <1>6, <1>7

\* The header or the field that is read is the one at the reader's position.
LEMMA CopiesFirst ==
  ASSUME Positions, NEW n \in Nat \ {0} PROVE Copied(n)[0] = At(Pos)
<1>1. /\ Pos \in Int /\ tail \in Int /\ Cong(tail, Pos, IntMod) /\ RingSize \in Nat \ {0}
  BY PosIs, RingConstants DEF Positions
<1>2. tail % RingSize = Pos % RingSize
  BY <1>1, CongRing
<1>3. tail % RingSize \in 0..(RingSize - 1)
  BY <1>1, DivMod
<1> DEFINE from == tail % RingSize
<1> HIDE DEF from
<1>4. from \in 0..(RingSize - 1) /\ from + 0 = from /\ 0 < RingSize - from /\ 0 \in 0..(n - 1)
  BY <1>1, <1>3 DEF from
<1>5. Copied(n)[0] = ring[from]
  BY <1>4 DEF Copied, from
<1> QED BY <1>2, <1>5 DEF At, from

LEMMA OriginIs ==
  ASSUME Positions, NEW n \in Nat \ {0}, n <= RingSize, NEW a,
         \A p \in Pos..(Pos + n - 1) : At(p).at = a
  PROVE  Origin(n) = {a}
<1>1. Pos \in Int
  BY PosIs
<1>2. \A i \in 0..(n - 1) : Copied(n)[i].at = a
  <2> TAKE i \in 0..(n - 1)
  <2>1. Pos + i \in Pos..(Pos + n - 1)
    BY <1>1
  <2>2. Copied(n)[i] = At(Pos + i)
    BY Copies
  <2> QED BY <2>1, <2>2
<1>3. DOMAIN Copied(n) = 0..(n - 1) /\ 0 \in 0..(n - 1)
  BY DEF Copied
<1> QED BY <1>2, <1>3 DEF Origin, Range

LEMMA AvailableIs == ASSUME NEW n PROVE Available(n) <=> Dist >= n
BY DEF Available, Dist

-----------------------------------------------------------------------------
(* What the invariant says of the records that are left.                   *)

LEMMA UnreadIs ==
  ASSUME Positions, NEW p
  PROVE  p \in Unread <=> p \in Int /\ Pos <= p /\ p < head
BY PosIs DEF Unread, Positions

\* Where a record ends the next one starts.
LEMMA NextStart ==
  ASSUME Positions, RingOK, NEW p \in Unread
  PROVE  StartsAt(At(p).at + At(p).len) /\ At(p).at + At(p).len <= head
<1> DEFINE e == At(p).at + At(p).len
<1>1. p \in Int /\ Pos <= p /\ p < head /\ Pos \in Int /\ head \in Int
  BY UnreadIs, PosIs DEF Positions
<1>2. At(p).at \in Nat /\ At(p).len \in Nat /\ At(p).at <= p /\ p < e /\ e <= head
  BY DEF RingOK, CellOK
<1>3. ASSUME e < head, At(e).at # e PROVE FALSE
  <2>1. e \in Unread /\ e - 1 \in Unread
    BY <1>1, <1>2, <1>3, UnreadIs
  <2>2. At(e).at \in Nat /\ At(e).len \in Nat /\ At(e).at <= e /\ e < At(e).at + At(e).len
    BY <2>1 DEF RingOK, CellOK
  <2>3. At(e - 1).at = At(p).at /\ At(e - 1).len = At(p).len
    <3>1. SameRecord(p, e - 1)
      BY <2>1 DEF RingOK
    <3>2. At(p).at <= e - 1 /\ e - 1 < At(p).at + At(p).len
      BY <1>1, <1>2
    <3> QED BY <3>1, <3>2 DEF SameRecord
  <2>4. At(e - 1).at = At(e).at /\ At(e - 1).len = At(e).len
    <3>1. SameRecord(e, e - 1)
      BY <2>1 DEF RingOK
    <3>2. At(e).at <= e - 1 /\ e - 1 < At(e).at + At(e).len
      BY <1>2, <1>3, <2>2
    <3> QED BY <3>1, <3>2 DEF SameRecord
  <2> QED BY <1>2, <2>2, <2>3, <2>4
<1>4. e \in Int /\ head \in Int
  BY <1>1, <1>2
<1> HIDE DEF e
<1>5. e = head \/ (e < head /\ At(e).at = e)
  BY <1>2, <1>3, <1>4
<1> QED BY <1>2, <1>5 DEF StartsAt, e

\* A record whose start is still unread can be read there, and is whole.
LEMMA HeaderThere ==
  ASSUME Positions, RingOK, StartsAt(Pos), Pos # head
  PROVE  /\ Pos \in Unread /\ At(Pos).at = Pos /\ At(Pos).len \in Nat \ {0}
         /\ Pos + At(Pos).len <= head /\ StartsAt(Pos + At(Pos).len)
         /\ At(Pos).off = 0
         /\ \A p \in Pos..(Pos + At(Pos).len - 1) :
              At(p).at = Pos /\ At(p).type = At(Pos).type /\ At(p).dlen = At(Pos).dlen
<1>1. Pos \in Int /\ head \in Int /\ Pos < head /\ At(Pos).at = Pos
  BY PosIs DEF Positions, StartsAt
<1>2. Pos \in Unread
  BY <1>1, UnreadIs
<1>3. CellOK(Pos)
  BY <1>2 DEF RingOK
<1>4. At(Pos).len \in Nat /\ Pos < Pos + At(Pos).len /\ Pos + At(Pos).len <= head /\ At(Pos).off = Pos - Pos
  BY <1>1, <1>3 DEF CellOK
<1>5. StartsAt(Pos + At(Pos).len)
  BY <1>1, <1>2, NextStart
<1>6. \A p \in Pos..(Pos + At(Pos).len - 1) :
        At(p).at = Pos /\ At(p).type = At(Pos).type /\ At(p).dlen = At(Pos).dlen
  <2> TAKE p \in Pos..(Pos + At(Pos).len - 1)
  <2>1. p \in Int /\ Pos <= p /\ p < Pos + At(Pos).len
    BY <1>1, <1>4
  <2>2. p \in Unread
    BY <1>1, <1>4, <2>1, UnreadIs
  <2>3. SameRecord(Pos, p)
    BY <1>2, <2>2 DEF RingOK
  <2> QED BY <1>1, <2>1, <2>3 DEF SameRecord
<1> QED BY <1>1, <1>2, <1>4, <1>5, <1>6

\* Steps of the reader leave what they pass behind, and the rest as it was.
Passed == kernelVars' = kernelVars /\ Positions' /\ Pos' \in Int /\ Pos <= Pos'

LEMMA PassedIs ==
  ASSUME Passed PROVE head' = head /\ ring' = ring /\ \A p : At(p)' = At(p)
BY DEF Passed, kernelVars, At

LEMMA PassedRing ==
  ASSUME Positions, RingOK, Passed
  PROVE  /\ RingOK'
         /\ \A p \in Int : StartsAt(p) => StartsAt(p)'
         /\ Unread' \subseteq Unread
<1>1. head' = head /\ ring' = ring /\ \A p : At(p)' = At(p)
  BY PassedIs
<1>2. Pos \in Int /\ Pos' \in Int /\ Pos <= Pos' /\ head \in Int
  BY PosIs DEF Passed, Positions
<1>3. Unread' \subseteq Unread
  BY <1>1, <1>2 DEF Unread
<1>4. \A p : CellOK(p) => CellOK(p)'
  BY <1>1 DEF CellOK
<1>5. \A p, q : SameRecord(p, q) => SameRecord(p, q)'
  BY <1>1 DEF SameRecord
<1>6. RingOK'
  BY <1>3, <1>4, <1>5 DEF RingOK
<1>7. \A p \in Int : StartsAt(p) => StartsAt(p)'
  BY <1>1 DEF StartsAt
<1> QED BY <1>3, <1>6, <1>7

LEMMA SamplesFinite ==
  ASSUME Positions PROVE IsFiniteSet(Samples) /\ Cardinality(Samples) \in Nat
<1>1. Pos \in Int /\ head - 1 \in Int
  BY PosIs DEF Positions
<1>2. IsFiniteSet(Unread)
  BY <1>1, FS_Interval DEF Unread
<1>3. Samples \in SUBSET Unread
  BY DEF Samples
<1>4. IsFiniteSet(Samples)
  BY <1>2, <1>3, FS_Subset
<1> QED BY <1>4, FS_CardinalityType

LEMMA PassedSamples ==
  ASSUME Positions, RingOK, Passed
  PROVE  /\ Cardinality(Samples)' \in Nat /\ Cardinality(Samples) \in Nat
         /\ Cardinality(Samples)' <= Cardinality(Samples)
         /\ Pos < Pos' /\ Pos \in Samples => Cardinality(Samples)' + 1 <= Cardinality(Samples)
<1>1. head' = head /\ ring' = ring /\ \A p : At(p)' = At(p)
  BY PassedIs
<1>2. Unread' \subseteq Unread
  BY PassedRing
<1>3. Samples' \in SUBSET Samples
  BY <1>1, <1>2 DEF Samples
<1>4. IsFiniteSet(Samples) /\ Cardinality(Samples) \in Nat
  BY SamplesFinite
<1>5. IsFiniteSet(Samples') /\ Cardinality(Samples') <= Cardinality(Samples)
  BY <1>3, <1>4, FS_Subset
<1>6. Cardinality(Samples') \in Nat
  BY <1>5, FS_CardinalityType
<1>7. ASSUME Pos < Pos', Pos \in Samples PROVE Cardinality(Samples') + 1 <= Cardinality(Samples)
  <2>1. Pos \in Int /\ Pos' \in Int
    BY PosIs DEF Passed
  <2>2. Pos \notin Samples'
    BY <1>7, <2>1 DEF Samples, Unread
  <2>3. IsFiniteSet(Samples \ {Pos}) /\ Cardinality(Samples \ {Pos}) = Cardinality(Samples) - 1
    BY <1>4, <1>7, FS_RemoveElement
  <2>4. Samples' \in SUBSET (Samples \ {Pos})
    BY <1>3, <2>2
  <2>5. Cardinality(Samples') <= Cardinality(Samples \ {Pos})
    BY <2>3, <2>4, FS_Subset
  <2> QED BY <1>4, <1>6, <2>3, <2>5
<1> QED BY <1>4, <1>5, <1>6, <1>7

-----------------------------------------------------------------------------
(* A buffer of BufCap records holds the samples that a ring holds.         *)

\* Numbers that lie m apart have different quotients.
LEMMA DivFar ==
  ASSUME NEW m \in Nat \ {0}, NEW x \in Nat, NEW y \in Nat, x + m <= y
  PROVE  x \div m # y \div m
<1> DEFINE a == x \div m
           b == y \div m
<1>1. a \in Int /\ b \in Int /\ x % m \in 0..(m - 1) /\ y % m \in 0..(m - 1)
  BY DivMod
<1>2. x = (m * a) + (x % m) /\ y = (m * b) + (y % m)
  BY DivMod
<1> HIDE DEF a, b
<1>3. ASSUME a = b PROVE FALSE
  <2>1. m * a = m * b /\ m * a \in Int
    BY <1>1, <1>3, MulAdd
  <2>2. y - x = (y % m) - (x % m)
    BY <1>1, <1>2, <2>1
  <2> QED BY <1>1, <2>2
<1> QED BY <1>3 DEF a, b

LEMMA DivBelow ==
  ASSUME NEW m \in Nat \ {0}, NEW x \in Nat, NEW n \in Nat, x < n * m
  PROVE  x \div m \in 0..(n - 1)
<1> DEFINE a == x \div m
<1>1. a \in Int /\ x % m \in 0..(m - 1) /\ x = (m * a) + (x % m)
  BY DivMod
<1> HIDE DEF a
<1>2. ~(a <= -1)
  BY <1>1, MulLe
<1>3. ASSUME a >= n PROVE FALSE
  <2>1. m * (a - n) = (m * a) - (m * n) /\ m * a \in Int /\ m * n \in Int
    BY <1>1, MulAdd
  <2>2. n * m = m * n
    OBVIOUS
  <2>3. m * (a - n) >= 0
    <3>1. a - n \in Nat
      BY <1>1, <1>3
    <3>2. m * (a - n) \in Nat
      BY <3>1
    <3> QED BY <3>2
  <2> QED BY <1>1, <2>1, <2>2, <2>3
<1> QED BY <1>1, <1>2, <1>3 DEF a

LEMMA SamplesApart ==
  ASSUME Positions, RingOK, NEW p \in Samples, NEW q \in Samples, p < q
  PROVE  p + SampleLen(At(p).dlen) <= q
<1>1. p \in Unread /\ q \in Unread /\ At(p).at = p /\ At(q).at = q /\ At(p).type = "SAMPLE"
  BY DEF Samples
<1>2. p \in Int /\ q \in Int
  BY <1>1, UnreadIs
<1>3. CellOK(p) /\ SameRecord(p, q)
  BY <1>1 DEF RingOK
<1>4. At(p).len = SampleLen(At(p).dlen) /\ At(p).len \in Nat
  BY <1>1, <1>3 DEF CellOK
<1>5. ~(q < p + At(p).len)
  BY <1>1, <1>2, <1>3 DEF SameRecord
<1> QED BY <1>2, <1>4, <1>5

LEMMA SamplesFit ==
  ASSUME Positions, RingOK PROVE Cardinality(Samples) <= BufCap /\ BufCap \in Nat
<1>0. BufCap \in Nat
  BY BufferConstants
<1>1. CASE Samples = {}
  BY <1>0, <1>1, FS_EmptySet
<1>2. CASE Samples # {}
  <2>1. \A p \in Samples : At(p).dlen \in DataLens /\ p \in Unread
    BY DEF Samples, RingOK, CellOK
  <2>2. DataLens # {} /\ DataLens \in SUBSET Nat
    BY <1>2, <2>1, RingConstants
  <2>3. PICK d \in DataLens : \A y \in DataLens : d <= y
    BY <2>2, LeastNat
  <2> DEFINE m == SampleLen(d)
             f == [p \in Samples |-> (p - Pos) \div m]
  <2>4. m \in Nat \ {0} /\ \A y \in DataLens : m <= SampleLen(y) /\ SampleLen(y) \in Nat
    <3>1. m \in Nat /\ m > HeaderLen /\ m = HeaderLen + FieldsFrom[1] + d /\ FieldsFrom[1] \in Nat /\ d \in Nat
      BY SampleLenIs
    <3>2. ASSUME NEW y \in DataLens PROVE m <= SampleLen(y) /\ SampleLen(y) \in Nat
      <4>1. SampleLen(y) = HeaderLen + FieldsFrom[1] + y /\ SampleLen(y) \in Nat /\ d <= y /\ y \in Nat
        BY <2>3, SampleLenIs
      <4> QED BY <3>1, <4>1, RingLenIs
    <3> QED BY <3>1, <3>2, RingLenIs
  <2>5. RingSize <= BufCap * m
    BY BufferConstants
  <2> HIDE DEF m
  <2>6. ASSUME NEW p \in Samples
        PROVE  p - Pos \in Nat /\ p - Pos < BufCap * m /\ p \in Int /\ Pos \in Int
    <3>1. p \in Int /\ Pos <= p /\ p < head
      BY <2>1, UnreadIs
    <3>2. Pos \in Int /\ Pos = head - Dist /\ Dist \in Nat /\ Dist < RingSize /\ head \in Int
      BY PosIs DEF Positions
    <3>3. BufCap * m \in Int
      BY <1>0, <2>4, MulAdd
    <3> QED BY <2>5, <3>1, <3>2, <3>3, RingLenIs
  <2>7. f \in [Samples -> 0..(BufCap - 1)]
    <3>1. \A p \in Samples : (p - Pos) \div m \in 0..(BufCap - 1)
      BY <1>0, <2>4, <2>6, DivBelow
    <3> QED BY <3>1
  <2>8. ASSUME NEW p \in Samples, NEW q \in Samples, p < q PROVE f[p] # f[q]
    <3>1. p + SampleLen(At(p).dlen) <= q
      BY <2>8, SamplesApart
    <3>2. m <= SampleLen(At(p).dlen) /\ SampleLen(At(p).dlen) \in Nat
      BY <2>1, <2>4
    <3>3. p - Pos \in Nat /\ q - Pos \in Nat /\ p \in Int /\ q \in Int /\ Pos \in Int
      BY <2>6
    <3>4. (p - Pos) + m <= q - Pos
      BY <2>4, <3>1, <3>2, <3>3
    <3>5. (p - Pos) \div m # (q - Pos) \div m
      BY <2>4, <3>3, <3>4, DivFar
    <3> QED BY <3>5
  <2> HIDE DEF f
  <2>9. \A p, q \in Samples : f[p] = f[q] => p = q
    <3> TAKE p, q \in Samples
    <3>1. p \in Int /\ q \in Int
      BY <2>6
    <3>2. ~(p < q) \/ f[p] # f[q]
      BY <2>8
    <3>3. ~(q < p) \/ f[q] # f[p]
      BY <2>8
    <3> QED BY <3>1, <3>2, <3>3
  <2>10. f \in Injection(Samples, 0..(BufCap - 1))
    BY <2>7, <2>9 DEF Injection, IsInjective
  <2>11. IsFiniteSet(0..(BufCap - 1)) /\ Cardinality(0..(BufCap - 1)) = (IF 0 > BufCap - 1 THEN 0 ELSE (BufCap - 1) - 0 + 1)
    BY <1>0, FS_Interval
  <2>12. Cardinality(0..(BufCap - 1)) = BufCap
    BY <1>0, <2>11
  <2> QED BY <1>0, <2>10, <2>11, <2>12, FS_Injection
<1> QED BY <1>1, <1>2

-----------------------------------------------------------------------------
(* What the kernel publishes.                                              *)

LEMMA SpaceIs ==
  ASSUME Positions PROVE Space = RingSize - 1 - Dist
<1>1. /\ Dist \in Nat /\ Dist < RingSize /\ head \in Int /\ tail \in Int /\ Pos \in Int
      /\ Pos = head - Dist /\ Cong(tail, Pos, IntMod)
  BY PosIs DEF Positions
<1> DEFINE s == (tail - head) - 1
           r == RingSize - 1 - Dist
<1>2. Cong(tail, Pos, RingSize)
  BY <1>1, CongRing
<1>3. Cong(head + 1, head + 1, RingSize) /\ head + 1 \in Int
  BY <1>1, RingLenIs, CongRefl
<1>4. Cong(tail - (head + 1), Pos - (head + 1), RingSize)
  BY <1>1, <1>2, <1>3, RingLenIs, CongAdd
<1>5. s = tail - (head + 1) /\ s \in Int /\ r \in Int /\ Pos - (head + 1) \in Int
  BY <1>1, RingLenIs
<1>6. (Pos - (head + 1)) - r = RingSize * (-1)
  BY <1>1, RingLenIs
<1>7. Cong(Pos - (head + 1), r, RingSize)
  BY <1>6 DEF Cong
<1>8. Cong(s, r, RingSize)
  BY <1>4, <1>5, <1>7, RingLenIs, CongTrans
<1>9. 0 <= r /\ r < RingSize
  BY <1>1, RingLenIs
<1> HIDE DEF r
<1>10. s % RingSize = r
  BY <1>5, <1>8, <1>9, RingLenIs, ModUnique
<1> QED BY <1>10 DEF Space, r

LEMMA Grew ==
  ASSUME Positions, NEW n \in Nat, n <= Space, head' = head + n, tail' = tail
  PROVE  Dist' = Dist + n /\ Pos' = Pos /\ Positions' /\ Dist + n < RingSize
<1>1. /\ Dist \in Nat /\ Dist < RingSize /\ head \in Nat /\ tail \in Int
      /\ Pos = head - Dist /\ Cong(head - tail, Dist, IntMod)
  BY PosIs DEF Positions
<1>2. Dist + n \in Nat /\ Dist + n < RingSize
  BY <1>1, SpaceIs, RingLenIs
<1>3. Cong(n, n, IntMod) /\ IntMod \in Nat
  BY RingConstants, CongRefl
<1>4. Cong((head - tail) + n, Dist + n, IntMod)
  BY <1>1, <1>3, CongAdd
<1>5. (head - tail) + n = head' - tail' /\ head' \in Nat
  BY <1>1
<1>6. Dist' = Dist + n /\ Pos' = head' - (Dist + n) /\ Positions'
  BY <1>1, <1>2, <1>4, <1>5, DistTo
<1> QED BY <1>1, <1>2, <1>6

\* A published record lies behind the others, which are what they were.
LEMMA Published ==
  ASSUME Positions, DOMAIN ring = 0..(RingSize - 1), NEW type, NEW len \in Nat, NEW dlen,
         Publish(type, len, dlen)
  PROVE  /\ \A p \in Unread : At(p)' = At(p)
         /\ \A p \in head..(head + len - 1) : At(p)' = Cell(head, p - head, type, len, dlen)
<1>1. /\ Dist \in Nat /\ Dist < RingSize /\ head \in Nat /\ tail \in Int /\ Pos \in Int
      /\ Pos = head - Dist /\ Cong(head - tail, Dist, IntMod) /\ Cong(tail, Pos, IntMod)
      /\ head - tail \in Int /\ IntMod \in Nat
  BY PosIs, RingConstants DEF Positions
<1>2. len <= Space /\ Dist + len < RingSize
  BY Grew DEF Publish, readVars
<1>3. Cong(tail, Pos, RingSize) /\ (head - tail) % RingSize = Dist
  <2>1. Cong(head - tail, Dist, RingSize) /\ Cong(tail, Pos, RingSize)
    BY <1>1, CongRing
  <2>2. Dist \in Int /\ 0 <= Dist /\ Dist < RingSize /\ RingSize \in Nat \ {0} /\ head - tail \in Int
    BY <1>1, RingLenIs
  <2>3. (head - tail) % RingSize = Dist
    BY <2>1, <2>2, ModUnique
  <2> QED BY <2>1, <2>3
<1>4. ASSUME NEW p \in Int
      PROVE  /\ p % RingSize \in DOMAIN ring /\ p % RingSize \in Int
             /\ Cong(p % RingSize, p, RingSize)
             /\ Cong((p % RingSize) - head, p - head, RingSize)
             /\ Cong((p % RingSize) - tail, p - Pos, RingSize)
  <2>1. p % RingSize \in 0..(RingSize - 1) /\ Cong(p % RingSize, p, RingSize)
    BY RingLenIs, DivMod, CongMod
  <2>2. p % RingSize \in Int /\ Cong(head, head, RingSize) /\ head \in Int
    BY <1>1, <2>1, RingLenIs, CongRefl
  <2> QED BY <1>1, <1>3, <2>1, <2>2, RingLenIs, CongAdd
<1>5. ASSUME NEW i \in DOMAIN ring
      PROVE  ring'[i] = (CASE (i - head) % RingSize < len ->
                              Cell(head, (i - head) % RingSize, type, len, dlen)
                          [] (i - tail) % RingSize < (head - tail) % RingSize -> ring[i]
                          [] OTHER -> Blank)
  BY DEF Publish
<1>6. ASSUME NEW p \in Int PROVE At(p)' = ring'[p % RingSize]
  BY DEF At
<1>7. ASSUME NEW p \in Unread PROVE At(p)' = At(p)
  <2> DEFINE i == p % RingSize
             off == (p - head) + RingSize
  <2>1. p \in Int /\ Pos <= p /\ p < head
    BY UnreadIs
  <2>2. i \in DOMAIN ring /\ i \in Int /\ Cong(i - head, p - head, RingSize) /\ Cong(i - tail, p - Pos, RingSize)
    BY <1>4, <2>1
  <2> HIDE DEF i
  <2>3. (i - head) % RingSize = off
    <3>1. off \in Int /\ 0 <= off /\ off < RingSize /\ p - head \in Int /\ i - head \in Int
      BY <1>1, <2>1, <2>2, RingLenIs
    <3>2. (p - head) - off = RingSize * (-1)
      BY <1>1, <2>1, RingLenIs
    <3>3. Cong(p - head, off, RingSize)
      BY <3>2 DEF Cong
    <3>4. Cong(i - head, off, RingSize)
      BY <2>2, <3>1, <3>3, RingLenIs, CongTrans
    <3> QED BY <3>1, <3>4, RingLenIs, ModUnique
  <2>4. ~(off < len)
    BY <1>1, <1>2, <2>1, RingLenIs
  <2>5. (i - tail) % RingSize = p - Pos
    <3>1. p - Pos \in Int /\ 0 <= p - Pos /\ p - Pos < RingSize /\ i - tail \in Int
      BY <1>1, <2>1, <2>2, RingLenIs
    <3> QED BY <2>2, <3>1, RingLenIs, ModUnique
  <2>6. p - Pos < Dist
    BY <1>1, <2>1
  <2>7. ring'[i] = ring[i]
    BY <1>3, <1>5, <2>2, <2>3, <2>4, <2>5, <2>6
  <2> QED BY <1>6, <2>1, <2>7 DEF At, i
<1>8. ASSUME NEW p \in head..(head + len - 1)
      PROVE  At(p)' = Cell(head, p - head, type, len, dlen)
  <2> DEFINE i == p % RingSize
  <2>1. p \in Int /\ head <= p /\ p < head + len
    BY <1>1
  <2>2. i \in DOMAIN ring /\ i \in Int /\ Cong(i - head, p - head, RingSize) /\ Cong(i - tail, p - Pos, RingSize)
    BY <1>4, <2>1
  <2> HIDE DEF i
  <2>3. (i - head) % RingSize = p - head
    <3>1. p - head \in Int /\ 0 <= p - head /\ p - head < RingSize /\ i - head \in Int
      BY <1>1, <1>2, <2>1, <2>2, RingLenIs
    <3> QED BY <2>2, <3>1, RingLenIs, ModUnique
  <2>4. p - head < len
    BY <1>1, <2>1
  <2>5. ~((i - tail) % RingSize < Dist)
    <3>1. p - Pos \in Int /\ 0 <= p - Pos /\ p - Pos < RingSize /\ i - tail \in Int /\ ~(p - Pos < Dist)
      BY <1>1, <1>2, <2>1, <2>2, RingLenIs
    <3>2. (i - tail) % RingSize = p - Pos
      BY <2>2, <3>1, RingLenIs, ModUnique
    <3> QED BY <3>1, <3>2
  <2>6. ring'[i] = Cell(head, p - head, type, len, dlen)
    <3>1. (i - head) % RingSize < len
      BY <2>3, <2>4
    <3>2. ring'[i] = Cell(head, (i - head) % RingSize, type, len, dlen)
      BY <1>3, <1>5, <2>2, <2>5, <3>1
    <3> QED BY <2>3, <3>2
  <2> QED BY <1>6, <2>1, <2>6 DEF i
<1> QED BY <1>7, <1>8

\* The new record of a length the kernel writes.
Written(type, len, dlen) ==
  \/ type = "SAMPLE" /\ dlen \in DataLens /\ len = SampleLen(dlen)
  \/ type = "OTHER" /\ len \in OtherLens

LEMMA PublishedRing ==
  ASSUME Positions, RingOK, DOMAIN ring = 0..(RingSize - 1), NEW type, NEW len, NEW dlen,
         Written(type, len, dlen), Publish(type, len, dlen)
  PROVE  /\ RingOK' /\ Positions' /\ Dist' = Dist + len /\ Pos' = Pos /\ len \in Nat
         /\ head' = head + len /\ Dist + len < RingSize
         /\ \A p \in Pos..head : StartsAt(p) => StartsAt(p)'
         /\ \A p \in Unread : At(p)' = At(p)
         /\ Samples' \subseteq Samples \cup {head}
<1>1. len \in Nat
  BY SampleLenIs, RingConstants DEF Written
<1>2. head' = head + len /\ tail' = tail /\ len <= Space
  BY DEF Publish
<1>3. Dist' = Dist + len /\ Pos' = Pos /\ Positions' /\ Dist + len < RingSize
  BY <1>1, <1>2, Grew
<1>4. /\ \A p \in Unread : At(p)' = At(p)
      /\ \A p \in head..(head + len - 1) : At(p)' = Cell(head, p - head, type, len, dlen)
  BY <1>1, Published
<1>5. head \in Nat /\ Pos \in Int /\ Pos <= head
  BY PosIs DEF Positions
<1>6. ASSUME NEW p \in Unread'
      PROVE  p \in Int /\ Pos <= p /\ p < head + len /\ (p \in Unread \/ p \in head..(head + len - 1))
  BY <1>1, <1>2, <1>3, <1>5 DEF Unread
<1>7. ASSUME NEW p \in Unread'
      PROVE  CellOK(p)'
  <2>1. CASE p \in Unread
    <3>1. CellOK(p) /\ At(p)' = At(p)
      BY <1>4, <2>1 DEF RingOK
    <3>2. /\ At(p).at \in Nat /\ At(p).len \in Nat /\ At(p).at <= p /\ p < At(p).at + At(p).len
          /\ At(p).at + At(p).len <= head
      BY <3>1 DEF CellOK
    <3>3. At(p).at + At(p).len <= head'
      BY <1>1, <1>2, <1>5, <3>2
    <3> QED BY <3>1, <3>2, <3>3 DEF CellOK
  <2>2. CASE p \in head..(head + len - 1)
    <3>1. At(p)' = Cell(head, p - head, type, len, dlen) /\ p \in Int /\ head <= p /\ p < head + len
      BY <1>1, <1>4, <1>5, <2>2
    <3>2. /\ At(p)'.at = head /\ At(p)'.off = p - head /\ At(p)'.type = type /\ At(p)'.len = len
          /\ At(p)'.dlen = dlen
      BY <3>1 DEF Cell
    <3>3. type = "SAMPLE" => dlen \in DataLens /\ len = SampleLen(dlen)
      BY DEF Written
    <3> QED BY <1>1, <1>2, <1>5, <3>1, <3>2, <3>3 DEF CellOK
  <2> QED BY <1>6, <2>1, <2>2
<1>8. ASSUME NEW p \in Unread', NEW q \in Unread'
      PROVE  SameRecord(p, q)'
  <2>1. CASE p \in Unread /\ q \in Unread
    <3>1. SameRecord(p, q) /\ At(p)' = At(p) /\ At(q)' = At(q)
      BY <1>4, <2>1 DEF RingOK
    <3> QED BY <3>1 DEF SameRecord
  <2>2. CASE p \in Unread /\ q \in head..(head + len - 1)
    <3>1. CellOK(p) /\ At(p)' = At(p)
      BY <1>4, <2>2 DEF RingOK
    <3>2. At(p).at \in Nat /\ At(p).len \in Nat /\ At(p).at + At(p).len <= head /\ head <= q /\ q \in Int
      BY <1>1, <1>5, <2>2, <3>1 DEF CellOK
    <3>3. ~(q < At(p).at + At(p).len)
      BY <1>5, <3>2
    <3> QED BY <3>1, <3>3 DEF SameRecord
  <2>3. CASE p \in head..(head + len - 1) /\ q \in Unread
    <3>1. At(p)' = Cell(head, p - head, type, len, dlen)
      BY <1>4, <2>3
    <3>2. At(p)'.at = head
      BY <3>1 DEF Cell
    <3>3. q \in Int /\ ~(head <= q)
      BY <1>5, <2>3, UnreadIs
    <3> QED BY <3>2, <3>3 DEF SameRecord
  <2>4. CASE p \in head..(head + len - 1) /\ q \in head..(head + len - 1)
    <3>1. /\ At(p)' = Cell(head, p - head, type, len, dlen)
          /\ At(q)' = Cell(head, q - head, type, len, dlen)
      BY <1>4, <2>4
    <3> QED BY <3>1 DEF SameRecord, Cell
  <2> QED BY <1>6, <2>1, <2>2, <2>3, <2>4
<1>9. RingOK'
  BY <1>7, <1>8 DEF RingOK
<1>10. ASSUME NEW p \in Pos..head, StartsAt(p) PROVE StartsAt(p)'
  <2>1. p \in Int /\ Pos <= p /\ p <= head
    BY <1>5
  <2>2. CASE p < head
    <3>1. p \in Unread /\ At(p).at = p
      BY <1>10, <2>1, <2>2, <1>5, UnreadIs DEF StartsAt
    <3> QED BY <1>1, <1>2, <1>4, <1>5, <2>1, <2>2, <3>1 DEF StartsAt
  <2>3. CASE p = head /\ len = 0
    BY <1>2, <1>5, <2>3 DEF StartsAt
  <2>4. CASE p = head /\ len # 0
    <3>1. p \in head..(head + len - 1) /\ p < head'
      BY <1>1, <1>2, <1>5, <2>4
    <3>2. At(p)' = Cell(head, p - head, type, len, dlen)
      BY <1>4, <3>1
    <3>3. At(p)'.at = p
      BY <2>4, <3>2 DEF Cell
    <3> QED BY <3>1, <3>3 DEF StartsAt
  <2> QED BY <1>5, <2>1, <2>2, <2>3, <2>4
<1>11. ASSUME NEW p \in Samples' PROVE p \in Samples \cup {head}
  <2>1. p \in Unread' /\ At(p)'.at = p /\ At(p)'.type = "SAMPLE"
    BY DEF Samples
  <2>2. CASE p \in Unread
    BY <1>4, <2>1, <2>2 DEF Samples
  <2>3. CASE p \in head..(head + len - 1)
    BY <1>4, <2>1, <2>3 DEF Cell
  <2> QED BY <1>6, <2>1, <2>2, <2>3
<1> QED BY <1>1, <1>2, <1>3, <1>4, <1>9, <1>10, <1>11

-----------------------------------------------------------------------------
(* The invariant.                                                          *)

LEMMA PositionsOf == ASSUME RingInv PROVE Positions /\ RingOK /\ ReadOK /\ CountOK /\ TypeOK
BY RingConstants DEF RingInv, Positions, TypeOK

LEMMA InitRing == ASSUME Init PROVE RingInv
<1>1. /\ head = 0 /\ tail = 0 /\ pc = "idle" /\ size = 0 /\ field = 1 /\ data_size = 0
      /\ ret = "none" /\ nrec = 0 /\ added = 0 /\ at = -1
      /\ DOMAIN ring = 0..(RingSize - 1)
  BY DEF Init
<1>2. Half \in Nat /\ RingSize <= Half /\ head - tail = 0 /\ IntMod \in Nat
  BY <1>1, HalfIs, RingConstants
<1>3. Cong(0, 0, IntMod)
  BY <1>2, CongRefl
<1>4. I32(0) = 0
  BY <1>2, <1>3, RingLenIs, I32Same
<1>5. Dist = 0 /\ Pos = 0
  BY <1>1, <1>2, <1>4 DEF Dist, Pos
<1>6. TypeOK
  <2>1. WordMod \in Nat /\ MaxHead \in Nat /\ MaxHead < WordMod /\ RingSize \in Nat /\ Len(Fields) \in Nat \ {0}
    BY RingConstants, FieldIs
  <2> QED BY <1>1, <2>1 DEF TypeOK
<1>7. Unread = {} /\ DistOK
  BY <1>1, <1>5, RingLenIs DEF Unread, DistOK
<1>8. RingOK
  BY <1>7 DEF RingOK
<1>9. ReadOK
  BY <1>1, <1>5 DEF ReadOK, StartsAt
<1>10. CountOK
  BY <1>1, BufferConstants DEF CountOK
<1> QED BY <1>6, <1>7, <1>8, <1>9, <1>10 DEF RingInv

LEMMA PublishRing ==
  ASSUME RingInv, NEW type, NEW len, NEW dlen, Written(type, len, dlen), Publish(type, len, dlen)
  PROVE  RingInv'
<1>0. Positions /\ RingOK /\ ReadOK /\ CountOK /\ TypeOK /\ DOMAIN ring = 0..(RingSize - 1)
  BY PositionsOf DEF TypeOK
<1>1. /\ RingOK' /\ Positions' /\ Dist' = Dist + len /\ Pos' = Pos /\ len \in Nat
      /\ head' = head + len /\ Dist + len < RingSize
      /\ \A p \in Pos..head : StartsAt(p) => StartsAt(p)'
      /\ \A p \in Unread : At(p)' = At(p)
      /\ Samples' \subseteq Samples \cup {head}
  BY <1>0, PublishedRing
<1>2. /\ pc' = pc /\ at' = at /\ size' = size /\ field' = field /\ data_size' = data_size
      /\ ret' = ret /\ nrec' = nrec /\ tail' = tail
      /\ head + len <= MaxHead /\ DOMAIN ring' = DOMAIN ring
      /\ added' = IF pc = "idle" THEN added ELSE added + 1
  BY DEF Publish, readVars
<1>3. /\ Dist \in Nat /\ Dist < RingSize /\ Pos = head - Dist /\ Pos \in Int /\ head \in Nat
  BY <1>0, PosIs DEF Positions
<1>4. TypeOK'
  <2>1. head' \in 0..MaxHead
    BY <1>1, <1>2, <1>3, RingConstants
  <2>2. added' \in Nat
    BY <1>0, <1>2 DEF TypeOK
  <2> QED BY <1>0, <1>2, <2>1, <2>2 DEF TypeOK
<1>5. DistOK'
  BY <1>1 DEF Positions
<1>6. ReadOK'
  <2>1. ASSUME pc \in {"idle", "header"}
        PROVE  size' = 0 /\ field' = 1 /\ data_size' = 0 /\ ret' = "none" /\ StartsAt(Pos)'
    <3>1. StartsAt(Pos) /\ Pos \in Pos..head
      BY <1>0, <1>3, <2>1 DEF ReadOK
    <3>2. \A p : p = Pos => StartsAt(p)' = StartsAt(Pos)'
      BY <1>1 DEF StartsAt, At
    <3>3. StartsAt(Pos)'
      BY <1>1, <3>1, <3>2
    <3> QED BY <1>0, <1>2, <2>1, <3>3 DEF ReadOK
  <2>2. ASSUME pc \in {"field", "data", "skip"}
        PROVE  /\ size' > 0 /\ size' <= Dist' /\ StartsAt(Pos + size)'
               /\ \A p \in Pos'..(Pos' + size' - 1) : At(p)'.at = at'
               /\ At(Pos)' = At(Pos) /\ Pos \in Unread
    <3>1. /\ size > 0 /\ size <= Dist /\ StartsAt(Pos + size) /\ size \in Nat
          /\ \A p \in Pos..(Pos + size - 1) : At(p).at = at
      BY <1>0, <2>2, RingLenIs DEF ReadOK, TypeOK
    <3>2. Pos + size \in Pos..head
      BY <1>3, <3>1
    <3>3. \A p : p = Pos + size => StartsAt(p)' = StartsAt(Pos + size)'
      BY <1>1, <1>2 DEF StartsAt, At
    <3>4. StartsAt(Pos + size)'
      BY <1>1, <3>1, <3>2, <3>3
    <3>5. \A p \in Pos..(Pos + size - 1) : p \in Unread
      BY <1>0, <1>3, <3>1, UnreadIs
    <3>6. Pos \in Pos..(Pos + size - 1)
      BY <1>3, <3>1
    <3>7. \A p \in Pos..(Pos + size - 1) : At(p)'.at = at
      BY <1>1, <3>1, <3>5
    <3>8. At(Pos)' = At(Pos)
      <4>1. \A p : p = Pos => At(p)' = At(Pos)'
        BY <1>1 DEF At
      <4> QED BY <1>1, <3>5, <3>6, <4>1
    <3> QED BY <1>1, <1>2, <1>3, <3>1, <3>4, <3>5, <3>6, <3>7, <3>8
  <2> QED BY <1>0, <1>1, <1>2, <2>1, <2>2 DEF ReadOK
<1>7. CountOK'
  <2>1. IsFiniteSet(Samples) /\ Cardinality(Samples) \in Nat
    BY <1>0, SamplesFinite
  <2>2. IsFiniteSet(Samples \cup {head}) /\ Cardinality(Samples \cup {head}) <= Cardinality(Samples) + 1
    BY <2>1, FS_AddElement
  <2>3. Samples' \in SUBSET (Samples \cup {head})
    BY <1>1
  <2>4. Cardinality(Samples') <= Cardinality(Samples \cup {head}) /\ IsFiniteSet(Samples')
    BY <2>2, <2>3, FS_Subset
  <2>5. Cardinality(Samples \cup {head}) \in Nat /\ Cardinality(Samples') \in Nat
    BY <2>2, <2>4, FS_CardinalityType
  <2>6. Cardinality(Samples)' <= Cardinality(Samples) + 1 /\ Cardinality(Samples)' \in Nat
    BY <2>1, <2>2, <2>4, <2>5
  <2>7. nrec \in Nat /\ added \in Nat /\ BufCap \in Nat
    BY <1>0, BufferConstants DEF TypeOK
  <2> HIDE DEF Samples
  <2> QED BY <1>0, <1>2, <2>1, <2>6, <2>7 DEF CountOK
<1> QED BY <1>1, <1>4, <1>5, <1>6, <1>7 DEF RingInv

LEMMA StartRing == ASSUME RingInv, Start PROVE RingInv'
<1>0. Positions /\ RingOK /\ ReadOK /\ CountOK /\ TypeOK
  BY PositionsOf
<1>1. /\ pc = "idle" /\ pc' = "header" /\ nrec' = 0 /\ added' = 0
      /\ head' = head /\ ring' = ring /\ tail' = tail /\ at' = at /\ size' = size /\ field' = field
      /\ data_size' = data_size /\ ret' = ret
  BY DEF Start, Call, kernelVars
<1>2. Dist' = Dist /\ Pos' = Pos /\ Unread' = Unread /\ \A p : At(p)' = At(p)
  BY <1>1 DEF Dist, Pos, Unread, At
<1>3. RingOK' /\ DistOK'
  BY <1>0, <1>1, <1>2 DEF RingOK, CellOK, SameRecord, DistOK, Positions
<1>4. ReadOK'
  BY <1>0, <1>1, <1>2 DEF ReadOK, StartsAt
<1>5. Cardinality(Samples) <= BufCap /\ BufCap \in Nat /\ Cardinality(Samples) \in Nat
  BY <1>0, SamplesFit, SamplesFinite
<1>6. Samples' = Samples
  BY <1>2 DEF Samples
<1> HIDE DEF Samples
<1>7. CountOK'
  BY <1>1, <1>5, <1>6 DEF CountOK
<1>8. TypeOK'
  BY <1>0, <1>1 DEF TypeOK
<1> QED BY <1>3, <1>4, <1>7, <1>8 DEF RingInv

\* What a read of n units does to the positions.
LEMMA Taken ==
  ASSUME RingInv, NEW n \in Nat, n <= Dist, kernelVars' = kernelVars, tail' = U64(tail + n)
  PROVE  Passed /\ Dist' = Dist - n /\ Pos' = Pos + n /\ tail' \in 0..(WordMod - 1)
<1>1. Positions /\ head' = head
  BY PositionsOf DEF kernelVars
<1>2. Dist' = Dist - n /\ Pos' = Pos + n /\ Positions'
  BY <1>1, Moved
<1>3. Pos \in Int /\ tail + n \in Int
  BY <1>1, PosIs DEF Positions
<1>4. tail' \in 0..(WordMod - 1)
  BY <1>3, U64Is
<1> QED BY <1>2, <1>3, <1>4 DEF Passed

\* Between two records nothing is left of the one that was read.
LEMMA Returned ==
  ASSUME RingInv, Passed, NEW r \in {"ok", "fail", "none"}, Return(r), StartsAt(Pos)',
         tail' \in 0..(WordMod - 1), pc # "idle", r = "ok" => pc = "data"
  PROVE  RingInv'
<1>0. Positions /\ RingOK /\ ReadOK /\ CountOK /\ TypeOK
  BY PositionsOf
<1>1. /\ at' = -1 /\ size' = 0 /\ field' = 1 /\ data_size' = 0 /\ ret' = "none"
      /\ pc' = (IF r = "fail" THEN "idle" ELSE "header") /\ added' = added
      /\ head' = head /\ ring' = ring
  BY DEF Return, kernelVars
<1>2. nrec' \in {nrec, nrec + 1} /\ (r # "ok" => nrec' = nrec)
  BY DEF Return, Store
<1>3. RingOK' /\ DistOK'
  BY <1>0, PassedRing DEF Passed, Positions
<1>4. nrec \in Nat /\ added \in Nat /\ BufCap \in Nat
  BY <1>0, BufferConstants DEF TypeOK
<1>5. TypeOK'
  <2>1. MaxHead \in Nat /\ Len(Fields) \in Nat \ {0} /\ RingSize \in Nat
    BY RingConstants, FieldIs
  <2>2. nrec' \in Nat
    BY <1>2, <1>4
  <2> QED BY <1>0, <1>1, <1>4, <2>1, <2>2 DEF TypeOK
<1>6. ReadOK'
  BY <1>1 DEF ReadOK
<1>7. /\ Cardinality(Samples)' \in Nat /\ Cardinality(Samples) \in Nat
      /\ Cardinality(Samples)' <= Cardinality(Samples)
  BY <1>0, PassedSamples
<1>8. CountOK'
  <2> HIDE DEF Samples
  <2>1. pc \in {"header", "skip", "field", "data"}
    BY <1>0 DEF TypeOK
  <2>2. CASE r = "ok"
    BY <1>0, <1>1, <1>2, <1>4, <1>7, <2>2 DEF CountOK
  <2>3. CASE r # "ok"
    BY <1>0, <1>1, <1>2, <1>4, <1>7, <2>1, <2>3 DEF CountOK
  <2> QED BY <2>2, <2>3
<1> QED BY <1>3, <1>5, <1>6, <1>8 DEF RingInv

\* Nothing moved.
LEMMA Stayed ==
  ASSUME RingInv, kernelVars' = kernelVars, tail' = tail
  PROVE  Passed /\ Dist' = Dist /\ Pos' = Pos /\ tail' \in 0..(WordMod - 1)
<1>1. Positions /\ head' = head /\ TypeOK
  BY PositionsOf DEF kernelVars
<1>2. Dist' = Dist /\ Pos' = Pos
  BY <1>1 DEF Dist, Pos
<1>3. Pos \in Int
  BY <1>1, PosIs
<1>4. Positions'
  BY <1>1, <1>2 DEF Positions, DistOK
<1>5. tail' \in 0..(WordMod - 1)
  BY <1>1 DEF TypeOK
<1> QED BY <1>2, <1>3, <1>4, <1>5 DEF Passed

\* Facts about a place, moved to the state after a step.
LEMMA Later ==
  ASSUME NEW p
  PROVE  /\ p = Pos' => (StartsAt(p)' <=> StartsAt(Pos)') /\ At(p)' = At(Pos)'
         /\ p = Pos' + size' => (StartsAt(p)' <=> StartsAt(Pos + size)')
BY DEF StartsAt, At

LEMMA ReadHeaderRing == ASSUME RingInv, ReadHeader PROVE RingInv'
<1>0. Positions /\ RingOK /\ ReadOK /\ CountOK /\ TypeOK
  BY PositionsOf
<1> DEFINE ehdr == Copied(HeaderLen)[0]
<1>1. pc = "header" /\ StartsAt(Pos) /\ size = 0 /\ field = 1 /\ data_size = 0 /\ ret = "none"
  BY <1>0 DEF ReadHeader, ReadOK
<1>2. ehdr = At(Pos)
  BY <1>0, RingLenIs, CopiesFirst
<1>3. Available(HeaderLen) <=> Dist >= HeaderLen
  BY AvailableIs
<1>4. /\ Dist \in Nat /\ Dist < RingSize /\ Pos = head - Dist /\ Pos \in Int /\ head \in Nat
  BY <1>0, PosIs DEF Positions
<1>5. HeaderLen \in Nat \ {0} /\ RingSize \in Nat
  BY RingLenIs
<1>6. CASE Available(HeaderLen) /\ ehdr.len > HeaderLen
  <2>1. /\ Read(HeaderLen) /\ at' = ehdr.at /\ size' = ehdr.len - HeaderLen
        /\ pc' = (IF ehdr.type = "SAMPLE" THEN "field" ELSE "skip")
        /\ head' = head /\ ring' = ring /\ kernelVars' = kernelVars
        /\ field' = field /\ data_size' = data_size /\ ret' = ret /\ nrec' = nrec /\ added' = added
    BY <1>6 DEF ReadHeader, kernelVars
  <2>2. Passed /\ Dist' = Dist - HeaderLen /\ Pos' = Pos + HeaderLen /\ tail' \in 0..(WordMod - 1)
    BY <1>3, <1>4, <1>5, <1>6, <2>1, Taken DEF Read
  <2>3. RingOK' /\ DistOK' /\ \A p \in Int : StartsAt(p) => StartsAt(p)'
    BY <1>0, <2>2, PassedRing DEF Passed, Positions
  <2>4. \A p : At(p)' = At(p)
    BY <2>2, PassedIs
  <2>5. /\ Pos \in Unread /\ At(Pos).at = Pos /\ At(Pos).len \in Nat \ {0}
        /\ Pos + At(Pos).len <= head /\ StartsAt(Pos + At(Pos).len)
        /\ \A p \in Pos..(Pos + At(Pos).len - 1) :
             At(p).at = Pos /\ At(p).type = At(Pos).type /\ At(p).dlen = At(Pos).dlen
    <3>1. Dist >= HeaderLen
      BY <1>3, <1>6
    <3>2. Pos # head
      BY <1>4, <1>5, <3>1
    <3> QED BY <1>0, <1>1, <3>2, HeaderThere
  <2>6. PICK s, len, e : s = Pos /\ len = At(Pos).len /\ e = Pos + At(Pos).len
    OBVIOUS
  <2>7. s \in Int /\ len \in Nat \ {0} /\ e = s + len /\ e \in Int /\ e <= head
    BY <1>4, <2>5, <2>6
  <2>8. /\ size' = len - HeaderLen /\ len > HeaderLen /\ at' = s
        /\ pc' = (IF At(s).type = "SAMPLE" THEN "field" ELSE "skip")
    BY <1>2, <1>6, <2>1, <2>5, <2>6
  <2>9. At(s).type = "SAMPLE" => At(s).dlen \in DataLens /\ len = SampleLen(At(s).dlen)
    BY <1>0, <2>5, <2>6 DEF RingOK, CellOK
  <2>10. /\ Pos' = s + HeaderLen /\ s + HeaderLen \in Int /\ size' \in 1..Dist' /\ Pos' + size' = e
         /\ size' \in Nat /\ Dist' \in Nat /\ Dist' <= RingSize
    BY <1>4, <1>5, <2>2, <2>6, <2>7, <2>8
  <2>11. StartsAt(Pos + size)'
    BY <2>3, <2>5, <2>6, <2>7, <2>10, Later
  <2>12. ASSUME NEW p \in s..(e - 1)
         PROVE  At(p)'.at = s /\ At(p)'.type = At(s).type /\ At(p)'.dlen = At(s).dlen
    <3>1. p \in Pos..(Pos + At(Pos).len - 1) /\ At(s) = At(Pos)
      <4>1. p \in Int /\ Pos <= p /\ p < Pos + At(Pos).len
        BY <2>6, <2>7
      <4> QED BY <1>4, <2>5, <2>6, <4>1
    <3>2. At(p).at = Pos /\ At(p).type = At(Pos).type /\ At(p).dlen = At(Pos).dlen
      BY <2>5, <3>1
    <3> QED BY <2>4, <2>6, <3>1, <3>2
  <2>13. \A p \in Pos'..(Pos' + size' - 1) : At(p)'.at = at'
    BY <1>5, <2>7, <2>8, <2>10, <2>12
  <2>14. At(Pos)'.type = At(s).type /\ At(Pos)'.dlen = At(s).dlen
    <3>1. s + HeaderLen \in s..(e - 1)
      BY <1>5, <2>7, <2>8
    <3> QED BY <2>10, <2>12, <3>1, Later
  <2>15. pc' = "field" => size' = FieldsFrom[field'] + At(Pos)'.dlen /\ At(Pos)'.type = "SAMPLE"
    <3>1. ASSUME At(s).type = "SAMPLE" PROVE size' = FieldsFrom[1] + At(s).dlen
      <4>1. /\ At(s).dlen \in Nat /\ len = HeaderLen + FieldsFrom[1] + At(s).dlen /\ FieldsFrom[1] \in Nat
        BY <2>9, <3>1, SampleLenIs
      <4> QED BY <1>5, <2>8, <4>1
    <3> QED BY <1>1, <2>1, <2>8, <2>14, <3>1
  <2>16. ReadOK'
    BY <1>1, <2>1, <2>8, <2>10, <2>11, <2>13, <2>15 DEF ReadOK
  <2>17. TypeOK'
    <3>1. at' \in -1..MaxHead
      <4>1. head \in Nat /\ s \in Nat /\ s < head /\ head <= MaxHead /\ MaxHead \in Nat
        <5>1. At(Pos).at \in Nat /\ head \in 0..MaxHead
          BY <1>0, <2>5 DEF RingOK, CellOK, TypeOK
        <5>2. MaxHead \in Nat
          BY RingConstants
        <5> QED BY <2>5, <2>6, <2>7, <5>1, <5>2
      <4> QED BY <2>8, <4>1
    <3>2. size' \in 0..RingSize /\ size' > 0
      BY <1>5, <2>10
    <3> QED BY <1>0, <2>1, <2>2, <2>8, <3>1, <3>2 DEF TypeOK
  <2>18. CountOK'
    <3>1. /\ Cardinality(Samples)' \in Nat /\ Cardinality(Samples) \in Nat
          /\ Cardinality(Samples)' <= Cardinality(Samples)
          /\ Pos < Pos' /\ Pos \in Samples => Cardinality(Samples)' + 1 <= Cardinality(Samples)
      BY <1>0, <2>2, PassedSamples
    <3>2. Pos < Pos' /\ (pc' = "field" => Pos \in Samples)
      BY <1>4, <1>5, <2>2, <2>5, <2>6, <2>8 DEF Samples
    <3>3. nrec \in Nat /\ added \in Nat /\ BufCap \in Nat
      BY <1>0, BufferConstants DEF TypeOK
    <3> HIDE DEF Samples
    <3> QED BY <1>0, <1>1, <2>1, <2>8, <3>1, <3>2, <3>3 DEF CountOK
  <2> QED BY <2>3, <2>16, <2>17, <2>18 DEF RingInv
<1>7. CASE ~(Available(HeaderLen) /\ ehdr.len > HeaderLen)
  <2>1. Return("fail") /\ tail' = IF Available(HeaderLen) THEN U64(I32(head)) ELSE tail
    BY <1>7 DEF ReadHeader
  <2>2. kernelVars' = kernelVars /\ head' = head /\ ring' = ring
    BY <2>1 DEF Return, kernelVars
  <2>3. CASE Available(HeaderLen)
    <3>1. tail' = U64(I32(head))
      BY <2>1, <2>3
    <3>2. Dist' = 0 /\ Pos' = head /\ Positions'
      BY <1>0, <2>2, <3>1, WasReset
    <3>3. I32(head) \in Int
      BY <1>4, I32Is
    <3>4. tail' \in 0..(WordMod - 1)
      BY <3>1, <3>3, U64Is
    <3>5. Passed
      BY <1>4, <2>2, <3>2 DEF Passed
    <3>6. StartsAt(Pos)'
      BY <2>2, <3>2 DEF StartsAt
    <3> QED BY <1>1, <2>1, <3>4, <3>5, <3>6, Returned
  <2>4. CASE ~Available(HeaderLen)
    <3>1. Passed /\ Pos' = Pos /\ tail' \in 0..(WordMod - 1)
      BY <2>1, <2>2, <2>4, Stayed
    <3>2. StartsAt(Pos)'
      BY <1>1, <2>2, <3>1 DEF StartsAt, At
    <3> QED BY <1>1, <2>1, <3>1, <3>2, Returned
  <2> QED BY <2>3, <2>4
<1> QED BY <1>6, <1>7

\* Inside a record: what is left of it is there, up to where the next one starts.
Inside ==
  /\ size \in Nat /\ size > 0 /\ size <= Dist /\ size <= RingSize /\ StartsAt(Pos + size)
  /\ \A p \in Pos..(Pos + size - 1) : At(p).at = at

LEMMA InsideIs == ASSUME RingInv, pc \in {"field", "data", "skip"} PROVE Inside
<1>1. ReadOK /\ TypeOK
  BY PositionsOf
<1> QED BY <1>1, RingLenIs DEF ReadOK, TypeOK, Inside

\* The header of a sample that is read is still that of every unit of it.
LEMMA FieldThere ==
  ASSUME RingInv, pc = "field"
  PROVE  /\ At(Pos).dlen \in DataLens /\ Pos \in Unread
         /\ \A p \in Pos..(Pos + size - 1) : At(p).type = "SAMPLE" /\ At(p).dlen = At(Pos).dlen
<1>1. Positions /\ RingOK /\ ReadOK
  BY PositionsOf
<1>2. Pos \in Int /\ head \in Nat /\ Pos = head - Dist /\ Dist \in Nat
  BY <1>1, PosIs DEF Positions
<1>3. Inside
  BY InsideIs
<1>4. \A p \in Pos..(Pos + size - 1) : p \in Unread /\ p \in Int /\ Pos <= p
  BY <1>1, <1>2, <1>3, UnreadIs DEF Inside
<1>5. Pos \in Pos..(Pos + size - 1) /\ At(Pos).type = "SAMPLE"
  BY <1>1, <1>2, <1>3 DEF Inside, ReadOK
<1>6. CellOK(Pos) /\ At(Pos).at = at
  BY <1>1, <1>3, <1>4, <1>5 DEF RingOK, Inside
<1>7. ASSUME NEW p \in Pos..(Pos + size - 1)
      PROVE  At(p).type = "SAMPLE" /\ At(p).dlen = At(Pos).dlen
  <2>1. SameRecord(p, Pos) /\ CellOK(p) /\ At(p).at = at
    BY <1>1, <1>3, <1>4, <1>5 DEF RingOK, Inside
  <2>2. p \in Int /\ Pos <= p
    BY <1>4
  <2>3. at \in Nat /\ at <= Pos /\ At(p).len \in Nat /\ Pos < at + At(p).len
    BY <1>2, <1>6, <2>1, <2>2 DEF CellOK
  <2> QED BY <1>5, <2>1, <2>3 DEF SameRecord
<1> QED BY <1>4, <1>5, <1>6, <1>7 DEF CellOK

LEMMA ReadFieldRing == ASSUME RingInv, ReadField PROVE RingInv'
<1>0. Positions /\ RingOK /\ ReadOK /\ CountOK /\ TypeOK
  BY PositionsOf
<1> DEFINE n == Fields[field]
<1>1. /\ pc = "field" /\ kernelVars' = kernelVars /\ head' = head /\ ring' = ring
      /\ at' = at /\ nrec' = nrec /\ added' = added
  BY DEF ReadField, kernelVars
<1>2. /\ Dist \in Nat /\ Dist < RingSize /\ Pos = head - Dist /\ Pos \in Int /\ head \in Nat
  BY <1>0, PosIs DEF Positions
<1>3. Inside
  BY <1>1, InsideIs
<1>4. PICK d \in DataLens :
        /\ d = At(Pos).dlen
        /\ \A p \in Pos..(Pos + size - 1) : At(p).type = "SAMPLE" /\ At(p).dlen = d
  BY <1>1, FieldThere
<1>5. d \in Nat \ {0} /\ size = FieldsFrom[field] + d /\ data_size = 0 /\ ret = "none"
  BY <1>0, <1>1, <1>4, SampleLenIs DEF ReadOK
<1>6. /\ field \in 1..Len(Fields) /\ n \in Nat \ {0} /\ field + 1 \in 1..(Len(Fields) + 1)
      /\ field \in Nat /\ Len(Fields) \in Nat
  BY <1>0, FieldIs DEF TypeOK
<1>7. FieldsFrom[field] = n + FieldsFrom[field + 1] /\ FieldsFrom[field + 1] \in Nat
      /\ (field = Len(Fields) => FieldsFrom[field + 1] = 0)
  BY <1>6, FieldsIs
<1> HIDE DEF n
<1>8. size = n + (FieldsFrom[field + 1] + d) /\ n <= Dist /\ size - n = FieldsFrom[field + 1] + d
  <2>1. size \in Nat /\ size <= Dist
    BY <1>3 DEF Inside
  <2>2. n \in Nat /\ d \in Nat /\ FieldsFrom[field + 1] \in Nat
    BY <1>5, <1>6, <1>7
  <2>3. size = (n + FieldsFrom[field + 1]) + d
    BY <1>5, <1>7
  <2> QED BY <1>2, <2>1, <2>2, <2>3
<1>9. Available(n)
  BY <1>8, AvailableIs
<1>10. /\ tail' = U64(tail + n) /\ size' = size - n /\ ret' = ret
       /\ IF field = Len(Fields)
          THEN pc' = "data" /\ data_size' = Copied(n)[0].dlen /\ field' = field
          ELSE field' = field + 1 /\ pc' = pc /\ data_size' = data_size
  BY <1>9 DEF ReadField, n, Read, Left
<1>11. Passed /\ Dist' = Dist - n /\ Pos' = Pos + n /\ tail' \in 0..(WordMod - 1)
  BY <1>1, <1>6, <1>8, <1>10, Taken
<1>12. RingOK' /\ DistOK' /\ (\A p \in Int : StartsAt(p) => StartsAt(p)') /\ \A p : At(p)' = At(p)
  BY <1>0, <1>11, PassedRing, PassedIs DEF Passed, Positions
<1>13. /\ size' \in Nat /\ size' > 0 /\ size' <= Dist' /\ size' <= RingSize
       /\ size' = FieldsFrom[field + 1] + d /\ Pos' \in Int
       /\ Pos' + size' = Pos + size
  <2>1. size' = size - n /\ size' = FieldsFrom[field + 1] + d
    BY <1>8, <1>10
  <2>2. size' \in Nat /\ size' > 0
    BY <1>5, <1>7, <2>1
  <2>3. size \in Nat /\ size <= Dist /\ size <= RingSize
    BY <1>3 DEF Inside
  <2> QED BY <1>2, <1>6, <1>11, <2>1, <2>2, <2>3, RingLenIs
<1>14. StartsAt(Pos + size)'
  <2>1. PICK e : e = Pos + size
    OBVIOUS
  <2>2. e \in Int /\ StartsAt(e)
    BY <1>2, <1>3, <2>1 DEF Inside
  <2> QED BY <1>12, <1>13, <2>1, <2>2, Later
<1>15. \A p \in Pos'..(Pos' + size' - 1) :
         At(p)'.at = at' /\ At(p)'.type = "SAMPLE" /\ At(p)'.dlen = d
  <2> TAKE p \in Pos'..(Pos' + size' - 1)
  <2>0. Pos \in Int /\ size \in Int /\ n \in Nat /\ p \in Int
    BY <1>2, <1>3, <1>6, <1>13 DEF Inside
  <2>1. p \in Pos..(Pos + size - 1)
    <3>1. Pos' <= p /\ p <= (Pos' + size') - 1
      BY <1>13
    <3>2. Pos + n <= p /\ p <= (Pos + size) - 1
      BY <1>11, <1>13, <3>1
    <3> QED BY <2>0, <3>2
  <2>2. At(p).at = at /\ At(p).type = "SAMPLE" /\ At(p).dlen = d
    BY <1>3, <1>4, <2>1 DEF Inside
  <2> QED BY <1>1, <1>12, <2>2
<1>16. At(Pos)'.type = "SAMPLE" /\ At(Pos)'.dlen = d
  <2>1. PICK p : p = Pos'
    OBVIOUS
  <2>2. p \in Pos'..(Pos' + size' - 1)
    BY <1>13, <2>1
  <2> QED BY <1>15, <2>1, <2>2, Later
<1>17. ReadOK'
  <2>1. CASE field = Len(Fields)
    <3>1. Copied(n)[0] = At(Pos)
      BY <1>0, <1>6, CopiesFirst
    <3>2. data_size' = d /\ size' = d /\ pc' = "data"
      BY <1>4, <1>5, <1>7, <1>10, <1>13, <2>1, <3>1
    <3> QED BY <1>5, <1>10, <1>13, <1>14, <1>15, <3>2 DEF ReadOK
  <2>2. CASE field # Len(Fields)
    <3>1. pc' = "field" /\ field' = field + 1 /\ data_size' = 0 /\ ret' = "none"
      BY <1>1, <1>5, <1>10, <2>2
    <3> QED BY <1>13, <1>14, <1>15, <1>16, <3>1 DEF ReadOK
  <2> QED BY <2>1, <2>2
<1>18. TypeOK'
  <2>1. field' \in 1..Len(Fields) /\ pc' \in {"field", "data"}
    BY <1>1, <1>6, <1>10
  <2>2. data_size' \in DataLens \cup {0}
    <3>1. Copied(n)[0] = At(Pos)
      BY <1>0, <1>6, CopiesFirst
    <3> QED BY <1>4, <1>5, <1>10, <3>1
  <2>3. size' \in 0..RingSize
    BY <1>13, RingLenIs
  <2> QED BY <1>0, <1>1, <1>5, <1>10, <1>11, <1>13, <2>1, <2>2, <2>3 DEF TypeOK
<1>19. CountOK'
  <2>1. /\ Cardinality(Samples)' \in Nat /\ Cardinality(Samples) \in Nat
        /\ Cardinality(Samples)' <= Cardinality(Samples)
    BY <1>0, <1>11, PassedSamples
  <2>2. nrec \in Nat /\ added \in Nat /\ BufCap \in Nat /\ pc' \in {"field", "data"}
    BY <1>0, <1>1, <1>10, BufferConstants DEF TypeOK
  <2> HIDE DEF Samples
  <2> QED BY <1>0, <1>1, <2>1, <2>2 DEF CountOK
<1> QED BY <1>12, <1>17, <1>18, <1>19 DEF RingInv

\* Where what was left of a record has been passed, the next record starts.
LEMMA PassedRecord ==
  ASSUME RingInv, Inside, Passed, Pos' = Pos + size \/ Pos' = head
  PROVE  StartsAt(Pos)'
<1>1. Positions /\ RingOK /\ head' = head
  BY PositionsOf, PassedIs
<1>2. Pos \in Int /\ head \in Int
  BY <1>1, PosIs DEF Positions
<1>3. CASE Pos' = head
  BY <1>1, <1>3 DEF StartsAt
<1>4. CASE Pos' = Pos + size
  <2>1. PICK e : e = Pos + size
    OBVIOUS
  <2>2. e \in Int /\ StartsAt(e)
    BY <1>2, <2>1 DEF Inside
  <2>3. StartsAt(e)'
    BY <1>1, <2>2, PassedRing
  <2> QED BY <1>4, <2>1, <2>3, Later
<1> QED BY <1>3, <1>4

LEMMA ReadDataRing == ASSUME RingInv, ReadData PROVE RingInv'
<1>0. Positions /\ RingOK /\ ReadOK /\ CountOK /\ TypeOK
  BY PositionsOf
<1>1. pc = "data" /\ size = data_size /\ data_size \in DataLens /\ ret = "none"
  BY <1>0 DEF ReadData, ReadOK
<1>2. Inside
  BY <1>1, InsideIs
<1>3. /\ Dist \in Nat /\ Dist < RingSize /\ Pos = head - Dist /\ Pos \in Int /\ head \in Nat
  BY <1>0, PosIs DEF Positions
<1>4. Available(data_size) /\ data_size >= MinData /\ Left(data_size) = 0 /\ size > 0 /\ data_size \in Nat
  <2>1. data_size \in Nat /\ MinData <= data_size
    BY <1>1, SampleLenIs, TracepointConstants
  <2>2. Dist >= data_size
    BY <1>1, <1>2 DEF Inside
  <2> QED BY <1>1, <1>2, <2>1, <2>2, AvailableIs DEF Left, Inside
<1>5. PICK got \in BOOLEAN :
        LET copied == got /\ Available(data_size)
            ok == copied /\ data_size >= MinData
            left == IF ok THEN Left(data_size) ELSE size
            r == IF ok THEN "ok" ELSE "fail"
        IN /\ IF copied THEN Read(data_size) ELSE UNCHANGED tail
           /\ IF left > 0
              THEN /\ pc' = "skip" /\ size' = left /\ ret' = r
                   /\ UNCHANGED <<kernelVars, at, field, data_size, nrec, added>>
              ELSE Return(r)
  BY DEF ReadData
<1>6. CASE got
  <2>1. Read(data_size) /\ Return("ok")
    BY <1>4, <1>5, <1>6
  <2>2. kernelVars' = kernelVars /\ tail' = U64(tail + size)
    BY <1>1, <2>1 DEF Return, Read
  <2>3. Passed /\ Pos' = Pos + size /\ tail' \in 0..(WordMod - 1)
    BY <1>2, <2>2, Taken DEF Inside
  <2>4. StartsAt(Pos)'
    BY <1>2, <2>3, PassedRecord
  <2> QED BY <1>1, <2>1, <2>3, <2>4, Returned
<1>7. CASE ~got
  <2>1. /\ tail' = tail /\ pc' = "skip" /\ size' = size /\ ret' = "fail"
        /\ kernelVars' = kernelVars /\ head' = head /\ ring' = ring /\ at' = at /\ field' = field
        /\ data_size' = data_size /\ nrec' = nrec /\ added' = added
    BY <1>4, <1>5, <1>7 DEF kernelVars
  <2>2. Dist' = Dist /\ Pos' = Pos /\ Unread' = Unread /\ \A p : At(p)' = At(p)
    BY <2>1 DEF Dist, Pos, Unread, At
  <2>3. RingOK' /\ DistOK'
    BY <1>0, <2>1, <2>2 DEF RingOK, CellOK, SameRecord, DistOK, Positions
  <2>4. Inside'
    BY <1>2, <2>1, <2>2 DEF Inside, StartsAt, At
  <2>5. ReadOK'
    BY <2>1, <2>4 DEF ReadOK, Inside
  <2>6. TypeOK'
    BY <1>0, <1>4, <2>1 DEF TypeOK
  <2>7. CountOK'
    <3>1. Samples' = Samples
      BY <2>2 DEF Samples
    <3>2. nrec \in Nat /\ added \in Nat /\ BufCap \in Nat /\ Cardinality(Samples) \in Nat
      BY <1>0, BufferConstants, SamplesFinite DEF TypeOK
    <3> HIDE DEF Samples
    <3> QED BY <1>0, <1>1, <2>1, <3>1, <3>2 DEF CountOK
  <2> QED BY <2>3, <2>5, <2>6, <2>7 DEF RingInv
<1> QED BY <1>6, <1>7

LEMMA SkipMoves ==
  ASSUME RingInv, Skip
  PROVE  /\ Passed /\ tail' \in 0..(WordMod - 1)
         /\ \/ Pos' = Pos + size
            \/ Pos' = head /\ I32(head) < 0 /\ I32(tail + size) >= 0
<1>1. Positions /\ pc = "skip" /\ tail' = Skipped(size) /\ kernelVars' = kernelVars /\ head' = head
  BY PositionsOf DEF Skip, Return, kernelVars
<1>2. Inside
  BY <1>1, InsideIs
<1>3. Pos \in Int /\ head \in Nat /\ tail \in Int /\ Pos <= head /\ size \in Nat /\ tail + size \in Int
  BY <1>1, <1>2, PosIs DEF Positions, Inside
<1>4. /\ Positions'
      /\ \/ Dist' = Dist - size /\ Pos' = Pos + size
         \/ Dist' = 0 /\ Pos' = head /\ I32(head) < 0 /\ I32(tail + size) >= 0
  BY <1>1, <1>2, WasSkipped DEF Inside
<1>5. tail' \in 0..(WordMod - 1)
  <2>1. I32(head) \in Int
    BY <1>3, I32Is
  <2>2. I32(head) - tail \in Int
    BY <1>3, <2>1
  <2>3. I32(I32(head) - tail) \in Int
    BY <2>2, I32Is
  <2>4. tail + I32(I32(head) - tail) \in Int
    BY <1>3, <2>3
  <2>5. U64(tail + I32(I32(head) - tail)) \in 0..(WordMod - 1) /\ U64(tail + size) \in 0..(WordMod - 1)
    BY <1>3, <2>4, U64Is
  <2> QED BY <1>1, <2>5 DEF Skipped
<1>6. Passed
  BY <1>1, <1>3, <1>4 DEF Passed
<1> QED BY <1>4, <1>5, <1>6

LEMMA SkipRing == ASSUME RingInv, Skip PROVE RingInv'
<1>1. pc = "skip" /\ Return(ret) /\ Inside
  BY InsideIs DEF Skip
<1>2. ret \in {"none", "fail"}
  BY <1>1, PositionsOf DEF ReadOK
<1>3. Passed /\ tail' \in 0..(WordMod - 1) /\ StartsAt(Pos)'
  BY <1>1, SkipMoves, PassedRecord
<1> QED BY <1>1, <1>2, <1>3, Returned

LEMMA NextRing == ASSUME RingInv, [Next]_vars PROVE RingInv'
<1>1. CASE Kernel
  <2>1. ASSUME NEW d \in DataLens, Publish("SAMPLE", SampleLen(d), d) PROVE RingInv'
    BY <2>1, PublishRing DEF Written
  <2>2. ASSUME NEW n \in OtherLens, Publish("OTHER", n, 0) PROVE RingInv'
    BY <2>2, PublishRing DEF Written
  <2> QED BY <1>1, <2>1, <2>2 DEF Kernel
<1>2. CASE Start
  BY <1>2, StartRing
<1>3. CASE ReadHeader
  BY <1>3, ReadHeaderRing
<1>4. CASE ReadField
  BY <1>4, ReadFieldRing
<1>5. CASE ReadData
  BY <1>5, ReadDataRing
<1>6. CASE Skip
  BY <1>6, SkipRing
<1>7. CASE UNCHANGED vars
  <2>1. /\ head' = head /\ ring' = ring /\ tail' = tail /\ pc' = pc /\ at' = at /\ size' = size
        /\ field' = field /\ data_size' = data_size /\ ret' = ret /\ nrec' = nrec /\ added' = added
    BY <1>7 DEF vars, kernelVars, readVars
  <2>2. Dist' = Dist /\ Pos' = Pos /\ Unread' = Unread /\ \A p : At(p)' = At(p)
    BY <2>1 DEF Dist, Pos, Unread, At
  <2>3. TypeOK' /\ DistOK'
    BY <2>1, <2>2 DEF RingInv, TypeOK, DistOK
  <2>4. RingOK'
    BY <2>1, <2>2 DEF RingInv, RingOK, CellOK, SameRecord
  <2>5. ReadOK'
    BY <2>1, <2>2 DEF RingInv, ReadOK, StartsAt, At
  <2>6. Samples' = Samples
    BY <2>2 DEF Samples
  <2>7. CountOK'
    BY <2>1, <2>6 DEF RingInv, CountOK
  <2> QED BY <2>3, <2>4, <2>5, <2>7 DEF RingInv
<1> QED BY <1>1, <1>2, <1>3, <1>4, <1>5, <1>6, <1>7 DEF Next, Reader

\* What the reader relies on always holds: the distance of the two positions, put
\* through 32 bits, is that of a reader within the ring (mmap_buffer_read), and what
\* it has not taken is whole records, of which it stands at the start of one or
\* `size' units before the end of one (pf_profiling_record).
THEOREM AlwaysRingInv == Spec => []RingInv
<1>1. Init => RingInv
  BY InitRing
<1>2. RingInv /\ [Next]_vars => RingInv'
  BY NextRing
<1> QED BY <1>1, <1>2, PTL DEF Spec

\* The variables of the buffer and of pf_profiling_record keep their types.
THEOREM TypeCorrect == Spec => []TypeOK
<1>1. RingInv => TypeOK
  BY DEF RingInv
<1> QED BY <1>1, AlwaysRingInv, PTL

\* Every header is read at the first unit of a record, and whatever is read after it
\* is there and belongs to that record, for any size of the ring and of the integers
\* (mmap_buffer_read, mmap_buffer_skip).
THEOREM AlwaysWhole == Spec => []Whole
<1>1. ASSUME RingInv PROVE Whole
  <2>0. Positions /\ RingOK /\ ReadOK /\ TypeOK
    BY <1>1, PositionsOf
  <2>1. ASSUME pc \in {"idle", "header"}, Pos # head
        PROVE  Pos < head /\ ring[Pos % RingSize].at = Pos /\ ring[Pos % RingSize].off = 0
    <3>1. StartsAt(Pos)
      BY <2>0, <2>1 DEF ReadOK
    <3>2. Pos < head /\ At(Pos).at = Pos /\ At(Pos).off = 0
      BY <2>0, <2>1, <3>1, HeaderThere DEF StartsAt
    <3> QED BY <3>2 DEF At
  <2>2. Framed
    BY <2>1 DEF Framed
  <2>3. ASSUME pc \in {"field", "data", "skip"}, NEW n \in Nat \ {0}, n <= size
        PROVE  Available(n) /\ Origin(n) = {at}
    <3>1. Inside
      BY <1>1, <2>3, InsideIs
    <3>2. Dist \in Nat /\ Pos \in Int
      BY <2>0, PosIs
    <3>3. Dist >= n /\ n <= RingSize
      BY <2>3, <3>1, <3>2, RingLenIs DEF Inside
    <3>4. \A p \in Pos..(Pos + n - 1) : At(p).at = at
      BY <2>3, <3>1, <3>2 DEF Inside
    <3> QED BY <2>0, <3>3, <3>4, OriginIs, AvailableIs
  <2>4. pc = "field" => Fields[field] \in Nat \ {0} /\ Fields[field] <= size
    <3> SUFFICES ASSUME pc = "field" PROVE Fields[field] \in Nat \ {0} /\ Fields[field] <= size
      OBVIOUS
    <3>1. /\ field \in 1..Len(Fields) /\ Fields[field] \in Nat \ {0}
          /\ field + 1 \in 1..(Len(Fields) + 1) /\ field \in Nat /\ Len(Fields) \in Nat
      BY <2>0, FieldIs DEF TypeOK
    <3>2. FieldsFrom[field] = Fields[field] + FieldsFrom[field + 1] /\ FieldsFrom[field + 1] \in Nat
      BY <3>1, FieldsIs
    <3>3. size = FieldsFrom[field] + At(Pos).dlen /\ At(Pos).dlen \in Nat
      BY <1>1, <2>0, FieldThere, SampleLenIs DEF ReadOK
    <3> QED BY <3>1, <3>2, <3>3
  <2>5. pc = "data" => data_size \in Nat \ {0} /\ data_size <= size
    BY <2>0, SampleLenIs DEF ReadOK
  <2>6. pc = "skip" => size \in Nat \ {0} /\ size <= size
    BY <1>1, InsideIs DEF Inside
  <2>7. Untorn
    BY <2>3, <2>4, <2>5, <2>6 DEF Untorn
  <2> QED BY <2>2, <2>7 DEF Whole
<1> QED BY <1>1, AlwaysRingInv, PTL

\* The records that a call stores fit in the buffer, but for those that the kernel
\* publishes while it reads: profiling_recbuf_update can be handed no more than
\* s_profiling_recbuf has room for and those.
THEOREM AlwaysFitsButForNew == Spec => []FitsButForNew
<1>1. RingInv => FitsButForNew
  BY DEF RingInv, CountOK, FitsButForNew
<1> QED BY <1>1, AlwaysRingInv, PTL

LEMMA MovesOn ==
  ASSUME RingInv, Start \/ ReadHeader \/ ReadField \/ ReadData PROVE Pos' >= Pos
<1>1. /\ kernelVars' = kernelVars
      /\ \/ tail' = tail
         \/ tail' = U64(I32(head))
         \/ \E n \in Nat : Available(n) /\ tail' = U64(tail + n)
  <2>1. HeaderLen \in Nat /\ (pc = "field" => Fields[field] \in Nat) /\ data_size \in Nat
    <3>1. TypeOK
      BY PositionsOf
    <3>2. HeaderLen \in Nat /\ (pc = "field" => Fields[field] \in Nat)
      BY <3>1, RingLenIs, FieldIs DEF TypeOK
    <3>3. data_size \in DataLens \cup {0} /\ DataLens \subseteq Nat
      BY <3>1, RingConstants DEF TypeOK
    <3> QED BY <3>2, <3>3
  <2>2. Start => kernelVars' = kernelVars /\ tail' = tail
    BY DEF Start, kernelVars
  <2>3. ReadHeader =>
          /\ kernelVars' = kernelVars
          /\ \/ tail' = tail
             \/ tail' = U64(I32(head))
             \/ Available(HeaderLen) /\ tail' = U64(tail + HeaderLen)
    BY DEF ReadHeader, Return, Read, kernelVars
  <2>4. ReadField =>
          /\ kernelVars' = kernelVars /\ pc = "field"
          /\ tail' = tail \/ (Available(Fields[field]) /\ tail' = U64(tail + Fields[field]))
    BY DEF ReadField, Read, kernelVars
  <2>5. ReadData =>
          /\ kernelVars' = kernelVars
          /\ tail' = tail \/ (Available(data_size) /\ tail' = U64(tail + data_size))
    BY DEF ReadData, Return, Read, kernelVars
  <2> QED BY <2>1, <2>2, <2>3, <2>4, <2>5
<1>2. Positions /\ head' = head /\ Pos \in Int /\ head \in Nat /\ Pos <= head
  BY <1>1, PositionsOf, PosIs DEF kernelVars, Positions
<1>3. CASE tail' = tail
  BY <1>1, <1>2, <1>3, Stayed
<1>4. CASE tail' = U64(I32(head))
  BY <1>2, <1>4, WasReset
<1>5. ASSUME NEW n \in Nat, Available(n), tail' = U64(tail + n) PROVE Pos' >= Pos
  BY <1>1, <1>2, <1>5, Taken, AvailableIs
<1> QED BY <1>1, <1>3, <1>4, <1>5

\* The reader only moves on, and mmap_buffer_skip passes over the record it is in and
\* no other, but where the sign of the position turns inside that record.
THEOREM SkipsOnlyOne == Spec => SkipsOneRecord
<1> DEFINE A ==
      /\ Pos' >= Pos
      /\ pc = "skip" /\ pc' # "skip" /\ Pos' - Pos # size =>
           I32(head) < 0 /\ I32(tail + size) >= 0 /\ Pos' = head
<1>1. ASSUME RingInv, [Next]_vars PROVE [A]_vars
  <2>0. Positions /\ TypeOK /\ Pos \in Int /\ size \in Int
    BY <1>1, PositionsOf, PosIs DEF TypeOK
  <2>1. CASE Skip
    <3>1. /\ Pos' \in Int /\ Pos' >= Pos
          /\ \/ Pos' = Pos + size
             \/ Pos' = head /\ I32(head) < 0 /\ I32(tail + size) >= 0
      BY <1>1, <2>0, <2>1, SkipMoves DEF Passed
    <3>2. Pos' = Pos + size => Pos' - Pos = size
      BY <2>0, <3>1
    <3>3. A
      BY <3>1, <3>2
    <3> QED BY <3>3
  <2>2. CASE Kernel
    <3>1. ASSUME NEW type, NEW len, NEW dlen, Written(type, len, dlen), Publish(type, len, dlen)
          PROVE  Pos' = Pos /\ pc' = pc
      <4>1. RingOK /\ DOMAIN ring = 0..(RingSize - 1)
        BY <1>1, PositionsOf DEF TypeOK
      <4>2. Pos' = Pos
        BY <2>0, <3>1, <4>1, PublishedRing
      <4> QED BY <3>1, <4>2 DEF Publish, readVars
    <3>2. Pos' = Pos /\ pc' = pc
      <4>1. ASSUME NEW d \in DataLens, Publish("SAMPLE", SampleLen(d), d) PROVE Pos' = Pos /\ pc' = pc
        BY <3>1, <4>1 DEF Written
      <4>2. ASSUME NEW n \in OtherLens, Publish("OTHER", n, 0) PROVE Pos' = Pos /\ pc' = pc
        BY <3>1, <4>2 DEF Written
      <4> QED BY <2>2, <4>1, <4>2 DEF Kernel
    <3> QED BY <2>0, <3>2
  <2>3. ASSUME Start \/ ReadHeader \/ ReadField \/ ReadData
        PROVE  Pos' >= Pos /\ pc # "skip"
    <3>1. pc # "skip"
      BY <2>3 DEF Start, ReadHeader, ReadField, ReadData
    <3> QED BY <1>1, <2>3, <3>1, MovesOn
  <2> QED BY <1>1, <2>0, <2>1, <2>2, <2>3 DEF Next, Reader, vars
<1> QED BY <1>1, AlwaysRingInv, PTL DEF Spec, SkipsOneRecord
=============================================================================
