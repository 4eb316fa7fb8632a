------------------------ MODULE ContainerOps_proofs ------------------------
(***************************************************************************)
(* What the containers of the TCP buffers compute, for a ring of every     *)
(* size and every set of intervals: RingBuffer::write copies each element  *)
(* to the cell of its position, and emplaceMerge and mergeRemove keep      *)
(* exactly the numbers they are given, in intervals that do not touch.     *)
(***************************************************************************)
EXTENDS RingBuffer, IntervalSet, SequenceTheorems, WellFoundedInduction, TLAPS

---------------------------------------------------------------------------
(* Numbers.                                                                *)

\* A bounded set of numbers has a largest one.
LEMMA LargestIn ==
    ASSUME NEW k \in Nat, NEW S \in SUBSET (0 .. k), S # {}
    PROVE  \E m \in S : \A y \in S : m >= y
<1> DEFINE T == {k - y : y \in S}
<1>0. \A y \in S : y \in Nat /\ k - y \in Nat
  OBVIOUS
<1>1. T \in SUBSET Nat /\ T # {}
  BY <1>0
<1>2. PICK t \in T : \A u \in T : ~(<<u, t>> \in OpToRel(<, Nat))
  <2> HIDE DEF T
  <2> QED
    BY <1>1, NatLessThanWellFounded, WFMin, Zenon
<1>3. ASSUME NEW u \in T PROVE t <= u
  <2>1. u \in Nat /\ t \in Nat /\ ~(<<u, t>> \in OpToRel(<, Nat))
    BY <1>1, <1>2
  <2> QED
    BY <2>1, SMT DEF OpToRel
<1>4. PICK m \in S : t = k - m
  BY <1>2
<1>5. ASSUME NEW y \in S PROVE m >= y
  <2>1. k - m <= k - y
    BY <1>3, <1>4
  <2> QED
    BY <1>0, <2>1
<1> QED
  BY <1>5

\* Quotient and remainder by the size of the ring are unique.
LEMMA OneQuotient ==
    ASSUME NEW q \in Int, NEW u \in Int, NEW r \in Cells, NEW s \in Cells,
           N * q + r = N * u + s
    PROVE  q = u /\ r = s
<1>0. r \in 0 .. N - 1 /\ s \in 0 .. N - 1 /\ N \in Nat /\ N > 1
  BY NAssumption DEF Cells
<1>1. N * (q - u) = s - r
  BY <1>0
<1>2. CASE q - u >= 1
  <2>1. N * (q - u) >= N
    BY <1>0, <1>2
  <2> QED
    BY <1>0, <1>1, <2>1
<1>3. CASE q - u <= -1
  <2>1. N * (q - u) <= -N
    BY <1>0, <1>3
  <2> QED
    BY <1>0, <1>1, <2>1
<1>4. CASE q = u
  BY <1>0, <1>4
<1> QED
  BY <1>2, <1>3, <1>4

LEMMA IdxDivides ==
    ASSUME NEW p \in Nat
    PROVE  idx(p) \in Cells /\ p \div N \in Int /\ p = N * (p \div N) + idx(p)
BY NAssumption DEF idx, Cells

\* The cell d places on.
LEMMA IdxStep ==
    ASSUME NEW p \in Nat, NEW d \in Cells
    PROVE  idx(p + d) = IF idx(p) + d < N THEN idx(p) + d ELSE idx(p) + d - N
<1> DEFINE a == idx(p)
           q == p \div N
           b == idx(p + d)
           u == (p + d) \div N
<1>1. d \in Nat /\ d < N /\ N \in Nat /\ N > 1
  BY NAssumption DEF Cells
<1>2. a \in Cells /\ q \in Int /\ p = N * q + a
  BY IdxDivides
<1>3. b \in Cells /\ u \in Int /\ p + d = N * u + b
  <2>1. p + d \in Nat
    BY <1>1
  <2> QED
    BY <2>1, IdxDivides
<1> HIDE DEF a, b, q, u
<1>4. a \in 0 .. N - 1
  BY <1>2 DEF Cells
<1>5. CASE a + d < N
  <2>1. a + d \in Cells
    BY <1>1, <1>4, <1>5 DEF Cells
  <2>2. N * q + (a + d) = N * u + b
    BY <1>1, <1>2, <1>3, <1>4
  <2>3. b = a + d
    BY <1>2, <1>3, <2>1, <2>2, OneQuotient
  <2> QED
    BY <1>5, <2>3 DEF a, b
<1>6. CASE ~(a + d < N)
  <2>1. a + d - N \in Cells
    BY <1>1, <1>4, <1>6 DEF Cells
  <2>2. N * (q + 1) = N * q + N /\ N * q \in Int /\ N * u \in Int /\ q + 1 \in Int
    BY <1>1, <1>2, <1>3
  <2>3. N * (q + 1) + (a + d - N) = N * u + b
    <3>1. b \in Int
      BY <1>3 DEF Cells
    <3> QED
      BY <1>1, <1>2, <1>3, <1>4, <2>2, <3>1
  <2>4. b = a + d - N
    BY <1>2, <1>3, <2>1, <2>2, <2>3, OneQuotient
  <2> QED
    BY <1>6, <2>4 DEF a, b
<1> QED
  BY <1>5, <1>6

\* No two of N consecutive positions share a cell.
LEMMA IdxInjective ==
    ASSUME NEW p \in Nat, NEW q \in Nat, idx(p) = idx(q), p - q < N, q - p < N
    PROVE  p = q
<1>0. N \in Nat /\ N > 1
  BY NAssumption
<1>1. ASSUME NEW x \in Nat, NEW y \in Nat, idx(x) = idx(y), x <= y, y - x < N PROVE x = y
  <2>1. y - x \in Cells /\ y = x + (y - x)
    BY <1>0, <1>1 DEF Cells
  <2>2. idx(y) = IF idx(x) + (y - x) < N THEN idx(x) + (y - x) ELSE idx(x) + (y - x) - N
    BY <2>1, IdxStep
  <2>3. idx(x) \in 0 .. N - 1
    BY IdxDivides DEF Cells
  <2> QED
    BY <1>0, <1>1, <2>2, <2>3
<1> QED
  BY <1>0, <1>1

---------------------------------------------------------------------------
(* The ring buffer.                                                        *)

\* w is what becomes of buffer b when w.n elements of d are stored from position
\* at on.
Stores(V, b, d, at, w) ==
    /\ w.n \in 0 .. Len(d)
    /\ w.buf \in [Cells -> V]
    /\ \A k \in 0 .. w.n - 1 : w.buf[idx(at + k)] = d[k + 1]
    /\ \A c \in Cells : (\A k \in 0 .. w.n - 1 : c # idx(at + k)) => w.buf[c] = b[c]

\* RingBuffer::write fills the cells of the positions from at on with as much
\* of the data as there is room for, and leaves the other cells alone, also
\* where the range crosses the end of the array.
THEOREM WriteExact ==
    ASSUME NEW V, NEW b \in [Cells -> V], NEW d \in Seq(V), NEW at \in Nat, NEW last \in Int,
           at < last => last - at < N
    PROVE  /\ write(b, d, at, last).n = WriteCount(Len(d), at, last)
           /\ Stores(V, b, d, at, write(b, d, at, last))
<1> DEFINE w == write(b, d, at, last)
<1> SUFFICES w.n = WriteCount(Len(d), at, last) /\ Stores(V, b, d, at, w)
  OBVIOUS
<1>0. N \in Nat /\ N > 1 /\ Len(d) \in Nat /\ \A i \in 1 .. Len(d) : d[i] \in V
  BY NAssumption, LenProperties
<1>1. CASE at >= last
  <2>1. w.n = 0 /\ w.buf = b /\ WriteCount(Len(d), at, last) = 0
    BY <1>1 DEF write, WriteCount
  <2> QED
    BY <1>0, <2>1 DEF Stores
<1>2. CASE at < last
  <2> DEFINE a  == idx(at)
             l  == idx(last)
             e  == last - at
             n1 == IF a <= l THEN Min2(l + 1 - a, Len(d)) ELSE Min2(N - a, Len(d))
             n2 == IF a <= l THEN 0 ELSE Min2(l + 1, Len(d) - n1)
             d2 == SubSeq(d, n1 + 1, Len(d))
             b1 == Copy(b, d, n1, a)
             b2 == Copy(b1, d2, n2, 0)
  <2>1. w.n = n1 + n2 /\ w.buf = b2
    BY <1>2 DEF write
  <2>2. e \in Cells /\ e >= 1 /\ last = at + e /\ a \in 0 .. N - 1
    <3>1. e \in 0 .. N - 1 /\ e >= 1 /\ last = at + e
      BY <1>0, <1>2
    <3>2. a \in Cells
      BY IdxDivides
    <3> HIDE DEF a, e
    <3> QED
      BY <3>1, <3>2 DEF Cells
  <2>3. l = IF a + e < N THEN a + e ELSE a + e - N
    BY <2>2, IdxStep
  <2>4. e \in 1 .. N - 1
    BY <2>2 DEF Cells
  <2>5. WriteCount(Len(d), at, last) = Min2(Len(d), e + 1)
    BY <1>2 DEF WriteCount
  <2> HIDE DEF w, a, l, e
  <2>6. /\ n1 \in Nat /\ n2 \in Nat /\ n1 + n2 = Min2(Len(d), e + 1)
        /\ n1 <= N - a /\ n2 <= Len(d) - n1 /\ n1 <= Len(d)
        /\ n2 > 0 => n1 = N - a /\ n2 <= l + 1 /\ l < a
    <3> DEFINE L == Len(d)
    <3>0. L \in Nat
      BY <1>0
    <3> HIDE DEF L
    <3>1. CASE a + e < N
      <4>1. a <= l /\ l + 1 - a = e + 1
        BY <1>0, <2>2, <2>3, <2>4, <3>1
      <4>2. n1 = Min2(e + 1, L) /\ n2 = 0
        BY <4>1 DEF L
      <4> HIDE DEF n1, n2
      <4> QED
        BY <1>0, <2>2, <2>4, <3>0, <3>1, <4>2 DEF Min2, L
    <3>2. CASE ~(a + e < N)
      <4>1. ~(a <= l) /\ l = a + e - N /\ l < a
        BY <1>0, <2>2, <2>3, <2>4, <3>2
      <4>2. n1 = Min2(N - a, L) /\ n2 = Min2(l + 1, L - n1)
        BY <4>1 DEF L
      <4> HIDE DEF n1, n2
      <4>3. a \in Int /\ e \in Int /\ a >= 0 /\ a < N /\ e < N
        BY <1>0, <2>2, <2>4
      <4>4. CASE N - a <= L
        <5>1. n1 = N - a /\ n2 = Min2(l + 1, L - n1)
          BY <1>0, <3>0, <4>2, <4>3, <4>4 DEF Min2
        <5> QED
          BY <1>0, <3>0, <3>2, <4>1, <4>3, <4>4, <5>1 DEF Min2, L
      <4>5. CASE ~(N - a <= L)
        <5>1. n1 = L /\ n2 = 0
          BY <1>0, <3>0, <3>2, <4>1, <4>2, <4>3, <4>5 DEF Min2
        <5> QED
          BY <1>0, <3>0, <3>2, <4>1, <4>3, <4>5, <5>1 DEF Min2, L
      <4> QED
        BY <4>4, <4>5
    <3> QED
      BY <3>1, <3>2
  <2> HIDE DEF n1, n2
  <2>7. d2 \in Seq(V) /\ (n2 > 0 => Len(d2) = Len(d) - n1)
        /\ \A i \in 1 .. Len(d) - n1 : d2[i] = d[n1 + i]
    <3>1. \A i \in n1 + 1 .. Len(d) : d[i] \in V
      BY <1>0, <2>6
    <3>2. /\ d2 \in Seq(V) /\ Len(d2) = IF n1 + 1 <= Len(d) THEN Len(d) - (n1 + 1) + 1 ELSE 0
          /\ \A i \in 1 .. Len(d) - (n1 + 1) + 1 : d2[i] = d[n1 + 1 + i - 1]
      BY <1>0, <2>6, <3>1, SubSeqProperties
    <3> QED
      BY <1>0, <2>6, <3>2
  <2>8. \A i \in 1 .. n2 : d2[i] \in V /\ d2[i] = d[n1 + i]
    BY <1>0, <2>6, <2>7
  <2> HIDE DEF d2
  <2>9. /\ b1 \in [Cells -> V]
        /\ \A c \in Cells : b1[c] = IF c \in a .. a + n1 - 1 THEN d[c - a + 1] ELSE b[c]
    <3>1. \A i \in 1 .. n1 : d[i] \in V
      BY <1>0, <2>6
    <3>2. a \in Nat /\ n1 \in Nat
      BY <2>2, <2>6
    <3>3. \A c \in Cells : c \in a .. a + n1 - 1 => c - a + 1 \in 1 .. n1
      BY <1>0, <3>2 DEF Cells
    <3> QED
      BY <3>1, <3>3 DEF Copy
  <2> HIDE DEF b1
  <2>10. /\ b2 \in [Cells -> V]
         /\ \A c \in Cells : b2[c] = IF c \in 0 .. 0 + n2 - 1 THEN d2[c - 0 + 1] ELSE b1[c]
    <3>1. 0 \in Nat /\ n2 \in Nat /\ \A i \in 1 .. n2 : d2[i] \in V
      BY <2>6, <2>8
    <3> QED
      BY <1>0, <2>9, <3>1 DEF Copy, Cells
  <2> HIDE DEF b2
  <2>11. w.n \in 0 .. Len(d) /\ w.n = n1 + n2 /\ w.buf = b2
    BY <1>0, <2>1, <2>6
  <2>12. ASSUME NEW k \in Nat, k < n1 + n2
         PROVE  idx(at + k) = IF a + k < N THEN a + k ELSE a + k - N
    <3>1. k \in Cells
      BY <1>0, <2>4, <2>6, <2>12 DEF Cells, Min2
    <3> QED
      BY <3>1, IdxStep DEF a
  <2>13. ASSUME NEW k \in Nat, k < n1 + n2 PROVE b2[idx(at + k)] = d[k + 1]
    <3>0. idx(at + k) = IF a + k < N THEN a + k ELSE a + k - N
      BY <2>12, <2>13
    <3>1. CASE k < n1
      <4> DEFINE c == a + k
      <4>1. idx(at + k) = c /\ c \in a .. a + n1 - 1 /\ c \in Cells
        BY <1>0, <2>2, <2>6, <3>0, <3>1 DEF Cells
      <4>2. c \notin 0 .. 0 + n2 - 1 /\ c - a + 1 = k + 1
        BY <1>0, <2>2, <2>3, <2>4, <2>6, <3>1
      <4> HIDE DEF c
      <4>3. b2[c] = b1[c] /\ b1[c] = d[c - a + 1]
        BY <2>9, <2>10, <4>1, <4>2
      <4> QED
        BY <4>1, <4>2, <4>3
    <3>2. CASE k >= n1
      <4> DEFINE c == k - n1
      <4>1. n2 > 0 /\ c \in 0 .. n2 - 1
        BY <2>6, <2>13, <3>2
      <4>2. n1 = N - a /\ l < a /\ n2 <= l + 1
        BY <2>6, <4>1
      <4>3. idx(at + k) = c
        BY <1>0, <2>2, <2>6, <3>0, <3>2, <4>2
      <4>4. l \in Int /\ l < N
        BY <1>0, <2>2, <2>3, <2>4
      <4>5. c \in Cells /\ c \in 0 .. 0 + n2 - 1
        BY <1>0, <2>6, <4>1, <4>2, <4>4 DEF Cells
      <4>6. c - 0 + 1 \in 1 .. n2 /\ n1 + (c - 0 + 1) = k + 1
        BY <2>6, <4>1
      <4> HIDE DEF c
      <4>7. b2[c] = d2[c - 0 + 1]
        BY <2>10, <4>5
      <4>8. d2[c - 0 + 1] = d[k + 1]
        BY <2>8, <4>6
      <4> QED
        BY <4>3, <4>7, <4>8
    <3> QED
      BY <2>6, <3>1, <3>2
  <2>14. ASSUME NEW c \in Cells, \A k \in 0 .. n1 + n2 - 1 : c # idx(at + k) PROVE b2[c] = b[c]
    <3>0. c \in 0 .. N - 1
      BY DEF Cells
    <3>1. c \notin a .. a + n1 - 1
      <4> SUFFICES ASSUME c \in a .. a + n1 - 1 PROVE FALSE
        OBVIOUS
      <4> DEFINE k == c - a
      <4>1. k \in 0 .. n1 + n2 - 1 /\ k \in Nat /\ k < n1 + n2 /\ a + k = c
        BY <1>0, <2>2, <2>6, <3>0
      <4> HIDE DEF k
      <4>2. idx(at + k) = c
        BY <1>0, <2>12, <3>0, <4>1
      <4> QED
        BY <2>14, <4>1, <4>2
    <3>2. c \notin 0 .. 0 + n2 - 1
      <4> SUFFICES ASSUME c \in 0 .. 0 + n2 - 1 PROVE FALSE
        OBVIOUS
      <4> DEFINE k == n1 + c
      <4>1. n2 > 0 /\ n1 = N - a
        BY <1>0, <2>6, <3>0
      <4>2. k \in 0 .. n1 + n2 - 1 /\ k \in Nat /\ k < n1 + n2 /\ a + k = N + c
        BY <1>0, <2>2, <2>6, <3>0, <4>1
      <4> HIDE DEF k
      <4>3. idx(at + k) = IF a + k < N THEN a + k ELSE a + k - N
        BY <2>12, <4>2
      <4>4. idx(at + k) = c
        BY <1>0, <2>2, <3>0, <4>2, <4>3
      <4> QED
        BY <2>14, <4>2, <4>4
    <3> QED
      BY <2>9, <2>10, <3>1, <3>2
  <2>15. \A k \in 0 .. w.n - 1 : k \in Nat /\ k < n1 + n2
    BY <2>6, <2>11
  <2> QED
    BY <2>1, <2>5, <2>6, <2>10, <2>11, <2>13, <2>14, <2>15 DEF Stores
<1> QED
  BY <1>0, <1>1, <1>2

\* The difference of two cells, modulo the size.
LEMMA CellsApart ==
    ASSUME NEW a \in Cells, NEW c \in Cells
    PROVE  (c - a) % N = IF a <= c THEN c - a ELSE c - a + N
<1> DEFINE x == c - a
<1>0. N \in Nat /\ N > 1 /\ a \in 0 .. N - 1 /\ c \in 0 .. N - 1
  BY NAssumption DEF Cells
<1>1. x \in Int /\ x % N \in 0 .. N - 1 /\ x \div N \in Int /\ x = N * (x \div N) + (x % N)
  BY <1>0
<1> HIDE DEF x
<1>2. x % N \in Cells
  BY <1>1 DEF Cells
<1>3. CASE a <= c
  <2>1. x \in Cells /\ N * 0 + x = N * (x \div N) + (x % N)
    BY <1>0, <1>1, <1>3 DEF Cells, x
  <2>2. x % N = x
    BY <1>1, <1>2, <2>1, OneQuotient
  <2> QED
    BY <1>3, <2>2 DEF x
<1>4. CASE ~(a <= c)
  <2>1. x + N \in Cells
    BY <1>0, <1>4 DEF Cells, x
  <2>2. N * (-1) + (x + N) = N * (x \div N) + (x % N)
    BY <1>0, <1>1
  <2>3. x % N = x + N
    BY <1>1, <1>2, <2>1, <2>2, OneQuotient
  <2> QED
    BY <1>4, <2>3 DEF x
<1> QED
  BY <1>3, <1>4

\* RingBuffer::write is the cell-by-cell copy RingWrite, for every ring, data
\* and range that its assertion admits: what the run containers compares on
\* a ring of three cells, and why the send buffer's model may use RingWrite.
THEOREM WriteIsRingWrite ==
    ASSUME NEW V, NEW b \in [Cells -> V], NEW d \in Seq(V), NEW at \in Nat, NEW last \in Int,
           at < last => last - at < N
    PROVE  write(b, d, at, last) = RingWrite(b, d, at, last)
<1> DEFINE w == write(b, d, at, last)
           n == WriteCount(Len(d), at, last)
           a == idx(at)
           f == [c \in Cells |-> IF ((c - a) % N) + 1 <= n THEN d[((c - a) % N) + 1] ELSE b[c]]
<1>0. N \in Nat /\ N > 1 /\ a \in Cells
  BY NAssumption, IdxDivides
<1>1. /\ w.n = n /\ n \in 0 .. Len(d) /\ w.buf \in [Cells -> V]
      /\ \A k \in 0 .. n - 1 : w.buf[idx(at + k)] = d[k + 1]
      /\ \A c \in Cells : (\A k \in 0 .. n - 1 : c # idx(at + k)) => w.buf[c] = b[c]
  <2>1. w.n = n /\ Stores(V, b, d, at, w)
    BY WriteExact
  <2> HIDE DEF w, n
  <2> QED
    BY <2>1 DEF Stores
<1>2. w = [n |-> w.n, buf |-> w.buf]
  BY DEF write
<1>3. RingWrite(b, d, at, last) = [n |-> n, buf |-> f]
  BY DEF RingWrite
<1>4. Len(d) \in Nat /\ n \in Nat /\ n <= N
  <2>1. Len(d) \in Nat
    BY LenProperties
  <2> QED
    BY <1>0, <1>1, <2>1 DEF WriteCount, Min2
<1> HIDE DEF w, n, a
<1>5. ASSUME NEW c \in Cells PROVE w.buf[c] = f[c]
  <2> DEFINE k == (c - a) % N
  <2>1. a \in 0 .. N - 1 /\ c \in 0 .. N - 1 /\ k = IF a <= c THEN c - a ELSE c - a + N
    BY <1>0, CellsApart DEF Cells
  <2>2. k \in Cells
    BY <1>0, <2>1 DEF Cells
  <2>3. f[c] = IF k + 1 <= n THEN d[k + 1] ELSE b[c]
    OBVIOUS
  <2> HIDE DEF k
  <2>4. idx(at + k) = IF a + k < N THEN a + k ELSE a + k - N
    BY <2>2, IdxStep DEF a
  <2>5. idx(at + k) = c
    BY <1>0, <2>1, <2>4
  <2>6. CASE k + 1 <= n
    <3>1. k \in 0 .. n - 1
      BY <1>0, <1>4, <2>2, <2>6 DEF Cells
    <3> QED
      BY <1>1, <2>3, <2>5, <2>6, <3>1
  <2>7. CASE ~(k + 1 <= n)
    <3>1. ASSUME NEW j \in 0 .. n - 1, c = idx(at + j) PROVE FALSE
      <4>1. k \in Nat /\ k < N /\ j \in Nat /\ j < N /\ j # k
        BY <1>0, <1>4, <2>2, <2>7 DEF Cells
      <4>2. at + j = at + k
        BY <2>5, <3>1, <4>1, <1>0, IdxInjective
      <4> QED
        BY <4>1, <4>2
    <3> QED
      BY <1>1, <2>3, <2>7, <3>1
  <2> QED
    BY <2>6, <2>7
<1>6. w.buf = f
  BY <1>1, <1>5
<1> QED
  BY <1>1, <1>2, <1>3, <1>6 DEF w

\* RingBuffer::read hands out the elements at positions at, at + 1, ..., cut to
\* the caller's buffer, also where the range crosses the end of the array.
THEOREM ReadIsRingRead ==
    ASSUME NEW V, NEW b \in [Cells -> V], NEW size \in Nat, NEW at \in Nat, NEW last \in Nat,
           last - at < N
    PROVE  read(b, size, at, last) = RingRead(b, size, at, last)
<1> DEFINE n == Min2(size, last - at + 1)
           t == [i \in 1 .. n |-> b[idx(at + i - 1)]]
<1>0. N \in Nat /\ N > 1 /\ RingRead(b, size, at, last) = t
  BY NAssumption DEF RingRead
<1>1. CASE at > last
  <2>1. n \in Int /\ n <= 0
    BY <1>1 DEF Min2
  <2> HIDE DEF n
  <2>2. t = <<>>
    BY <2>1
  <2> QED
    BY <1>0, <1>1, <2>2 DEF read
<1>2. CASE at <= last
  <2> DEFINE a  == idx(at)
             l  == idx(last)
             e  == last - at
             n1 == IF a <= l THEN Min2(l + 1 - a, size) ELSE Min2(N - a, size)
             n2 == IF a <= l THEN 0 ELSE Min2(l + 1, size - n1)
             s1 == [i \in 1 .. n1 |-> b[a + i - 1]]
             s2 == [i \in 1 .. n2 |-> b[i - 1]]
  <2>1. read(b, size, at, last) = s1 \o s2
    <3>1. ~(at > last)
      BY <1>2
    <3> QED
      BY <3>1, Zenon DEF read
  <2>2. e \in 0 .. N - 1 /\ last = at + e
    BY <1>0, <1>2
  <2>3. a \in 0 .. N - 1 /\ idx(at) = a
    BY IdxDivides DEF Cells
  <2> HIDE DEF a, e
  <2>4. l = IF a + e < N THEN a + e ELSE a + e - N
    BY <2>2, IdxStep DEF a, Cells
  <2>5. n = Min2(size, e + 1)
    BY DEF e
  <2> HIDE DEF l, n
  <2>6. /\ n1 \in Nat /\ n2 \in Nat /\ n1 + n2 = n /\ n1 <= N - a /\ n2 <= N /\ n <= N
        /\ n2 > 0 => n1 = N - a
    <3>1. CASE a + e < N
      <4>1. a <= l /\ l + 1 - a = e + 1
        BY <1>0, <2>2, <2>3, <2>4, <3>1
      <4>2. n1 = Min2(e + 1, size) /\ n2 = 0
        BY <4>1
      <4> HIDE DEF n1, n2
      <4> QED
        BY <1>0, <2>2, <2>3, <2>5, <3>1, <4>2 DEF Min2
    <3>2. CASE ~(a + e < N)
      <4>1. ~(a <= l) /\ l = a + e - N /\ l < a
        BY <1>0, <2>2, <2>3, <2>4, <3>2
      <4>2. n1 = Min2(N - a, size) /\ n2 = Min2(l + 1, size - n1)
        BY <4>1
      <4> HIDE DEF n1, n2
      <4>3. CASE N - a <= size
        <5>1. n1 = N - a
          BY <1>0, <2>3, <4>2, <4>3 DEF Min2
        <5> QED
          BY <1>0, <2>2, <2>3, <2>5, <3>2, <4>1, <4>2, <4>3, <5>1 DEF Min2
      <4>4. CASE ~(N - a <= size)
        <5>1. n1 = size
          BY <1>0, <2>3, <4>2, <4>4 DEF Min2
        <5>2. n2 = 0
          BY <1>0, <2>2, <2>3, <3>2, <4>1, <4>2, <5>1 DEF Min2
        <5> QED
          BY <1>0, <2>2, <2>3, <2>5, <3>2, <4>4, <5>1, <5>2 DEF Min2
      <4> QED
        BY <4>3, <4>4
    <3> QED
      BY <3>1, <3>2
  <2> HIDE DEF n1, n2
  <2>7. /\ \A i \in 1 .. n1 : a + i - 1 \in Cells /\ b[a + i - 1] \in V
        /\ \A i \in 1 .. n2 : i - 1 \in Cells /\ b[i - 1] \in V
    <3>1. \A i \in 1 .. n1 : a + i - 1 \in Cells
      BY <1>0, <2>3, <2>6 DEF Cells
    <3>2. \A i \in 1 .. n2 : i - 1 \in Cells
      BY <1>0, <2>6 DEF Cells
    <3> QED
      BY <3>1, <3>2
  <2>8. s1 \in Seq(V) /\ s2 \in Seq(V) /\ Len(s1) = n1 /\ Len(s2) = n2
    BY <2>6, <2>7
  <2>9. ASSUME NEW i \in 1 .. n
        PROVE  b[idx(at + i - 1)] = IF i <= n1 THEN s1[i] ELSE s2[i - n1]
    <3> DEFINE k == i - 1
    <3>1. k \in Cells /\ at + i - 1 = at + k /\ k \in Nat /\ i = k + 1
      BY <1>0, <2>6 DEF Cells
    <3> HIDE DEF k
    <3>2. idx(at + k) = IF a + k < N THEN a + k ELSE a + k - N
      BY <3>1, IdxStep DEF a
    <3>3. CASE i <= n1
      <4>1. i \in 1 .. n1 /\ a + k < N /\ a + i - 1 = a + k
        BY <1>0, <2>3, <2>6, <3>1, <3>3
      <4>2. s1[i] = b[a + k]
        BY <4>1
      <4> HIDE DEF s1, s2
      <4> QED
        BY <3>1, <3>2, <3>3, <4>1, <4>2
    <3>4. CASE ~(i <= n1)
      <4>1. i - n1 \in 1 .. n2 /\ n1 = N - a
        BY <1>0, <2>3, <2>6, <3>1, <3>4
      <4>2. ~(a + k < N) /\ (i - n1) - 1 = a + k - N
        BY <1>0, <2>3, <3>1, <3>4, <4>1
      <4>3. s2[i - n1] = b[a + k - N]
        BY <4>1, <4>2
      <4> HIDE DEF s1, s2
      <4> QED
        BY <3>1, <3>2, <3>4, <4>2, <4>3
    <3> QED
      BY <3>3, <3>4
  <2> HIDE DEF s1, s2
  <2>10. t \in Seq(V) /\ Len(t) = n /\ \A i \in 1 .. n : t[i] = b[idx(at + i - 1)]
    <3>1. \A i \in 1 .. n : b[idx(at + i - 1)] \in V
      <4>1. \A i \in 1 .. n : at + i - 1 \in Nat
        BY <2>6
      <4> QED
        BY <4>1, IdxDivides
    <3> QED
      BY <2>6, <3>1
  <2>11. /\ s1 \o s2 \in Seq(V) /\ Len(s1 \o s2) = n
         /\ \A i \in 1 .. n : (s1 \o s2)[i] = IF i <= n1 THEN s1[i] ELSE s2[i - n1]
    BY <2>6, <2>8, ConcatProperties
  <2> HIDE DEF t
  <2>12. s1 \o s2 = t
    BY <2>9, <2>10, <2>11, SeqEqual
  <2> QED
    BY <1>0, <2>1, <2>12
<1> QED
  BY <1>1, <1>2

---------------------------------------------------------------------------
(* The set of intervals.                                                   *)

\* Intervals that neither overlap nor touch.
Separated(S) == \A x, y \in S : x = y \/ x.end < y.begin \/ y.end < x.begin

In(p, x) == x.begin <= p /\ p < x.end

\* The numbers of a set of intervals.
Covered(S) == {p \in Nat : \E x \in S : In(p, x)}

LEMMA IntervalType ==
    \A x \in Interval : /\ x.begin \in Nat /\ x.end \in Nat /\ x.begin \in U32 /\ x.end \in U32
                        /\ x.begin < x.end /\ x.end < M
                        /\ x = [begin |-> x.begin, end |-> x.end]
BY MAssumption DEF Interval, U32

\* The order of the intervals is a strict one, and total.
LEMMA LessOrder ==
    ASSUME NEW x \in Interval, NEW y \in Interval
    PROVE  /\ ~Less(x, x) /\ ~(Less(x, y) /\ Less(y, x))
           /\ Less(x, y) \/ Less(y, x) \/ x = y
<1>1. /\ x.begin \in Nat /\ x.end \in Nat /\ y.begin \in Nat /\ y.end \in Nat
      /\ x = [begin |-> x.begin, end |-> x.end] /\ y = [begin |-> y.begin, end |-> y.end]
  BY IntervalType
<1> QED
  BY <1>1 DEF Less

\* At most one interval is the last before a given one.
LEMMA OneLast ==
    ASSUME NEW S \in SUBSET Interval, NEW q, NEW x \in LastBefore(S, q), NEW y \in LastBefore(S, q)
    PROVE  x = y /\ x \in S /\ Less(x, q)
<1>1. x \in S /\ y \in S /\ Less(x, q) /\ (y = x \/ Less(y, x)) /\ (x = y \/ Less(x, y))
  BY DEF LastBefore
<1> QED
  BY <1>1, LessOrder

\* If any interval of a separated set is before q, one is the last of them.
LEMMA LastExists ==
    ASSUME NEW S \in SUBSET Interval, Separated(S), NEW q, NEW z \in S, Less(z, q)
    PROVE  \E x \in LastBefore(S, q) : x \in S /\ (z = x \/ z.end < x.begin)
<1> DEFINE before == {x \in S : Less(x, q)}
           B == {x.begin : x \in before}
<1>0. \A x \in S : x.begin \in Nat /\ x.end \in Nat /\ x.begin < x.end /\ x.begin \in 0 .. M - 1
  BY IntervalType DEF U32
<1>1. B \in SUBSET (0 .. M - 1) /\ B # {} /\ M - 1 \in Nat
  BY <1>0, MAssumption
<1>2. PICK m \in B : \A b \in B : m >= b
  <2> HIDE DEF B
  <2> QED
    BY <1>1, LargestIn
<1>3. PICK x \in before : m = x.begin
  BY <1>2
<1>4. ASSUME NEW y \in before PROVE y = x \/ (Less(y, x) /\ y.end < x.begin)
  <2>1. y \in S /\ x \in S /\ y.begin <= x.begin
    BY <1>0, <1>2, <1>3
  <2>2. y = x \/ y.end < x.begin \/ x.end < y.begin
    BY <2>1 DEF Separated
  <2> QED
    BY <1>0, <2>1, <2>2 DEF Less
<1>5. x \in LastBefore(S, q)
  BY <1>3, <1>4 DEF LastBefore
<1> QED
  BY <1>3, <1>4, <1>5

\* The larger of a number and the end of at most one interval.
LEMMA MaxEndOf ==
    ASSUME NEW S \in SUBSET Interval, \A x, y \in S : x = y, NEW e \in Nat
    PROVE  /\ MaxEnd(e, S) \in {e} \cup {x.end : x \in S}
           /\ MaxEnd(e, S) \in Nat /\ MaxEnd(e, S) >= e
           /\ \A x \in S : MaxEnd(e, S) >= x.end
<1>0. \A x \in S : x.end \in Nat
  BY IntervalType
<1>1. \E m \in {e} \cup {x.end : x \in S} : m >= e /\ \A x \in S : m >= x.end
  <2>1. CASE S = {}
    BY <2>1
  <2>2. CASE S # {}
    <3>1. PICK z \in S : \A x \in S : x = z
      BY <2>2
    <3>2. CASE z.end >= e
      BY <1>0, <3>1, <3>2
    <3>3. CASE ~(z.end >= e)
      BY <1>0, <3>1, <3>3
    <3> QED
      BY <3>2, <3>3
  <2> QED
    BY <2>1, <2>2
<1>2. /\ MaxEnd(e, S) \in {e} \cup {x.end : x \in S}
      /\ MaxEnd(e, S) >= e /\ \A x \in S : MaxEnd(e, S) >= x.end
  BY <1>1 DEF MaxEnd
<1> QED
  BY <1>0, <1>2

\* The neighbour on the left.
LEMMA LeftIs ==
    ASSUME NEW S \in SUBSET Interval, NEW iv
    PROVE  /\ LeftOf(S, iv) \in SUBSET Interval /\ LeftOf(S, iv) \subseteq S
           /\ \A x, y \in LeftOf(S, iv) : x = y
           /\ \A x \in LeftOf(S, iv) : Less(x, iv) /\ x.end >= iv.begin
<1>1. \A x \in LeftOf(S, iv) : x \in LastBefore(S, iv) /\ x.end >= iv.begin
  BY DEF LeftOf
<1>2. \A x, y \in LastBefore(S, iv) : x = y /\ x \in S /\ Less(x, iv)
  BY OneLast
<1> QED
  BY <1>1, <1>2

\* The key that the right neighbours are searched with.
LEMMA BeyondIs ==
    ASSUME NEW e \in Nat, e + 2 < M
    PROVE  /\ Beyond(e) \in Interval
           /\ \A x \in Interval : Less(x, Beyond(e)) <=> x.begin <= e
<1>1. Beyond(e) = [begin |-> e + 1, end |-> e + 2]
  BY MAssumption DEF Beyond, Add
<1>2. Beyond(e) \in Interval
  BY <1>1, MAssumption DEF Interval, U32
<1> QED
  BY <1>1, <1>2, IntervalType DEF Less

Ends(S) == {x.end : x \in S}

\* Whatever emplaceMerge makes of wrapped numbers, it leaves intervals behind,
\* and each ends where one of those it was given did.
LEMMA EmplaceMergeType ==
    ASSUME NEW S \in SUBSET Interval, NEW iv \in [begin : U32, end : U32]
    PROVE  /\ emplaceMerge(S, iv).set \in SUBSET Interval
           /\ emplaceMerge(S, iv).outcome \in {"ok", "throw", "undefined"}
           /\ Ends(emplaceMerge(S, iv).set) \subseteq Ends(S) \cup {iv.end}
<1> DEFINE T     == S \cup {iv}
           left  == LeftOf(S, iv)
           begin == IF left = {} THEN iv.begin ELSE (CHOOSE x \in left : TRUE).begin
           end   == MaxEnd(iv.end, left)
           range == {x \in T : Less(x, Beyond(end)) /\ (x \in left \/ ~Less(x, iv))}
           stop  == MaxEnd(end, LastBefore(T, Beyond(end)))
           new   == [begin |-> begin, end |-> stop]
           m     == emplaceMerge(S, iv)
<1>1. CASE iv \notin Interval
  <2>1. m.set = S /\ m.outcome = "throw"
    BY <1>1 DEF emplaceMerge
  <2> QED
    BY <2>1 DEF Ends
<1>2. CASE iv \in S
  <2>1. m.set = S /\ m.outcome = "ok"
    BY <1>2 DEF emplaceMerge
  <2> QED
    BY <2>1 DEF Ends
<1>3. CASE iv \in Interval /\ iv \notin S
  <2>1. \/ m.set = T /\ m.outcome \in {"ok", "throw", "undefined"}
        \/ m.set = (T \ range) \cup {new} /\ m.outcome = "ok"
    BY <1>3 DEF emplaceMerge
  <2>2. T \in SUBSET Interval /\ iv.begin \in Nat /\ iv.end \in Nat /\ iv.begin < iv.end
        /\ iv.begin \in U32
    BY <1>3, IntervalType
  <2>3. /\ left \in SUBSET Interval /\ left \subseteq S
        /\ \A x, y \in left : x = y
    BY LeftIs
  <2>4. end \in {iv.end} \cup {x.end : x \in left} /\ end \in Nat /\ end >= iv.end
        /\ \A x \in left : end >= x.end
    BY <2>2, <2>3, MaxEndOf
  <2> DEFINE last == LastBefore(T, Beyond(end))
  <2> HIDE DEF end, T
  <2>5. last \in SUBSET Interval /\ last \subseteq T /\ \A x, y \in last : x = y
    <3>1. \A x, y \in last : x = y /\ x \in T
      BY <2>2, OneLast
    <3> QED
      BY <2>2, <3>1
  <2>6. stop \in {end} \cup {x.end : x \in last} /\ stop \in Nat /\ stop >= end
    BY <2>4, <2>5, MaxEndOf
  <2>7. begin \in U32 /\ begin < end
    <3>1. CASE left = {}
      BY <2>2, <2>4, <3>1
    <3>2. CASE left # {}
      <4>1. PICK x \in left : begin = x.begin
        BY <3>2
      <4>2. x.begin \in U32 /\ x.begin < x.end /\ x.begin \in Nat /\ x.end \in Nat
        BY <2>3, IntervalType
      <4> HIDE DEF begin
      <4> QED
        BY <2>4, <4>1, <4>2
    <3> QED
      BY <3>1, <3>2
  <2> HIDE DEF begin, stop, last, left
  <2>8. stop \in Ends(S) \cup {iv.end} /\ stop \in U32
    <3>1. end \in Ends(S) \cup {iv.end}
      BY <2>3, <2>4 DEF Ends
    <3>2. \A x \in T : x.end \in Ends(S) \cup {iv.end}
      BY DEF Ends, T
    <3>3. stop \in Ends(S) \cup {iv.end}
      BY <2>5, <2>6, <3>1, <3>2
    <3> QED
      BY <3>3, IntervalType DEF Ends
  <2>9. new \in Interval
    BY <2>4, <2>6, <2>7, <2>8, MAssumption DEF Interval, U32
  <2>10. Ends(T) \subseteq Ends(S) \cup {iv.end}
    BY DEF Ends, T
  <2>11. new.end = stop
    OBVIOUS
  <2> HIDE DEF new, range, m
  <2>12. m.set \subseteq T \cup {new} /\ m.outcome \in {"ok", "throw", "undefined"}
    BY <2>1
  <2>13. ASSUME NEW x \in m.set PROVE x \in Interval /\ x.end \in Ends(S) \cup {iv.end}
    BY <2>2, <2>8, <2>9, <2>10, <2>11, <2>12 DEF Ends
  <2>14. m.set \in SUBSET Interval /\ Ends(m.set) \subseteq Ends(S) \cup {iv.end}
    BY <2>13 DEF Ends
  <2> QED
    BY <2>12, <2>14 DEF m
<1> QED
  BY <1>1, <1>2, <1>3

LEMMA MergeRemoveType ==
    ASSUME NEW S \in SUBSET Interval, NEW iv \in [begin : U32, end : U32]
    PROVE  /\ mergeRemove(S, iv).set \in SUBSET S
           /\ mergeRemove(S, iv).outcome \in {"ok", "throw"}
           /\ mergeRemove(S, iv).end \in Ends(S) \cup {iv.end}
<1> DEFINE left  == LeftOf(S, iv)
           end   == MaxEnd(iv.end, left)
           last  == LastBefore(S, Beyond(end))
           range == {x \in S : Less(x, Beyond(end)) /\ (x \in left \/ ~Less(x, iv))}
           stop  == MaxEnd(end, last)
           m     == mergeRemove(S, iv)
<1>0. iv.end \in Nat
  BY MAssumption DEF U32
<1>1. left \in SUBSET Interval /\ left \subseteq S /\ \A x, y \in left : x = y
  BY LeftIs
<1>2. end \in {iv.end} \cup {x.end : x \in left} /\ end \in Nat
  BY <1>0, <1>1, MaxEndOf
<1>3. \/ m.set = S /\ m.end = end /\ m.outcome = "throw"
      \/ m.set = S \ range /\ m.end = stop /\ m.outcome = "ok"
  BY DEF mergeRemove
<1> HIDE DEF end, m
<1>4. last \in SUBSET Interval /\ last \subseteq S /\ \A x, y \in last : x = y
  <2>1. \A x, y \in last : x = y /\ x \in S
    BY OneLast
  <2> QED
    BY <2>1
<1>5. stop \in {end} \cup {x.end : x \in last}
  BY <1>2, <1>4, MaxEndOf
<1> HIDE DEF stop, last, left
<1>6. m.end \in Ends(S) \cup {iv.end}
  BY <1>1, <1>2, <1>3, <1>4, <1>5 DEF Ends
<1>7. m.set \in SUBSET S /\ m.outcome \in {"ok", "throw"}
  BY <1>3
<1> QED
  BY <1>6, <1>7 DEF m

\* What is before iv and is not its left neighbour ends before both.
LEMMA LeftRest ==
    ASSUME NEW S \in SUBSET Interval, Separated(S), NEW iv \in Interval,
           NEW y \in S, Less(y, iv), y \notin LeftOf(S, iv)
    PROVE  y.end < iv.begin /\ \A x \in LeftOf(S, iv) : y.end < x.begin
<1>0. \A x \in S \cup {iv} : x.begin \in Nat /\ x.end \in Nat /\ x.begin < x.end
  BY IntervalType
<1>1. PICK x \in LastBefore(S, iv) : x \in S /\ (y = x \/ y.end < x.begin)
  BY LastExists
<1>2. \A z \in LeftOf(S, iv) : z = x
  BY <1>1, OneLast DEF LeftOf
<1>3. Less(x, iv) /\ (y = x => ~(y.end >= iv.begin))
  BY <1>1 DEF LastBefore, LeftOf
<1>4. CASE y = x
  BY <1>0, <1>1, <1>2, <1>3, <1>4
<1>5. CASE y.end < x.begin
  BY <1>0, <1>1, <1>2, <1>3, <1>5 DEF Less
<1> QED
  BY <1>1, <1>4, <1>5

\* An interval that ends at e or later, up to stop, with all of S that it
\* touches on the right.
Reaches(S, e, stop) ==
    /\ stop \in Nat /\ stop >= e
    /\ stop = e \/ \E x \in S : x.begin <= e /\ stop = x.end
    /\ \A y \in S : IF y.begin <= e THEN y.end <= stop ELSE stop < y.begin

\* The merged interval takes in all that begins at e or before it, and what
\* begins later also begins beyond the merged one.
LEMMA LastCovers ==
    ASSUME NEW S \in SUBSET Interval, Separated(S), NEW iv \in Interval,
           NEW e \in Nat, e + 2 < M, iv.end <= e, \A y \in S : Less(y, iv) => y.end <= e,
           NEW T, T = S \/ T = S \cup {iv}
    PROVE  Reaches(S, e, MaxEnd(e, LastBefore(T, Beyond(e))))
<1> DEFINE last == LastBefore(T, Beyond(e))
           stop == MaxEnd(e, last)
<1>0. \A x \in S \cup {iv} : x.begin \in Nat /\ x.end \in Nat /\ x.begin < x.end
  BY IntervalType
<1>1. T \in SUBSET Interval
  OBVIOUS
<1>2. \A x \in T : Less(x, Beyond(e)) <=> x.begin <= e
  BY <1>1, BeyondIs
<1>3. last \in SUBSET Interval /\ last \subseteq T /\ (\A x, y \in last : x = y)
      /\ \A x \in last : x.begin <= e
  <2>1. \A x, y \in last : x = y /\ x \in T /\ Less(x, Beyond(e))
    BY <1>1, OneLast
  <2> QED
    BY <1>1, <1>2, <2>1
<1>4. stop \in {e} \cup {x.end : x \in last} /\ stop \in Nat /\ stop >= e
      /\ \A x \in last : stop >= x.end
  <2> HIDE DEF last
  <2> QED
    BY <1>3, MaxEndOf
<1> HIDE DEF stop
<1>5. stop = e \/ \E x \in S : x.begin <= e /\ stop = x.end
  <2> SUFFICES ASSUME stop # e PROVE \E x \in S : x.begin <= e /\ stop = x.end
    OBVIOUS
  <2>1. PICK x \in last : stop = x.end
    BY <1>4
  <2>2. x \in T /\ x.begin <= e
    BY <1>3
  <2>3. x # iv
    BY <1>0, <1>4, <2>1
  <2> QED
    BY <2>1, <2>2, <2>3
<1>6. ASSUME NEW y \in S, y.begin <= e PROVE y.end <= stop
  <2>1. Less(y, Beyond(e))
    BY <1>6, BeyondIs
  <2>2. PICK x \in LastBefore(S, Beyond(e)) : x \in S /\ (y = x \/ y.end < x.begin)
    BY <2>1, LastExists
  <2>3. x.end <= stop
    <3>1. CASE Less(x, iv)
      BY <1>0, <1>4, <2>2, <3>1
    <3>2. CASE ~Less(x, iv)
      <4>1. x = iv \/ Less(iv, x)
        BY <2>2, <3>2, LessOrder
      <4>2. Less(x, Beyond(e)) /\ \A z \in S : Less(z, Beyond(e)) => z = x \/ Less(z, x)
        BY <2>2 DEF LastBefore
      <4>3. x \in last
        BY <2>2, <4>1, <4>2 DEF LastBefore
      <4> QED
        BY <1>4, <4>3
    <3> QED
      BY <3>1, <3>2
  <2> QED
    BY <1>0, <1>4, <2>2, <2>3
<1>7. ASSUME NEW y \in S, ~(y.begin <= e) PROVE stop < y.begin
  <2>1. CASE stop = e
    BY <1>0, <1>7, <2>1
  <2>2. CASE \E x \in S : x.begin <= e /\ stop = x.end
    <3>1. PICK x \in S : x.begin <= e /\ stop = x.end
      BY <2>2
    <3>2. x # y /\ (x = y \/ x.end < y.begin \/ y.end < x.begin)
      BY <1>7, <3>1 DEF Separated
    <3> QED
      BY <1>0, <1>7, <3>1, <3>2
  <2> QED
    BY <1>5, <2>1, <2>2
<1> QED
  BY <1>4, <1>5, <1>6, <1>7 DEF stop, Reaches

\* The numbers are so far from the end of uint32_t that no search key wraps.
FarFromWrap(S) == \A x \in S : x.end + 2 < M

\* What mergeRemove must return: the first number not covered, from iv on, and
\* the intervals that do not touch what it merged.
Merged(S, iv, m) ==
    /\ m.outcome = "ok" /\ m.set \in SUBSET S
    /\ m.end \in Ends(S) \cup {iv.end} /\ m.end >= iv.end
    /\ \A p \in Nat : iv.begin <= p /\ p < m.end => p \in Covered(S \cup {iv})
    /\ \A y \in m.set : y.end < iv.begin \/ m.end < y.begin
    /\ \A y \in S \ m.set : y.end <= m.end /\ iv.begin <= y.end

\* mergeRemove returns the first missing number, which onRecv acknowledges, and
\* takes out exactly what lies before it.
THEOREM MergeRemoveExact ==
    ASSUME NEW S \in SUBSET Interval, Separated(S), NEW iv \in Interval,
           FarFromWrap(S \cup {iv})
    PROVE  Merged(S, iv, mergeRemove(S, iv))
<1> DEFINE left  == LeftOf(S, iv)
           end   == MaxEnd(iv.end, left)
           range == {x \in S : Less(x, Beyond(end)) /\ (x \in left \/ ~Less(x, iv))}
           stop  == MaxEnd(end, LastBefore(S, Beyond(end)))
           m     == mergeRemove(S, iv)
<1>0. \A x \in S \cup {iv} : x.begin \in Nat /\ x.end \in Nat /\ x.begin < x.end /\ x.end + 2 < M
  BY IntervalType DEF FarFromWrap
<1>1. /\ left \in SUBSET Interval /\ left \subseteq S /\ \A x, y \in left : x = y
      /\ \A x \in left : Less(x, iv) /\ x.end >= iv.begin
  BY LeftIs
<1>2. end \in {iv.end} \cup {x.end : x \in left} /\ end \in Nat /\ end >= iv.end
      /\ \A x \in left : end >= x.end
  BY <1>0, <1>1, MaxEndOf
<1>3. end + 2 < M
  BY <1>0, <1>1, <1>2
<1>4. Beyond(end) \in Interval /\ \A x \in S : Less(x, Beyond(end)) <=> x.begin <= end
  BY <1>2, <1>3, BeyondIs
<1>5. m.set = S \ range /\ m.end = stop /\ m.outcome = "ok"
  BY <1>4 DEF mergeRemove
<1>6. \A y \in S : Less(y, iv) /\ y \notin left => y.end < iv.begin
  BY LeftRest
<1>7. Reaches(S, end, stop)
  <2>1. \A y \in S : Less(y, iv) => y.end <= end
    BY <1>0, <1>2, <1>6
  <2> HIDE DEF end, left
  <2> QED
    BY <1>2, <1>3, <2>1, LastCovers
<1>8. iv.end \in {x.end : x \in {iv}} /\ m.end \in Ends(S) \cup {iv.end}
  BY MergeRemoveType DEF Interval
<1> HIDE DEF end, left, stop, m
<1>9. stop \in Nat /\ stop >= end
      /\ (stop = end \/ \E x \in S : x.begin <= end /\ stop = x.end)
      /\ \A y \in S : IF y.begin <= end THEN y.end <= stop ELSE stop < y.begin
  BY <1>7 DEF Reaches
<1>10. ASSUME NEW p \in Nat, iv.begin <= p, p < stop PROVE p \in Covered(S \cup {iv})
  <2>1. CASE p < iv.end
    BY <1>10, <2>1 DEF Covered, In
  <2>2. CASE p >= iv.end /\ p < end
    <3>1. PICK x \in left : end = x.end
      BY <1>0, <1>2, <2>2
    <3>2. x.begin <= p /\ x \in S
      BY <1>0, <1>1, <1>10, <3>1 DEF Less
    <3> QED
      BY <2>2, <3>1, <3>2 DEF Covered, In
  <2>3. CASE p >= end
    <3>1. PICK x \in S : x.begin <= end /\ stop = x.end
      BY <1>2, <1>9, <1>10, <2>3
    <3>2. x.begin <= p
      BY <1>0, <1>2, <2>3, <3>1
    <3> QED
      BY <1>10, <3>1, <3>2 DEF Covered, In
  <2> QED
    BY <1>0, <1>2, <2>1, <2>2, <2>3
<1>11. ASSUME NEW y \in S, y \notin range PROVE y.end < iv.begin \/ stop < y.begin
  BY <1>4, <1>6, <1>9, <1>11
<1>12. ASSUME NEW y \in range PROVE y.end <= stop /\ iv.begin <= y.end
  <2>1. y \in S /\ y.begin <= end /\ (y \in left \/ ~Less(y, iv))
    BY <1>4
  <2>2. iv.begin <= y.end
    BY <1>0, <1>1, <2>1 DEF Less
  <2> QED
    BY <1>9, <2>1, <2>2
<1>13. range \subseteq S
  OBVIOUS
<1> HIDE DEF range
<1>14. \A y \in S \ m.set : y \in range
  BY <1>5
<1>15. Merged(S, iv, m)
  <2>1. m.outcome = "ok" /\ m.set \in SUBSET S /\ m.end \in Ends(S) \cup {iv.end}
    BY <1>5, <1>8
  <2>2. m.end >= iv.end
    BY <1>0, <1>2, <1>5, <1>9
  <2>3. \A p \in Nat : iv.begin <= p /\ p < m.end => p \in Covered(S \cup {iv})
    BY <1>5, <1>10
  <2>4. \A y \in m.set : y.end < iv.begin \/ m.end < y.begin
    BY <1>5, <1>11
  <2>5. \A y \in S \ m.set : y.end <= m.end /\ iv.begin <= y.end
    BY <1>5, <1>12, <1>14
  <2> QED
    BY <2>1, <2>2, <2>3, <2>4, <2>5 DEF Merged
<1> QED
  BY <1>15 DEF m

\* What emplaceMerge must make of S: the same numbers and those of iv, in
\* intervals that do not touch.
Inserted(S, iv, m) ==
    /\ m.outcome = "ok" /\ m.set \in SUBSET Interval /\ Separated(m.set)
    /\ Covered(m.set) = Covered(S \cup {iv})
    /\ Ends(m.set) \subseteq Ends(S) \cup {iv.end}

\* emplaceMerge loses no number and invents none, and leaves no two intervals
\* that touch, although it looks at one neighbour on the left only.
THEOREM EmplaceMergeExact ==
    ASSUME NEW S \in SUBSET Interval, Separated(S), NEW iv \in Interval,
           FarFromWrap(S \cup {iv})
    PROVE  Inserted(S, iv, emplaceMerge(S, iv))
<1> DEFINE T     == S \cup {iv}
           left  == LeftOf(S, iv)
           begin == IF left = {} THEN iv.begin ELSE (CHOOSE x \in left : TRUE).begin
           end   == MaxEnd(iv.end, left)
           range == {x \in T : Less(x, Beyond(end)) /\ (x \in left \/ ~Less(x, iv))}
           stop  == MaxEnd(end, LastBefore(T, Beyond(end)))
           new   == [begin |-> begin, end |-> stop]
           m     == emplaceMerge(S, iv)
<1>0. \A x \in T : x \in Interval /\ x.begin \in Nat /\ x.end \in Nat /\ x.begin < x.end /\ x.end + 2 < M
  BY IntervalType DEF FarFromWrap
<1>1. /\ left \in SUBSET Interval /\ left \subseteq S /\ \A x, y \in left : x = y
      /\ \A x \in left : Less(x, iv) /\ x.end >= iv.begin
  BY LeftIs
<1>2. end \in {iv.end} \cup {x.end : x \in left} /\ end \in Nat /\ end >= iv.end
      /\ \A x \in left : end >= x.end
  BY <1>0, <1>1, MaxEndOf
<1>3. end + 2 < M
  BY <1>0, <1>1, <1>2
<1>4. Beyond(end) \in Interval /\ \A x \in T : Less(x, Beyond(end)) <=> x.begin <= end
  BY <1>0, <1>2, <1>3, BeyondIs
<1>5. iv \in range
  BY <1>0, <1>2, <1>4, LessOrder
<1>6. /\ m.outcome = "ok"
      /\ \/ m.set = S /\ iv \in S
         \/ m.set = T /\ range = {iv} /\ iv \notin S
         \/ m.set = (T \ range) \cup {new} /\ iv \notin S
  BY <1>4, <1>5 DEF emplaceMerge
<1>7. m.set \in SUBSET Interval /\ Ends(m.set) \subseteq Ends(S) \cup {iv.end}
  BY EmplaceMergeType DEF Interval
<1>8. \A y \in S : Less(y, iv) /\ y \notin left => y.end < iv.begin /\ \A x \in left : y.end < x.begin
  BY LeftRest
<1>9. Reaches(S, end, stop)
  <2>1. \A y \in S : Less(y, iv) => y.end <= end
    BY <1>0, <1>2, <1>8
  <2> HIDE DEF end, left, T
  <2>2. T = S \/ T = S \cup {iv}
    BY DEF T
  <2> QED
    BY <1>2, <1>3, <2>1, <2>2, LastCovers
<1>10. \/ left = {} /\ begin = iv.begin
       \/ \E x \in left : begin = x.begin
  OBVIOUS
<1> HIDE DEF end, left, stop, m, begin
<1>11. stop \in Nat /\ stop >= end
       /\ (stop = end \/ \E x \in S : x.begin <= end /\ stop = x.end)
       /\ \A y \in S : IF y.begin <= end THEN y.end <= stop ELSE stop < y.begin
  BY <1>9 DEF Reaches
<1>12. begin \in Nat /\ begin <= iv.begin
  BY <1>0, <1>1, <1>10 DEF Less
<1>13. ASSUME NEW y \in S, y \notin range PROVE y.end < begin \/ stop < y.begin
  <2>1. ~(y.begin <= end) \/ (y \notin left /\ Less(y, iv))
    BY <1>4, <1>13
  <2> QED
    BY <1>8, <1>10, <1>11, <2>1
<1>14. ASSUME NEW y \in range PROVE begin <= y.begin /\ y.end <= stop
  <2>1. y \in T /\ y.begin <= end /\ (y \in left \/ ~Less(y, iv))
    BY <1>4
  <2>2. begin <= y.begin
    <3>1. CASE y \in left
      BY <1>0, <1>1, <1>10, <3>1
    <3>2. CASE ~Less(y, iv)
      BY <1>0, <1>12, <2>1, <3>2 DEF Less
    <3> QED
      BY <2>1, <3>1, <3>2
  <2>3. y.end <= stop
    BY <1>0, <1>2, <1>11, <2>1
  <2> QED
    BY <2>2, <2>3
<1>15. ASSUME NEW p \in Nat, begin <= p, p < stop PROVE p \in Covered(T)
  <2>1. CASE p < iv.begin
    <3>1. PICK x \in left : begin = x.begin
      BY <1>0, <1>10, <1>15, <2>1
    <3>2. p < x.end /\ x \in T
      BY <1>0, <1>1, <2>1
    <3> QED
      BY <1>15, <3>1, <3>2 DEF Covered, In
  <2>2. CASE p >= iv.begin /\ p < iv.end
    BY <2>2 DEF Covered, In
  <2>3. CASE p >= iv.end /\ p < end
    <3>1. PICK x \in left : end = x.end
      BY <1>0, <1>2, <2>3
    <3>2. x.begin <= p /\ x \in T
      BY <1>0, <1>1, <2>3, <3>1 DEF Less
    <3> QED
      BY <2>3, <3>1, <3>2 DEF Covered, In
  <2>4. CASE p >= end
    <3>1. PICK x \in S : x.begin <= end /\ stop = x.end
      BY <1>2, <1>11, <1>15, <2>4
    <3>2. x.begin <= p /\ x \in T
      BY <1>0, <1>2, <2>4, <3>1
    <3> QED
      BY <1>15, <3>1, <3>2 DEF Covered, In
  <2> QED
    BY <1>0, <1>2, <2>1, <2>2, <2>3, <2>4
<1>16. new.begin = begin /\ new.end = stop
  OBVIOUS
<1> HIDE DEF new
<1>17. Separated(m.set)
  <2>1. CASE m.set = S
    BY <2>1
  <2>2. CASE m.set = T /\ range = {iv} /\ iv \notin S
    <3>1. begin = iv.begin /\ \A y \in S : y.end < begin \/ stop < y.begin
      <4>1. \A x \in left : x \in S /\ x \in T /\ x.begin <= end
        BY <1>0, <1>1, <1>2
      <4>2. left \subseteq range
        BY <1>4, <4>1
      <4>3. left = {}
        BY <1>1, <2>2, <4>2
      <4> QED
        BY <1>10, <1>13, <2>2, <4>3
    <3>2. stop >= iv.end
      BY <1>0, <1>2, <1>11
    <3>3. \A y \in S : y.end < iv.begin \/ iv.end < y.begin
      BY <1>0, <1>11, <3>1, <3>2
    <3> QED
      BY <2>2, <3>3 DEF Separated
  <2>3. CASE m.set = (T \ range) \cup {new}
    <3>1. \A y \in T \ range : y \in S /\ (y.end < new.begin \/ new.end < y.begin)
      BY <1>5, <1>13, <1>16
    <3> QED
      BY <2>3, <3>1 DEF Separated
  <2> QED
    BY <1>6, <2>1, <2>2, <2>3
<1>18. Covered(m.set) = Covered(T)
  <2>1. CASE m.set = S /\ iv \in S
    <3>1. T = S
      BY <2>1
    <3> QED
      BY <2>1, <3>1
  <2>2. CASE m.set = T
    BY <2>2
  <2>3. CASE m.set = (T \ range) \cup {new}
    <3>1. ASSUME NEW p \in Covered(m.set) PROVE p \in Covered(T)
      <4>1. p \in Nat /\ \E x \in m.set : In(p, x)
        BY DEF Covered
      <4>2. PICK x \in m.set : In(p, x)
        BY <4>1
      <4>3. CASE x = new
        BY <1>15, <1>16, <4>1, <4>2, <4>3 DEF In
      <4>4. CASE x \in T
        BY <4>1, <4>2, <4>4 DEF Covered
      <4> QED
        BY <2>3, <4>3, <4>4
    <3>2. ASSUME NEW p \in Covered(T) PROVE p \in Covered(m.set)
      <4>1. p \in Nat /\ \E x \in T : In(p, x)
        BY DEF Covered
      <4>2. PICK x \in T : In(p, x)
        BY <4>1
      <4>3. CASE x \in range
        <5>1. In(p, new)
          BY <1>0, <1>11, <1>12, <1>14, <1>16, <4>1, <4>2, <4>3 DEF In
        <5> QED
          BY <2>3, <4>1, <5>1 DEF Covered
      <4>4. CASE x \notin range
        BY <2>3, <4>1, <4>2, <4>4 DEF Covered
      <4> QED
        BY <4>3, <4>4
    <3> QED
      BY <3>1, <3>2
  <2> QED
    BY <1>6, <2>1, <2>2, <2>3
<1> QED
  BY <1>6, <1>7, <1>17, <1>18 DEF m, Inserted
=============================================================================
