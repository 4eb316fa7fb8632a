-------------------------- MODULE Containers_proofs --------------------------
(***************************************************************************)
(* Proofs about Containers, for a ring of any size, any intervals away     *)
(* from the wrap, tables with any number of subnets and headers with any   *)
(* number of words below Base.                                             *)
(***************************************************************************)
EXTENDS Containers, ContainerOps_proofs, FiniteSetTheorems

---------------------------------------------------------------------------
(* Loops.                                                                  *)

\* A set of numbers has a smallest one.
LEMMA SmallestIn ==
    ASSUME NEW S \in SUBSET Nat, S # {}
    PROVE  \E m \in S : \A y \in S : m <= y
<1>1. PICK m \in S : \A y \in S : ~(<<y, m>> \in OpToRel(<, Nat))
  BY NatLessThanWellFounded, WFMin, Zenon
<1>2. ASSUME NEW y \in S PROVE m <= y
  <2>1. y \in Nat /\ m \in Nat /\ ~(<<y, m>> \in OpToRel(<, Nat))
    BY <1>1
  <2> QED
    BY <2>1, SMT DEF OpToRel
<1> QED
  BY <1>2

\* Turns(n, b, step, f): f[k] is the state of a loop after k turns, the first
\* from b on.
Turns(n, b, step, f) ==
    f[0] = b /\ \A k \in 1 .. n : f[k] = step[<<k, f[k - 1]>>]

\* A loop of n turns has a function of its states.
LEMMA LoopExists ==
    ASSUME NEW S, NEW n \in Nat, NEW b \in S, NEW step \in [(1 .. n) \X S -> S]
    PROVE  \E f \in [0 .. n -> S] : Turns(n, b, step, f)
<1> DEFINE Ok(m) == \E f \in [0 .. m -> S] : Turns(m, b, step, f)
           Bad   == {m \in 0 .. n : ~Ok(m)}
<1>1. SUFFICES ASSUME Bad # {} PROVE FALSE
  <2>1. Bad = {} => Ok(n)
    OBVIOUS
  <2> QED
    BY <2>1
<1>2. PICK m \in Bad : \A y \in Bad : m <= y
  <2>1. Bad \in SUBSET Nat
    OBVIOUS
  <2> HIDE DEF Bad
  <2> QED
    BY <1>1, <2>1, SmallestIn
<1>3. m \in 0 .. n /\ ~Ok(m)
  BY <1>2
<1>4. CASE m = 0
  <2> DEFINE f == [k \in 0 .. 0 |-> b]
  <2>1. f \in [0 .. 0 -> S] /\ f[0] = b
    OBVIOUS
  <2>2. Turns(0, b, step, f)
    BY <2>1 DEF Turns
  <2> QED
    BY <1>3, <1>4, <2>1, <2>2
<1>5. CASE m # 0
  <2>1. m - 1 \in 0 .. n /\ ~(m <= m - 1) /\ m \in 1 .. n
    BY <1>3, <1>5
  <2>2. Ok(m - 1)
    BY <1>2, <2>1
  <2>3. PICK f \in [0 .. m - 1 -> S] : Turns(m - 1, b, step, f)
    BY <2>2
  <2> DEFINE g == [k \in 0 .. m |-> IF k = m THEN step[<<m, f[m - 1]>>] ELSE f[k]]
  <2>4. f[m - 1] \in S
    BY <2>1
  <2>5. step[<<m, f[m - 1]>>] \in S
    BY <2>1, <2>4
  <2>6. g \in [0 .. m -> S]
    BY <2>1, <2>5
  <2>7. g[0] = b
    BY <2>1, <2>3 DEF Turns
  <2>8. ASSUME NEW k \in 1 .. m PROVE g[k] = step[<<k, g[k - 1]>>]
    <3>1. k - 1 \in 0 .. m /\ k - 1 # m /\ g[k - 1] = f[k - 1]
      BY <2>1
    <3>2. CASE k = m
      BY <3>1, <3>2, <2>1
    <3>3. CASE k # m
      <4>1. k \in 1 .. m - 1 /\ k \in 0 .. m
        BY <2>1, <3>3
      <4> QED
        BY <3>1, <3>3, <4>1, <2>3 DEF Turns
    <3> QED
      BY <3>2, <3>3
  <2> HIDE DEF g
  <2>9. Turns(m, b, step, g)
    BY <2>7, <2>8 DEF Turns
  <2> QED
    BY <1>3, <2>6, <2>9
<1> QED
  BY <1>4, <1>5

\* Pow2 is what its definition says.
LEMMA Pow2Def ==
    Pow2 = [n \in 0 .. W |-> IF n = 0 THEN 1 ELSE 2 * Pow2[n - 1]]
<1> DEFINE step == [p \in (1 .. W) \X Nat |-> 2 * p[2]]
<1>0. W \in Nat
  BY TableAssumption
<1>1. step \in [(1 .. W) \X Nat -> Nat]
  OBVIOUS
<1>2. PICK f \in [0 .. W -> Nat] : Turns(W, 1, step, f)
  <2> HIDE DEF step
  <2> QED
    BY <1>0, <1>1, LoopExists
<1>3. \A k \in 1 .. W : k - 1 \in 0 .. W /\ f[k - 1] \in Nat
  BY <1>0
<1>4. \A k \in 1 .. W : f[k] = 2 * f[k - 1]
  BY <1>2, <1>3 DEF Turns
<1>5. f = [n \in 0 .. W |-> IF n = 0 THEN 1 ELSE 2 * f[n - 1]]
  BY <1>0, <1>2, <1>4 DEF Turns
<1> QED
  BY <1>5 DEF Pow2

\* Induction on the turns of a loop.
LEMMA LoopInduction ==
    ASSUME NEW n \in Nat, NEW G \in SUBSET (0 .. n), 0 \in G,
           \A k \in 1 .. n : k - 1 \in G => k \in G
    PROVE  G = 0 .. n
<1> DEFINE Bad == (0 .. n) \ G
<1>1. SUFFICES ASSUME Bad # {} PROVE FALSE
  OBVIOUS
<1>2. PICK m \in Bad : \A y \in Bad : m <= y
  <2>1. Bad \in SUBSET Nat
    OBVIOUS
  <2> HIDE DEF Bad
  <2> QED
    BY <1>1, <2>1, SmallestIn
<1>3. m \in 1 .. n /\ m \notin G /\ m - 1 \in 0 .. n /\ ~(m <= m - 1)
  BY <1>2
<1>4. m - 1 \in G
  BY <1>2, <1>3
<1> QED
  BY <1>3, <1>4

---------------------------------------------------------------------------
(* Masks.                                                                  *)

LEMMA Pow2Step ==
    /\ W \in Nat /\ Pow2[0] = 1
    /\ \A n \in 1 .. W : Pow2[n] = 2 * Pow2[n - 1]
<1> DEFINE f == Pow2
<1>1. W \in Nat /\ f = [n \in 0 .. W |-> IF n = 0 THEN 1 ELSE 2 * f[n - 1]]
  BY Pow2Def, TableAssumption
<1> HIDE DEF f
<1>2. f[0] = 1 /\ \A n \in 1 .. W : f[n] = 2 * f[n - 1]
  BY <1>1
<1> QED
  BY <1>1, <1>2 DEF f

LEMMA Pow2Type == \A n \in 0 .. W : Pow2[n] \in Nat /\ Pow2[n] >= 1
<1> DEFINE G == {n \in 0 .. W : Pow2[n] \in Nat /\ Pow2[n] >= 1}
<1>1. 0 \in G /\ W \in Nat /\ G \in SUBSET (0 .. W)
  BY Pow2Step
<1>2. ASSUME NEW k \in 1 .. W, k - 1 \in G PROVE k \in G
  <2>1. Pow2[k] = 2 * Pow2[k - 1] /\ Pow2[k - 1] \in Nat /\ Pow2[k - 1] >= 1 /\ k \in 0 .. W
    BY <1>1, <1>2, Pow2Step
  <2> QED
    BY <2>1
<1>3. G = 0 .. W
  <2> HIDE DEF G
  <2> QED
    BY <1>1, <1>2, LoopInduction
<1> QED
  BY <1>3

LEMMA Pow2Grows == \A m, n \in 0 .. W : m < n => Pow2[m] < Pow2[n]
<1> SUFFICES ASSUME NEW m \in 0 .. W PROVE \A n \in 0 .. W : m < n => Pow2[m] < Pow2[n]
  OBVIOUS
<1> DEFINE G == {n \in 0 .. W : m < n => Pow2[m] < Pow2[n]}
<1>1. W \in Nat /\ 0 \in G /\ G \in SUBSET (0 .. W)
  BY Pow2Step
<1>2. ASSUME NEW k \in 1 .. W, k - 1 \in G PROVE k \in G
  <2>1. Pow2[k] = 2 * Pow2[k - 1] /\ k - 1 \in 0 .. W /\ k \in 0 .. W
    BY <1>1, Pow2Step
  <2>2. Pow2[k - 1] \in Nat /\ Pow2[k - 1] >= 1 /\ Pow2[m] \in Nat
    BY <2>1, Pow2Type
  <2>3. m < k - 1 => Pow2[m] < Pow2[k - 1]
    BY <1>2
  <2>4. m < k => m < k - 1 \/ m = k - 1
    BY <1>1
  <2>5. m < k => Pow2[m] < Pow2[k]
    BY <2>1, <2>2, <2>3, <2>4
  <2> QED
    BY <2>1, <2>5
<1>3. G = 0 .. W
  <2> HIDE DEF G
  <2> QED
    BY <1>1, <1>2, LoopInduction
<1> QED
  BY <1>3

\* A longer prefix has a larger mask, which is what the code compares.
LEMMA MaskLonger ==
    ASSUME NEW l \in 0 .. W, NEW m \in 0 .. W
    PROVE  Mask(l) > Mask(m) <=> l > m
<1> DEFINE i == W - l
           j == W - m
<1>1. W \in Nat /\ i \in 0 .. W /\ j \in 0 .. W /\ W \in 0 .. W
  BY Pow2Step
<1>2. Pow2[i] \in Nat /\ Pow2[j] \in Nat /\ Pow2[W] \in Nat
  BY <1>1, Pow2Type
<1>3. (i < j => Pow2[i] < Pow2[j]) /\ (j < i => Pow2[j] < Pow2[i]) /\ (i = j => Pow2[i] = Pow2[j])
  BY <1>1, Pow2Grows
<1>4. l > m <=> i < j
  BY <1>1
<1>5. Mask(l) = Pow2[W] - Pow2[i] /\ Mask(m) = Pow2[W] - Pow2[j]
  BY DEF Mask
<1> HIDE DEF i, j
<1> QED
  BY <1>1, <1>2, <1>3, <1>4, <1>5

---------------------------------------------------------------------------
(* The loops of the routing table.                                         *)

\* What queryLongestPrefixMatch must find.
Longest(es, a, q) ==
    /\ q \in 0 .. Len(es)
    /\ q = 0 => \A k \in 1 .. Len(es) : ~Matches(es[k], a)
    /\ q # 0 => /\ Matches(es[q], a)
                /\ \A k \in 1 .. Len(es) : Matches(es[k], a) => es[k].len <= es[q].len

\* The loop over the entries finds a longest match, if there is any match.
LEMMA LongestFound ==
    ASSUME NEW es \in Seq(Entries), NEW a
    PROVE  Longest(es, a, queryLongestPrefixMatch(es, a))
<1> DEFINE n == Len(es)
           pick(k, q) == IF Matches(es[k], a) /\ Longer(es, k, q) THEN k ELSE q
           step == [p \in (1 .. n) \X (0 .. n) |-> pick(p[1], p[2])]
           Fixed(f) == f = [k \in 0 .. n |-> IF k = 0 THEN 0 ELSE pick(k, f[k - 1])]
<1>0. n \in Nat /\ \A k \in 1 .. n : es[k] \in Entries
  OBVIOUS
<1>1. \E f : Fixed(f)
  <2>1. step \in [(1 .. n) \X (0 .. n) -> 0 .. n] /\ 0 \in 0 .. n
    BY <1>0
  <2>2. PICK f \in [0 .. n -> 0 .. n] : Turns(n, 0, step, f)
    <3> HIDE DEF step
    <3> QED
      BY <1>0, <2>1, LoopExists
  <2>3. ASSUME NEW k \in 1 .. n PROVE f[k] = pick(k, f[k - 1])
    <3>1. k - 1 \in 0 .. n /\ f[k - 1] \in 0 .. n
      BY <1>0
    <3> HIDE DEF pick
    <3> QED
      BY <2>2, <3>1 DEF Turns
  <2>4. Fixed(f)
    <3> HIDE DEF pick
    <3> QED
      BY <1>0, <2>2, <2>3 DEF Turns
  <2> QED
    BY <2>4
<1> DEFINE best == CHOOSE f : Fixed(f)
<1>2. Fixed(best)
  BY <1>1
<1>3. queryLongestPrefixMatch(es, a) = best[n]
  BY DEF queryLongestPrefixMatch
<1> HIDE DEF best
<1>4. best[0] = 0 /\ \A k \in 1 .. n : best[k] = pick(k, best[k - 1])
  <2> HIDE DEF pick
  <2> QED
    BY <1>0, <1>2
<1> DEFINE Good(k) == /\ best[k] \in 0 .. k
                      /\ best[k] = 0 => \A j \in 1 .. k : ~Matches(es[j], a)
                      /\ best[k] # 0 =>
                           /\ Matches(es[best[k]], a)
                           /\ \A j \in 1 .. k : Matches(es[j], a) => es[j].len <= es[best[k]].len
           G == {k \in 0 .. n : Good(k)}
<1>5. 0 \in G /\ G \in SUBSET (0 .. n)
  BY <1>0, <1>4
<1>6. ASSUME NEW k \in 1 .. n, k - 1 \in G PROVE k \in G
  <2> DEFINE q == best[k - 1]
  <2>1. Good(k - 1) /\ best[k] = pick(k, q) /\ k \in 0 .. n
    BY <1>0, <1>4, <1>6
  <2>2. \A j \in 1 .. k : j \in 1 .. k - 1 \/ j = k
    BY <1>0
  <2>3. q \in 0 .. k - 1 /\ q \in 0 .. n
    BY <1>0, <2>1
  <2>4. \A j \in 1 .. n : es[j].len \in 0 .. W /\ es[j].len \in Int
    <3>1. ASSUME NEW e \in Entries PROVE e.len \in 0 .. W /\ e.len \in Int
      BY <3>1 DEF Entries
    <3> QED
      BY <1>0, <3>1
  <2>5. CASE Matches(es[k], a) /\ Longer(es, k, q)
    <3>1. best[k] = k
      BY <2>1, <2>5
    <3>2. q = 0 \/ es[k].len > es[q].len
      <4>1. CASE q # 0
        <5>1. Mask(es[k].len) > Mask(es[q].len)
          BY <2>5, <4>1 DEF Longer
        <5>2. q \in 1 .. n
          BY <2>3, <4>1, <1>0
        <5> QED
          BY <5>1, <5>2, <2>4, MaskLonger
      <4> QED
        BY <4>1
    <3>3. ASSUME NEW j \in 1 .. k, Matches(es[j], a) PROVE es[j].len <= es[k].len
      <4>1. CASE j = k
        BY <4>1, <2>4
      <4>2. CASE j \in 1 .. k - 1
        <5>1. q # 0 /\ es[j].len <= es[q].len
          BY <2>1, <3>3, <4>2
        <5>2. j \in 1 .. n /\ q \in 1 .. n
          BY <1>0, <2>3, <5>1
        <5> QED
          BY <2>4, <3>2, <5>1, <5>2
      <4> QED
        BY <2>2, <4>1, <4>2
    <3>4. best[k] \in 0 .. k /\ best[k] # 0
      BY <1>0, <3>1
    <3>5. Good(k)
      BY <2>5, <3>1, <3>3, <3>4
    <3> QED
      BY <2>1, <3>5
  <2>6. CASE ~(Matches(es[k], a) /\ Longer(es, k, q))
    <3>1. best[k] = q /\ q \in 0 .. k
      BY <1>0, <2>1, <2>3, <2>6
    <3>2. CASE q = 0
      <4>1. ~Matches(es[k], a)
        BY <2>6, <3>2 DEF Longer
      <4>2. \A j \in 1 .. k : ~Matches(es[j], a)
        BY <2>1, <2>2, <3>2, <4>1
      <4>3. Good(k)
        BY <3>1, <3>2, <4>2
      <4> QED
        BY <2>1, <4>3
    <3>3. CASE q # 0
      <4>1. q \in 1 .. n /\ Matches(es[q], a)
        BY <1>0, <2>1, <2>3, <3>3
      <4>2. Matches(es[k], a) => es[k].len <= es[q].len
        <5>1. Matches(es[k], a) => ~(Mask(es[k].len) > Mask(es[q].len))
          BY <2>6 DEF Longer
        <5> QED
          BY <5>1, <4>1, <2>4, MaskLonger
      <4>3. \A j \in 1 .. k : Matches(es[j], a) => es[j].len <= es[q].len
        BY <2>1, <2>2, <3>3, <4>2
      <4>4. Good(k)
        BY <3>1, <3>3, <4>1, <4>3
      <4> QED
        BY <2>1, <4>4
    <3> QED
      BY <3>2, <3>3
  <2> QED
    BY <2>5, <2>6
<1>7. G = 0 .. n
  <2> HIDE DEF G
  <2> QED
    BY <1>0, <1>5, <1>6, LoopInduction
<1>8. Good(n)
  BY <1>0, <1>7
<1> QED
  BY <1>3, <1>8 DEF Longest

\* No two entries are for the same subnet.
Distinct(es) == \A i, j \in 1 .. Len(es) : Net(es[i]) = Net(es[j]) => i = j

\* The entries of es that s holds, in the middle of cleaning: those before the
\* iterator have been looked at.
Cleaning(es, s) ==
    /\ s.it \in 1 .. Len(s.es) + 1
    /\ Distinct(s.es)
    /\ \A k \in 1 .. s.it - 1 : ~Stale(s.es[k])
    /\ \A k \in 1 .. Len(s.es) : \E j \in 1 .. Len(es) : s.es[k] = es[j]
    /\ \A j \in 1 .. Len(es) : ~Stale(es[j]) => \E k \in 1 .. Len(s.es) : s.es[k] = es[j]

CleanStates == [es : Seq(Entries), it : Nat]

\* Removing entry i moves the last one into its place.
LEMMA SwapRemoved ==
    ASSUME NEW T, NEW es \in Seq(T), NEW i \in Nat
    PROVE  /\ Front([es EXCEPT ![i] = Last(es)]) \in Seq(T)
           /\ i \in 1 .. Len(es) =>
                /\ Len(Front([es EXCEPT ![i] = Last(es)])) = Len(es) - 1
                /\ \A k \in 1 .. Len(es) - 1 :
                     Front([es EXCEPT ![i] = Last(es)])[k] = IF k = i THEN es[Len(es)] ELSE es[k]
<1> DEFINE e == [es EXCEPT ![i] = Last(es)]
           n == Len(es)
<1>0. n \in Nat /\ DOMAIN es = 1 .. n /\ \A k \in 1 .. n : es[k] \in T
  OBVIOUS
<1>1. \A k \in 1 .. n : e[k] = IF k = i THEN es[n] ELSE es[k]
  BY <1>0 DEF Last
<1>2. DOMAIN e = 1 .. n /\ e = [k \in 1 .. n |-> e[k]]
  BY <1>0
<1>3. \A k \in 1 .. n : e[k] \in T
  <2>1. ASSUME NEW k \in 1 .. n PROVE es[n] \in T
    BY <1>0
  <2> QED
    BY <1>0, <1>1, <2>1
<1> HIDE DEF e
<1>4. e \in Seq(T) /\ Len(e) = n
  BY <1>0, <1>2, <1>3
<1>5. Front(e) = SubSeq(e, 1, n - 1)
  BY <1>4 DEF Front
<1>6. n = 0 => Front(e) = << >>
  <2>1. n = 0 => SubSeq(e, 1, n - 1) = << >>
    BY <1>0, <1>4
  <2> QED
    BY <1>5, <2>1
<1>7. n # 0 => /\ Front(e) \in Seq(T) /\ Len(Front(e)) = n - 1
               /\ \A k \in 1 .. n - 1 : Front(e)[k] = e[k]
  <2> SUFFICES ASSUME n # 0 PROVE /\ SubSeq(e, 1, n - 1) \in Seq(T)
                                  /\ Len(SubSeq(e, 1, n - 1)) = n - 1
                                  /\ \A k \in 1 .. n - 1 : SubSeq(e, 1, n - 1)[k] = e[k]
    BY <1>5
  <2> QED
    BY <1>0, <1>3, <1>4, SubSeqProperties
<1>8. Front(e) \in Seq(T)
  BY <1>6, <1>7
<1>9. i \in 1 .. n => n # 0 /\ \A k \in 1 .. n - 1 : k \in 1 .. n
  BY <1>0
<1> QED
  BY <1>1, <1>7, <1>8, <1>9 DEF e

LEMMA CleanStepType ==
    ASSUME NEW s \in CleanStates
    PROVE  CleanStep(s) \in CleanStates
<1> DEFINE SE == Seq(Entries)
           t  == Front([s.es EXCEPT ![s.it] = Last(s.es)])
<1>1. s \in [es : SE, it : Nat] /\ s.es \in Seq(Entries) /\ s.it \in Nat
  BY DEF CleanStates
<1>2. t \in SE
  BY <1>1, SwapRemoved
<1> HIDE DEF SE, t
<1>3. [s EXCEPT !.es = t] \in [es : SE, it : Nat] /\ [s EXCEPT !.it = @ + 1] \in [es : SE, it : Nat]
  BY <1>1, <1>2
<1>4. CleanStep(s) = IF Stale(s.es[s.it]) THEN [s EXCEPT !.es = t] ELSE [s EXCEPT !.it = @ + 1]
  BY DEF CleanStep, t
<1> QED
  BY <1>3, <1>4 DEF CleanStates, SE

\* A turn steps over an entry that stays or removes one that is stale.
LEMMA CleanTurn ==
    ASSUME NEW es \in Seq(Entries), NEW s \in CleanStates, Cleaning(es, s), s.it <= Len(s.es)
    PROVE  /\ Cleaning(es, CleanStep(s))
           /\ CleanStep(s).it - Len(CleanStep(s).es) = s.it - Len(s.es) + 1
<1> DEFINE e == s.es
           i == s.it
           n == Len(e)
           t == Front([e EXCEPT ![i] = Last(e)])
           r == CleanStep(s)
<1>0. /\ e \in Seq(Entries) /\ i \in Nat /\ n \in Nat /\ i \in 1 .. n /\ Len(es) \in Nat
      /\ s = [es |-> e, it |-> i]
  BY DEF CleanStates, Cleaning
<1>1. /\ Distinct(e) /\ \A k \in 1 .. i - 1 : ~Stale(e[k])
      /\ \A k \in 1 .. n : \E j \in 1 .. Len(es) : e[k] = es[j]
      /\ \A j \in 1 .. Len(es) : ~Stale(es[j]) => \E k \in 1 .. n : e[k] = es[j]
  BY DEF Cleaning
<1>2. CASE ~Stale(e[i])
  <2>1. r = [es |-> e, it |-> i + 1]
    BY <1>0, <1>2 DEF CleanStep
  <2>2. r.es = e /\ r.it = i + 1
    BY <2>1
  <2>3. \A k \in 1 .. (i + 1) - 1 : k \in 1 .. i - 1 \/ k = i
    BY <1>0
  <2>4. i + 1 \in 1 .. n + 1 /\ (i + 1) - n = i - n + 1
    BY <1>0
  <2> HIDE DEF e, i, r
  <2> QED
    BY <1>1, <1>2, <2>2, <2>3, <2>4 DEF Cleaning, r, e, i
<1>3. CASE Stale(e[i])
  <2>1. r = [es |-> t, it |-> i]
    BY <1>0, <1>3 DEF CleanStep
  <2>2. r.es = t /\ r.it = i
    BY <2>1
  <2>3. /\ t \in Seq(Entries) /\ Len(t) = n - 1
        /\ \A k \in 1 .. n - 1 : t[k] = IF k = i THEN e[n] ELSE e[k]
    BY <1>0, SwapRemoved
  <2> HIDE DEF e, i, n, t, r
  <2>4. i \in 1 .. Len(t) + 1 /\ i - Len(t) = i - n + 1
    BY <1>0, <2>3
  <2>5. \A k \in 1 .. i - 1 : k \in 1 .. n - 1 /\ k # i
    BY <1>0
  <2>6. \A k \in 1 .. i - 1 : ~Stale(t[k])
    BY <1>1, <2>3, <2>5
  <2>7. Distinct(t)
    <3>1. SUFFICES ASSUME NEW x \in 1 .. n - 1, NEW y \in 1 .. n - 1, Net(t[x]) = Net(t[y])
                   PROVE  x = y
      BY <2>3 DEF Distinct
    <3> DEFINE fx == IF x = i THEN n ELSE x
               fy == IF y = i THEN n ELSE y
    <3>2. fx \in 1 .. n /\ fy \in 1 .. n /\ t[x] = e[fx] /\ t[y] = e[fy]
      BY <1>0, <2>3
    <3>3. fx = fy => x = y
      BY <1>0
    <3> HIDE DEF fx, fy
    <3>4. fx = fy
      BY <1>1, <3>1, <3>2 DEF Distinct, n
    <3> QED
      BY <3>3, <3>4
  <2>8. \A k \in 1 .. Len(t) : \E j \in 1 .. Len(es) : t[k] = es[j]
    <3>1. ASSUME NEW k \in 1 .. n - 1 PROVE \E j \in 1 .. Len(es) : t[k] = es[j]
      <4> DEFINE c == IF k = i THEN n ELSE k
      <4>1. c \in 1 .. n /\ t[k] = e[c]
        BY <1>0, <2>3
      <4> HIDE DEF c
      <4> QED
        BY <1>1, <4>1
    <3> QED
      BY <2>3, <3>1
  <2>9. \A j \in 1 .. Len(es) : ~Stale(es[j]) => \E k \in 1 .. Len(t) : t[k] = es[j]
    <3>1. SUFFICES ASSUME NEW j \in 1 .. Len(es), ~Stale(es[j]) PROVE \E k \in 1 .. n - 1 : t[k] = es[j]
      BY <2>3
    <3>2. PICK k \in 1 .. n : e[k] = es[j]
      BY <1>1, <3>1
    <3>3. k # i
      BY <1>3, <3>1, <3>2
    <3>4. CASE k = n
      <4>1. i \in 1 .. n - 1
        BY <1>0, <3>3, <3>4
      <4>2. t[i] = e[n]
        BY <2>3, <4>1
      <4> QED
        BY <3>2, <3>4, <4>1, <4>2
    <3>5. CASE k # n
      <4>1. k \in 1 .. n - 1
        BY <1>0, <3>5
      <4> QED
        BY <2>3, <3>2, <3>3, <4>1
    <3> QED
      BY <3>4, <3>5
  <2>10. Cleaning(es, r)
    BY <2>2, <2>4, <2>6, <2>7, <2>8, <2>9 DEF Cleaning
  <2> QED
    BY <2>2, <2>4, <2>10 DEF r, i, n, e
<1> QED
  BY <1>2, <1>3

\* What removeStaleRipEntries must leave: the entries that are not stale.
Cleaned(es, r) ==
    /\ r \in Seq(Entries) /\ Distinct(r)
    /\ \A k \in 1 .. Len(r) : ~Stale(r[k]) /\ \E j \in 1 .. Len(es) : r[k] = es[j]
    /\ \A j \in 1 .. Len(es) : ~Stale(es[j]) => \E k \in 1 .. Len(r) : r[k] = es[j]

\* The cleaner removes the stale entries and no other, although it moves
\* entries while it walks over them.
LEMMA CleanExact ==
    ASSUME NEW es \in Seq(Entries), Distinct(es)
    PROVE  Cleaned(es, removeStaleRipEntries(es))
<1> DEFINE n == Len(es)
           b == [es |-> es, it |-> 1]
           step == [p \in (1 .. n) \X CleanStates |-> CleanStep(p[2])]
           Fixed(f) == f = [k \in 0 .. n |-> IF k = 0 THEN [es |-> es, it |-> 1] ELSE CleanStep(f[k - 1])]
<1>0. n \in Nat /\ b \in CleanStates
  BY DEF CleanStates
<1>1. \E f : Fixed(f)
  <2>1. step \in [(1 .. n) \X CleanStates -> CleanStates]
    BY CleanStepType
  <2>2. PICK f \in [0 .. n -> CleanStates] : Turns(n, b, step, f)
    <3> HIDE DEF step, b
    <3> QED
      BY <1>0, <2>1, LoopExists
  <2>3. ASSUME NEW k \in 1 .. n PROVE f[k] = CleanStep(f[k - 1])
    <3>1. k - 1 \in 0 .. n /\ f[k - 1] \in CleanStates
      BY <1>0
    <3> QED
      BY <2>2, <3>1 DEF Turns
  <2>4. Fixed(f)
    BY <1>0, <2>2, <2>3 DEF Turns
  <2> QED
    BY <2>4
<1> DEFINE turn == CHOOSE f : Fixed(f)
<1>2. Fixed(turn)
  BY <1>1
<1>3. removeStaleRipEntries(es) = turn[n].es
  BY DEF removeStaleRipEntries
<1> HIDE DEF turn
<1>4. turn[0] = b /\ \A k \in 1 .. n : turn[k] = CleanStep(turn[k - 1])
  BY <1>0, <1>2
<1> DEFINE Good(k) == /\ turn[k] \in CleanStates /\ Cleaning(es, turn[k])
                      /\ turn[k].it - Len(turn[k].es) = k + 1 - n
           G == {k \in 0 .. n : Good(k)}
<1>5. 0 \in G /\ G \in SUBSET (0 .. n)
  <2>1. b.es = es /\ b.it = 1
    OBVIOUS
  <2>2. Cleaning(es, b)
    <3> HIDE DEF b
    <3> QED
      BY <1>0, <2>1 DEF Cleaning
  <2> HIDE DEF b
  <2>3. Good(0)
    BY <1>0, <1>4, <2>1, <2>2
  <2> QED
    BY <1>0, <2>3
<1>6. ASSUME NEW k \in 1 .. n, k - 1 \in G PROVE k \in G
  <2> DEFINE s == turn[k - 1]
  <2>1. /\ s \in CleanStates /\ Cleaning(es, s) /\ s.it - Len(s.es) = (k - 1) + 1 - n
        /\ turn[k] = CleanStep(s) /\ k \in 0 .. n
    BY <1>0, <1>4, <1>6
  <2> HIDE DEF s
  <2>2. s.it \in Nat /\ Len(s.es) \in Nat
    BY <2>1 DEF CleanStates
  <2>3. s.it <= Len(s.es)
    BY <1>0, <2>1, <2>2
  <2>4. /\ Cleaning(es, CleanStep(s)) /\ CleanStep(s) \in CleanStates
        /\ CleanStep(s).it - Len(CleanStep(s).es) = s.it - Len(s.es) + 1
    BY <2>1, <2>3, CleanTurn, CleanStepType
  <2>5. s.it - Len(s.es) + 1 = k + 1 - n
    BY <1>0, <2>1, <2>2
  <2>6. Good(k)
    BY <2>1, <2>4, <2>5
  <2> QED
    BY <2>1, <2>6
<1>7. G = 0 .. n
  <2> HIDE DEF G
  <2> QED
    BY <1>0, <1>5, <1>6, LoopInduction
<1>8. Good(n)
  BY <1>0, <1>7
<1> DEFINE s == turn[n]
<1>9. s \in CleanStates /\ Cleaning(es, s) /\ s.it - Len(s.es) = n + 1 - n
  BY <1>8
<1> HIDE DEF s
<1>10. s.es \in Seq(Entries) /\ s.it \in Nat /\ Len(s.es) \in Nat
  BY <1>9 DEF CleanStates
<1>11. s.it = Len(s.es) + 1
  BY <1>0, <1>9, <1>10
<1>12. \A k \in 1 .. Len(s.es) : k \in 1 .. s.it - 1
  BY <1>10, <1>11
<1>13. Cleaned(es, s.es)
  BY <1>9, <1>10, <1>12 DEF Cleaned, Cleaning
<1> QED
  BY <1>3, <1>13 DEF s

\* What findEntry must find: an entry with the network address asked for.
Found(es, x, k) ==
    /\ k \in 0 .. Len(es)
    /\ k = 0 => \A j \in 1 .. Len(es) : Masked(es[j].addr, es[j].len) # x
    /\ k # 0 => Masked(es[k].addr, es[k].len) = x

LEMMA FindFound ==
    ASSUME NEW es \in Seq(Entries), NEW a, NEW len
    PROVE  Found(es, Masked(a, len), findEntry(es, a, len))
<1> DEFINE x == Masked(a, len)
           I == {i \in 1 .. Len(es) : Masked(es[i].addr, es[i].len) = x}
           k == findEntry(es, a, len)
<1>0. Len(es) \in Nat /\ I \in SUBSET Nat
  OBVIOUS
<1>1. k = IF I # {} THEN Min(I) ELSE 0
  BY DEF findEntry, SelectInSeq
<1>2. I # {} => Min(I) \in I
  <2> SUFFICES ASSUME I # {} PROVE Min(I) \in I
    OBVIOUS
  <2> HIDE DEF I
  <2>1. \E m \in I : \A y \in I : m <= y
    BY <1>0, SmallestIn
  <2> QED
    BY <2>1 DEF Min
<1> HIDE DEF k
<1>3. CASE I # {}
  <2>1. k \in I
    BY <1>1, <1>2, <1>3
  <2>2. k \in 1 .. Len(es) /\ Masked(es[k].addr, es[k].len) = x
    BY <2>1
  <2> HIDE DEF x
  <2> QED
    BY <1>0, <2>2 DEF Found, k, x
<1>4. CASE I = {}
  <2>1. k = 0 /\ \A j \in 1 .. Len(es) : Masked(es[j].addr, es[j].len) # x
    BY <1>1, <1>4
  <2> HIDE DEF x
  <2> QED
    BY <1>0, <2>1 DEF Found, k, x
<1> QED
  BY <1>3, <1>4

---------------------------------------------------------------------------
(* The table and the map.                                                  *)

\* The route to n: the node's own, or one that a gateway told.
Kind(n, e) ==
    IF n = Local THEN e.type = "LOCAL" /\ e.gateway = NoGateway
    ELSE e.type = "RIP" /\ e.gateway \in Gateways

\* The vector es and the map rt hold the same routes.
Mirrors(es, rt) ==
    /\ es \in Seq(Entries) /\ Distinct(es)
    /\ rt \in [DOMAIN rt -> Entries]
    /\ Local \in DOMAIN rt /\ DOMAIN rt \subseteq Subnets \cup {Local}
    /\ \A n \in DOMAIN rt : /\ Net(rt[n]) = n /\ Kind(n, rt[n])
                            /\ \E k \in 1 .. Len(es) : es[k] = rt[n]
    /\ \A k \in 1 .. Len(es) : Net(es[k]) \in DOMAIN rt /\ rt[Net(es[k])] = es[k]

\* With network addresses apart, the entry that is found for an address of a
\* subnet is the one of the subnet.
LEMMA FindExact ==
    ASSUME NetworksApart, NEW es, NEW rt, Mirrors(es, rt),
           NEW n \in Subnets \cup {Local}, NEW a, InNet(a, n)
    PROVE  /\ findEntry(es, a, n[2]) \in 0 .. Len(es)
           /\ findEntry(es, a, n[2]) = 0 => n \notin DOMAIN rt
           /\ findEntry(es, a, n[2]) # 0 =>
                n \in DOMAIN rt /\ Net(es[findEntry(es, a, n[2])]) = n
                /\ rt[n] = es[findEntry(es, a, n[2])]
<1> DEFINE k == findEntry(es, a, n[2])
<1>0. es \in Seq(Entries) /\ Len(es) \in Nat
  BY DEF Mirrors
<1>1. Found(es, n[1], k)
  <2>1. Found(es, Masked(a, n[2]), k)
    BY <1>0, FindFound
  <2> QED
    BY <2>1 DEF InNet
<1> HIDE DEF k
<1>2. k \in 0 .. Len(es)
  BY <1>1 DEF Found
<1>3. CASE k = 0
  <2>1. ASSUME n \in DOMAIN rt PROVE FALSE
    <3>1. PICK j \in 1 .. Len(es) : es[j] = rt[n]
      BY <2>1 DEF Mirrors
    <3>2. Net(es[j]) = n
      BY <2>1, <3>1 DEF Mirrors
    <3>3. Masked(es[j].addr, es[j].len) = n[1]
      BY <3>2 DEF Net
    <3> QED
      BY <1>1, <1>3, <3>3 DEF Found
  <2> QED
    BY <1>2, <1>3, <2>1 DEF k
<1>4. CASE k # 0
  <2>1. k \in 1 .. Len(es) /\ Masked(es[k].addr, es[k].len) = n[1]
    BY <1>0, <1>1, <1>2, <1>4 DEF Found
  <2>2. Net(es[k]) \in DOMAIN rt /\ rt[Net(es[k])] = es[k] /\ Net(es[k]) \in Subnets \cup {Local}
    BY <2>1 DEF Mirrors
  <2>3. Net(es[k])[1] = n[1]
    BY <2>1 DEF Net
  <2>4. Net(es[k]) = n
    BY <2>2, <2>3 DEF NetworksApart
  <2> QED
    BY <1>2, <1>4, <2>2, <2>4 DEF k
<1> QED
  BY <1>3, <1>4

\* Replacing a route in the vector and in the map.
LEMMA MirrorsReplaced ==
    ASSUME NEW es, NEW rt, Mirrors(es, rt), NEW k \in 1 .. Len(es), NEW e \in Entries,
           Net(e) = Net(es[k]), Kind(Net(e), e)
    PROVE  Mirrors([es EXCEPT ![k] = e], [rt EXCEPT ![Net(es[k])] = e])
<1> DEFINE n == Net(es[k])
           fs == [es EXCEPT ![k] = e]
           st == [rt EXCEPT ![n] = e]
<1>0. /\ es \in Seq(Entries) /\ Distinct(es) /\ Len(es) \in Nat
      /\ DOMAIN es = 1 .. Len(es)
      /\ \A j \in 1 .. Len(es) : es[j] \in Entries
  BY DEF Mirrors
<1>1. /\ rt \in [DOMAIN rt -> Entries]
      /\ Local \in DOMAIN rt /\ DOMAIN rt \subseteq Subnets \cup {Local}
      /\ \A m \in DOMAIN rt : Net(rt[m]) = m /\ Kind(m, rt[m]) /\ \E j \in 1 .. Len(es) : es[j] = rt[m]
      /\ \A j \in 1 .. Len(es) : Net(es[j]) \in DOMAIN rt /\ rt[Net(es[j])] = es[j]
  BY DEF Mirrors
<1>2. n \in DOMAIN rt /\ Net(e) = n /\ Kind(n, e)
  BY <1>1
<1>3. /\ fs \in Seq(Entries) /\ Len(fs) = Len(es)
      /\ \A j \in 1 .. Len(es) : fs[j] = IF j = k THEN e ELSE es[j]
  <2>1. fs = [j \in 1 .. Len(es) |-> IF j = k THEN e ELSE es[j]]
    BY <1>0
  <2>2. \A j \in 1 .. Len(es) : (IF j = k THEN e ELSE es[j]) \in Entries
    BY <1>0
  <2> HIDE DEF fs
  <2> QED
    BY <1>0, <2>1, <2>2
<1>4. \A j \in 1 .. Len(es) : Net(fs[j]) = Net(es[j])
  BY <1>2, <1>3
<1>5. /\ DOMAIN st = DOMAIN rt /\ st \in [DOMAIN rt -> Entries]
      /\ \A m \in DOMAIN rt : st[m] = IF m = n THEN e ELSE rt[m]
  BY <1>1, <1>2
<1> HIDE DEF fs, st, n
<1>6. Distinct(fs)
  BY <1>0, <1>3, <1>4 DEF Distinct
<1>7. ASSUME NEW m \in DOMAIN st
      PROVE  Net(st[m]) = m /\ Kind(m, st[m]) /\ \E j \in 1 .. Len(fs) : fs[j] = st[m]
  <2>1. CASE m = n
    BY <1>2, <1>3, <1>5, <2>1
  <2>2. CASE m # n
    <3>1. m \in DOMAIN rt /\ st[m] = rt[m]
      BY <1>5, <2>2
    <3>2. PICK j \in 1 .. Len(es) : es[j] = rt[m]
      BY <1>1, <3>1
    <3>3. Net(es[j]) = m
      BY <1>1, <3>1, <3>2
    <3>4. j # k
      BY <2>2, <3>3 DEF n
    <3> QED
      BY <1>1, <1>3, <3>1, <3>2, <3>4
  <2> QED
    BY <2>1, <2>2
<1>8. ASSUME NEW j \in 1 .. Len(fs)
      PROVE  Net(fs[j]) \in DOMAIN st /\ st[Net(fs[j])] = fs[j]
  <2>0. j \in 1 .. Len(es) /\ Net(fs[j]) = Net(es[j]) /\ Net(es[j]) \in DOMAIN rt
    BY <1>1, <1>3, <1>4
  <2>1. CASE j = k
    BY <1>3, <1>5, <2>0, <2>1 DEF n
  <2>2. CASE j # k
    <3>1. Net(es[j]) # n
      BY <1>0, <2>0, <2>2 DEF Distinct, n
    <3> QED
      BY <1>1, <1>3, <1>5, <2>0, <2>2, <3>1
  <2> QED
    BY <2>1, <2>2
<1>9. Local \in DOMAIN st /\ DOMAIN st \subseteq Subnets \cup {Local} /\ st \in [DOMAIN st -> Entries]
  BY <1>1, <1>5
<1>10. Mirrors(fs, st)
  BY <1>3, <1>6, <1>7, <1>8, <1>9 DEF Mirrors
<1> QED
  BY <1>10 DEF fs, st, n

\* A route for a subnet that had none.
LEMMA MirrorsAppended ==
    ASSUME NEW es, NEW rt, Mirrors(es, rt), NEW e \in Entries, NEW n,
           n \in Subnets, n \notin DOMAIN rt, Net(e) = n, Kind(n, e)
    PROVE  Mirrors(Append(es, e), [x \in DOMAIN rt \cup {n} |-> IF x = n THEN e ELSE rt[x]])
<1> DEFINE fs == Append(es, e)
           st == [x \in DOMAIN rt \cup {n} |-> IF x = n THEN e ELSE rt[x]]
<1>0. /\ es \in Seq(Entries) /\ Distinct(es) /\ Len(es) \in Nat
      /\ \A j \in 1 .. Len(es) : es[j] \in Entries
  BY DEF Mirrors
<1>1. /\ rt \in [DOMAIN rt -> Entries]
      /\ Local \in DOMAIN rt /\ DOMAIN rt \subseteq Subnets \cup {Local}
      /\ \A m \in DOMAIN rt : Net(rt[m]) = m /\ Kind(m, rt[m]) /\ \E j \in 1 .. Len(es) : es[j] = rt[m]
      /\ \A j \in 1 .. Len(es) : Net(es[j]) \in DOMAIN rt /\ rt[Net(es[j])] = es[j]
  BY DEF Mirrors
<1>3. /\ fs \in Seq(Entries) /\ Len(fs) = Len(es) + 1 /\ fs[Len(es) + 1] = e
      /\ \A j \in 1 .. Len(es) : fs[j] = es[j]
  BY <1>0, AppendProperties
<1>4. \A j \in 1 .. Len(fs) : j \in 1 .. Len(es) \/ j = Len(es) + 1
  BY <1>0, <1>3
<1>5. /\ DOMAIN st = DOMAIN rt \cup {n} /\ st \in [DOMAIN st -> Entries]
      /\ st[n] = e /\ \A m \in DOMAIN rt : st[m] = rt[m]
  BY <1>1
<1> HIDE DEF fs, st
<1>6. Distinct(fs)
  <2>1. ASSUME NEW i \in 1 .. Len(fs), NEW j \in 1 .. Len(fs), Net(fs[i]) = Net(fs[j])
        PROVE  i = j
    <3>1. CASE i \in 1 .. Len(es) /\ j \in 1 .. Len(es)
      BY <1>0, <1>3, <2>1, <3>1 DEF Distinct
    <3>2. CASE i = Len(es) + 1 /\ j \in 1 .. Len(es)
      BY <1>1, <1>3, <2>1, <3>2
    <3>3. CASE i \in 1 .. Len(es) /\ j = Len(es) + 1
      BY <1>1, <1>3, <2>1, <3>3
    <3> QED
      BY <1>4, <3>1, <3>2, <3>3
  <2> QED
    BY <2>1 DEF Distinct
<1>7. ASSUME NEW m \in DOMAIN st
      PROVE  Net(st[m]) = m /\ Kind(m, st[m]) /\ \E j \in 1 .. Len(fs) : fs[j] = st[m]
  <2>0. Len(es) + 1 \in 1 .. Len(fs) /\ \A j \in 1 .. Len(es) : j \in 1 .. Len(fs)
    BY <1>0, <1>3
  <2>1. CASE m = n
    BY <1>3, <1>5, <2>0, <2>1
  <2>2. CASE m # n
    <3>1. m \in DOMAIN rt /\ st[m] = rt[m]
      BY <1>5, <2>2
    <3> QED
      BY <1>1, <1>3, <2>0, <3>1
  <2> QED
    BY <2>1, <2>2
<1>8. ASSUME NEW j \in 1 .. Len(fs)
      PROVE  Net(fs[j]) \in DOMAIN st /\ st[Net(fs[j])] = fs[j]
  <2>1. CASE j \in 1 .. Len(es)
    BY <1>1, <1>3, <1>5, <2>1
  <2>2. CASE j = Len(es) + 1
    BY <1>3, <1>5, <2>2
  <2> QED
    BY <1>4, <2>1, <2>2
<1>9. Local \in DOMAIN st /\ DOMAIN st \subseteq Subnets \cup {Local}
  BY <1>1, <1>5
<1>10. Mirrors(fs, st)
  BY <1>3, <1>5, <1>6, <1>7, <1>8, <1>9 DEF Mirrors
<1> QED
  BY <1>10 DEF fs, st

\* What a neighbour tells changes vector and map alike.
LEMMA MirrorsHeard ==
    ASSUME NetworksApart, Mirrors(entries, routes), NEW n \in Subnets \cup {Local},
           NEW a \in Interfaces, InNet(a, n), NEW c \in Told, NEW from \in Gateways
    PROVE  Mirrors(handleRipEntry(entries, a, n[2], c, from), Heard(n, a, c, from))
<1> DEFINE es == entries
           rt == routes
           k  == findEntry(es, a, n[2])
           hs == handleRipEntry(es, a, n[2], c, from)
           ht == Heard(n, a, c, from)
           e  == [type |-> "RIP", addr |-> a, len |-> n[2], gateway |-> from,
                  metric |-> c, expired |-> FALSE]
<1>0. /\ c \in 0 .. Unreached /\ a \in Addr /\ from \in Addr /\ Unreached \in Nat
      /\ n \in Addr \X (0 .. W)
  BY ContainersAssumption, TableAssumption
<1>1. /\ k \in 0 .. Len(es)
      /\ k = 0 => n \notin DOMAIN rt
      /\ k # 0 => n \in DOMAIN rt /\ Net(es[k]) = n /\ rt[n] = es[k]
  BY FindExact
<1>2. es \in Seq(Entries) /\ Len(es) \in Nat /\ Local \in DOMAIN rt
      /\ \A m \in DOMAIN rt : rt[m] \in Entries /\ Kind(m, rt[m])
  BY DEF Mirrors
<1>3. CASE k = 0 /\ c < Unreached
  <2>1. hs = Append(es, e)
    BY <1>0, <1>3 DEF handleRipEntry, addEntry
  <2>2. ht = [x \in DOMAIN rt \cup {n} |-> IF x = n THEN e ELSE rt[x]]
    BY <1>1, <1>3 DEF Heard
  <2>3. e \in Entries
    BY <1>0 DEF Entries
  <2>4. n \in Subnets /\ n \notin DOMAIN rt /\ n # Local
    BY <1>1, <1>2, <1>3
  <2>5. Net(e) = n
    BY <1>0 DEF Net, InNet
  <2>6. Kind(n, e)
    BY <2>4 DEF Kind
  <2> HIDE DEF e, hs, ht
  <2> QED
    BY <2>1, <2>2, <2>3, <2>4, <2>5, <2>6, MirrorsAppended DEF hs, ht
<1>4. CASE k = 0 /\ ~(c < Unreached)
  <2>1. c = Unreached
    BY <1>0, <1>4
  <2>2. hs = es
    BY <1>4, <2>1 DEF handleRipEntry
  <2>3. ht = rt
    BY <1>1, <1>4 DEF Heard
  <2> QED
    BY <2>2, <2>3
<1>5. CASE k # 0 /\ es[k].type = "LOCAL"
  <2>1. hs = es
    BY <1>5 DEF handleRipEntry
  <2>2. ht = rt
    BY <1>1, <1>5 DEF Heard
  <2> QED
    BY <2>1, <2>2
<1>6. CASE k # 0 /\ es[k].type # "LOCAL"
  <2>0. /\ k \in 1 .. Len(es) /\ es[k] \in Entries /\ n \in DOMAIN rt /\ Net(es[k]) = n
        /\ rt[n] = es[k]
    <3> HIDE DEF k
    <3> QED
      BY <1>1, <1>2, <1>6
  <2>1. n # Local /\ es[k].type = "RIP" /\ es[k].metric \in Nat /\ c \in Nat
    <3>1. Kind(n, es[k])
      BY <1>2, <2>0
    <3>2. n # Local /\ es[k].type = "RIP"
      BY <1>6, <3>1 DEF Kind
    <3>3. ASSUME NEW d \in Entries PROVE d.metric \in Nat
      BY <1>0, <3>3 DEF Entries
    <3> QED
      BY <1>0, <2>0, <3>2, <3>3
  <2> DEFINE u == [es[k] EXCEPT !.metric = c, !.gateway = from, !.expired = FALSE]
  <2>2. u \in Entries /\ u.addr = es[k].addr /\ u.len = es[k].len /\ u.type = "RIP" /\ u.gateway = from
    BY <1>0, <2>0, <2>1 DEF Entries
  <2>3. Net(u) = Net(es[k]) /\ Kind(Net(u), u)
    <3> HIDE DEF u
    <3>1. Net(u) = Net(es[k])
      BY <2>2 DEF Net
    <3> QED
      BY <2>0, <2>1, <2>2, <3>1 DEF Kind
  <2>4. Mirrors([es EXCEPT ![k] = u], [rt EXCEPT ![n] = u])
    <3> HIDE DEF u, k
    <3> QED
      BY <2>0, <2>2, <2>3, MirrorsReplaced
  <2>5. CASE c < es[k].metric
    <3>1. hs = [es EXCEPT ![k].metric = c, ![k].gateway = from, ![k].expired = FALSE]
      BY <1>6, <2>1, <2>5 DEF handleRipEntry
    <3>2. hs = [es EXCEPT ![k] = u]
      <4> HIDE DEF k, hs
      <4> QED
        BY <2>0, <3>1
    <3>3. ht = [rt EXCEPT ![n] = u]
      <4> HIDE DEF k
      <4> QED
        BY <2>0, <2>1, <2>5 DEF Heard
    <3> QED
      BY <2>4, <3>2, <3>3
  <2>6. CASE ~(c < es[k].metric) /\ es[k].gateway = from
    <3>1. hs = [es EXCEPT ![k].metric = c, ![k].expired = FALSE]
      BY <1>6, <2>1, <2>6 DEF handleRipEntry
    <3>2. [es[k] EXCEPT !.metric = c, !.expired = FALSE] = u
      <4> HIDE DEF k
      <4> QED
        BY <2>0, <2>6 DEF Entries
    <3>3. hs = [es EXCEPT ![k] = u]
      <4>1. hs = [es EXCEPT ![k] = [es[k] EXCEPT !.metric = c, !.expired = FALSE]]
        <5> HIDE DEF k, hs, u
        <5> QED
          BY <2>0, <3>1
      <4> QED
        BY <3>2, <4>1
    <3>4. ht = [rt EXCEPT ![n] = u]
      <4> HIDE DEF k
      <4> QED
        BY <2>0, <2>1, <2>6 DEF Heard
    <3> QED
      BY <2>4, <3>3, <3>4
  <2>7. CASE ~(c < es[k].metric) /\ es[k].gateway # from
    <3>1. hs = es
      BY <1>6, <2>1, <2>7 DEF handleRipEntry
    <3>2. ht = rt
      <4> HIDE DEF k
      <4> QED
        BY <2>0, <2>7 DEF Heard
    <3> QED
      BY <3>1, <3>2
  <2> QED
    BY <2>5, <2>6, <2>7
<1> QED
  BY <1>3, <1>4, <1>5, <1>6

\* An expired route is marked in the vector and in the map.
LEMMA MirrorsExpired ==
    ASSUME Mirrors(entries, routes), NEW n \in DOMAIN routes, routes[n].type = "RIP"
    PROVE  Mirrors([k \in 1 .. Len(entries) |->
                      IF Net(entries[k]) = n THEN [entries[k] EXCEPT !.expired = TRUE] ELSE entries[k]],
                   [routes EXCEPT ![n].expired = TRUE])
<1> DEFINE es == entries
           rt == routes
<1>0. /\ es \in Seq(Entries) /\ Len(es) \in Nat /\ DOMAIN es = 1 .. Len(es) /\ Distinct(es)
      /\ rt \in [DOMAIN rt -> Entries] /\ \A k \in 1 .. Len(es) : es[k] \in Entries
  BY DEF Mirrors
<1>1. PICK k \in 1 .. Len(es) : es[k] = rt[n]
  BY DEF Mirrors
<1>2. Net(es[k]) = n /\ Kind(n, es[k]) /\ es[k] \in Entries
  BY <1>0, <1>1 DEF Mirrors
<1> DEFINE u == [es[k] EXCEPT !.expired = TRUE]
<1>3. /\ u \in Entries /\ u.addr = es[k].addr /\ u.len = es[k].len /\ u.type = es[k].type
      /\ u.gateway = es[k].gateway
  BY <1>2 DEF Entries
<1>4. Net(u) = Net(es[k]) /\ Kind(Net(u), u)
  <2> HIDE DEF u
  <2>1. Net(u) = Net(es[k])
    BY <1>3 DEF Net
  <2> QED
    BY <1>2, <1>3, <2>1 DEF Kind
<1>5. Mirrors([es EXCEPT ![k] = u], [rt EXCEPT ![n] = u])
  <2> HIDE DEF u
  <2> QED
    BY <1>2, <1>3, <1>4, MirrorsReplaced
<1>6. [rt EXCEPT ![n].expired = TRUE] = [rt EXCEPT ![n] = u]
  BY <1>0, <1>1
<1>7. [es EXCEPT ![k] = u] = [j \in 1 .. Len(es) |->
          IF Net(es[j]) = n THEN [es[j] EXCEPT !.expired = TRUE] ELSE es[j]]
  <2>1. \A j \in 1 .. Len(es) : Net(es[j]) = n <=> j = k
    BY <1>0, <1>2 DEF Distinct
  <2>2. [es EXCEPT ![k] = u] = [j \in 1 .. Len(es) |-> IF j = k THEN u ELSE es[j]]
    <3> HIDE DEF u
    <3> QED
      BY <1>0
  <2> QED
    BY <2>1, <2>2
<1> QED
  BY <1>5, <1>6, <1>7

\* The cleaner removes the same routes from both.
LEMMA MirrorsCleaned ==
    ASSUME Mirrors(entries, routes)
    PROVE  Mirrors(removeStaleRipEntries(entries),
                   [n \in {x \in DOMAIN routes : ~Stale(routes[x])} |-> routes[n]])
<1> DEFINE es == entries
           rt == routes
           fs == removeStaleRipEntries(es)
           D  == {x \in DOMAIN rt : ~Stale(rt[x])}
           st == [n \in D |-> rt[n]]
<1>0. /\ es \in Seq(Entries) /\ Len(es) \in Nat /\ Distinct(es)
      /\ rt \in [DOMAIN rt -> Entries]
      /\ Local \in DOMAIN rt /\ DOMAIN rt \subseteq Subnets \cup {Local}
      /\ \A m \in DOMAIN rt : Net(rt[m]) = m /\ Kind(m, rt[m]) /\ \E j \in 1 .. Len(es) : es[j] = rt[m]
      /\ \A j \in 1 .. Len(es) : Net(es[j]) \in DOMAIN rt /\ rt[Net(es[j])] = es[j]
  BY DEF Mirrors
<1>1. Cleaned(es, fs)
  BY <1>0, CleanExact
<1> HIDE DEF fs
<1>2. /\ fs \in Seq(Entries) /\ Distinct(fs)
      /\ \A k \in 1 .. Len(fs) : ~Stale(fs[k]) /\ \E j \in 1 .. Len(es) : fs[k] = es[j]
      /\ \A j \in 1 .. Len(es) : ~Stale(es[j]) => \E k \in 1 .. Len(fs) : fs[k] = es[j]
  BY <1>1 DEF Cleaned
<1>3. Local \in D
  BY <1>0 DEF Kind, Stale
<1>4. DOMAIN st = D /\ st \in [D -> Entries] /\ \A n \in D : st[n] = rt[n] /\ n \in DOMAIN rt /\ ~Stale(rt[n])
  BY <1>0
<1> HIDE DEF st, D
<1>5. ASSUME NEW n \in D
      PROVE  Net(st[n]) = n /\ Kind(n, st[n]) /\ \E k \in 1 .. Len(fs) : fs[k] = st[n]
  <2>1. n \in DOMAIN rt /\ st[n] = rt[n] /\ ~Stale(rt[n])
    BY <1>4
  <2>2. PICK j \in 1 .. Len(es) : es[j] = rt[n]
    BY <1>0, <2>1
  <2>3. \E k \in 1 .. Len(fs) : fs[k] = es[j]
    BY <1>2, <2>1, <2>2
  <2> QED
    BY <1>0, <2>1, <2>2, <2>3
<1>6. ASSUME NEW k \in 1 .. Len(fs) PROVE Net(fs[k]) \in D /\ st[Net(fs[k])] = fs[k]
  <2>1. PICK j \in 1 .. Len(es) : fs[k] = es[j]
    BY <1>2
  <2>2. Net(fs[k]) \in DOMAIN rt /\ rt[Net(fs[k])] = fs[k] /\ ~Stale(fs[k])
    BY <1>0, <1>2, <2>1
  <2>3. Net(fs[k]) \in D
    BY <2>2 DEF D
  <2> QED
    BY <1>4, <2>2, <2>3
<1>7. Mirrors(fs, st)
  BY <1>0, <1>2, <1>3, <1>4, <1>5, <1>6 DEF Mirrors
<1> QED
  BY <1>7 DEF fs, st, D

LEMMA TableInit ==
    ASSUME NetworksApart, Init
    PROVE  Mirrors(entries, routes)
<1> DEFINE e == [type |-> "LOCAL", addr |-> Own, len |-> Local[2], gateway |-> NoGateway,
                 metric |-> 0, expired |-> FALSE]
<1>1. e \in Entries
  <2>1. Own \in Addr /\ Local \in Addr \X (0 .. W) /\ Unreached \in Nat
    BY ContainersAssumption, TableAssumption
  <2> QED
    BY <2>1 DEF Entries
<1>2. Net(e) = Local
  <2>1. Local = <<Local[1], Local[2]>>
    BY ContainersAssumption
  <2> QED
    BY <2>1 DEF Net, NetworksApart, InNet
<1>3. Kind(Local, e)
  BY DEF Kind
<1>4. entries = Append(<<>>, e)
  BY DEF Init, addEntry
<1> HIDE DEF e
<1>5. entries \in Seq(Entries) /\ Len(entries) = 1 /\ entries[1] = e
  BY <1>1, <1>4
<1>6. routes = [n \in {Local} |-> e]
  BY <1>5 DEF Init
<1>7. DOMAIN routes = {Local} /\ routes[Local] = e /\ routes \in [DOMAIN routes -> Entries]
  BY <1>1, <1>6
<1>8. Distinct(entries)
  BY <1>5 DEF Distinct
<1>9. \A k \in 1 .. Len(entries) : Net(entries[k]) \in DOMAIN routes /\ routes[Net(entries[k])] = entries[k]
  BY <1>2, <1>5, <1>7
<1>10. \A n \in DOMAIN routes : /\ Net(routes[n]) = n /\ Kind(n, routes[n])
                                /\ \E k \in 1 .. Len(entries) : entries[k] = routes[n]
  BY <1>2, <1>3, <1>5, <1>7
<1> QED
  BY <1>5, <1>7, <1>8, <1>9, <1>10 DEF Mirrors

LEMMA TableKept ==
    ASSUME NetworksApart, Mirrors(entries, routes), [Next]_vars
    PROVE  Mirrors(entries, routes)'
<1>1. ASSUME NEW n \in Subnets \cup {Local}, NEW a \in Interfaces, NEW c \in Told, NEW g \in Gateways,
             RipEntry(n, a, c, g)
      PROVE  Mirrors(entries', routes')
  <2>1. InNet(a, n) /\ entries' = handleRipEntry(entries, a, n[2], c, g) /\ routes' = Heard(n, a, c, g)
    BY <1>1 DEF RipEntry
  <2> QED
    BY <2>1, MirrorsHeard
<1>2. ASSUME NEW n \in Subnets, Expire(n) PROVE Mirrors(entries', routes')
  <2>1. /\ n \in DOMAIN routes /\ routes[n].type = "RIP"
        /\ routes' = [routes EXCEPT ![n].expired = TRUE]
        /\ entries' = [k \in 1 .. Len(entries) |->
                         IF Net(entries[k]) = n
                         THEN [entries[k] EXCEPT !.expired = TRUE] ELSE entries[k]]
    BY <1>2 DEF Expire
  <2> QED
    BY <2>1, MirrorsExpired
<1>3. CASE Clean
  <2>1. /\ entries' = removeStaleRipEntries(entries)
        /\ routes' = [n \in {x \in DOMAIN routes : ~Stale(routes[x])} |-> routes[n]]
    BY <1>3 DEF Clean
  <2> QED
    BY <2>1, MirrorsCleaned
<1>4. CASE TableStep
  BY <1>1, <1>2, <1>3, <1>4 DEF TableStep
<1>5. CASE RingStep \/ IntervalStep \/ ChecksumStep \/ UNCHANGED vars
  <2>1. entries' = entries /\ routes' = routes
    BY <1>5 DEF RingStep, IntervalStep, ChecksumStep, vars
  <2> QED
    BY <2>1
<1>6. Mirrors(entries', routes')
  BY <1>4, <1>5 DEF Next
<1> QED
  BY <1>6 DEF Mirrors

\* The vector has as many entries as there are routes.
LEMMA MirrorsMap ==
    ASSUME Mirrors(entries, routes)
    PROVE  TableIsMap
<1> DEFINE n == Len(entries)
           D == DOMAIN routes
           f == [k \in 1 .. n |-> Net(entries[k])]
<1>0. /\ n \in Nat /\ Distinct(entries)
      /\ \A m \in D : Net(routes[m]) = m /\ \E j \in 1 .. n : entries[j] = routes[m]
      /\ \A j \in 1 .. n : Net(entries[j]) \in D /\ routes[Net(entries[j])] = entries[j]
  BY DEF Mirrors
<1>1. f \in [1 .. n -> D]
  BY <1>0
<1>2. \A i, j \in 1 .. n : f[i] = f[j] => i = j
  BY <1>0 DEF Distinct
<1>3. \A m \in D : \E j \in 1 .. n : f[j] = m
  BY <1>0
<1> HIDE DEF n, D
<1>4. f \in Bijection(1 .. n, D)
  <2> HIDE DEF f
  <2> QED
    BY <1>1, <1>2, <1>3 DEF Bijection, Injection, Surjection, IsInjective
<1>5. ExistsBijection(1 .. n, D)
  BY <1>4 DEF ExistsBijection
<1>6. IsFiniteSet(1 .. n) /\ Cardinality(1 .. n) = n
  BY <1>0, FS_Interval
<1>7. Cardinality(D) = n
  BY <1>5, <1>6, FS_Bijection
<1>8. {entries[k] : k \in 1 .. n} = {routes[m] : m \in D}
  BY <1>0
<1> QED
  BY <1>7, <1>8 DEF TableIsMap, n, D

\* The vector of the routing table is the map that Rip takes it for, through
\* every update, expiry and cleaning, if no two subnets share a network address.
THEOREM TableIsAMap ==
    ASSUME NetworksApart
    PROVE  Spec => []TableIsMap
<1>1. Init => Mirrors(entries, routes)
  BY TableInit
<1>2. Mirrors(entries, routes) /\ [Next]_vars => Mirrors(entries, routes)'
  BY TableKept
<1>3. Mirrors(entries, routes) => TableIsMap
  BY MirrorsMap
<1> QED
  BY <1>1, <1>2, <1>3, PTL DEF Spec

\* Under the same hypothesis findEntry() finds the exact entry, as its comment
\* says: the one of the subnet asked for, or none if there is no route to it.
THEOREM EntriesExact ==
    ASSUME NetworksApart
    PROVE  Spec => []ExactEntry
<1>1. Init => Mirrors(entries, routes)
  BY TableInit
<1>2. Mirrors(entries, routes) /\ [Next]_vars => Mirrors(entries, routes)'
  BY TableKept
<1>3. Mirrors(entries, routes) => ExactEntry
  <2>1. SUFFICES ASSUME Mirrors(entries, routes), NEW n \in Subnets \cup {Local},
                        NEW a \in Interfaces, InNet(a, n)
                 PROVE  IF findEntry(entries, a, n[2]) = 0 THEN n \notin DOMAIN routes
                        ELSE Net(entries[findEntry(entries, a, n[2])]) = n
    BY DEF ExactEntry
  <2> QED
    BY <2>1, FindExact
<1> QED
  BY <1>1, <1>2, <1>3, PTL DEF Spec

---------------------------------------------------------------------------
(* The lookup.                                                             *)

\* An entry matches the addresses of its subnet.
LEMMA MatchesNet ==
    ASSUME NEW e, NEW a
    PROVE  Matches(e, a) <=> InNet(a, Net(e))
BY DEF Matches, sameSubnet, InNet, Net

LEMMA GatewayIsAddress == \A g \in Gateways : g # NoGateway
<1>1. W \in 0 .. W /\ Pow2[W] \in Nat
  BY Pow2Step, Pow2Type
<1> QED
  BY <1>1, ContainersAssumption DEF Addr, NoGateway

\* A query finds the route with the longest prefix among those that hold the
\* address.
LEMMA QueryHolding ==
    ASSUME NetworksApart, Mirrors(entries, routes), NEW a,
           NEW q, q = queryLongestPrefixMatch(entries, a)
    PROVE  /\ q \in 0 .. Len(entries)
           /\ q = 0 => Holding(a) = {}
           /\ q # 0 => /\ Net(entries[q]) \in Holding(a)
                       /\ routes[Net(entries[q])] = entries[q]
                       /\ \A y \in Holding(a) : y[2] <= Net(entries[q])[2]
                       /\ \A x \in Holding(a) :
                            (\A y \in Holding(a) : y[2] <= x[2]) => x = Net(entries[q])
<1>0. /\ entries \in Seq(Entries) /\ Len(entries) \in Nat
      /\ DOMAIN routes \subseteq Subnets \cup {Local}
      /\ \A k \in 1 .. Len(entries) : Net(entries[k]) \in DOMAIN routes /\ routes[Net(entries[k])] = entries[k]
  BY DEF Mirrors
<1>1. Longest(entries, a, q)
  BY <1>0, LongestFound
<1>2. q \in 0 .. Len(entries)
  BY <1>1 DEF Longest
<1>3. ASSUME NEW y \in Holding(a)
      PROVE  /\ y \in Subnets \cup {Local} /\ y[2] \in Int /\ Masked(a, y[2]) = y[1]
             /\ \E k \in 1 .. Len(entries) : Net(entries[k]) = y /\ Matches(entries[k], a)
                                             /\ entries[k].len = y[2]
  <2>1. y \in DOMAIN routes /\ InNet(a, y)
    BY DEF Holding
  <2>2. PICK k \in 1 .. Len(entries) : entries[k] = routes[y] /\ Net(routes[y]) = y
    BY <2>1 DEF Mirrors
  <2>3. y \in Addr \X (0 .. W) /\ W \in Nat
    BY <1>0, <2>1, ContainersAssumption, TableAssumption
  <2>4. Matches(entries[k], a)
    BY <2>1, <2>2, MatchesNet
  <2>5. entries[k].len = y[2]
    BY <2>2 DEF Net
  <2> QED
    BY <1>0, <2>1, <2>2, <2>3, <2>4, <2>5 DEF InNet
<1>4. CASE q = 0
  BY <1>1, <1>2, <1>3, <1>4 DEF Longest
<1>5. CASE q # 0
  <2> DEFINE m == Net(entries[q])
  <2>1. /\ q \in 1 .. Len(entries) /\ Matches(entries[q], a)
        /\ \A k \in 1 .. Len(entries) : Matches(entries[k], a) => entries[k].len <= entries[q].len
    BY <1>0, <1>1, <1>2, <1>5 DEF Longest
  <2>2. m \in DOMAIN routes /\ routes[m] = entries[q] /\ InNet(a, m)
    BY <1>0, <2>1, MatchesNet
  <2>3. m \in Holding(a)
    BY <2>2 DEF Holding
  <2>4. m[2] = entries[q].len
    BY DEF Net
  <2>5. \A y \in Holding(a) : y[2] <= m[2]
    BY <1>3, <2>1, <2>4
  <2> HIDE DEF m
  <2>6. ASSUME NEW x \in Holding(a), \A y \in Holding(a) : y[2] <= x[2] PROVE x = m
    <3>1. x[2] = m[2]
      BY <1>3, <2>3, <2>5, <2>6
    <3>2. x[1] = m[1] /\ x \in Subnets \cup {Local} /\ m \in Subnets \cup {Local}
      BY <1>3, <2>3, <3>1
    <3> QED
      BY <3>2 DEF NetworksApart
  <2> QED
    BY <1>2, <1>5, <2>2, <2>3, <2>5, <2>6 DEF m
<1> QED
  BY <1>4, <1>5

LEMMA MirrorsLookup ==
    ASSUME NetworksApart, GatewaysLocal, Mirrors(entries, routes)
    PROVE  LookupLongest
<1>1. SUFFICES ASSUME NEW a \in Addr
      PROVE  IF Holding(a) = {} THEN NextHop(entries, a).out = 0
             ELSE /\ NextHop(entries, a).out # 0
                  /\ entries[NextHop(entries, a).out].type = "LOCAL"
                  /\ NextHop(entries, a).hop =
                       IF (CHOOSE x \in Holding(a) : \A y \in Holding(a) : y[2] <= x[2]) = Local THEN a
                       ELSE routes[CHOOSE x \in Holding(a) : \A y \in Holding(a) : y[2] <= x[2]].gateway
  BY DEF LookupLongest
<1> DEFINE q == queryLongestPrefixMatch(entries, a)
           n == CHOOSE x \in Holding(a) : \A y \in Holding(a) : y[2] <= x[2]
           h == NextHop(entries, a)
           g == entries[q].gateway
           f == queryLongestPrefixMatch(entries, g)
<1>2. /\ q \in 0 .. Len(entries)
      /\ q = 0 => Holding(a) = {}
      /\ q # 0 => /\ Net(entries[q]) \in Holding(a) /\ routes[Net(entries[q])] = entries[q]
                  /\ \A y \in Holding(a) : y[2] <= Net(entries[q])[2]
                  /\ \A x \in Holding(a) :
                       (\A y \in Holding(a) : y[2] <= x[2]) => x = Net(entries[q])
  BY QueryHolding
<1>3. h = CASE q = 0                      -> [out |-> 0, hop |-> a]
            [] q # 0 /\ g = NoGateway     -> [out |-> q, hop |-> a]
            [] q # 0 /\ g # NoGateway     -> [out |-> f, hop |-> g]
  BY DEF NextHop
<1>4. \A m \in DOMAIN routes : Kind(m, routes[m]) /\ m \in Subnets \cup {Local}
  BY DEF Mirrors
<1>5. CASE q = 0
  <2>1. h = [out |-> 0, hop |-> a]
    <3> HIDE DEF h, q, g, f
    <3> QED
      BY <1>3, <1>5
  <2>2. Holding(a) = {} /\ h.out = 0
    BY <1>2, <1>5, <2>1
  <2> QED
    BY <2>2
<1>6. CASE q # 0
  <2>1. n = Net(entries[q]) /\ n \in Holding(a) /\ routes[n] = entries[q]
    <3> HIDE DEF q
    <3> QED
      BY <1>2, <1>6
  <2>2. n \in DOMAIN routes /\ Kind(n, entries[q]) /\ n \in Subnets \cup {Local}
    BY <1>4, <2>1 DEF Holding
  <2> HIDE DEF n
  <2>3. CASE n = Local
    <3>1. g = NoGateway /\ entries[q].type = "LOCAL"
      BY <2>2, <2>3 DEF Kind
    <3>2. h = [out |-> q, hop |-> a]
      <4> HIDE DEF h, q, g, f
      <4> QED
        BY <1>3, <1>6, <3>1
    <3>3. h.out # 0 /\ entries[h.out].type = "LOCAL" /\ h.hop = a
      <4> HIDE DEF h, q
      <4> QED
        BY <1>6, <3>1, <3>2
    <3> HIDE DEF h
    <3> QED
      BY <2>1, <2>3, <3>3 DEF n, h
  <2>4. CASE n # Local
    <3>1. g \in Gateways /\ g # NoGateway /\ routes[n].gateway = g
      BY <2>1, <2>2, <2>4, GatewayIsAddress DEF Kind
    <3>2. h = [out |-> f, hop |-> g]
      <4> HIDE DEF h, q, g, f
      <4> QED
        BY <1>3, <1>6, <3>1
    <3>3. Local \in Holding(g)
      <4>1. Local \in DOMAIN routes /\ InNet(g, Local)
        BY <3>1 DEF Mirrors, GatewaysLocal
      <4> HIDE DEF g
      <4> QED
        BY <4>1 DEF Holding
    <3>4. f # 0 /\ Net(entries[f]) \in Holding(g) /\ routes[Net(entries[f])] = entries[f]
      <4> HIDE DEF g
      <4> QED
        BY <3>3, QueryHolding
    <3> HIDE DEF f, g, h
    <3>5. Net(entries[f]) \in DOMAIN routes /\ InNet(g, Net(entries[f]))
      BY <3>4 DEF Holding
    <3>6. Net(entries[f]) = Local
      BY <1>4, <3>1, <3>5 DEF GatewaysLocal
    <3>7. entries[f].type = "LOCAL"
      BY <1>4, <3>4, <3>5, <3>6 DEF Kind
    <3>8. h.out # 0 /\ entries[h.out].type = "LOCAL" /\ h.hop = routes[n].gateway
      BY <3>1, <3>2, <3>4, <3>7
    <3> QED
      BY <2>1, <2>4, <3>8 DEF n, h
  <2> QED
    BY <2>3, <2>4
<1> QED
  BY <1>5, <1>6

\* A datagram to any address takes the route with the longest matching prefix
\* and leaves by the node's own interface, for tables of any subnets with
\* different network addresses and gateways on the local subnet.
THEOREM LookupsLongest ==
    ASSUME NetworksApart, GatewaysLocal
    PROVE  Spec => []LookupLongest
<1>1. Init => Mirrors(entries, routes)
  BY TableInit
<1>2. Mirrors(entries, routes) /\ [Next]_vars => Mirrors(entries, routes)'
  BY TableKept
<1>3. Mirrors(entries, routes) => LookupLongest
  BY MirrorsLookup
<1> QED
  BY <1>1, <1>2, <1>3, PTL DEF Spec

---------------------------------------------------------------------------
(* The checksum.                                                           *)

\* Quotient and remainder are the only ones.
LEMMA DividedOnce ==
    ASSUME NEW B \in Nat, B > 0, NEW q \in Int, NEW u \in Int,
           NEW r \in 0 .. B - 1, NEW s \in 0 .. B - 1, B * q + r = B * u + s
    PROVE  q = u /\ r = s
<1>1. B * (q - u) = s - r
  OBVIOUS
<1>2. CASE q - u >= 1
  <2>1. B * (q - u) >= B
    BY <1>2
  <2> QED
    BY <1>1, <2>1
<1>3. CASE q - u <= -1
  <2>1. B * (q - u) <= -B
    BY <1>3
  <2> QED
    BY <1>1, <2>1
<1>4. CASE q = u
  BY <1>4
<1> QED
  BY <1>2, <1>3, <1>4

LEMMA HighLow ==
    ASSUME NEW s \in Nat
    PROVE  High(s) \in Nat /\ Low(s) \in 0 .. Base - 1 /\ s = Base * High(s) + Low(s)
BY ChecksumAssumption DEF High, Low

LEMMA LowIs ==
    ASSUME NEW s \in Nat, NEW q \in Nat, NEW r \in 0 .. Base - 1, s = Base * q + r
    PROVE  High(s) = q /\ Low(s) = r
<1>1. /\ High(s) \in Nat /\ Low(s) \in 0 .. Base - 1 /\ s = Base * High(s) + Low(s)
      /\ Base \in Nat /\ Base > 0
  BY HighLow, ChecksumAssumption
<1>2. Base * High(s) + Low(s) = Base * q + r
  BY <1>1
<1>3. High(s) \in Int /\ q \in Int
  BY <1>1
<1> QED
  <2> DEFINE h == High(s)
             l == Low(s)
  <2>1. /\ Base \in Nat /\ Base > 0 /\ h \in Int /\ q \in Int
        /\ l \in 0 .. Base - 1 /\ r \in 0 .. Base - 1 /\ Base * h + l = Base * q + r
    BY <1>1, <1>2, <1>3
  <2> HIDE DEF h, l
  <2>2. h = q /\ l = r
    BY <2>1, DividedOnce
  <2> QED
    BY <2>2 DEF h, l

\* Two words that are equal modulo Base - 1 are the same, but for the two
\* representations of zero.
LEMMA SameWord ==
    ASSUME NEW B \in Nat, B > 1, NEW x \in 0 .. B - 1, NEW y \in 0 .. B - 1, x = 0 <=> y = 0,
           NEW j \in Int, NEW k \in Int, x + j * (B - 1) = y + k * (B - 1)
    PROVE  x = y
<1>1. (k - j) * (B - 1) = x - y
  OBVIOUS
<1>2. CASE k - j >= 1
  <2>1. (k - j) * (B - 1) >= B - 1
    BY <1>2
  <2> QED
    BY <1>1, <2>1
<1>3. CASE k - j <= -1
  <2>1. (k - j) * (B - 1) <= -(B - 1)
    BY <1>3
  <2> QED
    BY <1>1, <2>1
<1>4. CASE k = j
  BY <1>4
<1> QED
  BY <1>2, <1>3, <1>4

\* What two folds make of a sum: the word it equals modulo Base - 1.
Residue(s, r) ==
    /\ r \in Word
    /\ r = 0 <=> s = 0
    /\ \E j \in Nat : s = r + j * (Base - 1)

\* Two folds are enough for the sum of as many words as there are below Base.
LEMMA FoldedTwice ==
    ASSUME NEW s \in Nat, s <= Words * (Base - 1)
    PROVE  Residue(s, Folded(s))
<1> DEFINE B == Base
           h == High(s)
           l == Low(s)
           c == h + l
           d == High(c)
           m == Low(c)
<1>0. B \in Nat /\ B > 1 /\ Words \in Nat /\ Words <= B - 1
  BY ChecksumAssumption
<1>1. h \in Nat /\ l \in 0 .. B - 1 /\ s = B * h + l
  BY HighLow
<1>2. c \in Nat
  BY <1>0, <1>1
<1>3. d \in Nat /\ m \in 0 .. B - 1 /\ c = B * d + m
  BY <1>2, HighLow
<1>4. Folded(s) = Low(c + d)
  BY DEF Folded
<1> HIDE DEF h, l, c, d, m, B
<1>5. h <= B - 2
  <2>1. CASE h >= Words
    <3>1. B * (h - Words) >= 0
      BY <1>0, <1>1, <2>1
    <3>2. B * h >= B * Words
      BY <1>0, <1>1, <3>1
    <3>3. s <= B * Words - Words
      BY <1>0 DEF B
    <3>4. B * h + l <= B * Words - Words
      BY <1>1, <3>3
    <3>5. B * h \in Int /\ B * Words \in Int
      BY <1>0, <1>1
    <3>6. Words = 0
      BY <1>0, <1>1, <3>2, <3>4, <3>5
    <3>7. B * h <= 0
      BY <1>0, <1>1, <3>4, <3>5, <3>6
    <3>8. h = 0
      BY <1>0, <1>1, <3>7
    <3> QED
      BY <1>0, <3>8
  <2>2. CASE h < Words
    BY <1>0, <1>1, <2>2
  <2> QED
    BY <1>0, <1>1, <2>1, <2>2
<1>6. c <= 2 * B - 3
  BY <1>0, <1>1, <1>5 DEF c
<1>7. d = 0 \/ d = 1
  <2>1. ASSUME d >= 2 PROVE FALSE
    <3>1. B * (d - 2) >= 0
      BY <1>0, <1>3, <2>1
    <3>2. B * d >= 2 * B
      BY <1>0, <1>3, <3>1
    <3>3. B * d \in Int
      BY <1>0, <1>3
    <3> QED
      BY <1>0, <1>2, <1>3, <1>6, <3>2, <3>3
  <2> QED
    BY <1>3, <2>1
<1>8. /\ Folded(s) \in 0 .. B - 1 /\ c = Folded(s) + d * (B - 1)
      /\ Folded(s) = 0 => c = 0
  <2>1. CASE d = 0
    <3>1. c = m /\ c + d = B * 0 + m
      BY <1>0, <1>2, <1>3, <2>1
    <3>2. Low(c + d) = m
      BY <1>0, <1>2, <1>3, <3>1, LowIs DEF B
    <3> QED
      BY <1>0, <1>3, <1>4, <2>1, <3>1, <3>2
  <2>2. CASE d = 1
    <3>1. c = B + m /\ m + 1 \in 0 .. B - 1 /\ c + d = B * 1 + (m + 1)
      BY <1>0, <1>2, <1>3, <1>6, <2>2
    <3>2. Low(c + d) = m + 1
      <4>1. c + d \in Nat /\ m + 1 \in 0 .. Base - 1 /\ c + d = Base * 1 + (m + 1)
        BY <1>2, <2>2, <3>1 DEF B
      <4> QED
        BY <4>1, LowIs
    <3> QED
      BY <1>0, <1>3, <1>4, <2>2, <3>1, <3>2
  <2> QED
    BY <1>7, <2>1, <2>2
<1> DEFINE r == Folded(s)
<1> HIDE DEF r
<1>9. s = r + (h + d) * (B - 1)
  <2>1. s = (h + l) + h * (B - 1)
    BY <1>0, <1>1
  <2>2. s = (r + d * (B - 1)) + h * (B - 1)
    BY <1>8, <2>1 DEF c, r
  <2>3. r \in Int
    BY <1>0, <1>8 DEF r
  <2> QED
    BY <1>0, <1>1, <1>3, <2>2, <2>3
<1>10. h + d \in Nat
  BY <1>1, <1>3
<1>11. c = 0 => s = 0
  <2>1. c = 0 => h = 0 /\ l = 0
    BY <1>0, <1>1 DEF c
  <2> QED
    BY <1>0, <1>1, <2>1
<1>12. s = 0 => r = 0
  <2>1. (h + d) * (B - 1) >= 0 /\ (h + d) * (B - 1) \in Int /\ r \in Nat
    BY <1>0, <1>8, <1>10 DEF r
  <2> QED
    BY <1>9, <2>1
<1>13. r \in Word /\ (r = 0 <=> s = 0)
  BY <1>8, <1>11, <1>12 DEF r, Word, B
<1> QED
  BY <1>9, <1>10, <1>13 DEF Residue, r, B

\* The sum so far: bounded, and its residue is the sum with the carries added.
SumInv ==
    /\ header.n \in 0 .. Words /\ header.wide \in Nat
    /\ header.wide <= header.n * (Base - 1)
    /\ Residue(header.wide, header.ones)

LEMMA AddedWord ==
    ASSUME SumInv, header.n < Words, NEW w \in Word
    PROVE  /\ AddWord(w).n \in 0 .. Words /\ AddWord(w).wide \in Nat
           /\ AddWord(w).wide <= AddWord(w).n * (Base - 1)
           /\ Residue(AddWord(w).wide, AddWord(w).ones)
<1> DEFINE B == Base
           n == header.n
           s == header.wide
           o == header.ones
           p == AddWord(w).ones
<1>0. /\ B \in Nat /\ B > 1 /\ Words \in Nat /\ w \in 0 .. B - 1
      /\ n \in Nat /\ n < Words /\ s \in Nat /\ s <= n * (B - 1)
  BY ChecksumAssumption DEF SumInv, Word
<1>1. /\ AddWord(w).n = n + 1 /\ AddWord(w).wide = s + w
      /\ p = IF o + w \in Word THEN o + w ELSE o + w - B + 1
  BY DEF AddWord
<1>2. o \in 0 .. B - 1 /\ (o = 0 <=> s = 0)
  BY DEF SumInv, Residue, Word
<1>3. PICK j \in Nat : s = o + j * (B - 1)
  BY DEF SumInv, Residue
<1> HIDE DEF B, n, s, o, p
<1>4. n + 1 \in 0 .. Words /\ s + w \in Nat
  BY <1>0
<1>5. s + w <= (n + 1) * (B - 1)
  <2>1. (n + 1) * (B - 1) = n * (B - 1) + (B - 1) /\ n * (B - 1) \in Int
    BY <1>0
  <2> QED
    BY <1>0, <2>1
<1>6. Residue(s + w, p)
  <2>1. CASE o + w \in Word
    <3>1. p = o + w /\ p \in Word
      BY <1>1, <2>1
    <3>2. p = 0 <=> s + w = 0
      BY <1>0, <1>2, <3>1
    <3>3. s + w = p + j * (B - 1)
      <4>1. j * (B - 1) \in Int
        BY <1>0
      <4> QED
        BY <1>0, <1>2, <1>3, <3>1, <4>1
    <3> QED
      BY <3>1, <3>2, <3>3 DEF Residue, B
  <2>2. CASE o + w \notin Word
    <3>1. p = o + w - B + 1 /\ o + w >= B
      BY <1>0, <1>1, <1>2, <2>2 DEF Word, B
    <3>2. p \in 1 .. B - 1 /\ s + w # 0
      BY <1>0, <1>2, <3>1
    <3>3. s + w = p + (j + 1) * (B - 1) /\ j + 1 \in Nat
      <4>1. j * (B - 1) \in Int /\ (j + 1) * (B - 1) = j * (B - 1) + (B - 1)
        BY <1>0
      <4> QED
        BY <1>0, <1>2, <1>3, <3>1, <4>1
    <3>4. p \in Word /\ (p = 0 <=> s + w = 0)
      BY <1>0, <3>2 DEF Word, B
    <3> QED
      BY <3>3, <3>4 DEF Residue, B
  <2> QED
    BY <2>1, <2>2
<1> QED
  BY <1>1, <1>4, <1>5, <1>6 DEF B, p

LEMMA NoWords ==
    Residue(0, 0) /\ 0 \in 0 .. Words /\ 0 <= 0 * (Base - 1)
<1>1. Base \in Nat /\ Base > 1 /\ Words \in Nat
  BY ChecksumAssumption
<1>2. 0 = 0 + 0 * (Base - 1)
  BY <1>1
<1> QED
  BY <1>1, <1>2 DEF Residue, Word

LEMMA SumKept ==
    ASSUME SumInv, [Next]_vars
    PROVE  SumInv'
<1>1. ASSUME NEW w \in Word, header.n < Words, header' = AddWord(w) PROVE SumInv'
  BY <1>1, AddedWord DEF SumInv
<1>2. ASSUME header' = NoHeader PROVE SumInv'
  <2>1. header'.n = 0 /\ header'.wide = 0 /\ header'.ones = 0
    BY <1>2 DEF NoHeader
  <2> QED
    BY <2>1, NoWords DEF SumInv
<1>3. CASE header' = header
  BY <1>3 DEF SumInv
<1> QED
  BY <1>1, <1>2, <1>3 DEF Next, RingStep, IntervalStep, TableStep, ChecksumStep, vars

LEMMA SumExact ==
    ASSUME SumInv
    PROVE  ChecksumExact
<1> DEFINE B == Base
           n == header.n
           s == header.wide
           o == header.ones
<1>0. /\ B \in Nat /\ B > 1 /\ Words \in Nat
      /\ n \in Nat /\ n <= Words /\ s \in Nat /\ s <= n * (B - 1) /\ Residue(s, o)
  BY ChecksumAssumption DEF SumInv
<1> HIDE DEF n, s, o, B
<1>1. ASSUME NEW k \in Nat, k <= Words PROVE k * (B - 1) <= Words * (B - 1)
  <2>1. (Words - k) * (B - 1) >= 0
    BY <1>0, <1>1
  <2> QED
    BY <1>0, <2>1
<1>2. Folded(s) = o
  <2>1. s <= Words * (B - 1)
    <3>1. n * (B - 1) <= Words * (B - 1) /\ n * (B - 1) \in Int /\ Words * (B - 1) \in Int
      BY <1>0, <1>1
    <3> QED
      BY <1>0, <3>1
  <2>2. Residue(s, Folded(s))
    BY <1>0, <2>1, FoldedTwice DEF B
  <2> DEFINE f == Folded(s)
  <2> HIDE DEF f
  <2>3. PICK j \in Nat : s = f + j * (B - 1)
    BY <2>2 DEF Residue, B, f
  <2>4. PICK k \in Nat : s = o + k * (B - 1)
    BY <1>0 DEF Residue, B
  <2>5. f \in 0 .. B - 1 /\ o \in 0 .. B - 1 /\ (f = 0 <=> o = 0)
    BY <1>0, <2>2 DEF Residue, Word, B, f
  <2>6. f + j * (B - 1) = o + k * (B - 1) /\ j \in Int /\ k \in Int
    BY <2>3, <2>4
  <2>7. f = o
    BY <1>0, <2>5, <2>6, SameWord
  <2> QED
    BY <2>7 DEF f
<1>3. ASSUME n < Words, NEW t \in 0 .. B - 2, NEW u \in 0 .. B - 2, t # u
      PROVE  ipv4Checksum(s + t) # ipv4Checksum(s + u)
  <2>1. ASSUME NEW x \in 0 .. B - 2 PROVE Residue(s + x, Folded(s + x))
    <3>1. (n + 1) * (B - 1) <= Words * (B - 1)
      BY <1>0, <1>1, <1>3
    <3>2. (n + 1) * (B - 1) = n * (B - 1) + (B - 1) /\ n * (B - 1) \in Int /\ Words * (B - 1) \in Int
      BY <1>0
    <3>3. s + x \in Nat /\ s + x <= Words * (B - 1)
      BY <1>0, <3>1, <3>2
    <3> QED
      BY <3>3, FoldedTwice DEF B
  <2> DEFINE f == Folded(s + t)
             g == Folded(s + u)
  <2>2. Residue(s + t, f) /\ Residue(s + u, g)
    BY <2>1
  <2> HIDE DEF f, g
  <2>3. f # g
    <3> SUFFICES ASSUME f = g PROVE FALSE
      OBVIOUS
    <3>1. PICK j \in Nat : s + t = f + j * (B - 1)
      BY <2>2 DEF Residue, B
    <3>2. PICK k \in Nat : s + u = f + k * (B - 1)
      BY <2>2 DEF Residue, B
    <3>3. f \in Int
      BY <2>2, <1>0 DEF Residue, Word, B
    <3>4. (t + 1) + k * (B - 1) = (u + 1) + j * (B - 1)
      <4>1. k * (B - 1) \in Int /\ j * (B - 1) \in Int
        BY <1>0
      <4> QED
        BY <1>0, <3>1, <3>2, <3>3, <4>1
    <3>5. t + 1 \in 0 .. B - 1 /\ u + 1 \in 0 .. B - 1 /\ (t + 1 = 0 <=> u + 1 = 0)
      BY <1>0
    <3>6. t + 1 = u + 1
      BY <1>0, <3>4, <3>5, SameWord
    <3> QED
      BY <1>0, <1>3, <3>6
  <2>4. f \in Int /\ g \in Int
    BY <2>2, <1>0 DEF Residue, Word, B
  <2> QED
    BY <1>0, <2>3, <2>4 DEF ipv4Checksum, f, g, B
<1>4. ipv4Checksum(s) = Base - 1 - o
  BY <1>2 DEF ipv4Checksum
<1> QED
  BY <1>3, <1>4 DEF ChecksumExact, n, s, o, B

\* ipv4Checksum() is the complement of the ones' complement sum, for words of
\* any size and any number of them below it; and a header changed in one word by
\* less than Base - 1, as a new ttl does, has another checksum.
THEOREM ChecksumsExact == Spec => []ChecksumExact
<1>1. Init => SumInv
  <2>1. ASSUME header = NoHeader PROVE SumInv
    BY <2>1, NoWords DEF NoHeader, SumInv
  <2> QED
    BY <2>1 DEF Init
<1>2. SumInv /\ [Next]_vars => SumInv'
  BY SumKept
<1>3. SumInv => ChecksumExact
  BY SumExact
<1> QED
  BY <1>1, <1>2, <1>3, PTL DEF Spec

---------------------------------------------------------------------------
(* The ring buffer.                                                        *)

RingInv == buf \in [Cells -> Nat] /\ CopiesAgree

LEMMA RingKept ==
    ASSUME RingInv, [Next]_vars
    PROVE  RingInv'
<1>0. buf \in [Cells -> Nat] /\ (part = "ring" => got = want)
  BY DEF RingInv, CopiesAgree
<1>1. ASSUME NEW r \in Ranges
      PROVE  r[1] \in Nat /\ r[2] \in Nat /\ r[2] - r[1] < N
  BY ContainersAssumption DEF Ranges
<1>2. ASSUME NEW r \in Ranges, NEW data \in Datas, Write(data, r[1], r[2])
      PROVE  buf' \in [Cells -> Nat] /\ got' = want'
  <2>1. data \in Seq(Nat)
    <3>1. PICK len \in 0 .. MaxLen : data = [i \in 1 .. len |-> i]
      BY DEF Datas
    <3>2. len \in Nat /\ \A i \in 1 .. len : i \in Nat
      BY ContainersAssumption
    <3> QED
      BY <3>1, <3>2
  <2>2. /\ write(buf, data, r[1], r[2]) = RingWrite(buf, data, r[1], r[2])
        /\ Stores(Nat, buf, data, r[1], write(buf, data, r[1], r[2]))
    <3>1. r[1] \in Nat /\ r[2] \in Int /\ (r[1] < r[2] => r[2] - r[1] < N)
      BY <1>1
    <3> DEFINE at   == r[1]
               last == r[2]
    <3> HIDE DEF at, last
    <3>2. write(buf, data, at, last) = RingWrite(buf, data, at, last)
      BY <1>0, <2>1, <3>1, WriteIsRingWrite DEF at, last
    <3>3. Stores(Nat, buf, data, at, write(buf, data, at, last))
      BY <1>0, <2>1, <3>1, WriteExact DEF at, last
    <3> QED
      BY <3>2, <3>3 DEF at, last
  <2>3. write(buf, data, r[1], r[2]).buf \in [Cells -> Nat]
    BY <2>2 DEF Stores
  <2> QED
    BY <1>2, <2>2, <2>3 DEF Write
<1>3. ASSUME NEW r \in Ranges, NEW size \in 0 .. MaxLen, Read(size, r[1], r[2])
      PROVE  buf' = buf /\ got' = want'
  <2>1. r[1] \in Nat /\ r[2] \in Nat /\ r[2] - r[1] < N /\ size \in Nat
    BY <1>1, ContainersAssumption
  <2>2. read(buf, size, r[1], r[2]) = RingRead(buf, size, r[1], r[2])
    BY <1>0, <2>1, ReadIsRingRead
  <2> QED
    BY <1>3, <2>2 DEF Read
<1>4. CASE RingStep
  <2>1. buf' \in [Cells -> Nat] /\ got' = want'
    BY <1>0, <1>2, <1>3, <1>4 DEF RingStep
  <2> QED
    BY <2>1 DEF RingInv, CopiesAgree
<1>5. CASE IntervalStep
  <2>1. buf' = buf /\ part' = "intervals"
    BY <1>5 DEF IntervalStep
  <2> QED
    BY <1>0, <2>1 DEF RingInv, CopiesAgree
<1>6. CASE TableStep \/ ChecksumStep \/ UNCHANGED vars
  <2>1. buf' = buf /\ part' = part /\ got' = got /\ want' = want
    BY <1>6 DEF TableStep, ChecksumStep, vars
  <2> QED
    BY <1>0, <2>1 DEF RingInv, CopiesAgree
<1> QED
  BY <1>4, <1>5, <1>6 DEF Next

\* Through any sequence of writes and reads of a ring of any size, the two-range
\* copies compute what a circular array promises.
THEOREM CopiesAlwaysAgree == Spec => []CopiesAgree
<1>1. Init => RingInv
  <2>1. ASSUME Init PROVE RingInv
    BY <2>1 DEF Init, RingInv, CopiesAgree
  <2> QED
    BY <2>1
<1>2. RingInv /\ [Next]_vars => RingInv'
  BY RingKept
<1>3. RingInv => CopiesAgree
  BY DEF RingInv
<1> QED
  BY <1>1, <1>2, <1>3, PTL DEF Spec

---------------------------------------------------------------------------
(* The interval set.                                                       *)

\* The set S holds the numbers C, below Top and in intervals that do not touch.
Holds(S, C) ==
    /\ S \in SUBSET Interval /\ Separated(S)
    /\ \A x \in S : x.end <= Top
    /\ C = Covered(S)

IntervalInv ==
    /\ Holds(intervals, covered)
    /\ part = "intervals" => got = want

LEMMA ArgumentType ==
    ASSUME NEW S, NEW C, Holds(S, C), NEW iv \in Arguments
    PROVE  /\ iv \in Interval /\ iv.begin \in Nat /\ iv.end \in Nat /\ iv.begin < iv.end
           /\ iv.end <= Top /\ Top \in Nat
           /\ FarFromWrap(S \cup {iv})
           /\ \A x \in S : x.begin \in Nat /\ x.end \in Nat /\ x.begin < x.end /\ x.end <= Top
<1>0. Top \in Nat /\ Top + 2 < M /\ M \in Nat
  BY ContainersAssumption, MAssumption
<1>1. iv \in Interval /\ iv.end <= Top /\ S \in SUBSET Interval /\ \A x \in S : x.end <= Top
  BY DEF Arguments, Holds
<1>2. \A x \in S \cup {iv} : x.begin \in Nat /\ x.end \in Nat /\ x.begin < x.end
  BY <1>1, IntervalType
<1>3. \A x \in S \cup {iv} : x.end + 2 < M
  BY <1>0, <1>1, <1>2
<1> QED
  BY <1>0, <1>1, <1>2, <1>3 DEF FarFromWrap

LEMMA NumbersAdded ==
    ASSUME NEW S, NEW iv, iv.begin \in Nat, iv.end \in Nat
    PROVE  Covered(S \cup {iv}) = Covered(S) \cup Numbers(iv)
<1>1. \A p : p \in Numbers(iv) <=> p \in Nat /\ In(p, iv)
  BY DEF Numbers, In
<1> QED
  BY <1>1 DEF Covered

LEMMA HoldsInserted ==
    ASSUME NEW S, NEW C, Holds(S, C), NEW iv \in Arguments
    PROVE  Holds(emplaceMerge(S, iv).set, C \cup Numbers(iv))
<1> DEFINE m == emplaceMerge(S, iv)
<1>0. /\ iv \in Interval /\ iv.begin \in Nat /\ iv.end \in Nat /\ iv.end <= Top
      /\ FarFromWrap(S \cup {iv})
  BY ArgumentType
<1>1. S \in SUBSET Interval /\ Separated(S) /\ C = Covered(S) /\ \A x \in S : x.end <= Top
  BY DEF Holds
<1>2. Inserted(S, iv, m)
  BY <1>0, <1>1, EmplaceMergeExact
<1> HIDE DEF m
<1>3. /\ m.set \in SUBSET Interval /\ Separated(m.set) /\ Covered(m.set) = Covered(S \cup {iv})
      /\ Ends(m.set) \subseteq Ends(S) \cup {iv.end}
  BY <1>2 DEF Inserted
<1>4. \A x \in m.set : x.end <= Top
  BY <1>0, <1>1, <1>3 DEF Ends
<1>5. Covered(m.set) = C \cup Numbers(iv)
  BY <1>0, <1>1, <1>3, NumbersAdded
<1> QED
  BY <1>3, <1>4, <1>5 DEF Holds, m

\* mergeRemove returns the end of the run of numbers around iv, and takes out
\* that run.
LEMMA HoldsRemoved ==
    ASSUME NEW S, NEW C, Holds(S, C), NEW iv \in Arguments
    PROVE  /\ Holds(mergeRemove(S, iv).set, C \ Run(C \cup Numbers(iv), iv.begin))
           /\ mergeRemove(S, iv).end = RunEnd(C \cup Numbers(iv), iv.begin)
<1> DEFINE m == mergeRemove(S, iv)
           e == mergeRemove(S, iv).end
           b == iv.begin
           A == C \cup Numbers(iv)
<1>0. /\ iv \in Interval /\ b \in Nat /\ iv.end \in Nat /\ b < iv.end /\ iv.end <= Top /\ Top \in Nat
      /\ FarFromWrap(S \cup {iv})
      /\ \A x \in S : x.begin \in Nat /\ x.end \in Nat /\ x.begin < x.end /\ x.end <= Top
  BY ArgumentType
<1>1. S \in SUBSET Interval /\ Separated(S) /\ C = Covered(S)
  BY DEF Holds
<1>2. Merged(S, iv, m)
  BY <1>0, <1>1, MergeRemoveExact
<1>3. A = Covered(S \cup {iv})
  BY <1>0, <1>1, NumbersAdded
<1> HIDE DEF m, A
<1>4. /\ m.set \in SUBSET S /\ m.end \in Ends(S) \cup {iv.end} /\ m.end >= iv.end
      /\ \A p \in Nat : b <= p /\ p < m.end => p \in A
      /\ \A y \in m.set : y.end < b \/ m.end < y.begin
      /\ \A y \in S \ m.set : y.end <= m.end /\ b <= y.end
  BY <1>2, <1>3 DEF Merged
<1>5. e = m.end /\ e \in Nat /\ e <= Top /\ b < e
  BY <1>0, <1>4 DEF Ends, m
<1> HIDE DEF e, b
<1>6. A \in SUBSET Nat /\ \A p \in Nat : p \in A <=> In(p, iv) \/ \E x \in S : In(p, x)
  BY <1>3 DEF Covered
<1>7. e \notin A
  <2>1. ~In(e, iv)
    BY <1>0, <1>4, <1>5 DEF In
  <2>2. ASSUME NEW x \in S, In(e, x) PROVE FALSE
    <3>1. x.begin <= e /\ e < x.end /\ x.begin \in Nat /\ x.end \in Nat
      BY <1>0, <2>2 DEF In
    <3>2. CASE x \in m.set
      BY <1>0, <1>4, <1>5, <3>1, <3>2
    <3>3. CASE x \notin m.set
      BY <1>4, <1>5, <3>1, <3>3
    <3> QED
      BY <3>2, <3>3
  <2> QED
    BY <1>5, <1>6, <2>1, <2>2
<1>8. \A p \in Nat : b <= p /\ p < e => p \in A
  BY <1>4, <1>5
<1>9. RunEnd(A, b) = e
  <2>1. e \in b .. Top /\ e \notin A /\ b .. e - 1 \subseteq A
    BY <1>0, <1>5, <1>7, <1>8
  <2>2. ASSUME NEW t \in b .. Top, t \notin A, b .. t - 1 \subseteq A PROVE t = e
    <3>1. CASE t < e
      BY <1>0, <1>8, <2>2, <3>1
    <3>2. CASE e < t
      <4>1. e \in b .. t - 1
        BY <1>0, <1>5, <3>2
      <4> QED
        BY <1>7, <2>2, <4>1
    <3> QED
      BY <1>0, <1>5, <3>1, <3>2
  <2> QED
    BY <2>1, <2>2 DEF RunEnd
<1>10. ASSUME NEW y \in S
       PROVE  y.end \notin C
  <2>1. ASSUME NEW z \in S, In(y.end, z) PROVE FALSE
    <3>1. z.begin <= y.end /\ y.end < z.end
      BY <2>1 DEF In
    <3>2. y = z \/ y.end < z.begin \/ z.end < y.begin
      BY <1>1 DEF Separated
    <3> QED
      BY <1>0, <3>1, <3>2
  <2> QED
    BY <1>1, <2>1 DEF Covered
<1>11. C \subseteq A /\ b \in A
  <2>1. b \in A
    BY <1>0, <1>5, <1>8
  <2> QED
    BY <2>1 DEF A
<1>12. ASSUME NEW y \in m.set, NEW p \in Nat, In(p, y) PROVE p \in C /\ p \notin Run(A, b)
  <2>0. y \in S /\ y.begin <= p /\ p < y.end
    BY <1>4, <1>12 DEF In
  <2>1. p \in C
    BY <1>1, <1>12, <2>0 DEF Covered
  <2>2. CASE y.end < b
    <3>1. y.end \in p .. b /\ ~(p >= b)
      BY <1>0, <2>0, <2>2
    <3>2. y.end \notin A
      <4>1. ~In(y.end, iv)
        BY <1>0, <2>0, <2>2 DEF In, b
      <4>2. \A x \in S : ~In(y.end, x)
        BY <1>0, <1>1, <1>10, <2>0 DEF Covered
      <4> QED
        BY <1>0, <1>6, <2>0, <4>1, <4>2
    <3> QED
      BY <2>1, <3>1, <3>2 DEF Run
  <2>3. CASE e < y.begin
    <3>1. e \in b .. p /\ ~(p < b)
      BY <1>0, <1>5, <2>0, <2>3
    <3> QED
      BY <1>7, <2>1, <3>1 DEF Run
  <2> QED
    BY <1>4, <1>5, <2>2, <2>3
<1>13. ASSUME NEW p \in C, p \notin Run(A, b) PROVE \E y \in m.set : In(p, y)
  <2>1. PICK y \in S : p \in Nat /\ In(p, y)
    BY <1>1 DEF Covered
  <2>2. y.begin <= p /\ p < y.end /\ p \in A
    BY <1>11, <2>1 DEF In
  <2>3. ASSUME y \notin m.set PROVE FALSE
    <3>1. y.end <= e /\ b <= y.end
      BY <1>4, <1>5, <2>3
    <3>2. CASE p >= b
      <4>1. b .. p \subseteq A
        BY <1>0, <1>5, <1>8, <2>1, <2>2, <3>1
      <4> QED
        BY <1>13, <2>2, <3>2, <4>1 DEF Run
    <3>3. CASE p < b
      <4>1. ASSUME NEW x \in p .. b PROVE x \in A
        <5>1. x \in Nat /\ p <= x /\ x <= b
          BY <1>0, <2>1
        <5>2. CASE x < y.end
          <6>1. In(x, y)
            BY <1>0, <2>1, <2>2, <5>1, <5>2 DEF In
          <6> QED
            BY <1>6, <5>1, <6>1
        <5>3. CASE ~(x < y.end)
          <6>1. x = b
            BY <1>0, <3>1, <5>1, <5>3
          <6> QED
            BY <1>11, <6>1
        <5> QED
          BY <5>2, <5>3
      <4> QED
        BY <1>13, <2>2, <3>3, <4>1 DEF Run
    <3> QED
      BY <1>0, <2>1, <3>2, <3>3
  <2> QED
    BY <2>1, <2>3
<1>14. C \ Run(A, b) = Covered(m.set)
  <2>1. C \in SUBSET Nat
    BY <1>1 DEF Covered
  <2> QED
    BY <1>12, <1>13, <2>1 DEF Covered
<1>15. m.set \in SUBSET Interval /\ Separated(m.set) /\ \A x \in m.set : x.end <= Top
  BY <1>0, <1>1, <1>4 DEF Separated
<1> QED
  BY <1>5, <1>9, <1>14, <1>15 DEF Holds, m, A, b, e

LEMMA IntervalsKept ==
    ASSUME IntervalInv, [Next]_vars
    PROVE  IntervalInv'
<1>1. ASSUME NEW iv \in Arguments, EmplaceMerge(iv), part' = part PROVE IntervalInv'
  <2>1. Holds(intervals', covered') /\ got' = got /\ want' = want
    BY <1>1, HoldsInserted DEF IntervalInv, EmplaceMerge
  <2> QED
    BY <1>1, <2>1 DEF IntervalInv, Holds
<1>2. ASSUME NEW iv \in Arguments, MergeRemove(iv) PROVE IntervalInv'
  <2>1. Holds(intervals', covered') /\ got' = want'
    BY <1>2, HoldsRemoved DEF IntervalInv, MergeRemove
  <2> QED
    BY <2>1 DEF IntervalInv, Holds
<1>3. CASE IntervalStep
  BY <1>1, <1>2, <1>3 DEF IntervalStep
<1>4. CASE RingStep
  <2>1. intervals' = intervals /\ covered' = covered /\ part' = "ring"
    BY <1>4 DEF RingStep
  <2> QED
    BY <2>1 DEF IntervalInv, Holds
<1>5. CASE TableStep \/ ChecksumStep \/ UNCHANGED vars
  <2>1. /\ intervals' = intervals /\ covered' = covered /\ part' = part
        /\ got' = got /\ want' = want
    BY <1>5 DEF TableStep, ChecksumStep, vars
  <2> QED
    BY <2>1 DEF IntervalInv, Holds
<1> QED
  BY <1>3, <1>4, <1>5 DEF Next

LEMMA HoldsExact ==
    ASSUME IntervalInv
    PROVE  IntervalsExact
<1>1. /\ intervals \in SUBSET Interval /\ Separated(intervals) /\ covered = Covered(intervals)
      /\ part = "intervals" => got = want
  BY DEF IntervalInv, Holds
<1>2. \A x \in intervals : x.begin \in Nat /\ x.end \in Nat
  BY <1>1, IntervalType
<1>3. \A x \in intervals : \A p : p \in Numbers(x) <=> p \in Nat /\ In(p, x)
  BY <1>2 DEF Numbers, In
<1>4. UNION {Numbers(iv) : iv \in intervals} = covered
  BY <1>1, <1>3 DEF Covered
<1> QED
  BY <1>1, <1>4 DEF IntervalsExact, Separated

\* After any sequence of insertions and removals the intervals are the maximal
\* runs of the numbers inserted and not removed, and each mergeRemove() returned
\* the first missing one, which onRecv() acknowledges.
THEOREM IntervalsAlwaysExact == Spec => []IntervalsExact
<1>1. Init => IntervalInv
  <2>1. ASSUME Init PROVE IntervalInv
    <3>1. intervals = {} /\ covered = {} /\ got = want
      BY <2>1 DEF Init
    <3>2. Holds({}, {})
      BY DEF Holds, Separated, Covered
    <3> QED
      BY <3>1, <3>2 DEF IntervalInv
  <2> QED
    BY <2>1
<1>2. IntervalInv /\ [Next]_vars => IntervalInv'
  BY IntervalsKept
<1>3. IntervalInv => IntervalsExact
  BY HoldsExact
<1> QED
  BY <1>1, <1>2, <1>3, PTL DEF Spec
=============================================================================
