---------------------------- MODULE RingBuffer ----------------------------
(***************************************************************************)
(* RingBuffer<T, N> of tcp/buffers.hpp, the circular array under both the  *)
(* send and the receive buffer.  A buffer is a function on 0 .. N-1; `at'  *)
(* and `last' are absolute (size_t, unwrapped) positions, both inclusive.  *)
(*                                                                         *)
(* write/read follow the code: one copy when the range does not cross the  *)
(* end of the array, two copies when it does.  RingWrite/RingRead say what *)
(* the two are for, cell by cell, without the case split; the run          *)
(* containers shows that they agree.                                       *)
(***************************************************************************)
EXTENDS Integers, Sequences

CONSTANT N

ASSUME NAssumption == N \in Nat /\ N > 1

Cells == 0 .. N - 1

idx(seq) == seq % N

Min2(a, b) == IF a <= b THEN a ELSE b

---------------------------------------------------------------------------
(* The code.                                                               *)

\* std::copy of the first n elements of data to buf[pos ..].
Copy(buf, data, n, pos) ==
    [c \in DOMAIN buf |-> IF c \in pos .. pos + n - 1 THEN data[c - pos + 1] ELSE buf[c]]

\* Mutant of write: the second copy does not skip the n1 elements already copied.
WriteSecondCopyFromStart(buf, data, at, last) ==
    IF at >= last THEN [n |-> 0, buf |-> buf]
    ELSE LET a  == idx(at)
             l  == idx(last)
             n1 == IF a <= l THEN Min2(l + 1 - a, Len(data)) ELSE Min2(N - a, Len(data))
             n2 == IF a <= l THEN 0 ELSE Min2(l + 1, Len(data) - n1)
         IN [n |-> n1 + n2, buf |-> Copy(Copy(buf, data, n1, a), data, n2, 0)]

\* write(): returns the new contents and the number of elements written.
write(buf, data, at, last) ==
    IF at >= last THEN [n |-> 0, buf |-> buf]
    ELSE LET a  == idx(at)
             l  == idx(last)
             n1 == IF a <= l THEN Min2(l + 1 - a, Len(data)) ELSE Min2(N - a, Len(data))
             n2 == IF a <= l THEN 0 ELSE Min2(l + 1, Len(data) - n1)
         IN [n |-> n1 + n2,
             buf |-> Copy(Copy(buf, data, n1, a), SubSeq(data, n1 + 1, Len(data)), n2, 0)]

\* read(): the elements copied into a caller's buffer of the given size.
read(buf, size, at, last) ==
    IF at > last THEN <<>>
    ELSE LET a  == idx(at)
             l  == idx(last)
             n1 == IF a <= l THEN Min2(l + 1 - a, size) ELSE Min2(N - a, size)
             n2 == IF a <= l THEN 0 ELSE Min2(l + 1, size - n1)
         IN [i \in 1 .. n1 |-> buf[a + i - 1]] \o [i \in 1 .. n2 |-> buf[i - 1]]

---------------------------------------------------------------------------
(* What the code is for.                                                   *)

\* A range of a single cell (at = last) is never written: the code returns
\* at once when at >= last although `last' is inclusive.
WriteCount(len, at, last) == IF at >= last THEN 0 ELSE Min2(len, last - at + 1)

\* data[i] lands in the cell of position at + i - 1, nothing else changes.
RingWrite(buf, data, at, last) ==
    LET n == WriteCount(Len(data), at, last)
        \* the index in data of the element that falls on cell c
        at_(c) == ((c - idx(at)) % N) + 1
    IN [n   |-> n,
        buf |-> [c \in Cells |-> IF at_(c) <= n THEN data[at_(c)] ELSE buf[c]]]

\* The elements at positions at, at + 1, ... , cut to the caller's buffer.
RingRead(buf, size, at, last) ==
    [i \in 1 .. Min2(size, last - at + 1) |-> buf[idx(at + i - 1)]]
=============================================================================
