------------------------------- MODULE Seq32 -------------------------------
(***************************************************************************)
(* std::uint32_t arithmetic of TCP sequence numbers.  The code keeps every *)
(* sequence number (una_, nxt_, nbw_, nbr_, ackNum, seqNum) and the window *)
(* wnd_ in a uint32_t: sums and differences are taken modulo the size of   *)
(* the type, comparisons are the plain ones of unsigned integers.  M is    *)
(* that size: 2^32 in the program, small in the models.                    *)
(***************************************************************************)
EXTENDS Integers

CONSTANT M

ASSUME MAssumption == M \in Nat /\ M > 1

U32 == 0 .. M - 1

\* a + b and a - b on uint32_t, for operands at most M.
Add(a, b) == IF a + b < M THEN a + b ELSE a + b - M
Sub(a, b) == IF a >= b THEN a - b ELSE a - b + M
=============================================================================
