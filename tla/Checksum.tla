------------------------------ MODULE Checksum ------------------------------
(***************************************************************************)
(* ip::util::ipv4Checksum(): the words of the header but for the checksum  *)
(* are added up in a wide integer, which is folded twice.                  *)
(***************************************************************************)
EXTENDS Naturals

CONSTANTS Base,   \* values of a word, 2^16 in the program
          Words   \* words that are added up: 9 of a header without options,
                  \* 29 of the longest

ASSUME ChecksumAssumption == Base \in Nat /\ Words \in Nat /\ 1 < Base /\ Words < Base

Word == 0 .. Base - 1

High(s) == s \div Base
Low(s)  == s % Base

\* Mutant of Folded: the second carry is forgotten.
FoldedOnce(s) == Low(High(s) + Low(s))

Folded(s) == LET c == High(s) + Low(s) IN Low(c + High(c))

\* The checksum of a header whose words add up to s.
ipv4Checksum(s) == Base - 1 - Folded(s)
=============================================================================
