------------------------ MODULE RetransmissionQueue ------------------------
(***************************************************************************)
(* RetransmissionQueue of tcp/retransmission_queue.hpp as operators on its *)
(* deque.  An entry is the packet's sequence number, its payload and the   *)
(* number of times it has been retransmitted.  lastSent and the RTO are    *)
(* abstracted: which entries have expired is an argument.                  *)
(***************************************************************************)
EXTENDS Integers, Sequences

CONSTANT MaxRetransmissions     \* MAX_RETRANSMISSIONS (5 in the program)

ASSUME MaxRetransmissionsAssumption == MaxRetransmissions \in Nat

NewEntry(seq, data) == [seq |-> seq, data |-> data, counter |-> 0]

\* uint32_t + size_t: the sum does not wrap.  A SYN or a FIN has no payload,
\* so the sequence number it occupies is not counted.
getEndExclusive(e) == e.seq + Len(e.data)

\* Mutant: an entry counts as acknowledged once its first byte is.
FirstUnackedBySeq(q, ack) ==
    CHOOSE n \in 1 .. Len(q) + 1 :
        /\ \A i \in 1 .. n - 1 : q[i].seq <= ack
        /\ n <= Len(q) => q[n].seq > ack

\* ranges::upper_bound over the entries' ends, which enqueue keeps sorted.
FirstUnacked(q, ack) ==
    CHOOSE n \in 1 .. Len(q) + 1 :
        /\ \A i \in 1 .. n - 1 : getEndExclusive(q[i]) <= ack
        /\ n <= Len(q) => getEndExclusive(q[n]) > ack

\* onAck(): the entirely acknowledged entries leave the front of the deque.
DropAcked(q, ack) == SubSeq(q, FirstUnacked(q, ack), Len(q))

\* The assertion of enqueue().
InOrder(q, seq) == q = <<>> \/ seq >= getEndExclusive(q[Len(q)])

---------------------------------------------------------------------------
(* getExpiredEntries(rightWindowEdge).                                     *)

\* Mutant: the other answer to the comment "or should it be `<` ?".
EligibleStrictly(q, expired, edge) == {i \in expired : getEndExclusive(q[i]) < edge}

Eligible(q, expired, edge) == {i \in expired : getEndExclusive(q[i]) <= edge}

\* The entries that would be retransmitted once too often.
Exhausted(q, el) == {i \in el : q[i].counter + 1 > MaxRetransmissions}

\* Counters go up in deque order; the scan stops at the first exhausted entry.
Retransmitted(q, el) ==
    [i \in DOMAIN q |->
        IF i \in el /\ \A j \in Exhausted(q, el) : i <= j
        THEN [q[i] EXCEPT !.counter = @ + 1]
        ELSE q[i]]
=============================================================================
