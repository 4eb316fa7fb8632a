------------------------- MODULE SendBuffer_proofs -------------------------
(***************************************************************************)
(* Theorems about SendBuffer, for every buffer size, sequence space,       *)
(* segment size and behaviour of the peer.                                 *)
(***************************************************************************)
EXTENDS SendBuffer, ContainerOps_proofs

USE MAssumption, NAssumption, MaxRetransmissionsAssumption, SendAssumption

---------------------------------------------------------------------------
(* Sequence-number arithmetic.                                             *)

\* uint32_t sums and differences stay in the type.
LEMMA AddSubType ==
    \A a, b \in U32 : Add(a, b) \in U32 /\ Sub(a, b) \in U32
BY DEF Add, Sub, U32

\* A ring cell index is a cell.
LEMMA IdxType == \A p \in Int : idx(p) \in Cells
BY DEF idx, Cells

---------------------------------------------------------------------------
(* Helpers of the ring and of the retransmission queue.                    *)

\* write() stores between 0 and len bytes, and no more than the range holds.
LEMMA WriteCountBounds ==
    ASSUME NEW len \in Nat, NEW at \in Int, NEW last \in Int
    PROVE  /\ WriteCount(len, at, last) \in 0 .. len
           /\ at < last => WriteCount(len, at, last) <= last - at + 1
           /\ at >= last => WriteCount(len, at, last) = 0
BY DEF WriteCount, Min2

\* The ring keeps its type under a write of bytes.
LEMMA RingWriteType ==
    ASSUME NEW b \in [Cells -> Bytes], NEW data \in Seq(Bytes),
           NEW at \in Nat, NEW last \in Int
    PROVE  RingWrite(b, data, at, last).buf \in [Cells -> Bytes]
<1> DEFINE n == WriteCount(Len(data), at, last)
           k(c) == ((c - idx(at)) % N) + 1
<1>1. Len(data) \in Nat
  OBVIOUS
<1>2. n \in 0 .. Len(data)
  BY <1>1 DEF WriteCount, Min2
<1>3. ASSUME NEW c \in Cells
      PROVE  k(c) \in Nat \ {0}
  <2>1. c - idx(at) \in Int
    BY IdxType DEF Cells
  <2>2. (c - idx(at)) % N \in Nat
    BY <2>1, IdxType DEF idx, Cells
  <2> QED
    BY <2>2
<1> HIDE DEF n, k
<1>4. \A c \in Cells : (IF k(c) <= n THEN data[k(c)] ELSE b[c]) \in Bytes
  BY <1>1, <1>2, <1>3
<1> QED
  BY <1>4 DEF RingWrite, n, k

\* What read() hands out is a sequence of bytes.
LEMMA RingReadType ==
    ASSUME NEW b \in [Cells -> Bytes], NEW size \in Nat,
           NEW at \in Nat, NEW last \in Nat, at <= last
    PROVE  RingRead(b, size, at, last) \in Seq(Bytes)
<1> DEFINE n == Min2(size, last - at + 1)
<1>1. n \in Nat
  BY DEF Min2
<1> HIDE DEF n
<1>2. \A i \in 1 .. n : b[idx(at + i - 1)] \in Bytes
  BY <1>1, IdxType
<1> QED
  BY <1>1, <1>2 DEF RingRead, n

\* The search of RetransmissionQueue::onAck() finds a place in the deque.
LEMMA FirstUnackedType ==
    ASSUME NEW q \in Seq(Entry), NEW ack \in Int
    PROVE  /\ FirstUnacked(q, ack) \in 1 .. Len(q) + 1
           /\ \A i \in 1 .. FirstUnacked(q, ack) - 1 : getEndExclusive(q[i]) <= ack
<1> DEFINE T == {n \in 1 .. Len(q) : getEndExclusive(q[n]) > ack}
           Good(n) == /\ \A i \in 1 .. n - 1 : getEndExclusive(q[i]) <= ack
                      /\ n <= Len(q) => getEndExclusive(q[n]) > ack
<1>0. ASSUME NEW i \in 1 .. Len(q)
      PROVE  getEndExclusive(q[i]) \in Int
  <2>1. q[i] \in Entry
    OBVIOUS
  <2>2. q[i].seq \in Int /\ q[i].data \in Seq(Bytes)
    BY <2>1 DEF Entry, U32
  <2>3. Len(q[i].data) \in Nat
    BY <2>2
  <2> QED
    BY <2>2, <2>3 DEF getEndExclusive
<1>1. \E n \in 1 .. Len(q) + 1 : Good(n)
  <2>1. CASE T = {}
    <3>1. Good(Len(q) + 1)
      BY <2>1, <1>0
    <3> QED
      BY <3>1
  <2>2. CASE T # {}
    <3>0. T \subseteq Nat
      BY Len(q) \in Nat
    <3>1. PICK m \in T : \A y \in T : ~(<<y, m>> \in OpToRel(<, Nat))
      BY <2>2, <3>0, NatLessThanWellFounded, WFMin, Zenon
    <3>2. ASSUME NEW y \in T
          PROVE  ~(y < m)
      <4>1. y \in Nat /\ m \in Nat /\ ~(<<y, m>> \in OpToRel(<, Nat))
        BY <3>0, <3>1
      <4> HIDE DEF T
      <4> QED
        BY <4>1, SMT DEF OpToRel
    <3>3. Good(m)
      BY <3>2, <1>0
    <3> QED
      BY <3>3
  <2> QED
    BY <2>1, <2>2
<1> QED
  BY <1>1 DEF FirstUnacked

\* Dropping acknowledged entries leaves a deque of entries.
LEMMA DropAckedType ==
    ASSUME NEW q \in Seq(Entry), NEW ack \in Int
    PROVE  DropAcked(q, ack) \in Seq(Entry)
<1> DEFINE m == FirstUnacked(q, ack)
<1>1. m \in 1 .. Len(q) + 1 /\ Len(q) \in Nat
  BY FirstUnackedType
<1> HIDE DEF m
<1>2. \A i \in m .. Len(q) : q[i] \in Entry
  BY <1>1
<1>3. SubSeq(q, m, Len(q)) \in Seq(Entry)
  BY <1>1, <1>2, SubSeqProperties
<1> QED
  BY <1>3 DEF DropAcked, m

\* A retransmitted entry is an entry.
LEMMA CountedEntry ==
    ASSUME NEW e \in Entry
    PROVE  [e EXCEPT !.counter = @ + 1] \in Entry
<1> DEFINE S == Seq(Bytes)
<1>1. e \in [seq : U32, data : S, counter : Nat]
  BY DEF Entry
<1> HIDE DEF S
<1>2. [e EXCEPT !.counter = @ + 1] \in [seq : U32, data : S, counter : Nat]
  BY <1>1
<1> QED
  BY <1>2 DEF Entry, S

\* So does a retransmission scan.
LEMMA RetransmittedType ==
    ASSUME NEW q \in Seq(Entry), NEW el
    PROVE  Retransmitted(q, el) \in Seq(Entry)
<1> DEFINE r(i) == IF i \in el /\ \A j \in Exhausted(q, el) : i <= j
                   THEN [q[i] EXCEPT !.counter = @ + 1]
                   ELSE q[i]
<1>1. Len(q) \in Nat /\ DOMAIN q = 1 .. Len(q)
  OBVIOUS
<1>2. ASSUME NEW i \in 1 .. Len(q)
      PROVE  r(i) \in Entry
  <2>1. q[i] \in Entry
    OBVIOUS
  <2>2. [q[i] EXCEPT !.counter = @ + 1] \in Entry
    BY <2>1, CountedEntry
  <2> QED
    BY <2>1, <2>2
<1>3. Retransmitted(q, el) = [i \in 1 .. Len(q) |-> r(i)]
  BY <1>1 DEF Retransmitted
<1> HIDE DEF r
<1> QED
  BY <1>1, <1>2, <1>3

\* A packet put on the queue is an entry.
LEMMA NewEntryType ==
    ASSUME NEW seq \in U32, NEW data \in Seq(Bytes)
    PROVE  NewEntry(seq, data) \in Entry
BY DEF NewEntry, Entry

\* enqueue() leaves a deque of entries, or ends the process.
LEMMA EnqueueType ==
    ASSUME TypeOK, NEW seq \in U32, NEW data \in Seq(Bytes), Enqueue(seq, data)
    PROVE  deque' \in Seq(Entry) /\ aborted' \in {"no", "write", "enqueue", "enqueueZwp"}
<1>1. NewEntry(seq, data) \in Entry
  BY NewEntryType
<1>2. deque \in Seq(Entry) /\ aborted \in {"no", "write", "enqueue", "enqueueZwp"}
  BY DEF TypeOK
<1>3. Append(deque, NewEntry(seq, data)) \in Seq(Entry)
  BY <1>1, <1>2
<1> QED
  BY <1>2, <1>3 DEF Enqueue

\* A notification keeps a thread's record well formed.
LEMMA WakeType ==
    /\ \A t \in Writer : Wake(t) \in Writer
    /\ \A t \in Sender : Wake(t) \in Sender
    /\ \A t \in Zwp : Wake(t) \in Zwp
<1>1. \A t \in Writer : Wake(t) \in Writer
  BY DEF Wake, Writer
<1>2. ASSUME NEW t \in Sender
      PROVE  Wake(t) \in Sender
  <2> DEFINE S == Seq(Bytes)
  <2>1. t \in [pc : {"ready", "asleep", "enqueue", "done"}, seq : U32, data : S]
    BY DEF Sender
  <2> HIDE DEF S
  <2>2. Wake(t) \in [pc : {"ready", "asleep", "enqueue", "done"}, seq : U32, data : S]
    BY <2>1 DEF Wake
  <2> QED
    BY <2>2 DEF Sender, S
<1>3. \A t \in Zwp : Wake(t) \in Zwp
  BY DEF Wake, Zwp
<1> QED
  BY <1>1, <1>2, <1>3

\* The usable window is part of the window and of the bytes not sent.
LEMMA CanSendBounds ==
    ASSUME NEW u \in U32, NEW x \in U32, NEW b \in U32, NEW w \in U32
    PROVE  CanSend(u, x, b, w) \in Nat
           /\ CanSend(u, x, b, w) <= w
           /\ CanSend(u, x, b, w) <= Sub(b, x)
BY DEF CanSend, Min2, U32, Sub

---------------------------------------------------------------------------
(* Type correctness.                                                       *)

\* A socket starts with its types right.
LEMMA TypeInit == Init => TypeOK
<1> SUFFICES ASSUME Init PROVE TypeOK
  OBVIOUS
<1>1. NewEntry(ISN, <<>>) \in Entry
  BY NewEntryType, <<>> \in Seq(Bytes)
<1>2. deque \in Seq(Entry) /\ zwpEntry \in Seq(Entry)
  BY <1>1 DEF Init
<1>3. una \in U32 /\ nxt \in U32 /\ nbw \in U32 /\ wnd \in U32 /\ stopped \in BOOLEAN
  BY AddSubType, 1 \in U32 DEF Init, U32
<1>4. buf \in [Cells -> Bytes]
  BY DEF Init, Junk, Bytes
<1>5. /\ writer \in Writer /\ zwp \in Zwp /\ rtx \in Rtx
      /\ closer \in [Closers -> Closer] /\ fins \in FinHistory
  BY SendAssumption DEF Init, Writer, Zwp, Rtx, Closer, FinHistory, U32
<1>6. sender \in Sender
  BY DEF Init, Sender
<1>7. pendingAcks \subseteq U32 /\ adv \in Nat /\ aborted \in {"no", "write", "enqueue", "enqueueZwp"}
  BY <1>3 DEF Init, U32
<1> QED
  BY <1>2, <1>3, <1>4, <1>5, <1>6, <1>7 DEF TypeOK

\* onAck() keeps the types, whatever acknowledgement number it is given.
LEMMA OnAckType ==
    ASSUME TypeOK, NEW ack \in U32, NEW w \in Wnds, OnAck(ack, w)
    PROVE  TypeOK'
<1>1. w \in U32 /\ una \in U32 /\ wnd \in U32 /\ adv \in Nat
  BY DEF TypeOK
<1>2. wnd' \in U32 /\ una' \in U32
  BY <1>1 DEF OnAck
<1>3. sender' \in Sender
  BY WakeType DEF OnAck, TypeOK
<1>4. zwp' \in Zwp
  <2>1. zwp \in Zwp /\ Wake(zwp) \in Zwp
    BY WakeType DEF TypeOK
  <2>2. [zwp EXCEPT !.state = 0] \in Zwp
    BY <2>1 DEF Zwp
  <2>3. ZwpOnAck(ack, w) \in Zwp
    BY <2>1, <2>2 DEF ZwpOnAck
  <2> QED
    BY <2>1, <2>3 DEF OnAck
<1>5. pendingAcks' \subseteq U32
  BY DEF OnAck, TypeOK
<1>6. adv' \in Nat
  BY <1>1 DEF OnAck, Max2, U32
<1> QED
  BY <1>2, <1>3, <1>4, <1>5, <1>6 DEF OnAck, TypeOK, queueVars

\* Every critical section keeps the types.
LEMMA TypeNext == TypeOK /\ [Next]_vars => TypeOK'
<1> SUFFICES ASSUME TypeOK, [Next]_vars
             PROVE  TypeOK'
  OBVIOUS
<1> USE DEF bufferVars, queueVars
<1>1. ASSUME NEW k \in WriteSizes, AppWrite(k)
      PROVE  TypeOK'
  <2>1. writer' \in Writer
    BY <1>1 DEF AppWrite, Writer
  <2> QED
    BY <1>1, <2>1 DEF AppWrite, TypeOK
<1>2. CASE WriterSleep
  <2>1. writer' \in Writer
    BY <1>2 DEF WriterSleep, Writer, TypeOK
  <2> QED
    BY <1>2, <2>1 DEF WriterSleep, TypeOK
<1>3. CASE WriterStop
  <2>1. writer' \in Writer
    BY <1>3 DEF WriterStop, Writer
  <2> QED
    BY <1>3, <2>1 DEF WriterStop, TypeOK
<1>4. CASE WriterWrite
  <2> DEFINE data == [i \in 1 .. writer.left |-> (nbw + i - 1) % M]
             n    == WriteCount(Len(data), nbw, FreeUpTo(nbw, SizeFree))
  <2>1. writer.left \in Nat /\ nbw \in Nat /\ nbw \in U32 /\ una \in U32
    BY DEF TypeOK, Writer, U32
  <2>2. data \in Seq(Bytes) /\ Len(data) = writer.left
    <3>1. \A i \in 1 .. writer.left : (nbw + i - 1) % M \in Bytes
      BY <2>1 DEF Bytes
    <3> QED
      BY <2>1, <3>1
  <2>3. FreeUpTo(nbw, SizeFree) \in Int
    BY <2>1, AddSubType DEF FreeUpTo, SizeFree, U32
  <2>4. n \in 0 .. writer.left /\ n <= N
    <3>1. SizeFree \in Int /\ SizeFree <= N
      BY <2>1 DEF SizeFree, Sub, U32
    <3> QED
      BY <2>1, <2>2, <3>1 DEF WriteCount, Min2, FreeUpTo
  <2>5. RingWrite(buf, data, nbw, FreeUpTo(nbw, SizeFree)).n = n
    BY DEF RingWrite
  <2>6. buf' \in [Cells -> Bytes]
    BY <1>4, <2>1, <2>2, <2>3, RingWriteType DEF WriterWrite, TypeOK
  <2> HIDE DEF data, n
  <2>7. nbw' = Add(nbw, n) /\ writer' = [pc |-> IF writer.left = n THEN "idle" ELSE "ready",
                                          left |-> writer.left - n]
    BY <1>4, <2>5 DEF WriterWrite, data
  <2>8. nbw' \in U32
    BY <2>1, <2>4, <2>7 DEF Add, U32
  <2>9. writer' \in Writer
    BY <2>7, <2>4, <2>1 DEF Writer
  <2>10. sender' \in Sender
    BY <1>4, WakeType DEF WriterWrite, TypeOK
  <2> QED
    BY <1>4, <2>6, <2>8, <2>9, <2>10 DEF WriterWrite, TypeOK
<1>5. CASE SenderSleep
  <2>1. sender' \in Sender
    BY <1>5 DEF SenderSleep, Sender, TypeOK
  <2> QED
    BY <1>5, <2>1 DEF SenderSleep, TypeOK
<1>6. CASE SenderStop
  <2>1. sender' \in Sender
    BY <1>6 DEF SenderStop, Sender, TypeOK
  <2> QED
    BY <1>6, <2>1 DEF SenderStop, TypeOK
<1>7. CASE SenderTake
  <2> DEFINE n == Min2(SizeCanSend, MSS)
  <2>1. una \in U32 /\ nxt \in U32 /\ nbw \in U32 /\ wnd \in U32 /\ nxt \in Nat
    BY DEF TypeOK, U32
  <2>2. SizeCanSend \in Nat /\ SizeCanSend <= wnd /\ SizeCanSend > 0
    BY <1>7, <2>1, CanSendBounds DEF SizeCanSend, SenderTake
  <2>3. n \in 1 .. wnd
    BY <2>1, <2>2 DEF Min2, U32
  <2> HIDE DEF n
  <2>4. RingRead(buf, n, nxt, nxt + n - 1) \in Seq(Bytes)
    <3>1. n \in Nat /\ nxt + n - 1 \in Nat /\ nxt <= nxt + n - 1 /\ buf \in [Cells -> Bytes]
      BY <2>1, <2>3 DEF TypeOK, U32
    <3> QED
      BY <2>1, <3>1, RingReadType
  <2>5. sender' \in Sender
    BY <1>7, <2>1, <2>4 DEF SenderTake, Sender, n
  <2>6. wnd' \in U32 /\ nxt' \in U32
    BY <1>7, <2>1, <2>3 DEF SenderTake, n, Add, U32
  <2> QED
    BY <1>7, <2>5, <2>6 DEF SenderTake, TypeOK
<1>8. CASE SenderEnqueue
  <2>1. sender.seq \in U32 /\ sender.data \in Seq(Bytes)
    BY DEF TypeOK, Sender
  <2>2. deque' \in Seq(Entry) /\ aborted' \in {"no", "write", "enqueue", "enqueueZwp"}
    BY <1>8, <2>1, EnqueueType DEF SenderEnqueue
  <2>3. sender' \in Sender
    BY <1>8, <<>> \in Seq(Bytes) DEF SenderEnqueue, Sender
  <2> QED
    BY <1>8, <2>2, <2>3 DEF SenderEnqueue, TypeOK
<1>9. ASSUME NEW ack \in PeerAcks, NEW w \in Wnds, OnAck(ack, w)
      PROVE  TypeOK'
  BY <1>9, OnAckType DEF PeerAcks
<1>10. ASSUME NEW w \in Wnds, GetFin(w)
       PROVE  TypeOK'
  <2>1. 0 \in U32
    BY DEF U32
  <2> QED
    BY <1>10, <2>1, OnAckType DEF GetFin
<1>11. ASSUME NEW ack \in pendingAcks, AckQueue(ack)
       PROVE  TypeOK'
  <2>1. ack \in Int
    BY DEF TypeOK, U32
  <2>2. deque' \in Seq(Entry)
    BY <1>11, <2>1, DropAckedType DEF AckQueue, TypeOK
  <2>3. zwpEntry' \in Seq(Entry)
    BY <1>11 DEF AckQueue, TypeOK
  <2>4. writer' \in Writer
    BY <1>11, WakeType DEF AckQueue, TypeOK
  <2>5. pendingAcks' \subseteq U32
    BY <1>11 DEF AckQueue, TypeOK
  <2> QED
    BY <1>11, <2>2, <2>3, <2>4, <2>5 DEF AckQueue, TypeOK
<1>12. CASE ZwpPause
  <2>0. /\ [pc |-> "done", state |-> 0, seq |-> zwp.seq] \in Zwp
        /\ [pc |-> "asleep", state |-> 0, seq |-> zwp.seq] \in Zwp
        /\ [pc |-> "countdown", state |-> 1, seq |-> zwp.seq] \in Zwp
    BY DEF Zwp, TypeOK
  <2>1. zwp' \in Zwp
    BY <1>12, <2>0, Zenon DEF ZwpPause
  <2> QED
    BY <1>12, <2>1 DEF ZwpPause, TypeOK
<1>13. CASE ZwpCountdownEnds
  <2>0. /\ [zwp EXCEPT !.pc = "done"] \in Zwp
        /\ [pc |-> "ready", state |-> 0, seq |-> zwp.seq] \in Zwp
    <3>1. zwp \in Zwp
      BY DEF TypeOK
    <3> QED
      BY <3>1 DEF Zwp
  <2>1. zwp' \in Zwp
    BY <1>13, <2>0, Zenon DEF ZwpCountdownEnds
  <2> QED
    BY <1>13, <2>1 DEF ZwpCountdownEnds, TypeOK
<1>14. CASE ZwpProbe
  <2>1. nxt \in U32 /\ nxt' \in U32
    BY <1>14, AddSubType, 1 \in U32 DEF ZwpProbe, TypeOK, U32
  <2>2. zwp' \in Zwp
    BY <1>14, <2>1 DEF ZwpProbe, Zwp
  <2>3. zwpEntry' \in Seq(Entry)
    <3>1. buf[idx(nxt)] \in Bytes
      BY <2>1, IdxType DEF TypeOK, U32
    <3>2. <<buf[idx(nxt)]>> \in Seq(Bytes)
      BY <3>1
    <3>3. NewEntry(nxt, <<buf[idx(nxt)]>>) \in Entry
      BY <2>1, <3>2, NewEntryType
    <3>4. <<NewEntry(nxt, <<buf[idx(nxt)]>>)>> \in Seq(Entry)
      BY <3>3
    <3> QED
      BY <1>14, <3>4 DEF ZwpProbe, TypeOK
  <2>4. aborted' \in {"no", "write", "enqueue", "enqueueZwp"}
    BY <1>14 DEF ZwpProbe, TypeOK
  <2> QED
    BY <1>14, <2>1, <2>2, <2>3, <2>4 DEF ZwpProbe, TypeOK
<1>15. CASE ZwpAcked
  <2>1. zwp' \in Zwp
    BY <1>15 DEF ZwpAcked, Zwp, TypeOK
  <2> QED
    BY <1>15, <2>1 DEF ZwpAcked, TypeOK
<1>16. ASSUME NEW c \in Closers, CloseGetNxt(c)
       PROVE  TypeOK'
  <2>1. closer' \in [Closers -> Closer]
    BY <1>16 DEF CloseGetNxt, Closer, TypeOK
  <2> QED
    BY <1>16, <2>1 DEF CloseGetNxt, TypeOK
<1>17. ASSUME NEW c \in Closers, CloseWriteOne(c)
       PROVE  TypeOK'
  <2>1. closer' \in [Closers -> Closer]
    BY <1>17 DEF CloseWriteOne, Closer, TypeOK
  <2>2. nbw' \in U32 /\ nxt' \in U32
    BY <1>17, AddSubType, 1 \in U32 DEF CloseWriteOne, TypeOK, U32
  <2>3. fins' \in FinHistory
    BY <1>17, SendAssumption DEF CloseWriteOne, FinHistory, TypeOK
  <2> QED
    BY <1>17, <2>1, <2>2, <2>3 DEF CloseWriteOne, TypeOK
<1>18. ASSUME NEW c \in Closers, CloseEnqueue(c)
       PROVE  TypeOK'
  <2>1. closer[c].seq \in U32 /\ <<>> \in Seq(Bytes)
    BY DEF TypeOK, Closer
  <2>2. deque' \in Seq(Entry) /\ aborted' \in {"no", "write", "enqueue", "enqueueZwp"}
    BY <1>18, <2>1, EnqueueType DEF CloseEnqueue
  <2>3. closer' \in [Closers -> Closer]
    BY <1>18, SendAssumption DEF CloseEnqueue, Closer, TypeOK
  <2> QED
    BY <1>18, <2>2, <2>3 DEF CloseEnqueue, TypeOK
<1>19. CASE RtxRead
  <2>1. rtx' \in Rtx
    BY <1>19, AddSubType DEF RtxRead, WndEndExclusive, Rtx, TypeOK
  <2> QED
    BY <1>19, <2>1 DEF RtxRead, TypeOK
<1>20. ASSUME NEW expired \in SUBSET DOMAIN deque, RtxScan(expired)
       PROVE  TypeOK'
  <2>1. rtx' \in Rtx
    BY <1>20 DEF RtxScan, Rtx, U32
  <2>2. deque' \in Seq(Entry)
    BY <1>20, RetransmittedType DEF RtxScan, TypeOK
  <2>3. writer' \in Writer /\ sender' \in Sender /\ zwp' \in Zwp /\ stopped' \in BOOLEAN
    BY <1>20, WakeType DEF RtxScan, ShutDown, TypeOK
  <2> QED
    BY <1>20, <2>1, <2>2, <2>3 DEF RtxScan, TypeOK
<1>21. CASE Abort
  <2>1. writer' \in Writer /\ sender' \in Sender /\ zwp' \in Zwp /\ stopped' \in BOOLEAN
    BY <1>21, WakeType DEF Abort, ShutDown, TypeOK
  <2> QED
    BY <1>21, <2>1 DEF Abort, TypeOK
<1>22. CASE UNCHANGED vars
  BY <1>22 DEF vars, TypeOK
<1>23. CASE WriterAsserts
  BY <1>23 DEF WriterAsserts, TypeOK
<1> QED
  BY <1>1, <1>2, <1>3, <1>4, <1>5, <1>6, <1>7, <1>8, <1>9, <1>10, <1>11, <1>12, <1>13,
     <1>14, <1>15, <1>16, <1>17, <1>18, <1>19, <1>20, <1>21, <1>22, <1>23 DEF Next

\* Every variable keeps its type; in particular the window of sendReadyData()
\* (wnd_ -= n) and the write in progress (remaining -= n) never go below zero,
\* whatever the peer acknowledges.
THEOREM TypeCorrect == Spec => []TypeOK
BY TypeInit, TypeNext, PTL DEF Spec

---------------------------------------------------------------------------
(* The order of the pointers.  The four lemmas are the only ways in which  *)
(* the code moves them.                                                    *)

Ordered(u, x, b, k) == Sub(x, u) + Sub(b, x) = Sub(b, u) /\ Sub(b, u) <= k

\* onAck(): una_ moves up to an acceptable acknowledgement.
LEMMA AckOrdered ==
    ASSUME NEW u \in U32, NEW x \in U32, NEW b \in U32, NEW k \in Nat,
           Ordered(u, x, b, k), NEW ack \in U32, ack > u, ack <= x
    PROVE  Ordered(ack, x, b, k) /\ Sub(b, ack) <= Sub(b, u)
BY DEF Ordered, Sub, U32

\* write(): nbw_ moves into the free space.
LEMMA WriteOrdered ==
    ASSUME NEW u \in U32, NEW x \in U32, NEW b \in U32, NEW k \in Nat,
           Ordered(u, x, b, k), k >= N,
           NEW n \in Nat, n = 0 \/ n <= N - Sub(b, u)
    PROVE  Ordered(u, x, Add(b, n), k)
BY DEF Ordered, Sub, Add, U32

\* sendReadyData() and the prober: nxt_ moves over bytes not sent yet.
LEMMA SendOrdered ==
    ASSUME NEW u \in U32, NEW x \in U32, NEW b \in U32, NEW k \in Nat,
           Ordered(u, x, b, k), NEW n \in Nat, n <= Sub(b, x)
    PROVE  Ordered(u, Add(x, n), b, k)
BY DEF Ordered, Sub, Add, U32

\* sendFin_(): nxt_ and nbw_ move by one, free space or not.
LEMMA FinOrdered ==
    ASSUME NEW u \in U32, NEW x \in U32, NEW b \in U32, NEW k \in Nat, k + 1 < M,
           Ordered(u, x, b, k)
    PROVE  /\ Ordered(u, Add(x, 1), Add(b, 1), k + 1)
           /\ Sub(Add(b, 1), u) = Sub(b, u) + 1
BY DEF Ordered, Sub, Add, U32

\* The bytes the buffer may hold after the FINs counted so far.
Limit == N + fins.n

\* Another FIN is within the bounds.
LEMMA LimitType ==
    ASSUME TypeOK
    PROVE  /\ Limit \in Nat /\ Limit >= N /\ fins.n \in Nat
           /\ fins.n < MaxFins => Limit + 1 < M
BY SendAssumption DEF Limit, TypeOK, FinHistory

\* PointerOrder in the form the lemmas on moving pointers use.
LEMMA PointerOrderDef == PointerOrder <=> Ordered(una, nxt, nbw, Limit)
BY DEF PointerOrder, Ordered, Limit

\* A socket starts with its pointers in order, around the SYN.
LEMMA PointerInit == Init => PointerOrder
<1> SUFFICES ASSUME Init PROVE PointerOrder
  OBVIOUS
<1>1. ISN \in U32 /\ una = ISN /\ nxt = Add(ISN, 1) /\ nbw = Add(ISN, 1) /\ fins.n = 0
  BY DEF Init
<1> QED
  BY <1>1 DEF PointerOrder, Sub, Add, U32

\* onAck() keeps the order, whatever acknowledgement number it is given.
LEMMA OnAckOrder ==
    ASSUME TypeOK, PointerOrder, NEW ack \in U32, NEW w \in Wnds, OnAck(ack, w)
    PROVE  PointerOrder'
<1>1. una \in U32 /\ nxt \in U32 /\ nbw \in U32 /\ Limit \in Nat
  BY LimitType DEF TypeOK
<1>2. nxt' = nxt /\ nbw' = nbw /\ Limit' = Limit
  BY DEF OnAck, Limit
<1>3. Ordered(una, nxt, nbw, Limit)
  BY PointerOrderDef
<1>4. CASE Acceptable(ack)
  <2>1. ack > una /\ ack <= nxt /\ una' = ack
    BY <1>4 DEF Acceptable, OnAck
  <2>2. Ordered(ack, nxt, nbw, Limit)
    BY <1>1, <1>3, <2>1, AckOrdered
  <2> QED
    BY <1>2, <2>1, <2>2 DEF PointerOrder, Ordered, Limit
<1>5. CASE ~Acceptable(ack)
  BY <1>2, <1>5 DEF OnAck, PointerOrder, Limit
<1> QED
  BY <1>4, <1>5

\* Every critical section keeps the pointers in order.
LEMMA PointerNext == TypeOK /\ PointerOrder /\ [Next]_vars => PointerOrder'
<1> SUFFICES ASSUME TypeOK, PointerOrder, [Next]_vars
             PROVE  PointerOrder'
  OBVIOUS
<1>0. /\ una \in U32 /\ nxt \in U32 /\ nbw \in U32 /\ wnd \in U32
      /\ Limit \in Nat /\ Limit >= N
      /\ Ordered(una, nxt, nbw, Limit)
  BY PointerOrderDef, LimitType DEF TypeOK
\* The actions that leave the pointers and the FINs alone.
<1>1. ASSUME UNCHANGED <<una, nxt, nbw, fins>>
      PROVE  PointerOrder'
  BY <1>1 DEF PointerOrder
<1>2. ASSUME NEW k \in WriteSizes, AppWrite(k)
      PROVE  PointerOrder'
  BY <1>1, <1>2 DEF AppWrite, bufferVars
<1>3. CASE WriterSleep \/ WriterStop
  BY <1>1, <1>3 DEF WriterSleep, WriterStop, bufferVars
<1>19. CASE WriterAsserts
  BY <1>1, <1>19 DEF WriterAsserts, bufferVars
<1>4. CASE WriterWrite
  <2> DEFINE data == [i \in 1 .. writer.left |-> (nbw + i - 1) % M]
             n    == WriteCount(Len(data), nbw, FreeUpTo(nbw, SizeFree))
  <2>1. Len(data) \in Nat
    BY DEF TypeOK, Writer
  <2>2. RingWrite(buf, data, nbw, FreeUpTo(nbw, SizeFree)).n = n
    BY DEF RingWrite
  <2>3. n \in Nat /\ (n = 0 \/ n <= N - Sub(nbw, una))
    <3>1. SizeFree \in Int
      BY <1>0 DEF SizeFree, Sub, U32
    <3>2. nbw \in Int
      BY <1>0 DEF U32
    <3> HIDE DEF data
    <3>3. n \in Nat /\ (n = 0 \/ n <= SizeFree)
      BY <2>1, <3>1, <3>2 DEF WriteCount, Min2, FreeUpTo
    <3> QED
      BY <3>3 DEF SizeFree
  <2>4. nbw' = Add(nbw, n)
    BY <1>4, <2>2 DEF WriterWrite
  <2> HIDE DEF data, n
  <2>5. Ordered(una, nxt, Add(nbw, n), Limit)
    BY <1>0, <2>3, WriteOrdered
  <2> QED
    BY <1>4, <2>4, <2>5 DEF WriterWrite, PointerOrder, Ordered, Limit
<1>5. CASE SenderSleep \/ SenderStop \/ SenderEnqueue
  BY <1>1, <1>5 DEF SenderSleep, SenderStop, SenderEnqueue, bufferVars
<1>6. CASE SenderTake
  <2> DEFINE n == Min2(SizeCanSend, MSS)
  <2>1. SizeCanSend \in Nat /\ SizeCanSend <= Sub(nbw, nxt)
    BY <1>0, CanSendBounds DEF SizeCanSend
  <2>2. n \in Nat /\ n <= Sub(nbw, nxt)
    BY <1>0, <2>1, AddSubType DEF Min2, U32
  <2>3. nxt' = Add(nxt, n)
    BY <1>6 DEF SenderTake
  <2> HIDE DEF n
  <2>4. Ordered(una, Add(nxt, n), nbw, Limit)
    BY <1>0, <2>2, SendOrdered
  <2> QED
    BY <1>6, <2>3, <2>4 DEF SenderTake, PointerOrder, Ordered, Limit
<1>7. ASSUME NEW ack \in PeerAcks, NEW w \in Wnds, OnAck(ack, w)
      PROVE  PointerOrder'
  BY <1>7, OnAckOrder DEF PeerAcks
<1>8. ASSUME NEW w \in Wnds, GetFin(w)
      PROVE  PointerOrder'
  <2>1. 0 \in U32
    BY DEF U32
  <2> QED
    BY <1>8, <2>1, OnAckOrder DEF GetFin
<1>9. ASSUME NEW ack \in pendingAcks, AckQueue(ack)
      PROVE  PointerOrder'
  BY <1>1, <1>9 DEF AckQueue, bufferVars
<1>10. CASE ZwpPause \/ ZwpCountdownEnds \/ ZwpAcked
  BY <1>1, <1>10 DEF ZwpPause, ZwpCountdownEnds, ZwpAcked, bufferVars
<1>11. CASE ZwpProbe
  <2>1. 1 \in Nat /\ 1 <= Sub(nbw, nxt)
    <3>1. Sub(nbw, nxt) \in Nat
      BY <1>0, AddSubType DEF U32
    <3>2. Sub(nbw, nxt) # 0
      BY <1>11 DEF ZwpProbe, SizeNotSent
    <3> QED
      BY <3>1, <3>2
  <2>2. Ordered(una, Add(nxt, 1), nbw, Limit)
    BY <1>0, <2>1, SendOrdered
  <2> QED
    BY <1>11, <2>2 DEF ZwpProbe, PointerOrder, Ordered, Limit
<1>12. ASSUME NEW c \in Closers, CloseGetNxt(c) \/ CloseEnqueue(c)
       PROVE  PointerOrder'
  BY <1>1, <1>12 DEF CloseGetNxt, CloseEnqueue, bufferVars
<1>13. ASSUME NEW c \in Closers, CloseWriteOne(c)
       PROVE  PointerOrder'
  <2>1. Ordered(una, Add(nxt, 1), Add(nbw, 1), Limit + 1)
    BY <1>0, <1>13, LimitType, FinOrdered DEF CloseWriteOne
  <2>2. fins'.n = fins.n + 1 /\ fins.n \in Nat
    BY <1>13, LimitType DEF CloseWriteOne
  <2> QED
    BY <1>13, <2>1, <2>2 DEF CloseWriteOne, PointerOrder, Ordered, Limit
<1>15. CASE RtxRead
  BY <1>1, <1>15 DEF RtxRead, bufferVars
<1>16. ASSUME NEW expired \in SUBSET DOMAIN deque, RtxScan(expired)
       PROVE  PointerOrder'
  BY <1>1, <1>16 DEF RtxScan
<1>17. CASE Abort
  BY <1>1, <1>17 DEF Abort
<1>18. CASE UNCHANGED vars
  BY <1>1, <1>18 DEF vars
<1> QED
  BY <1>2, <1>3, <1>4, <1>5, <1>6, <1>7, <1>8, <1>9, <1>10, <1>11, <1>12, <1>13,
     <1>15, <1>16, <1>17, <1>18, <1>19 DEF Next

\* una_ <= nxt_ <= nbw_ on the circle of sequence numbers, and nbw_ is ahead of
\* una_ by no more than N and one for every FIN sent: for every interleaving of
\* the application, any number of threads in vClose(), the threads of the socket
\* and the workers, and for every acknowledgement a peer may send, wrapped or not.
THEOREM PointersOrdered == Spec => []PointerOrder
<1>1. Init => TypeOK /\ PointerOrder
  BY TypeInit, PointerInit
<1>2. TypeOK /\ PointerOrder /\ [Next]_vars => TypeOK' /\ PointerOrder'
  BY TypeNext, PointerNext
<1> QED
  BY <1>1, <1>2, PTL DEF Spec

---------------------------------------------------------------------------
(* No wake-up of a writer is lost.                                         *)

\* onAck() frees space only while it announces a notification.
LEMMA OnAckWakes ==
    ASSUME TypeOK, NoLostWriterWakeup, NEW ack \in U32, NEW w \in Wnds, OnAck(ack, w)
    PROVE  NoLostWriterWakeup'
<1>1. UNCHANGED <<nbw, writer, aborted>>
  BY DEF OnAck
<1>2. CASE Acceptable(ack)
  <2>1. pendingAcks' # {}
    BY <1>2 DEF OnAck
  <2> QED
    BY <2>1 DEF NoLostWriterWakeup
<1>3. CASE ~Acceptable(ack)
  <2>1. UNCHANGED <<una, pendingAcks>>
    BY <1>3 DEF OnAck
  <2> QED
    BY <1>1, <2>1 DEF NoLostWriterWakeup, Running, SizeFree
<1> QED
  BY <1>2, <1>3

\* No step puts a writer to sleep next to a free byte, or frees one behind it
\* without a worker that will notify it.
LEMMA WakeupNext ==
    TypeOK /\ PointerOrder /\ NoLostWriterWakeup /\ [Next]_vars => NoLostWriterWakeup'
<1> SUFFICES ASSUME TypeOK, PointerOrder, NoLostWriterWakeup, [Next]_vars
             PROVE  NoLostWriterWakeup'
  OBVIOUS
\* A writer that is not asleep after the step is in no danger.
<1>1. ASSUME writer'.pc # "asleep"
      PROVE  NoLostWriterWakeup'
  BY <1>1 DEF NoLostWriterWakeup
\* Nor is any writer in a step that neither frees space nor takes a notification.
<1>2. ASSUME UNCHANGED <<una, nbw, writer, pendingAcks>>, Running
      PROVE  NoLostWriterWakeup'
  BY <1>2 DEF NoLostWriterWakeup, SizeFree
<1>3. Wake(writer).pc # "asleep"
  BY DEF Wake, Writer, TypeOK
<1>4. ASSUME NEW k \in WriteSizes, AppWrite(k)
      PROVE  NoLostWriterWakeup'
  BY <1>1, <1>4 DEF AppWrite
<1>5. CASE WriterSleep
  BY <1>5 DEF WriterSleep, bufferVars, NoLostWriterWakeup, SizeFree
<1>6. CASE WriterStop
  BY <1>1, <1>6 DEF WriterStop
<1>7. CASE WriterWrite
  <2>1. writer'.pc \in {"idle", "ready"}
    BY <1>7 DEF WriterWrite
  <2> QED
    BY <1>1, <2>1
<1>8. CASE SenderSleep \/ SenderStop \/ SenderTake \/ SenderEnqueue
  BY <1>2, <1>8 DEF SenderSleep, SenderStop, SenderTake, SenderEnqueue, bufferVars
<1>9. ASSUME NEW ack \in PeerAcks, NEW w \in Wnds, OnAck(ack, w)
      PROVE  NoLostWriterWakeup'
  BY <1>9, OnAckWakes DEF PeerAcks
<1>10. ASSUME NEW w \in Wnds, GetFin(w)
       PROVE  NoLostWriterWakeup'
  <2>1. 0 \in U32
    BY DEF U32
  <2> QED
    BY <1>10, <2>1, OnAckWakes DEF GetFin
<1>11. ASSUME NEW ack \in pendingAcks, AckQueue(ack)
       PROVE  NoLostWriterWakeup'
  BY <1>1, <1>3, <1>11 DEF AckQueue
<1>12. CASE ZwpPause \/ ZwpCountdownEnds \/ ZwpProbe \/ ZwpAcked
  BY <1>2, <1>12 DEF ZwpPause, ZwpCountdownEnds, ZwpProbe, ZwpAcked, bufferVars
<1>13. CASE RtxRead \/ \E c \in Closers : CloseGetNxt(c) \/ CloseEnqueue(c)
  BY <1>2, <1>13 DEF CloseGetNxt, CloseEnqueue, RtxRead, bufferVars
<1>14. ASSUME NEW c \in Closers, CloseWriteOne(c)
       PROVE  NoLostWriterWakeup'
  <2>1. una \in U32 /\ nxt \in U32 /\ nbw \in U32 /\ Ordered(una, nxt, nbw, Limit)
    BY PointerOrderDef DEF TypeOK
  <2>2. Sub(Add(nbw, 1), una) = Sub(nbw, una) + 1 /\ Sub(nbw, una) \in Int
    BY <1>14, <2>1, LimitType, FinOrdered, AddSubType DEF U32, CloseWriteOne
  <2>3. SizeFree' > 0 => SizeFree > 0
    BY <1>14, <2>2 DEF CloseWriteOne, SizeFree
  <2> QED
    BY <1>14, <2>3 DEF CloseWriteOne, NoLostWriterWakeup, Running
<1>15. ASSUME NEW expired \in SUBSET DOMAIN deque, RtxScan(expired)
       PROVE  NoLostWriterWakeup'
  <2>1. writer' = writer \/ writer' = Wake(writer)
    BY <1>15 DEF RtxScan, ShutDown
  <2> QED
    BY <1>1, <1>2, <1>3, <1>15, <2>1 DEF RtxScan
<1>16. CASE Abort
  BY <1>1, <1>3, <1>16 DEF Abort, ShutDown
<1>17. CASE UNCHANGED vars
  BY <1>17 DEF vars, NoLostWriterWakeup, Running, SizeFree
<1>18. CASE WriterAsserts
  BY <1>18 DEF WriterAsserts, NoLostWriterWakeup, Running
<1> QED
  BY <1>4, <1>5, <1>6, <1>7, <1>8, <1>9, <1>10, <1>11, <1>12, <1>13, <1>14, <1>15,
     <1>16, <1>17, <1>18 DEF Next

\* A writer asleep in vSend() next to free space always has a worker between
\* onAck()'s unlock and its notify_all(): the wait and the notification, which
\* is made without the lock, cannot miss each other.
THEOREM WriterWakeupNotLost == Spec => []NoLostWriterWakeup
<1> DEFINE Inv == TypeOK /\ PointerOrder /\ NoLostWriterWakeup
<1>1. Init => Inv
  <2>1. Init => NoLostWriterWakeup
    BY DEF Init, NoLostWriterWakeup
  <2> QED
    BY <2>1, TypeInit, PointerInit
<1>2. Inv /\ [Next]_vars => Inv'
  BY TypeNext, PointerNext, WakeupNext
<1>3. Inv => NoLostWriterWakeup
  OBVIOUS
<1> HIDE DEF Inv
<1> QED
  BY <1>1, <1>2, <1>3, PTL DEF Spec

---------------------------------------------------------------------------
(* What is in flight, what it carries and how far it goes.  Until the      *)
(* numbers wrap all three are plain facts about integers: the definitions  *)
(* below say them without the circle.                                      *)

\* A number of the last turn of the circle: 0 is the one after M - 1.
Lin(x) == IF x = 0 THEN M ELSE x

\* No byte past the wrap has been written.
Unpast == NoWrap \/ nbw = 0

\* The SYN is the first that is acknowledged, and alone.
UnaFrom == una >= ISN /\ (una = ISN => nxt # ISN)

\* A worker between the halves of onAck() carries an acknowledgement that was
\* already taken.
AcksTaken == \A a \in pendingAcks : a <= una

\* The bytes written and not acknowledged are in the ring, but for the SYN and
\* the holes that FINs leave.
RingHolds ==
    Unpast => \A p \in Nat : una <= p /\ p < Lin(nbw) /\ p # ISN /\ p \notin fins.holes => buf[idx(p)] = p

\* How far nxt_ may be: up to the window edge, or one further while a probe is
\* out (a: the edge offered, f: the FINs, st and q: zwp_.state and zwp_.seq).
Reach(u, x, a, f, st, q) ==
    /\ x <= u + a + 1 + f
    /\ st = 2 => u <= q
    /\ x <= u + a + f \/ (st = 2 /\ x <= q + 1 + f)

WindowInv ==
    /\ wnd <= adv
    /\ zwp.pc \in {"ready", "asleep", "countdown"} => zwp.state # 2
    /\ NoWrap => Reach(una, nxt, adv, fins.n, zwp.state, zwp.seq)

\* The number and the payload of every packet of a queue, and of every copy.
SeqSegs(q) == {<<q[i].seq, q[i].data>> : i \in DOMAIN q}

Segs == SeqSegs(deque) \cup SeqSegs(zwpEntry)
        \cup (IF sender.pc = "enqueue" THEN {<<sender.seq, sender.data>>} ELSE {})

Within(s, g) == g[1] <= s /\ s < g[1] + Len(g[2])

FlightCovered ==
    Running /\ NoWrap => \A s \in Nat :
        una <= s /\ s < nxt /\ s # ISN /\ s \notin fins.at => \E g \in Segs : Within(s, g)

\* A packet carries what was written at its number, or a hole.
Genuine(g, holes) == \A i \in 1 .. Len(g[2]) :
                        g[2][i] = g[1] + i - 1 \/ g[1] + i - 1 \in holes

SegsGenuine == Unpast => \A g \in Segs : Genuine(g, fins.holes)

FlightInv ==
    /\ TypeOK /\ PointerOrder /\ UnaFrom /\ AcksTaken /\ RingHolds
    /\ WindowInv /\ FlightCovered /\ SegsGenuine

\* Pointers that have not wrapped are in order as they stand.
LEMMA PlainOrder ==
    ASSUME NEW u \in U32, NEW x \in U32, NEW b \in U32, NEW k \in Nat, k < M,
           Ordered(u, x, b, k), b >= u
    PROVE  u <= x /\ x <= b /\ Sub(x, u) = x - u /\ Sub(b, x) = b - x /\ Sub(b, u) = b - u
BY DEF Ordered, Sub, U32

LEMMA LinOrder ==
    ASSUME NEW u \in U32, NEW x \in U32, NEW b \in U32, NEW k \in Nat, k < M,
           Ordered(u, x, b, k), u = 0 => x # 0, b >= u \/ b = 0
    PROVE  /\ Lin(x) \in Nat /\ Lin(b) \in Nat /\ u <= Lin(x) /\ Lin(x) <= Lin(b) /\ Lin(b) <= M
           /\ Sub(b, x) = Lin(b) - Lin(x) /\ Sub(b, u) = Lin(b) - u
           /\ b >= u => Lin(x) = x /\ Lin(b) = b
BY DEF Ordered, Sub, U32, Lin

\* Once nbw_ has wrapped it stays behind una_: it cannot go round.
LEMMA NoWayBack ==
    ASSUME NEW u \in U32, NEW x \in U32, NEW b \in U32, NEW k \in Nat, k < M,
           Ordered(u, x, b, k), u = 0 => x # 0, NEW n \in Nat, Sub(b, u) + n < M
    PROVE  /\ Add(b, n) >= u => b >= u
           /\ (Add(b, n) >= u \/ Add(b, n) = 0) /\ n > 0 => b >= u /\ Lin(Add(b, n)) = b + n
BY DEF Ordered, Sub, Add, U32, Lin

LEMMA FlightFacts ==
    ASSUME FlightInv
    PROVE  /\ una \in U32 /\ nxt \in U32 /\ nbw \in U32 /\ wnd \in Nat /\ adv \in Nat
           /\ una \in Nat /\ nxt \in Nat /\ nbw \in Nat /\ una < M /\ nxt < M /\ nbw < M
           /\ ISN \in Nat /\ N \in Nat /\ M \in Nat /\ ISN <= una
           /\ Limit \in Nat /\ Limit < M /\ fins.n \in Nat /\ Limit = N + fins.n
           /\ Ordered(una, nxt, nbw, Limit)
           /\ (una = 0 => nxt # 0)
           /\ NoWrap => /\ una <= nxt /\ nxt <= nbw /\ Sub(nxt, una) = nxt - una
                        /\ Sub(nbw, una) = nbw - una /\ Sub(nbw, nxt) = nbw - nxt
                        /\ Unpast /\ Lin(nxt) = nxt /\ Lin(nbw) = nbw /\ ISN < nxt
           /\ Unpast => /\ Lin(nxt) \in Nat /\ Lin(nbw) \in Nat
                        /\ una <= Lin(nxt) /\ Lin(nxt) <= Lin(nbw) /\ Lin(nbw) <= M
                        /\ Sub(nbw, nxt) = Lin(nbw) - Lin(nxt) /\ Sub(nbw, una) = Lin(nbw) - una
                        /\ ISN < Lin(nxt)
<1>1. /\ una \in U32 /\ nxt \in U32 /\ nbw \in U32 /\ wnd \in Nat /\ adv \in Nat
      /\ una \in Nat /\ nxt \in Nat /\ nbw \in Nat /\ una < M /\ nxt < M /\ nbw < M
      /\ ISN \in Nat /\ ISN < M /\ N \in Nat /\ M \in Nat
  BY DEF FlightInv, TypeOK, U32
<1>2. Limit \in Nat /\ Limit < M /\ fins.n \in Nat /\ Limit = N + fins.n
  BY SendAssumption DEF FlightInv, TypeOK, FinHistory, Limit
<1>3. Ordered(una, nxt, nbw, Limit)
  BY PointerOrderDef DEF FlightInv
<1>4. una >= ISN /\ (una = ISN => nxt # ISN) /\ (una = 0 => nxt # 0)
  BY <1>1 DEF FlightInv, UnaFrom
<1>5. Unpast => /\ Lin(nxt) \in Nat /\ Lin(nbw) \in Nat
                /\ una <= Lin(nxt) /\ Lin(nxt) <= Lin(nbw) /\ Lin(nbw) <= M
                /\ Sub(nbw, nxt) = Lin(nbw) - Lin(nxt) /\ Sub(nbw, una) = Lin(nbw) - una
                /\ NoWrap => Lin(nxt) = nxt /\ Lin(nbw) = nbw
  BY <1>1, <1>2, <1>3, <1>4, LinOrder DEF Unpast, NoWrap
<1>6. Unpast => ISN < Lin(nxt)
  BY <1>1, <1>4, <1>5 DEF Lin
<1>7. NoWrap => /\ una <= nxt /\ nxt <= nbw /\ Sub(nxt, una) = nxt - una
                /\ Sub(nbw, una) = nbw - una /\ Sub(nbw, nxt) = nbw - nxt /\ Unpast
  BY <1>1, <1>2, <1>3, PlainOrder DEF NoWrap, Unpast
<1> QED
  BY <1>1, <1>2, <1>3, <1>4, <1>5, <1>6, <1>7

\* The copies and their numbers and payloads.
LEMMA SegsOfCopies ==
    /\ \A g \in Segs : \E e \in Copies : e.seq = g[1] /\ e.data = g[2]
    /\ \A e \in Copies : <<e.seq, e.data>> \in Segs
<1>1. ASSUME NEW g \in Segs PROVE \E e \in Copies : e.seq = g[1] /\ e.data = g[2]
  <2>1. CASE g \in SeqSegs(deque)
    <3>1. PICK i \in DOMAIN deque : g = <<deque[i].seq, deque[i].data>>
      BY <2>1 DEF SeqSegs
    <3>2. deque[i] \in Copies /\ g[1] = deque[i].seq /\ g[2] = deque[i].data
      BY <3>1 DEF Copies
    <3> QED
      BY <3>2
  <2>2. CASE g \in SeqSegs(zwpEntry)
    <3>1. PICK i \in DOMAIN zwpEntry : g = <<zwpEntry[i].seq, zwpEntry[i].data>>
      BY <2>2 DEF SeqSegs
    <3>2. zwpEntry[i] \in Copies /\ g[1] = zwpEntry[i].seq /\ g[2] = zwpEntry[i].data
      BY <3>1 DEF Copies
    <3> QED
      BY <3>2
  <2>3. CASE sender.pc = "enqueue" /\ g = <<sender.seq, sender.data>>
    <3>1. NewEntry(sender.seq, sender.data) \in Copies
      BY <2>3 DEF Copies
    <3> QED
      BY <2>3, <3>1 DEF NewEntry
  <2> QED
    BY <2>1, <2>2, <2>3 DEF Segs
<1>2. ASSUME NEW e \in Copies PROVE <<e.seq, e.data>> \in Segs
  <2>1. \/ \E i \in DOMAIN deque : e = deque[i]
        \/ \E i \in DOMAIN zwpEntry : e = zwpEntry[i]
        \/ sender.pc = "enqueue" /\ e = NewEntry(sender.seq, sender.data)
    BY DEF Copies
  <2>2. CASE \E i \in DOMAIN deque : e = deque[i]
    BY <2>2 DEF Segs, SeqSegs
  <2>3. CASE \E i \in DOMAIN zwpEntry : e = zwpEntry[i]
    BY <2>3 DEF Segs, SeqSegs
  <2>4. CASE sender.pc = "enqueue" /\ e = NewEntry(sender.seq, sender.data)
    <3>1. e.seq = sender.seq /\ e.data = sender.data
      BY <2>4 DEF NewEntry
    <3> QED
      BY <2>4, <3>1 DEF Segs
  <2> QED
    BY <2>1, <2>2, <2>3, <2>4
<1> QED
  BY <1>1, <1>2

\* The three properties in the terms of the model follow.
LEMMA FlightImplies ==
    FlightInv => InFlightCovered /\ PayloadIntact /\ WindowRespected
<1> SUFFICES ASSUME FlightInv PROVE InFlightCovered /\ PayloadIntact /\ WindowRespected
  OBVIOUS
<1>1. InFlightCovered
  <2> SUFFICES ASSUME Running, NoWrap, NEW s \in U32, Sub(s, una) < SizeUnacked, s # ISN, s \notin fins.at
               PROVE  \E e \in Copies : Covers(e, s)
    BY DEF InFlightCovered
  <2>1. s \in Nat /\ una <= s /\ s < nxt
    BY FlightFacts DEF SizeUnacked, Sub, U32
  <2>2. PICK g \in Segs : Within(s, g)
    BY <2>1 DEF FlightInv, FlightCovered
  <2>3. PICK e \in Copies : e.seq = g[1] /\ e.data = g[2]
    BY SegsOfCopies
  <2>4. e.seq \in U32 /\ Len(e.data) \in Nat
    <3>1. e \in Entry
      BY NewEntryType DEF FlightInv, TypeOK, Copies, Sender
    <3> QED
      BY <3>1 DEF Entry
  <2>5. e.seq <= s /\ s < e.seq + Len(e.data)
    BY <2>2, <2>3 DEF Within
  <2>6. Covers(e, s)
    BY <2>1, <2>4, <2>5 DEF Covers, Sub, U32
  <2> QED
    BY <2>6
<1>2. PayloadIntact
  <2> SUFFICES ASSUME Unpast, NEW e \in Copies, NEW i \in 1 .. Len(e.data)
               PROVE  e.data[i] = e.seq + i - 1 \/ e.seq + i - 1 \in fins.holes
    BY DEF PayloadIntact, Unpast
  <2>1. <<e.seq, e.data>> \in Segs
    BY SegsOfCopies
  <2> QED
    BY <2>1 DEF FlightInv, SegsGenuine, Genuine
<1>3. WindowRespected
  BY FlightFacts DEF FlightInv, WindowInv, Reach, WindowRespected, SizeUnacked
<1> QED
  BY <1>1, <1>2, <1>3

LEMMA SegType ==
    ASSUME TypeOK, NEW g \in Segs
    PROVE  g[1] \in Nat /\ g[2] \in Seq(Bytes) /\ Len(g[2]) \in Nat
<1>1. PICK e \in Copies : e.seq = g[1] /\ e.data = g[2]
  BY SegsOfCopies
<1>2. e \in Entry
  BY NewEntryType DEF TypeOK, Copies, Sender
<1>3. e.seq \in Nat /\ e.data \in Seq(Bytes)
  BY <1>2 DEF Entry, U32
<1> QED
  BY <1>1, <1>3

LEMMA FlightInit == Init => FlightInv
<1> SUFFICES ASSUME Init PROVE FlightInv
  OBVIOUS
<1>1. TypeOK /\ PointerOrder
  BY TypeInit, PointerInit
<1>2. /\ una = ISN /\ nxt = Add(ISN, 1) /\ nbw = Add(ISN, 1) /\ ISN \in Nat /\ ISN < M
      /\ pendingAcks = {} /\ fins.n = 0 /\ fins.at = {} /\ fins.holes = {}
      /\ wnd \in Nat /\ adv = wnd + 1 /\ zwp.state = 0
  BY DEF Init, U32
<1>3. UnaFrom /\ AcksTaken
  BY <1>2 DEF UnaFrom, AcksTaken, Add
<1>4. \A p \in Nat : ~(una <= p /\ p < Lin(nbw) /\ p # ISN)
  BY <1>2 DEF Lin, Add
<1>5. RingHolds
  BY <1>4 DEF RingHolds
<1>6. WindowInv
  BY <1>2 DEF WindowInv, Reach, NoWrap, Add
<1>7. FlightCovered
  BY <1>2 DEF FlightCovered, NoWrap, Add
<1>8. SegsGenuine
  <2>1. deque = <<NewEntry(ISN, <<>>)>> /\ zwpEntry = <<>> /\ sender.pc = "ready"
    BY DEF Init
  <2>2. \A i \in DOMAIN deque : deque[i].data = <<>>
    BY <2>1 DEF NewEntry
  <2>3. \A g \in Segs : g[2] = <<>>
    BY <2>1, <2>2 DEF Segs, SeqSegs
  <2> QED
    BY <2>3 DEF SegsGenuine, Genuine
<1> QED
  BY <1>1, <1>3, <1>5, <1>6, <1>7, <1>8 DEF FlightInv

\* A step that moves no pointer, and under which only packets without payload
\* come and only packets before una_ go.
LEMMA FlightSame ==
    ASSUME FlightInv, TypeOK', PointerOrder', UNCHANGED <<una, nxt, nbw, wnd, buf, adv>>,
           Running' => Running, pendingAcks' \in SUBSET pendingAcks,
           fins' = fins,
           \A g \in Segs' : g \in Segs \/ g[2] = <<>>,
           Running' => \A g \in Segs : g \in Segs' \/ g[1] + Len(g[2]) <= una,
           zwp'.state = 2 <=> zwp.state = 2, zwp.state = 2 => zwp'.seq = zwp.seq,
           zwp'.pc \in {"ready", "asleep", "countdown"} => zwp'.state # 2
    PROVE  FlightInv'
<1>1. NoWrap' = NoWrap /\ Unpast' = Unpast
  BY DEF NoWrap, Unpast
<1>2. UnaFrom' /\ AcksTaken'
  BY DEF FlightInv, UnaFrom, AcksTaken
<1>3. RingHolds'
  BY <1>1 DEF FlightInv, RingHolds
<1>4. WindowInv'
  BY <1>1 DEF FlightInv, WindowInv, Reach
<1>5. FlightCovered'
  <2> SUFFICES ASSUME Running', NoWrap', NEW s \in Nat, una <= s, s < nxt, s # ISN, s \notin fins.at
               PROVE  \E g \in Segs' : Within(s, g)
    BY DEF FlightCovered
  <2>1. PICK g \in Segs : Within(s, g)
    BY <1>1 DEF FlightInv, FlightCovered
  <2>2. g[1] \in Nat /\ Len(g[2]) \in Nat /\ una \in Nat
    BY SegType, FlightFacts DEF FlightInv
  <2>3. ~(g[1] + Len(g[2]) <= una)
    BY <2>1, <2>2 DEF Within
  <2> QED
    BY <2>1, <2>3
<1>6. SegsGenuine'
  <2>1. ASSUME Unpast, NEW g \in Segs' PROVE Genuine(g, fins.holes)
    <3>1. CASE g[2] = <<>>
      BY <3>1 DEF Genuine
    <3>2. CASE g \in Segs
      BY <2>1, <3>2 DEF FlightInv, SegsGenuine
    <3> QED
      BY <3>1, <3>2
  <2> QED
    BY <1>1, <2>1 DEF SegsGenuine
<1> QED
  BY <1>2, <1>3, <1>4, <1>5, <1>6 DEF FlightInv

\* An acknowledgement that moves una_ does not move the edge back.
LEMMA AckEdge ==
    ASSUME NEW u \in Nat, NEW a \in Nat, NEW k \in Nat, NEW w \in Nat, NEW b \in Nat,
           u < k, b = Max2(a - (k - u), w)
    PROVE  u + a <= k + b
BY DEF Max2

\* The four ways the pointers and the edge move: onAck(), sendReadyData(), the
\* prober and sendFin_().
LEMMA ReachAck ==
    ASSUME NEW u \in Nat, NEW x \in Nat, NEW a \in Nat, NEW f \in Nat, NEW st, NEW q \in Nat,
           Reach(u, x, a, f, st, q), NEW u2 \in Nat, NEW a2 \in Nat, NEW st2,
           u <= u2, u + a <= u2 + a2, st2 = 2 => st = 2 /\ u2 <= q, st2 # 2 /\ st = 2 => q < u2
    PROVE  Reach(u2, x, a2, f, st2, q)
BY DEF Reach

LEMMA ReachTake ==
    ASSUME NEW u \in Nat, NEW x \in Nat, NEW a \in Nat, NEW f \in Nat, NEW st, NEW q \in Nat,
           Reach(u, x, a, f, st, q), NEW x2 \in Nat, x2 <= u + a
    PROVE  Reach(u, x2, a, f, st, q)
BY DEF Reach

LEMMA ReachProbe ==
    ASSUME NEW u \in Nat, NEW x \in Nat, NEW a \in Nat, NEW f \in Nat, NEW st, NEW q \in Nat,
           Reach(u, x, a, f, st, q), st # 2, u <= x
    PROVE  Reach(u, x + 1, a, f, 2, x)
BY DEF Reach

LEMMA ReachFin ==
    ASSUME NEW u \in Nat, NEW x \in Nat, NEW a \in Nat, NEW f \in Nat, NEW st, NEW q \in Nat,
           Reach(u, x, a, f, st, q)
    PROVE  Reach(u, x + 1, a, f + 1, st, q)
BY DEF Reach

\* A notification does not touch the segment in the sender's hands.
LEMMA WakeKeepsSegment ==
    ASSUME TypeOK, sender' = sender \/ sender' = Wake(sender), UNCHANGED <<deque, zwpEntry>>
    PROVE  Segs' = Segs
<1>1. sender'.pc = "enqueue" <=> sender.pc = "enqueue"
  BY DEF Wake, TypeOK, Sender
<1>2. sender'.seq = sender.seq /\ sender'.data = sender.data
  BY DEF Wake, TypeOK, Sender
<1> QED
  BY <1>1, <1>2 DEF Segs

\* onAck(), first half.
LEMMA FlightAck ==
    ASSUME FlightInv, TypeOK', PointerOrder', NEW ack \in U32, NEW w \in Wnds, OnAck(ack, w),
           ack \in PeerAcks \/ ack = 0
    PROVE  FlightInv'
<1>1. /\ una \in Nat /\ nxt \in Nat /\ nbw \in Nat /\ ISN \in Nat /\ ack \in Nat /\ w \in Nat
      /\ wnd \in Nat /\ adv \in Nat /\ M \in Nat /\ ISN <= una /\ nxt < M
  BY FlightFacts DEF U32
<1>2. UNCHANGED <<nxt, nbw, stopped, buf, deque, zwpEntry, writer, rtx, fins, aborted>>
  BY DEF OnAck, queueVars
<1>3. \/ una' = una /\ pendingAcks' = pendingAcks /\ ~Acceptable(ack)
      \/ una' = ack /\ pendingAcks' = pendingAcks \cup {ack} /\ Acceptable(ack) /\ una < ack /\ ack <= nxt
  BY DEF OnAck, Acceptable
<1>4. una' \in Nat /\ una <= una'
  BY <1>1, <1>3
<1>5. UnaFrom' /\ AcksTaken'
  <2>1. UnaFrom'
    BY <1>1, <1>2, <1>3 DEF FlightInv, UnaFrom
  <2>2. AcksTaken'
    <3>1. \A a \in pendingAcks : a \in Nat /\ a <= una
      BY DEF FlightInv, AcksTaken, TypeOK, U32
    <3> QED
      BY <1>1, <1>3, <1>4, <3>1 DEF AcksTaken
  <2> QED
    BY <2>1, <2>2
<1>6. NoWrap' => NoWrap /\ una' <= nxt
  BY <1>1, <1>2, <1>3, <1>4, FlightFacts DEF NoWrap
<1>7. Unpast' => Unpast
  BY <1>2, <1>6 DEF Unpast
<1>8. Segs' = Segs
  <2>1. sender' = sender \/ sender' = Wake(sender)
    BY DEF OnAck
  <2> QED
    BY <1>2, <2>1, WakeKeepsSegment DEF FlightInv
<1>9. RingHolds'
  <2>1. ASSUME NEW p \in Nat, una' <= p PROVE una <= p
    BY <1>1, <1>4, <2>1
  <2> QED
    BY <1>2, <1>7, <2>1 DEF FlightInv, RingHolds
<1>10. FlightCovered'
  <2>1. ASSUME NEW s \in Nat, una' <= s PROVE una <= s
    BY <1>1, <1>4, <2>1
  <2> QED
    BY <1>2, <1>6, <1>8, <2>1 DEF FlightInv, FlightCovered, Running
<1>11. SegsGenuine'
  BY <1>2, <1>7, <1>8 DEF FlightInv, SegsGenuine
<1>12. WindowInv'
  <2>1. fins' = fins /\ fins.n \in Nat
    BY <1>2, FlightFacts
  <2>2. adv' \in Nat /\ una + adv <= una' + adv'
    <3>1. adv' \in Nat
      BY DEF TypeOK
    <3>2. CASE ack < una
      <4>1. una' = una /\ adv' = adv
        BY <1>1, <1>3, <3>2 DEF OnAck
      <4> QED
        BY <1>1, <4>1
    <3>3. CASE Acceptable(ack)
      <4>1. ~(ack < una) /\ una' = ack /\ una < ack
        BY <1>1, <1>3, <3>3 DEF Acceptable
      <4>2. adv' = Max2(adv - (ack - una), w)
        BY <3>3, <4>1 DEF OnAck
      <4> QED
        BY <1>1, <3>1, <4>1, <4>2, AckEdge
    <3>4. CASE ~(ack < una) /\ ~Acceptable(ack)
      <4>1. una' = una /\ adv' = Max2(adv, w)
        BY <1>3, <3>4 DEF OnAck
      <4>2. adv <= adv'
        BY <1>1, <4>1 DEF Max2
      <4> QED
        BY <1>1, <3>1, <4>1, <4>2
    <3> QED
      BY <3>2, <3>3, <3>4
  <2>3. wnd' <= adv'
    <3>1. CASE ack < una
      <4>1. adv' = adv
        BY <1>1, <1>3, <3>1 DEF OnAck
      <4>2. ~(ack >= una)
        BY <1>1, <3>1
      <4>3. wnd' = wnd
        BY <4>2 DEF OnAck
      <4> QED
        BY <4>1, <4>3 DEF FlightInv, WindowInv
    <3>2. CASE ack >= una
      BY <1>1, <3>2 DEF OnAck, Max2
    <3> QED
      BY <1>1, <3>1, <3>2
  <2>4. /\ zwp' = zwp \/ zwp' = Wake(zwp)
           \/ (zwp' = [zwp EXCEPT !.state = 0] /\ zwp.state = 2 /\ ack > zwp.seq /\ ack >= una)
        /\ zwp.state = 2 /\ ack > zwp.seq /\ ack >= una => zwp' = [zwp EXCEPT !.state = 0]
    BY DEF OnAck, ZwpOnAck
  <2>5. zwp \in Zwp /\ zwp.seq \in Nat
    BY DEF FlightInv, TypeOK, Zwp, U32
  <2>6. /\ zwp'.seq = zwp.seq
        /\ zwp'.state = zwp.state \/ (zwp'.state = 0 /\ zwp.state = 2 /\ ack > zwp.seq /\ ack >= una)
        /\ zwp'.state = 2 => zwp.state = 2 /\ ~(ack > zwp.seq /\ ack >= una)
    BY <2>4, <2>5 DEF Wake, Zwp
  <2>7. zwp'.pc \in {"ready", "asleep", "countdown"} => zwp'.state # 2
    BY <2>4, <2>5 DEF Wake, Zwp, FlightInv, WindowInv
  <2>8. ASSUME NoWrap'
        PROVE  Reach(una', nxt, adv', fins.n, zwp'.state, zwp.seq)
    <3>1. Reach(una, nxt, adv, fins.n, zwp.state, zwp.seq) /\ una <= nxt /\ ISN < nxt
      BY <1>6, <2>8, FlightFacts DEF FlightInv, WindowInv
    <3>2. zwp.state = 2 => una <= zwp.seq
      BY <3>1 DEF Reach
    <3>3. ASSUME zwp'.state = 2 PROVE zwp.state = 2 /\ una' <= zwp.seq
      <4>1. zwp.state = 2 /\ (ack <= zwp.seq \/ ack < una)
        BY <1>1, <2>5, <2>6, <3>3
      <4> QED
        BY <1>1, <1>3, <2>5, <3>2, <4>1
    <3>4. ASSUME zwp'.state # 2, zwp.state = 2 PROVE zwp.seq < una'
      <4>1. ack > zwp.seq /\ ack >= una /\ una <= zwp.seq
        BY <2>6, <3>2, <3>4
      <4>2. ack <= nxt
        <5>1. ack \in PeerAcks
          BY <1>1, <2>5, <4>1
        <5>2. Sub(ack, ISN) <= Sub(nxt, ISN)
          BY <5>1 DEF PeerAcks
        <5> QED
          BY <1>1, <3>1, <5>2 DEF Sub
      <4>3. Acceptable(ack)
        BY <1>1, <2>5, <4>1, <4>2 DEF Acceptable
      <4> QED
        BY <1>3, <4>1, <4>3
    <3> QED
      BY <1>1, <1>4, <2>1, <2>2, <2>5, <3>1, <3>3, <3>4, ReachAck
  <2> QED
    BY <1>2, <2>1, <2>3, <2>6, <2>7, <2>8 DEF WindowInv
<1> QED
  BY <1>5, <1>9, <1>10, <1>11, <1>12 DEF FlightInv

\* A pointer that moves on does not come round to una_.
LEMMA NotRound ==
    ASSUME NEW u \in U32, NEW x \in U32, NEW n \in Nat, x # u, Sub(x, u) + n < M
    PROVE  Add(x, n) # u
BY DEF Add, Sub, U32

\* While the numbers have not wrapped, nxt_ moves on as it stands.
LEMMA PlainAdd ==
    ASSUME NEW x \in Nat, NEW n \in Nat, x + n < M
    PROVE  Add(x, n) = x + n
BY DEF Add

\* The sender thread or the prober takes the segment g of n bytes at nxt_.
LEMMA FlightSend ==
    ASSUME FlightInv, TypeOK', PointerOrder', WindowInv', Running,
           UNCHANGED <<una, nbw, buf, fins, pendingAcks>>,
           NEW n \in Nat, n > 0, n <= Sub(nbw, nxt), nxt' = Add(nxt, n),
           NEW g, g[1] = nxt, Len(g[2]) = n, \A i \in 1 .. n : g[2][i] = buf[idx(nxt + i - 1)],
           Segs' \in SUBSET (Segs \cup {g}),
           Running' => Segs \cup {g} \in SUBSET Segs'
    PROVE  FlightInv'
<1>1. NoWrap' = NoWrap /\ Unpast' = Unpast
  BY DEF NoWrap, Unpast
<1>2. UnaFrom'
  <2>1. Sub(nxt, una) + n < M
    <3>1. Sub(nxt, una) \in Int /\ Sub(nbw, nxt) \in Int
      <4>1. Sub(nxt, una) \in U32 /\ Sub(nbw, nxt) \in U32
        BY FlightFacts, AddSubType
      <4> QED
        BY <4>1 DEF U32
    <3>2. Sub(nxt, una) + Sub(nbw, nxt) <= Limit /\ Limit < M /\ Limit \in Int /\ M \in Int
      BY FlightFacts DEF Ordered
    <3> QED
      BY <3>1, <3>2
  <2>2. una = ISN => nxt # una
    BY DEF FlightInv, UnaFrom
  <2>3. una = ISN => Add(nxt, n) # una
    BY <2>1, <2>2, FlightFacts, NotRound
  <2> QED
    BY <2>3 DEF FlightInv, UnaFrom
<1>3. AcksTaken' /\ RingHolds'
  BY <1>1 DEF FlightInv, AcksTaken, RingHolds
<1>4. FlightCovered'
  <2> SUFFICES ASSUME Running', NoWrap, NEW s \in Nat, una <= s, s < nxt', s # ISN, s \notin fins.at
               PROVE  \E h \in Segs' : Within(s, h)
    BY <1>1 DEF FlightCovered
  <2>1. nxt' = nxt + n
    <3>1. nxt \in Nat /\ nbw \in Nat /\ nbw < M /\ Sub(nbw, nxt) = nbw - nxt
      BY FlightFacts
    <3>2. nxt + n < M
      BY <3>1
    <3> QED
      BY <3>1, <3>2, PlainAdd
  <2>2. CASE s < nxt
    <3>1. PICK h \in Segs : Within(s, h)
      BY <2>2 DEF FlightInv, FlightCovered
    <3> QED
      BY <3>1
  <2>3. CASE nxt <= s
    <3>1. Within(s, g)
      BY <2>1, <2>3 DEF Within
    <3> QED
      BY <3>1
  <2> QED
    BY <2>2, <2>3, FlightFacts
<1>5. SegsGenuine'
  <2> SUFFICES ASSUME Unpast, NEW h \in Segs' PROVE Genuine(h, fins.holes)
    BY <1>1 DEF SegsGenuine
  <2>1. CASE h \in Segs
    BY <2>1 DEF FlightInv, SegsGenuine
  <2>2. CASE h = g
    <3>1. /\ nxt + n <= Lin(nbw) /\ nxt \in Nat /\ Lin(nbw) \in Nat
          /\ ISN < nxt /\ ISN \in Nat /\ una <= nxt /\ una \in Nat
      <4>1. /\ nxt \in Nat /\ Lin(nbw) \in Nat /\ ISN < Lin(nxt) /\ ISN \in Nat
            /\ una <= Lin(nxt) /\ una \in Nat /\ Lin(nbw) <= M /\ M \in Nat
            /\ Lin(nxt) \in Nat /\ Sub(nbw, nxt) = Lin(nbw) - Lin(nxt)
        BY FlightFacts
      <4>2. Lin(nxt) + n <= Lin(nbw)
        BY <4>1
      <4>3. Lin(nxt) # M
        BY <4>1, <4>2
      <4>4. Lin(nxt) = nxt
        BY <4>3 DEF Lin
      <4> QED
        BY <4>1, <4>2, <4>4
    <3>2. ASSUME NEW i \in 1 .. n, nxt + i - 1 \notin fins.holes
          PROVE  g[2][i] = nxt + i - 1
      <4>1. nxt + i - 1 \in Nat /\ una <= nxt + i - 1 /\ nxt + i - 1 < Lin(nbw) /\ nxt + i - 1 # ISN
        BY <3>1
      <4>2. buf[idx(nxt + i - 1)] = nxt + i - 1
        BY <3>2, <4>1 DEF FlightInv, RingHolds
      <4> QED
        BY <4>2
    <3> QED
      BY <2>2, <3>2 DEF Genuine
  <2> QED
    BY <2>1, <2>2
<1> QED
  BY <1>2, <1>3, <1>4, <1>5 DEF FlightInv

\* sendReadyData(): up to the window edge.
LEMMA FlightTake ==
    ASSUME FlightInv, TypeOK', PointerOrder', SenderTake
    PROVE  FlightInv'
<1> DEFINE n == Min2(SizeCanSend, MSS)
           d == RingRead(buf, n, nxt, nxt + n - 1)
<1>1. /\ UNCHANGED <<una, nbw, buf, fins, pendingAcks, deque, zwpEntry, zwp, adv, aborted>>
      /\ Running /\ sender.pc = "ready" /\ SizeCanSend > 0
      /\ wnd' = wnd - n /\ nxt' = Add(nxt, n)
      /\ sender' = [pc |-> "enqueue", seq |-> nxt, data |-> d]
  BY DEF SenderTake, queueVars
<1>2. SizeCanSend \in Nat /\ SizeCanSend <= Sub(nbw, nxt) /\ wnd \in Nat
      /\ SizeCanSend <= wnd - Sub(nxt, una)
  <2>1. wnd \in U32 /\ Sub(nxt, una) \in Int /\ Sub(nbw, nxt) \in Int
    <3>1. wnd \in U32 /\ Sub(nxt, una) \in U32 /\ Sub(nbw, nxt) \in U32
      BY FlightFacts, AddSubType DEF FlightInv, TypeOK
    <3> QED
      BY <3>1 DEF U32
  <2>2. SizeCanSend \in Nat /\ SizeCanSend <= Sub(nbw, nxt)
    BY <2>1, CanSendBounds, FlightFacts DEF SizeCanSend
  <2>3. SizeCanSend <= wnd - Sub(nxt, una)
    BY <1>1, <2>1 DEF SizeCanSend, CanSend, Min2, U32
  <2> QED
    BY <2>1, <2>2, <2>3 DEF U32
<1>3. n \in Nat /\ n > 0 /\ n <= SizeCanSend
  BY <1>1, <1>2 DEF Min2
<1>4. n <= Sub(nbw, nxt) /\ Sub(nbw, nxt) \in Int /\ Sub(nxt, una) \in Int
  BY <1>2, <1>3, FlightFacts, AddSubType DEF U32
<1>5. Len(d) = n /\ \A i \in 1 .. n : d[i] = buf[idx(nxt + i - 1)]
  <2>1. nxt \in Nat
    BY FlightFacts
  <2> HIDE DEF n
  <2>2. Min2(n, (nxt + n - 1) - nxt + 1) = n
    BY <1>3, <2>1 DEF Min2
  <2>3. d = [i \in 1 .. n |-> buf[idx(nxt + i - 1)]]
    BY <2>2 DEF RingRead
  <2> QED
    BY <1>3, <2>3
<1> HIDE DEF n, d
<1>6. Segs' = Segs \cup {<<nxt, d>>}
  BY <1>1 DEF Segs
<1>7. WindowInv'
  <2>1. wnd <= adv /\ (zwp.pc \in {"ready", "asleep", "countdown"} => zwp.state # 2)
    BY DEF FlightInv, WindowInv
  <2>2. wnd' <= adv
    BY <1>1, <1>2, <1>3, <2>1, FlightFacts
  <2>3. ASSUME NoWrap PROVE Reach(una, Add(nxt, n), adv, fins.n, zwp.state, zwp.seq)
    <3>1. Reach(una, nxt, adv, fins.n, zwp.state, zwp.seq) /\ zwp.seq \in Nat
      BY <2>3 DEF FlightInv, WindowInv, TypeOK, Zwp, U32
    <3>2. Add(nxt, n) = nxt + n
      BY <1>3, <1>4, <2>3, FlightFacts, PlainAdd
    <3>3. nxt + n <= una + adv /\ nxt + n \in Nat
      BY <1>2, <1>3, <1>4, <2>1, <2>3, FlightFacts
    <3> QED
      BY <3>1, <3>2, <3>3, FlightFacts, ReachTake
  <2> QED
    BY <1>1, <2>1, <2>2, <2>3 DEF WindowInv, NoWrap
<1> DEFINE g == <<nxt, d>>
<1>8. g[1] = nxt /\ g[2] = d /\ Segs' = Segs \cup {g}
  BY <1>6
<1> HIDE DEF g
<1> QED
  BY <1>1, <1>3, <1>4, <1>5, <1>7, <1>8, FlightSend

\* The probe: one byte into the closed window.
LEMMA FlightProbe ==
    ASSUME FlightInv, TypeOK', PointerOrder', ZwpProbe
    PROVE  FlightInv'
<1> DEFINE g == <<nxt, <<buf[idx(nxt)]>>>>
<1>1. /\ UNCHANGED <<una, nbw, wnd, buf, fins, pendingAcks, deque, sender, adv>>
      /\ Running /\ SizeNotSent # 0 /\ zwp.pc = "countdown"
      /\ nxt' = Add(nxt, 1)
      /\ zwp' = [pc |-> "waitAck", state |-> 2, seq |-> nxt]
      /\ \/ zwpEntry = <<>> /\ zwpEntry' = <<NewEntry(nxt, <<buf[idx(nxt)]>>)>> /\ aborted' = aborted
         \/ zwpEntry' = zwpEntry /\ aborted' = "enqueueZwp"
  BY DEF ZwpProbe
<1>2. 1 <= Sub(nbw, nxt) /\ Sub(nbw, nxt) \in Int
  <2>1. Sub(nbw, nxt) \in Nat /\ Sub(nbw, nxt) # 0
    <3>1. Sub(nbw, nxt) \in U32
      BY FlightFacts, AddSubType
    <3> QED
      BY <1>1, <3>1 DEF U32, SizeNotSent
  <2> QED
    BY <2>1
<1>3. g[1] = nxt /\ Len(g[2]) = 1 /\ \A i \in 1 .. 1 : g[2][i] = buf[idx(nxt + i - 1)]
  <2>1. \A i \in 1 .. 1 : i = 1 /\ nxt + i - 1 = nxt
    BY FlightFacts
  <2> QED
    BY <2>1
<1>4. /\ Segs' \in SUBSET (Segs \cup {g})
      /\ Running' => Segs \cup {g} \in SUBSET Segs'
  <2>1. CASE zwpEntry = <<>> /\ zwpEntry' = <<NewEntry(nxt, <<buf[idx(nxt)]>>)>>
    <3>1. SeqSegs(zwpEntry) = {}
      BY <2>1 DEF SeqSegs
    <3>2. SeqSegs(zwpEntry') = {g}
      BY <2>1 DEF SeqSegs, NewEntry
    <3> QED
      BY <1>1, <3>1, <3>2 DEF Segs, SeqSegs
  <2>2. CASE zwpEntry' = zwpEntry /\ aborted' = "enqueueZwp"
    BY <1>1, <2>2 DEF Segs, Running
  <2> QED
    BY <1>1, <2>1, <2>2
<1> HIDE DEF g
<1>5. WindowInv'
  <2>1. wnd <= adv /\ zwp.state # 2
    BY <1>1 DEF FlightInv, WindowInv
  <2>2. ASSUME NoWrap PROVE Reach(una, Add(nxt, 1), adv, fins.n, 2, nxt)
    <3>1. Reach(una, nxt, adv, fins.n, zwp.state, zwp.seq) /\ zwp.seq \in Nat
      BY <2>2 DEF FlightInv, WindowInv, TypeOK, Zwp, U32
    <3>2. Add(nxt, 1) = nxt + 1
      BY <1>2, <2>2, FlightFacts, PlainAdd
    <3>3. una \in Nat /\ nxt \in Nat /\ adv \in Nat /\ fins.n \in Nat /\ una <= nxt
      BY <2>2, FlightFacts
    <3> QED
      BY <2>1, <3>1, <3>2, <3>3, ReachProbe
  <2>3. zwp'.state = 2 /\ zwp'.seq = nxt /\ zwp'.pc = "waitAck"
    BY <1>1
  <2> QED
    BY <1>1, <2>1, <2>2, <2>3 DEF WindowInv, NoWrap
<1> QED
  BY <1>1, <1>2, <1>3, <1>4, <1>5, 1 \in Nat, 1 > 0, FlightSend

\* sendFin_(): a number for the FIN, and a cell nobody wrote.
LEMMA FlightFin ==
    ASSUME FlightInv, TypeOK', PointerOrder', NEW c \in Closers, CloseWriteOne(c)
    PROVE  FlightInv'
<1>1. /\ UNCHANGED <<una, wnd, buf, deque, zwpEntry, sender, zwp, pendingAcks, adv, aborted>>
      /\ nbw' = Add(nbw, 1) /\ nxt' = Add(nxt, 1) /\ fins.n < MaxFins
      /\ fins' = [n |-> fins.n + 1, at |-> fins.at \cup {nxt}, holes |-> fins.holes \cup {nbw}]
  BY DEF CloseWriteOne, queueVars
<1>2. fins'.n = fins.n + 1 /\ fins'.at = fins.at \cup {nxt} /\ fins'.holes = fins.holes \cup {nbw}
  BY <1>1
<1>3. Limit \in Nat /\ Limit + 1 < M
  BY <1>1, LimitType DEF FlightInv
<1>4. Sub(nxt, una) + 1 < M /\ Sub(nbw, una) + 1 < M
  <2>1. Sub(nxt, una) \in Nat /\ Sub(nbw, una) \in Nat /\ Sub(nbw, nxt) \in Nat
    BY FlightFacts, AddSubType DEF U32
  <2>2. Sub(nxt, una) + Sub(nbw, nxt) = Sub(nbw, una) /\ Sub(nbw, una) <= Limit
    BY FlightFacts DEF Ordered
  <2> QED
    BY <1>3, <2>1, <2>2
<1>5. UnaFrom'
  <2>1. una = ISN => Add(nxt, 1) # una
    BY <1>4, FlightFacts, NotRound DEF FlightInv, UnaFrom
  <2> QED
    BY <1>1, <2>1 DEF FlightInv, UnaFrom
<1>6. AcksTaken'
  BY <1>1, <1>2 DEF FlightInv, AcksTaken
<1>7. /\ NoWrap' => NoWrap
      /\ Unpast' => NoWrap /\ Lin(nbw') = nbw + 1
  BY <1>1, <1>4, FlightFacts, NoWayBack DEF NoWrap, Unpast
<1>8. RingHolds'
  <2> SUFFICES ASSUME Unpast', NEW p \in Nat, una <= p, p < Lin(nbw'), p # ISN, p \notin fins'.holes
               PROVE  buf[idx(p)] = p
    BY <1>1 DEF RingHolds
  <2>1. p < Lin(nbw) /\ Unpast /\ p \notin fins.holes
    BY <1>2, <1>7, FlightFacts
  <2> QED
    BY <2>1 DEF FlightInv, RingHolds
<1>9. Segs' = Segs
  BY <1>1 DEF Segs
<1>10. NoWrap' => nxt' = nxt + 1
  <2> SUFFICES ASSUME NoWrap' PROVE Add(nxt, 1) = nxt + 1
    BY <1>1
  <2>1. NoWrap
    BY <1>7
  <2>2. /\ nxt \in Nat /\ nbw \in Nat /\ una \in Nat /\ nbw < M /\ M \in Nat
        /\ nxt <= nbw /\ Sub(nbw, una) = nbw - una
    BY <2>1, FlightFacts
  <2>3. Add(nbw, 1) >= una
    BY <1>1 DEF NoWrap
  <2>4. nbw + 1 < M
    BY <1>4, <2>2, <2>3 DEF Add
  <2> QED
    BY <2>2, <2>4 DEF Add
<1>11. FlightCovered'
  <2> SUFFICES ASSUME Running, NoWrap', NEW s \in Nat, una <= s, s < nxt', s # ISN, s \notin fins'.at
               PROVE  \E g \in Segs : Within(s, g)
    BY <1>1, <1>9 DEF FlightCovered, Running
  <2>1. s < nxt /\ s \notin fins.at
    BY <1>2, <1>10, FlightFacts
  <2> QED
    BY <1>7, <2>1 DEF FlightInv, FlightCovered
<1>12. SegsGenuine'
  <2> SUFFICES ASSUME Unpast', NEW g \in Segs
               PROVE  Genuine(g, fins'.holes)
    BY <1>9 DEF SegsGenuine
  <2>1. Genuine(g, fins.holes)
    BY <1>7 DEF FlightInv, SegsGenuine, Unpast
  <2> QED
    BY <1>2, <2>1 DEF Genuine
<1>13. WindowInv'
  <2>1. wnd <= adv /\ (zwp.pc \in {"ready", "asleep", "countdown"} => zwp.state # 2)
    BY DEF FlightInv, WindowInv
  <2>2. ASSUME NoWrap' PROVE Reach(una, nxt + 1, adv, fins.n + 1, zwp.state, zwp.seq)
    <3>1. Reach(una, nxt, adv, fins.n, zwp.state, zwp.seq) /\ zwp.seq \in Nat
      BY <1>7, <2>2 DEF FlightInv, WindowInv, TypeOK, Zwp, U32
    <3> QED
      BY <3>1, FlightFacts, ReachFin
  <2> QED
    BY <1>1, <1>2, <1>10, <2>1, <2>2 DEF WindowInv
<1> QED
  BY <1>5, <1>6, <1>8, <1>11, <1>12, <1>13 DEF FlightInv

\* write(): the bytes go into cells that hold no unacknowledged byte.
LEMMA FlightWrite ==
    ASSUME FlightInv, TypeOK', PointerOrder', WriterWrite
    PROVE  FlightInv'
<1> DEFINE data == [i \in 1 .. writer.left |-> (nbw + i - 1) % M]
           last == FreeUpTo(nbw, SizeFree)
           w    == RingWrite(buf, data, nbw, last)
           n    == w.n
<1>1. /\ UNCHANGED <<una, nxt, wnd, deque, zwpEntry, zwp, fins, pendingAcks, adv, aborted>>
      /\ buf' = w.buf /\ nbw' = Add(nbw, n)
      /\ sender' = sender \/ sender' = Wake(sender)
  BY DEF WriterWrite, queueVars
<1>2. /\ una \in U32 /\ nxt \in U32 /\ nbw \in U32 /\ una \in Nat /\ nbw \in Nat
      /\ M \in Nat /\ N \in Nat /\ Limit \in Nat /\ Limit < M /\ N < M
      /\ Ordered(una, nxt, nbw, Limit) /\ (una = 0 => nxt # 0)
      /\ Sub(nbw, una) \in U32
  BY FlightFacts, AddSubType
<1>3. Sub(nbw, una) \in Nat
  BY <1>2 DEF U32
<1>4. last = nbw + (N - Sub(nbw, una)) - 1 /\ last \in Int
  BY <1>2, <1>3 DEF FreeUpTo, SizeFree
<1>5. data \in Seq(Bytes) /\ Len(data) = writer.left /\ writer.left \in Nat
      /\ \A i \in 1 .. writer.left : data[i] = (nbw + i - 1) % M
  <2>1. writer.left \in Nat
    BY DEF FlightInv, TypeOK, Writer
  <2>2. \A i \in 1 .. writer.left : (nbw + i - 1) % M \in Bytes
    BY <1>2, <2>1 DEF Bytes
  <2> QED
    BY <2>1, <2>2
<1>6. buf \in [Cells -> Bytes]
  BY DEF FlightInv, TypeOK
<1> HIDE DEF data, last
<1>7. n = WriteCount(Len(data), nbw, last) /\ Stores(Bytes, buf, data, nbw, w)
  <2>1. last - nbw < N
    BY <1>2, <1>3, <1>4
  <2>2. write(buf, data, nbw, last) = w
    BY <1>2, <1>4, <1>5, <1>6, <2>1, WriteIsRingWrite
  <2> HIDE DEF w
  <2>3. /\ write(buf, data, nbw, last).n = WriteCount(Len(data), nbw, last)
        /\ Stores(Bytes, buf, data, nbw, write(buf, data, nbw, last))
    <3>1. /\ nbw \in Nat /\ last \in Int /\ data \in Seq(Bytes)
          /\ nbw < last => last - nbw < N
      BY <1>2, <1>4, <1>5, <2>1
    <3> QED
      BY <1>6, <3>1, WriteExact
  <2> QED
    BY <2>2, <2>3
<1> HIDE DEF w
<1>8. n \in Nat /\ n <= writer.left /\ (n = 0 \/ Sub(nbw, una) + n <= N)
  <2>1. /\ n \in 0 .. writer.left
        /\ nbw < last => n <= last - nbw + 1
        /\ nbw >= last => n = 0
    <3> HIDE DEF n
    <3>1. n = WriteCount(writer.left, nbw, last) /\ nbw \in Int
      BY <1>2, <1>5, <1>7
    <3> QED
      BY <1>4, <1>5, <3>1, WriteCountBounds
  <2> HIDE DEF n
  <2>2. n \in Nat /\ n <= writer.left
    BY <1>5, <2>1
  <2>3. last - nbw + 1 = N - Sub(nbw, una)
    BY <1>2, <1>3, <1>4
  <2> QED
    BY <1>2, <1>3, <1>4, <2>1, <2>2, <2>3
<1>9. /\ \A k \in 0 .. n - 1 : buf'[idx(nbw + k)] = (nbw + k) % M
      /\ \A c \in Cells : (\A k \in 0 .. n - 1 : c # idx(nbw + k)) => buf'[c] = buf[c]
  <2>1. \A k \in 0 .. n - 1 : w.buf[idx(nbw + k)] = data[k + 1]
    BY <1>7 DEF Stores
  <2>2. ASSUME NEW k \in 0 .. n - 1 PROVE data[k + 1] = (nbw + k) % M
    <3>1. k + 1 \in 1 .. writer.left /\ nbw + (k + 1) - 1 = nbw + k
      BY <1>2, <1>5, <1>8
    <3> QED
      BY <1>5, <3>1
  <2>3. \A c \in Cells : (\A k \in 0 .. n - 1 : c # idx(nbw + k)) => w.buf[c] = buf[c]
    BY <1>7 DEF Stores
  <2> QED
    BY <1>1, <2>1, <2>2, <2>3
<1> HIDE DEF n
<1>10. Sub(nbw, una) + n < M
  <2>1. Sub(nbw, una) <= Limit
    BY <1>2 DEF Ordered
  <2> QED
    BY <1>2, <1>3, <1>8, <2>1
<1>11. /\ Add(nbw, n) >= una => nbw >= una
       /\ (Add(nbw, n) >= una \/ Add(nbw, n) = 0) /\ n > 0 => nbw >= una /\ Lin(Add(nbw, n)) = nbw + n
  BY <1>2, <1>8, <1>10, NoWayBack
<1>12. n = 0 => nbw' = nbw
  BY <1>1, <1>2 DEF Add, U32
<1>13. (NoWrap' => NoWrap) /\ (Unpast' => Unpast)
  BY <1>1, <1>8, <1>11, <1>12 DEF NoWrap, Unpast
<1>14. RingHolds'
  <2> SUFFICES ASSUME Unpast', NEW p \in Nat, una <= p, p < Lin(nbw'), p # ISN, p \notin fins.holes
               PROVE  buf'[idx(p)] = p
    BY <1>1 DEF RingHolds
  <2>0. idx(p) \in Cells
    BY IdxType
  <2>1. ASSUME p < Lin(nbw) PROVE buf[idx(p)] = p
    BY <1>13, <2>1 DEF FlightInv, RingHolds
  <2>2. CASE n = 0
    <3>1. buf'[idx(p)] = buf[idx(p)]
      BY <1>9, <2>0, <2>2
    <3> QED
      BY <1>12, <2>1, <2>2, <3>1
  <2>3. CASE n > 0
    <3>1. nbw >= una /\ Lin(nbw') = nbw + n
      BY <1>1, <1>11, <2>3 DEF Unpast, NoWrap
    <3>2. Lin(nbw') <= M
      BY <1>1, <1>2, <1>8 DEF Lin, Add, U32
    <3>3. Lin(nbw) = nbw /\ Sub(nbw, una) = nbw - una
      BY <3>1, FlightFacts DEF NoWrap
    <3>4. CASE p >= nbw
      <4> DEFINE k == p - nbw
      <4>1. k \in 0 .. n - 1 /\ nbw + k = p /\ p < M
        BY <1>2, <1>8, <3>1, <3>2, <3>4
      <4> HIDE DEF k
      <4>2. buf'[idx(p)] = p % M
        BY <1>9, <4>1
      <4>3. p % M = p
        BY <1>2, <4>1
      <4> QED
        BY <4>2, <4>3
    <3>5. CASE p < nbw
      <4>1. ASSUME NEW k \in 0 .. n - 1, idx(p) = idx(nbw + k) PROVE FALSE
        <5>1. nbw + k \in Nat /\ nbw + k < una + N /\ p < nbw + k
          BY <1>2, <1>8, <3>3, <3>5
        <5>2. p - (nbw + k) < N /\ (nbw + k) - p < N
          BY <1>2, <5>1
        <5>3. p = nbw + k
          BY <4>1, <5>1, <5>2, IdxInjective
        <5> QED
          BY <5>1, <5>3
      <4>2. buf'[idx(p)] = buf[idx(p)]
        BY <1>9, <2>0, <4>1
      <4> QED
        BY <2>1, <3>3, <3>5, <4>2
    <3> QED
      BY <1>2, <3>4, <3>5
  <2> QED
    BY <1>8, <2>2, <2>3
<1>15. Segs' = Segs
  BY <1>1, WakeKeepsSegment DEF FlightInv
<1>16. UnaFrom' /\ AcksTaken'
  BY <1>1 DEF FlightInv, UnaFrom, AcksTaken
<1>17. WindowInv'
  BY <1>1, <1>13 DEF FlightInv, WindowInv
<1>18. FlightCovered'
  BY <1>1, <1>13, <1>15 DEF FlightInv, FlightCovered, Running
<1>19. SegsGenuine'
  BY <1>1, <1>13, <1>15 DEF FlightInv, SegsGenuine
<1> QED
  BY <1>14, <1>16, <1>17, <1>18, <1>19 DEF FlightInv

\* A step of a thread that takes no packet and changes no packet.
LEMMA FlightQuiet ==
    ASSUME FlightInv, TypeOK', PointerOrder',
           UNCHANGED <<una, nxt, nbw, wnd, buf, adv, pendingAcks, fins, aborted>>,
           Segs' = Segs,
           zwp'.state = 2 <=> zwp.state = 2, zwp.state = 2 => zwp'.seq = zwp.seq,
           zwp'.pc \in {"ready", "asleep", "countdown"} => zwp'.state # 2
    PROVE  FlightInv'
BY FlightSame DEF Running

\* The prober's waiting leaves its probe as it is, or finds none out.
LEMMA ProberWaits ==
    ASSUME FlightInv, ZwpPause \/ ZwpCountdownEnds \/ ZwpAcked \/ zwp' = zwp \/ zwp' = Wake(zwp)
    PROVE  /\ zwp'.state = 2 <=> zwp.state = 2
           /\ zwp.state = 2 => zwp'.seq = zwp.seq
           /\ zwp'.pc \in {"ready", "asleep", "countdown"} => zwp'.state # 2
<1>1. zwp \in Zwp /\ (zwp.pc \in {"ready", "asleep", "countdown"} => zwp.state # 2)
  BY DEF FlightInv, TypeOK, WindowInv
<1>2. CASE zwp' = zwp
  BY <1>1, <1>2
<1>3. CASE zwp' = Wake(zwp)
  BY <1>1, <1>3 DEF Wake, Zwp
<1>4. CASE ZwpPause
  <2>1. zwp.state # 2 /\ zwp'.state # 2
    BY <1>1, <1>4 DEF ZwpPause
  <2> QED
    BY <2>1
<1>5. CASE ZwpCountdownEnds
  <2>1. zwp.state # 2 /\ zwp'.state # 2
    BY <1>1, <1>5 DEF ZwpCountdownEnds, Zwp
  <2> QED
    BY <2>1
<1>6. CASE ZwpAcked
  BY <1>1, <1>6 DEF ZwpAcked, Zwp
<1> QED
  BY <1>2, <1>3, <1>4, <1>5, <1>6

\* enqueue() adds the packet it is given, or ends the process.
LEMMA EnqueueSegs ==
    ASSUME TypeOK, NEW seq \in U32, NEW data \in Seq(Bytes), Enqueue(seq, data)
    PROVE  \/ SeqSegs(deque') = SeqSegs(deque) \cup {<<seq, data>>} /\ aborted' = aborted
           \/ SeqSegs(deque') = SeqSegs(deque) /\ aborted' = "enqueue"
<1>1. CASE aborted' = "enqueue" /\ deque' = deque
  BY <1>1
<1>2. CASE deque' = Append(deque, NewEntry(seq, data)) /\ aborted' = aborted
  <2> DEFINE e == NewEntry(seq, data)
  <2>1. deque \in Seq(Entry) /\ e \in Entry
    BY NewEntryType DEF TypeOK
  <2>2. e.seq = seq /\ e.data = data
    BY DEF NewEntry
  <2> HIDE DEF e
  <2>3. /\ DOMAIN deque = 1 .. Len(deque) /\ Len(deque) \in Nat
        /\ DOMAIN deque' = 1 .. Len(deque) + 1
        /\ \A i \in 1 .. Len(deque) : deque'[i] = deque[i]
        /\ deque'[Len(deque) + 1] = e
    BY <1>2, <2>1, AppendProperties DEF e
  <2>4. DOMAIN deque' = DOMAIN deque \cup {Len(deque) + 1}
    BY <2>3
  <2>5. SeqSegs(deque') = SeqSegs(deque) \cup {<<seq, data>>}
    BY <2>2, <2>3, <2>4 DEF SeqSegs
  <2> QED
    BY <1>2, <2>5
<1> QED
  BY <1>1, <1>2 DEF Enqueue

\* enqueue() by the sender thread: the segment passes from its hands to the deque.
LEMMA FlightEnqueue ==
    ASSUME FlightInv, TypeOK', PointerOrder', SenderEnqueue
    PROVE  FlightInv'
<1>1. /\ UNCHANGED <<una, nxt, nbw, wnd, buf, zwpEntry, zwp, fins, pendingAcks, adv>>
      /\ sender.pc = "enqueue" /\ sender'.pc = "ready" /\ Running
      /\ Enqueue(sender.seq, sender.data)
  BY DEF SenderEnqueue, bufferVars
<1>2. \/ SeqSegs(deque') = SeqSegs(deque) \cup {<<sender.seq, sender.data>>} /\ aborted' = aborted
      \/ SeqSegs(deque') = SeqSegs(deque) /\ aborted' = "enqueue"
  BY <1>1, EnqueueSegs DEF FlightInv, TypeOK, Sender
<1>3. Segs = SeqSegs(deque) \cup SeqSegs(zwpEntry) \cup {<<sender.seq, sender.data>>}
  BY <1>1 DEF Segs
<1>4. Segs' = SeqSegs(deque') \cup SeqSegs(zwpEntry)
  BY <1>1 DEF Segs
<1>5. Segs' \in SUBSET Segs /\ (Running' => Segs' = Segs)
  BY <1>1, <1>2, <1>3, <1>4 DEF Running
<1>6. zwp'.pc \in {"ready", "asleep", "countdown"} => zwp'.state # 2
  BY <1>1 DEF FlightInv, WindowInv
<1> QED
  BY <1>1, <1>5, <1>6, FlightSame

\* enqueue() of the FIN, which has no payload.
LEMMA FlightFinEnqueue ==
    ASSUME FlightInv, TypeOK', PointerOrder', NEW c \in Closers, CloseEnqueue(c)
    PROVE  FlightInv'
<1>1. /\ UNCHANGED <<una, nxt, nbw, wnd, buf, zwpEntry, sender, zwp, pendingAcks, adv>>
      /\ fins' = fins /\ Running
      /\ Enqueue(closer[c].seq, <<>>)
  BY DEF CloseEnqueue, bufferVars
<1>3. \/ SeqSegs(deque') = SeqSegs(deque) \cup {<<closer[c].seq, <<>> >>} /\ aborted' = aborted
      \/ SeqSegs(deque') = SeqSegs(deque) /\ aborted' = "enqueue"
  <2>1. closer[c].seq \in U32 /\ <<>> \in Seq(Bytes)
    BY DEF FlightInv, TypeOK, Closer
  <2> QED
    BY <1>1, <2>1, EnqueueSegs DEF FlightInv
<1>4. Segs \in SUBSET Segs' /\ Segs' \in SUBSET (Segs \cup {<<closer[c].seq, <<>> >>})
  BY <1>1, <1>3 DEF Segs
<1>5. \A g \in Segs' : g \in Segs \/ g[2] = <<>>
  BY <1>4
<1>6. zwp'.pc \in {"ready", "asleep", "countdown"} => zwp'.state # 2
  BY <1>1 DEF FlightInv, WindowInv
<1> QED
  BY <1>1, <1>4, <1>5, <1>6, FlightSame

\* At most one probe is queued.
OneProbe == zwpEntry = <<>> \/ \E e \in Entry : zwpEntry = <<e>>

LEMMA OneProbeNext == TypeOK /\ OneProbe /\ [Next]_vars => OneProbe'
<1> SUFFICES ASSUME TypeOK, OneProbe, [Next]_vars
             PROVE  zwpEntry' = zwpEntry \/ zwpEntry' = <<>> \/ \E e \in Entry : zwpEntry' = <<e>>
  BY DEF OneProbe
<1>1. CASE ZwpProbe
  <2>1. <<buf[idx(nxt)]>> \in Seq(Bytes) /\ nxt \in U32
    <3>1. nxt \in U32 /\ nxt \in Int /\ buf \in [Cells -> Bytes]
      BY DEF TypeOK, U32
    <3>2. buf[idx(nxt)] \in Bytes
      BY <3>1, IdxType
    <3> QED
      BY <3>1, <3>2
  <2>2. NewEntry(nxt, <<buf[idx(nxt)]>>) \in Entry
    BY <2>1, NewEntryType
  <2> QED
    BY <1>1, <2>2 DEF ZwpProbe
<1>2. ASSUME NEW ack \in pendingAcks, AckQueue(ack) PROVE zwpEntry' = zwpEntry \/ zwpEntry' = <<>>
  BY <1>2 DEF AckQueue
<1>3. CASE \/ \E k \in WriteSizes : AppWrite(k)
           \/ WriterSleep \/ WriterStop \/ WriterWrite \/ WriterAsserts
           \/ SenderSleep \/ SenderStop \/ SenderTake \/ SenderEnqueue
           \/ \E ack \in PeerAcks, w \in Wnds : OnAck(ack, w)
           \/ \E w \in Wnds : GetFin(w)
  BY <1>3 DEF AppWrite, WriterSleep, WriterStop, WriterWrite, WriterAsserts, SenderSleep, SenderStop, SenderTake,
              SenderEnqueue, OnAck, GetFin, queueVars
<1>4. CASE \/ ZwpPause \/ ZwpCountdownEnds \/ ZwpAcked
           \/ \E c \in Closers : CloseGetNxt(c) \/ CloseWriteOne(c) \/ CloseEnqueue(c)
           \/ RtxRead
           \/ \E expired \in SUBSET DOMAIN deque : RtxScan(expired)
           \/ Abort
  BY <1>4 DEF ZwpPause, ZwpCountdownEnds, ZwpAcked, CloseGetNxt, CloseWriteOne, CloseEnqueue,
              RtxRead, RtxScan, Abort, queueVars
<1>5. CASE UNCHANGED vars
  BY <1>5 DEF vars
<1> QED
  BY <1>1, <1>2, <1>3, <1>4, <1>5 DEF Next

\* onAck(), second half: only packets that end at or before una_ leave.
LEMMA FlightAckQueue ==
    ASSUME FlightInv, OneProbe, TypeOK', PointerOrder', NEW ack \in pendingAcks, AckQueue(ack)
    PROVE  FlightInv'
<1>1. /\ UNCHANGED <<una, nxt, nbw, wnd, buf, sender, zwp, fins, adv, aborted>>
      /\ pendingAcks' \in SUBSET pendingAcks
      /\ deque' = DropAcked(deque, ack)
      /\ zwpEntry' = zwpEntry \/ (zwpEntry # <<>> /\ zwpEntry' = <<>> /\ getEndExclusive(zwpEntry[1]) <= ack)
  BY DEF AckQueue, bufferVars
<1>2. ack \in Nat /\ ack <= una /\ una \in Nat
  BY FlightFacts DEF FlightInv, AcksTaken, TypeOK, U32
<1>3. SeqSegs(deque') \in SUBSET SeqSegs(deque)
      /\ \A g \in SeqSegs(deque) : g \in SeqSegs(deque') \/ g[1] + Len(g[2]) <= ack
  <2> DEFINE m == FirstUnacked(deque, ack)
             L == Len(deque)
  <2>1. deque \in Seq(Entry) /\ L \in Nat /\ DOMAIN deque = 1 .. L
    BY DEF FlightInv, TypeOK
  <2>2. m \in 1 .. L + 1 /\ \A i \in 1 .. m - 1 : getEndExclusive(deque[i]) <= ack
    <3>1. ack \in Int
      BY <1>2
    <3> QED
      BY <2>1, <3>1, FirstUnackedType
  <2>3. deque' = SubSeq(deque, m, L)
    BY <1>1 DEF DropAcked
  <2> HIDE DEF m
  <2>4. /\ Len(deque') = L - m + 1 /\ DOMAIN deque' = 1 .. L - m + 1
        /\ \A i \in 1 .. L - m + 1 : deque'[i] = deque[m + i - 1]
    <3>1. \A i \in m .. L : deque[i] \in Entry
      BY <2>1, <2>2
    <3>2. m \in Int /\ L \in Int /\ m <= L + 1
      BY <2>1, <2>2
    <3> HIDE DEF L
    <3>3. /\ Len(SubSeq(deque, m, L)) = IF m <= L THEN L - m + 1 ELSE 0
          /\ SubSeq(deque, m, L) \in Seq(Entry)
          /\ \A i \in 1 .. L - m + 1 : SubSeq(deque, m, L)[i] = deque[m + i - 1]
      BY <2>1, <3>1, <3>2, SubSeqProperties
    <3> QED
      BY <2>3, <3>2, <3>3
  <2>5. SeqSegs(deque') \in SUBSET SeqSegs(deque)
    <3>1. \A i \in DOMAIN deque' : m + i - 1 \in DOMAIN deque /\ deque'[i] = deque[m + i - 1]
      BY <2>1, <2>2, <2>4
    <3> QED
      BY <3>1 DEF SeqSegs
  <2>6. ASSUME NEW g \in SeqSegs(deque)
        PROVE  g \in SeqSegs(deque') \/ g[1] + Len(g[2]) <= ack
    <3>1. PICK i \in DOMAIN deque : g = <<deque[i].seq, deque[i].data>>
      BY DEF SeqSegs
    <3>2. i \in 1 .. L
      BY <2>1
    <3>3. CASE i < m
      <4>1. getEndExclusive(deque[i]) <= ack
        BY <2>1, <2>2, <3>2, <3>3
      <4> QED
        BY <3>1, <4>1 DEF getEndExclusive
    <3>4. CASE i >= m
      <4> DEFINE k == i - m + 1
      <4>1. k \in 1 .. L - m + 1 /\ m + k - 1 = i
        BY <2>1, <2>2, <3>2, <3>4
      <4> HIDE DEF k
      <4>2. k \in DOMAIN deque' /\ deque'[k] = deque[i]
        BY <2>4, <4>1
      <4> QED
        BY <3>1, <4>2 DEF SeqSegs
    <3> QED
      BY <2>1, <2>2, <3>2, <3>3, <3>4
  <2> QED
    BY <2>5, <2>6
<1>4. SeqSegs(zwpEntry') \in SUBSET SeqSegs(zwpEntry)
      /\ \A g \in SeqSegs(zwpEntry) : g \in SeqSegs(zwpEntry') \/ g[1] + Len(g[2]) <= ack
  <2>1. CASE zwpEntry' = zwpEntry
    BY <2>1 DEF SeqSegs
  <2>2. CASE zwpEntry # <<>> /\ zwpEntry' = <<>> /\ getEndExclusive(zwpEntry[1]) <= ack
    <3>1. PICK e : zwpEntry = <<e>>
      BY <2>2 DEF OneProbe
    <3>2. SeqSegs(zwpEntry') = {} /\ SeqSegs(zwpEntry) = {<<e.seq, e.data>>}
      BY <2>2, <3>1 DEF SeqSegs
    <3>3. e.seq + Len(e.data) <= ack
      BY <2>2, <3>1 DEF getEndExclusive
    <3> QED
      BY <3>2, <3>3
  <2> QED
    BY <1>1, <2>1, <2>2
<1>5. /\ Segs' \in SUBSET Segs
      /\ \A g \in Segs : g \in Segs' \/ g[1] + Len(g[2]) <= ack
  BY <1>1, <1>3, <1>4 DEF Segs
<1>6. \A g \in Segs : g[1] + Len(g[2]) <= ack => g[1] + Len(g[2]) <= una
  <2>1. ASSUME NEW g \in Segs, g[1] + Len(g[2]) <= ack PROVE g[1] + Len(g[2]) <= una
    <3>1. g[1] \in Nat /\ Len(g[2]) \in Nat
      BY SegType DEF FlightInv
    <3> QED
      BY <1>2, <2>1, <3>1
  <2> QED
    BY <2>1
<1>7. zwp'.pc \in {"ready", "asleep", "countdown"} => zwp'.state # 2
  BY <1>1 DEF FlightInv, WindowInv
<1> QED
  BY <1>1, <1>5, <1>6, <1>7, FlightSame DEF Running

\* A retransmission scan changes counters only.
LEMMA RetransmittedSegs ==
    ASSUME NEW q \in Seq(Entry), NEW el
    PROVE  SeqSegs(Retransmitted(q, el)) = SeqSegs(q)
<1> DEFINE r == Retransmitted(q, el)
<1>1. DOMAIN r = DOMAIN q
  BY DEF Retransmitted
<1>2. ASSUME NEW i \in DOMAIN q
      PROVE  r[i].seq = q[i].seq /\ r[i].data = q[i].data
  <2>1. r[i] = q[i] \/ r[i] = [q[i] EXCEPT !.counter = @ + 1]
    BY DEF Retransmitted
  <2>2. q[i] \in Entry
    OBVIOUS
  <2> QED
    BY <2>1, <2>2 DEF Entry
<1> HIDE DEF r
<1>3. SeqSegs(r) = SeqSegs(q)
  BY <1>1, <1>2 DEF SeqSegs
<1> QED
  BY <1>3 DEF r

\* The inductive invariant of what is in flight.
Flight == FlightInv /\ OneProbe

\* No critical section forgets, spoils or oversteps.
LEMMA FlightNext == Flight /\ [Next]_vars => Flight'
<1> SUFFICES ASSUME FlightInv, OneProbe, [Next]_vars
             PROVE  FlightInv'
  BY OneProbeNext DEF Flight, FlightInv
<1>0. TypeOK /\ PointerOrder /\ TypeOK' /\ PointerOrder'
  BY TypeNext, PointerNext DEF FlightInv
\* A step of a thread that leaves the pointers and the packets alone.
<1>1. ASSUME UNCHANGED <<una, nxt, nbw, wnd, buf, adv, pendingAcks, fins, aborted>>,
             Segs' = Segs,
             ZwpPause \/ ZwpCountdownEnds \/ ZwpAcked \/ zwp' = zwp \/ zwp' = Wake(zwp)
      PROVE  FlightInv'
  BY <1>0, <1>1, ProberWaits, FlightQuiet
<1>2. CASE (\E k \in WriteSizes : AppWrite(k)) \/ WriterSleep \/ WriterStop
  <2>1. UNCHANGED <<una, nxt, nbw, wnd, buf, adv, pendingAcks, fins, aborted, deque, zwpEntry, sender, zwp>>
    BY <1>2 DEF AppWrite, WriterSleep, WriterStop, bufferVars, queueVars
  <2>2. Segs' = Segs
    BY <2>1 DEF Segs
  <2> QED
    BY <1>1, <2>1, <2>2
<1>3. CASE WriterWrite
  BY <1>0, <1>3, FlightWrite
<1>4. CASE SenderSleep \/ SenderStop
  <2>1. /\ UNCHANGED <<una, nxt, nbw, wnd, buf, adv, pendingAcks, fins, aborted, deque, zwpEntry, zwp>>
        /\ sender.pc = "ready"
        /\ sender' = [sender EXCEPT !.pc = "asleep"] \/ sender' = [sender EXCEPT !.pc = "done"]
    BY <1>4 DEF SenderSleep, SenderStop, bufferVars, queueVars
  <2>2. sender'.pc # "enqueue"
    BY <1>0, <2>1 DEF TypeOK, Sender
  <2>3. Segs' = Segs
    BY <2>1, <2>2 DEF Segs
  <2> QED
    BY <1>1, <2>1, <2>3
<1>5. CASE SenderTake
  BY <1>0, <1>5, FlightTake
<1>6. CASE SenderEnqueue
  BY <1>0, <1>6, FlightEnqueue
<1>7. ASSUME NEW ack \in PeerAcks, NEW w \in Wnds, OnAck(ack, w)
      PROVE  FlightInv'
  BY <1>0, <1>7, FlightAck DEF PeerAcks
<1>8. ASSUME NEW w \in Wnds, GetFin(w)
      PROVE  FlightInv'
  <2>1. 0 \in U32
    BY DEF U32
  <2> QED
    BY <1>0, <1>8, <2>1, FlightAck DEF GetFin
<1>9. ASSUME NEW ack \in pendingAcks, AckQueue(ack)
      PROVE  FlightInv'
  BY <1>0, <1>9, FlightAckQueue
<1>10. CASE ZwpPause \/ ZwpCountdownEnds \/ ZwpAcked
  <2>1. UNCHANGED <<una, nxt, nbw, wnd, buf, adv, pendingAcks, fins, aborted, deque, zwpEntry, sender>>
    BY <1>10 DEF ZwpPause, ZwpCountdownEnds, ZwpAcked, bufferVars, queueVars
  <2>2. Segs' = Segs
    BY <2>1 DEF Segs
  <2> QED
    BY <1>1, <1>10, <2>1, <2>2
<1>11. CASE ZwpProbe
  BY <1>0, <1>11, FlightProbe
<1>12. ASSUME NEW c \in Closers, CloseGetNxt(c)
       PROVE  FlightInv'
  <2>1. UNCHANGED <<una, nxt, nbw, wnd, buf, adv, pendingAcks, fins, aborted, deque, zwpEntry, sender, zwp>>
    BY <1>12 DEF CloseGetNxt, bufferVars, queueVars
  <2>2. Segs' = Segs
    BY <2>1 DEF Segs
  <2> QED
    BY <1>1, <2>1, <2>2
<1>13. ASSUME NEW c \in Closers, CloseWriteOne(c)
       PROVE  FlightInv'
  BY <1>0, <1>13, FlightFin
<1>14. ASSUME NEW c \in Closers, CloseEnqueue(c)
       PROVE  FlightInv'
  BY <1>0, <1>14, FlightFinEnqueue
<1>15. CASE RtxRead
  <2>1. UNCHANGED <<una, nxt, nbw, wnd, buf, adv, pendingAcks, fins, aborted, deque, zwpEntry, sender, zwp>>
    BY <1>15 DEF RtxRead, bufferVars, queueVars
  <2>2. Segs' = Segs
    BY <2>1 DEF Segs
  <2> QED
    BY <1>1, <2>1, <2>2
<1>16. ASSUME NEW expired \in SUBSET DOMAIN deque, RtxScan(expired)
       PROVE  FlightInv'
  <2> DEFINE el == Eligible(deque, expired, rtx.edge)
  <2>1. /\ UNCHANGED <<una, nxt, nbw, wnd, buf, adv, pendingAcks, fins, aborted, zwpEntry>>
        /\ deque' = Retransmitted(deque, el)
        /\ \/ sender' = sender /\ zwp' = zwp
           \/ sender' = Wake(sender) /\ zwp' = Wake(zwp)
    BY <1>16 DEF RtxScan, ShutDown
  <2> HIDE DEF el
  <2>2. SeqSegs(deque') = SeqSegs(deque)
    BY <1>0, <2>1, RetransmittedSegs DEF TypeOK
  <2>3. sender'.pc = "enqueue" <=> sender.pc = "enqueue"
    BY <1>0, <2>1 DEF Wake, TypeOK, Sender
  <2>4. sender'.seq = sender.seq /\ sender'.data = sender.data
    BY <1>0, <2>1 DEF Wake, TypeOK, Sender
  <2>5. Segs' = Segs
    BY <2>1, <2>2, <2>3, <2>4 DEF Segs
  <2> QED
    BY <1>1, <2>1, <2>5
<1>17. CASE Abort
  <2>1. /\ UNCHANGED <<una, nxt, nbw, wnd, buf, adv, pendingAcks, fins, aborted, deque, zwpEntry>>
        /\ sender' = Wake(sender) /\ zwp' = Wake(zwp)
    BY <1>17 DEF Abort, ShutDown, queueVars
  <2>2. Segs' = Segs
    BY <1>0, <2>1, WakeKeepsSegment
  <2> QED
    BY <1>1, <2>1, <2>2
<1>18. CASE UNCHANGED vars
  <2>1. UNCHANGED <<una, nxt, nbw, wnd, buf, adv, pendingAcks, fins, aborted, deque, zwpEntry, sender, zwp>>
    BY <1>18 DEF vars
  <2>2. Segs' = Segs
    BY <2>1 DEF Segs
  <2> QED
    BY <1>1, <2>1, <2>2
<1>19. CASE WriterAsserts
  <2>1. /\ UNCHANGED <<una, nxt, nbw, wnd, buf, adv, pendingAcks, fins, deque, zwpEntry, sender, zwp>>
        /\ aborted' = "write"
    BY <1>19 DEF WriterAsserts, bufferVars, queueVars
  <2>2. Segs' = Segs /\ ~Running'
    BY <2>1 DEF Segs, Running
  <2>3. zwp'.pc \in {"ready", "asleep", "countdown"} => zwp'.state # 2
    BY <2>1 DEF FlightInv, WindowInv
  <2> QED
    BY <1>0, <2>1, <2>2, <2>3, FlightSame
<1> QED
  BY <1>2, <1>3, <1>4, <1>5, <1>6, <1>7, <1>8, <1>9, <1>10, <1>11, <1>12, <1>13,
     <1>14, <1>15, <1>16, <1>17, <1>18, <1>19 DEF Next

\* What is in flight is covered, genuine and within the window, in every
\* reachable state.
THEOREM FlightInvariant == Spec => []Flight
<1>1. Init => Flight
  BY FlightInit DEF Flight, OneProbe, Init
<1> QED
  BY <1>1, FlightNext, PTL DEF Spec

\* Nothing in flight is forgotten: until the numbers wrap, every byte sent and
\* not acknowledged is in a packet that sendReadyData(), the deque or the probe
\* still holds, whatever the order of the two halves of onAck(), the scans of
\* the retransmit thread, the sender thread's hand-over and vClose().
THEOREM NothingInFlightForgotten == Spec => []InFlightCovered
<1>1. Flight => InFlightCovered
  BY FlightImplies DEF Flight
<1> QED
  BY <1>1, FlightInvariant, PTL

\* No segment carries a byte other than the one written at its number (but for
\* the holes of FINs), for every ring size: write() never reaches a cell that
\* holds an unacknowledged byte.
THEOREM PayloadsIntact == Spec => []PayloadIntact
<1>1. Flight => PayloadIntact
  BY FlightImplies DEF Flight
<1> QED
  BY <1>1, FlightInvariant, PTL

\* The sender never runs more than a probe, and one number for every FIN sent,
\* past the largest window edge the peer has offered, however old the
\* acknowledgements that arrive.
THEOREM WindowIsRespected == Spec => []WindowRespected
<1>1. Flight => WindowRespected
  BY FlightImplies DEF Flight
<1> QED
  BY <1>1, FlightInvariant, PTL
=============================================================================
