-------------------------- MODULE RecvBuffer_proofs --------------------------
(***************************************************************************)
(* Proofs about RecvBuffer, for every ring size, segment size and stream.  *)
(*                                                                         *)
(* For every peer and every initial number: types, and no lost wake-up of  *)
(* the reader (Bookkeeping).  For a peer that stays within the free space  *)
(* and a stream whose numbers do not reach the end of uint32_t (Unwrapped):*)
(* the bytes in the ring are the peer's, the early arrivals are sound, no  *)
(* assertion fails but that of a read beyond a full buffer and the FIN,    *)
(* and the buffer implements a byte stream (StreamInv).                    *)
(***************************************************************************)
EXTENDS RecvBuffer, ContainerOps_proofs

\* A segment lies within the stream.
SegSound(s) == /\ s \in (0 .. StreamLen) \X (1 .. MSS)
               /\ s[1] + s[2] <= StreamLen

SegmentsSound == \A s \in segments : SegSound(s)

\* What is received was sent: nxt_ passes the peer's last byte only by its FIN.
NxtSent   == ~fin => OffsetOf(nxt) <= PeerNxt
EarlySent == \A iv \in early : OffsetOf(iv.end) <= PeerNxt

Bookkeeping == TypeOK /\ SegmentsSound /\ NxtSent /\ EarlySent /\ NoLostReaderWakeup

\* The peer stays within the buffer, and no number or search key wraps.
Unwrapped == Fitting /\ IRS + StreamLen + 2 < M

\* Byte p - IRS of the stream is in the cell of its number p.
Stored(p) == buf[idx(p)] = p - IRS

\* The pointers do not cross; nxt_ is one past the data once the FIN is in.
PointersOrdered ==
    /\ IRS <= nbr /\ nbr <= nxt
    /\ nxt <= IRS + PeerNxt \/ (fin /\ nxt = IRS + PeerNxt + 1)

\* The peer cuts its stream once: segments do not overlap.
Apart == \A s, t \in segments : s = t \/ s[1] + s[2] <= t[1] \/ t[1] + t[2] <= s[1]

\* Number b does not cut a segment in two.
Boundary(b) == \A s \in segments : IRS + s[1] + s[2] <= b \/ b <= IRS + s[1]

Boundaries == Boundary(nxt) /\ \A iv \in early : Boundary(iv.end)

\* A segment fits into the buffer, or it is a probe of one byte.
Fits == \A s \in segments : IRS + s[1] + s[2] <= nbr + N \/ s[2] = 1

\* The data received, which excludes the number of the FIN, fits as well.
DataFits == nxt <= nbr + N \/ IRS + PeerNxt <= nbr + N

EarlyPlaced == \A iv \in early : nxt < iv.begin /\ iv.end <= nbr + N /\ iv.end <= IRS + PeerNxt

AllStored ==
    /\ \A p \in Nat : nbr <= p /\ p < nxt /\ p < IRS + PeerNxt => Stored(p)
    /\ \A p \in Covered(early) : Stored(p)

StreamInv ==
    /\ Bookkeeping /\ FailsOnlyBeyondFin /\ PointersOrdered /\ Separated(early) /\ Apart
    /\ Boundaries /\ Fits /\ DataFits /\ EarlyPlaced /\ AllStored

---------------------------------------------------------------------------
(* Numbers and the peer's progress.                                        *)

\* PeerNxt, of any set of segments.
Reach(S) == LET ends == {s[1] + s[2] : s \in S}
            IN CHOOSE m \in {0} \cup ends : \A e \in ends : m >= e

LEMMA Constants ==
    /\ M \in Nat /\ M > 1 /\ N \in Nat /\ N > 1 /\ N < M
    /\ MSS \in Nat /\ MSS > 0
    /\ IRS \in Nat /\ IRS < M /\ IRS \in U32
    /\ StreamLen \in Nat /\ StreamLen < M - 1
    /\ Workers \in Nat /\ Workers > 0
    /\ \A n \in ReadSizes : n \in Nat /\ n > 0
BY RecvAssumption, MAssumption, NAssumption DEF U32

LEMMA SegmentType ==
    ASSUME NEW s, SegSound(s)
    PROVE  /\ s[1] \in Nat /\ s[2] \in Nat /\ s[2] > 0 /\ s[2] <= MSS /\ s[1] < s[1] + s[2]
           /\ s[1] + s[2] \in Nat /\ s[1] + s[2] <= StreamLen
BY Constants DEF SegSound

\* The furthest end of the segments.
LEMMA ReachOf ==
    ASSUME NEW S, \A s \in S : SegSound(s)
    PROVE  /\ Reach(S) \in Nat /\ Reach(S) <= StreamLen
           /\ \A s \in S : s[1] + s[2] <= Reach(S)
           /\ Reach(S) = 0 \/ \E s \in S : Reach(S) = s[1] + s[2]
<1> DEFINE ends == {s[1] + s[2] : s \in S}
           all  == {0} \cup ends
<1>0. \A s \in S : s[1] + s[2] \in Nat /\ s[1] + s[2] <= StreamLen
  BY SegmentType
<1>1. all \in SUBSET (0 .. StreamLen) /\ all # {} /\ StreamLen \in Nat
  BY <1>0, Constants
<1>2. PICK m \in all : \A e \in all : m >= e
  <2> HIDE DEF all
  <2> QED
    BY <1>1, LargestIn
<1>3. Reach(S) = CHOOSE x \in all : \A e \in ends : x >= e
  BY DEF Reach
<1>4. Reach(S) \in all /\ \A e \in ends : Reach(S) >= e
  <2>1. m \in all /\ \A e \in ends : m >= e
    BY <1>2
  <2> HIDE DEF all, ends
  <2> QED
    BY <1>3, <2>1
<1>5. \A s \in S : s[1] + s[2] <= Reach(S)
  BY <1>0, <1>1, <1>4
<1> QED
  BY <1>1, <1>4, <1>5

LEMMA PeerIs ==
    /\ PeerNxt = Reach(segments)
    /\ PeerNxt' = Reach(segments')
BY DEF PeerNxt, Reach

\* A new segment takes the peer as far as it goes.
LEMMA ReachGrows ==
    ASSUME NEW S, \A s \in S : SegSound(s), NEW len \in 1 .. MSS, Reach(S) + len <= StreamLen
    PROVE  /\ SegSound(<<Reach(S), len>>)
           /\ Reach(S \cup {<<Reach(S), len>>}) = Reach(S) + len
<1> DEFINE t == <<Reach(S), len>>
           T == S \cup {t}
<1>0. Reach(S) \in Nat /\ len \in Nat /\ len > 0 /\ StreamLen \in Nat
  BY ReachOf, Constants
<1>1. SegSound(t)
  BY <1>0, Constants DEF SegSound
<1>2. /\ Reach(T) \in Nat /\ \A s \in T : s[1] + s[2] <= Reach(T)
      /\ Reach(T) = 0 \/ \E s \in T : Reach(T) = s[1] + s[2]
  BY <1>1, ReachOf
<1>3. Reach(S) + len <= Reach(T)
  BY <1>2
<1>4. \A s \in T : s[1] + s[2] <= Reach(S) + len /\ s[1] + s[2] \in Nat
  <2>1. \A s \in S : s[1] + s[2] <= Reach(S) /\ s[1] + s[2] \in Nat
    BY ReachOf, SegmentType
  <2> QED
    BY <1>0, <2>1
<1>5. \E s \in T : Reach(T) = s[1] + s[2]
  BY <1>0, <1>2, <1>3
<1>6. Reach(T) = Reach(S) + len
  BY <1>0, <1>2, <1>3, <1>4, <1>5
<1> QED
  BY <1>1, <1>6

\* An offset of the stream, or one past its end, and its number.
LEMMA Offsets ==
    ASSUME NEW o \in Nat, o <= StreamLen + 1
    PROVE  SeqOf(o) \in U32 /\ OffsetOf(SeqOf(o)) = o
BY Constants DEF SeqOf, OffsetOf, Add, Sub, U32

LEMMA OffsetType ==
    ASSUME NEW seq \in U32
    PROVE  /\ OffsetOf(seq) \in Nat /\ OffsetOf(seq) < M
           /\ \A o \in Nat : o < M /\ OffsetOf(seq) = o => seq = SeqOf(o)
BY Constants DEF SeqOf, OffsetOf, Add, Sub, U32

LEMMA NumbersAdd ==
    ASSUME NEW o \in Nat, NEW n \in Nat, o + n <= StreamLen + 1
    PROVE  Add(SeqOf(o), n) = SeqOf(o + n)
BY Constants DEF SeqOf, Add, U32

LEMMA SubType ==
    ASSUME NEW a \in U32, NEW b \in U32
    PROVE  /\ Sub(a, b) \in Nat /\ Sub(a, b) < M /\ (Sub(a, b) = 0 <=> a = b)
           /\ \A n \in Nat : n < M => Add(a, n) \in U32
BY Constants DEF Add, Sub, U32

---------------------------------------------------------------------------
(* Every peer: types, and no lost wake-up.                                 *)

\* What a state gives the steps below.
LEMMA BookFacts ==
    ASSUME Bookkeeping
    PROVE  /\ PeerNxt \in Nat /\ PeerNxt <= StreamLen
           /\ nbr \in U32 /\ nxt \in U32 /\ nbr \in Nat /\ nxt \in Nat
           /\ OffsetOf(nbr) \in Nat /\ OffsetOf(nxt) \in Nat
           /\ SizeToRead \in Nat /\ SizeFree \in Int
           /\ DataEnd \in Nat /\ DataEnd <= OffsetOf(nxt) /\ DataEnd <= PeerNxt
           /\ (~fin => DataEnd = OffsetOf(nxt))
           /\ \A s \in segments : SegSound(s) /\ s[1] + s[2] <= PeerNxt
<1>1. \A s \in segments : SegSound(s)
  BY DEF Bookkeeping, SegmentsSound
<1>2. PeerNxt \in Nat /\ PeerNxt <= StreamLen /\ \A s \in segments : s[1] + s[2] <= PeerNxt
  BY <1>1, PeerIs, ReachOf
<1>3. nbr \in U32 /\ nxt \in U32 /\ nbr \in Nat /\ nxt \in Nat
  BY Constants DEF Bookkeeping, TypeOK, U32
<1>4. OffsetOf(nbr) \in Nat /\ OffsetOf(nxt) \in Nat
  BY <1>3, OffsetType
<1>5. SizeToRead \in Nat /\ SizeFree \in Int
  BY <1>3, SubType, Constants DEF SizeToRead, SizeFree
<1>6. DataEnd \in Nat /\ DataEnd <= OffsetOf(nxt) /\ DataEnd <= PeerNxt
      /\ (~fin => DataEnd = OffsetOf(nxt))
  BY <1>2, <1>4 DEF DataEnd, Min2, Bookkeeping, NxtSent
<1> QED
  BY <1>1, <1>2, <1>3, <1>4, <1>5, <1>6

\* What onRecv writes of a segment, and the interval it makes of it.
LEMMA PayloadType ==
    ASSUME NEW s, SegSound(s), NEW k \in Nat, k < s[2]
    PROVE  /\ SubSeq(Payload(s), k + 1, s[2]) \in Seq(0 .. StreamLen)
           /\ Len(SubSeq(Payload(s), k + 1, s[2])) = s[2] - k
           /\ \A i \in 1 .. s[2] - k : SubSeq(Payload(s), k + 1, s[2])[i] = s[1] + k + i - 1
           /\ Payload(s) \in Seq(0 .. StreamLen) /\ Len(Payload(s)) = s[2]
<1>1. /\ s[1] \in Nat /\ s[2] \in Nat /\ s[2] > 0 /\ s[1] + s[2] <= StreamLen /\ StreamLen \in Nat
  BY SegmentType, Constants
<1>2. Payload(s) \in [1 .. s[2] -> 0 .. StreamLen]
  BY <1>1 DEF Payload
<1>3. Payload(s) \in Seq(0 .. StreamLen) /\ Len(Payload(s)) = s[2]
  BY <1>1, <1>2
<1>4. /\ k + 1 \in Int /\ s[2] \in Int /\ s[2] - (k + 1) + 1 = s[2] - k
      /\ k + 1 <= s[2] /\ \A i \in k + 1 .. s[2] : Payload(s)[i] \in 0 .. StreamLen
  BY <1>1, <1>2
<1>5. /\ SubSeq(Payload(s), k + 1, s[2]) \in Seq(0 .. StreamLen)
      /\ Len(SubSeq(Payload(s), k + 1, s[2])) = s[2] - k
      /\ \A i \in 1 .. s[2] - k : SubSeq(Payload(s), k + 1, s[2])[i] = Payload(s)[k + 1 + i - 1]
  <2> DEFINE d == Payload(s)
             e == s[2]
             b == k + 1
  <2>1. b \in Int /\ e \in Int /\ e - b + 1 = e - k /\ b <= e /\ \A i \in b .. e : d[i] \in 0 .. StreamLen
    BY <1>4
  <2> HIDE DEF d, e, b
  <2>2. /\ SubSeq(d, b, e) \in Seq(0 .. StreamLen)
        /\ Len(SubSeq(d, b, e)) = IF b <= e THEN e - b + 1 ELSE 0
        /\ \A i \in 1 .. e - b + 1 : SubSeq(d, b, e)[i] = d[b + i - 1]
    BY <2>1, SubSeqProperties
  <2> QED
    BY <2>1, <2>2 DEF d, e, b
<1>6. \A i \in 1 .. s[2] - k : Payload(s)[k + 1 + i - 1] = s[1] + k + i - 1
  BY <1>1 DEF Payload
<1> QED
  BY <1>3, <1>5, <1>6

LEMMA WrittenType ==
    ASSUME NEW s, SegSound(s), NEW n \in Nat, n <= s[2]
    PROVE  /\ Written(SeqOf(s[1]), n) \in [begin : U32, end : U32]
           /\ OffsetOf(Written(SeqOf(s[1]), n).end) = s[1] + n
<1>1. /\ s[1] \in Nat /\ s[2] \in Nat /\ s[2] > 0 /\ s[1] + s[2] <= StreamLen /\ StreamLen \in Nat
  BY SegmentType, Constants
<1>2. Add(SeqOf(s[1]), n) = SeqOf(s[1] + n) /\ s[1] + n \in Nat /\ s[1] + n <= StreamLen + 1
  BY <1>1, NumbersAdd
<1>3. SeqOf(s[1]) \in U32 /\ SeqOf(s[1] + n) \in U32 /\ OffsetOf(SeqOf(s[1] + n)) = s[1] + n
  BY <1>1, <1>2, Offsets
<1> QED
  BY <1>2, <1>3 DEF Written

LEMMA BookInit == Init => Bookkeeping
<1> SUFFICES ASSUME Init PROVE Bookkeeping
  OBVIOUS
<1>1. TypeOK
  <2>1. buf \in [Cells -> 0 .. StreamLen] /\ notifies \in 0 .. Workers /\ edge \in Int
    BY Constants DEF Init, Junk
  <2>2. early \subseteq Interval /\ segments \subseteq (0 .. StreamLen) \X (1 .. MSS)
    BY DEF Init
  <2>3. nbr \in U32 /\ nxt \in U32 /\ reader \in [pc : {"idle", "ready", "asleep"}, n : Nat]
    BY Constants DEF Init
  <2> QED
    BY <2>1, <2>2, <2>3 DEF Init, TypeOK
<1>2. SegmentsSound /\ segments = {}
  BY DEF Init, SegmentsSound
<1>3. PeerNxt \in Nat /\ OffsetOf(nxt) = 0
  BY <1>2, PeerIs, ReachOf, Constants DEF Init, OffsetOf, Sub
<1> QED
  BY <1>1, <1>2, <1>3 DEF Init, Bookkeeping, NxtSent, EarlySent, NoLostReaderWakeup

\* A step that leaves both pointers and the peer alone, and wakes no reader up
\* without need.
LEMMA BookSame ==
    ASSUME Bookkeeping, TypeOK', UNCHANGED <<nxt, segments, fin>>, early' = {} \/ early' = early,
           \/ UNCHANGED <<nbr, reader, notifies>> /\ (Running' => Running)
           \/ reader'.pc # "asleep"
           \/ nbr' = nxt'
    PROVE  Bookkeeping'
<1>1. SegmentsSound' /\ NxtSent' /\ EarlySent' /\ PeerNxt' = PeerNxt /\ DataEnd' = DataEnd
  BY PeerIs DEF Bookkeeping, SegmentsSound, NxtSent, EarlySent, DataEnd
<1>2. NoLostReaderWakeup'
  <2>1. CASE UNCHANGED <<nbr, reader, notifies>> /\ (Running' => Running)
    BY <1>1, <2>1 DEF Bookkeeping, NoLostReaderWakeup
  <2>2. CASE reader'.pc # "asleep"
    BY <2>2 DEF NoLostReaderWakeup
  <2>3. CASE nbr' = nxt'
    BY <1>1, <2>3, BookFacts DEF NoLostReaderWakeup
  <2> QED
    BY <2>1, <2>2, <2>3
<1> QED
  BY <1>1, <1>2 DEF Bookkeeping

\* The peer sends a segment.
LEMMA BookSend ==
    ASSUME Bookkeeping, NEW len \in 1 .. MSS, ~fin, PeerNxt + len <= StreamLen,
           segments' = segments \cup {<<PeerNxt, len>>},
           UNCHANGED <<bufferVars, reader, notifies, finWorker, state, fin, edge, closing, failed>>
    PROVE  Bookkeeping' /\ PeerNxt' = PeerNxt + len
<1>1. \A s \in segments : SegSound(s)
  BY DEF Bookkeeping, SegmentsSound
<1>2. SegSound(<<PeerNxt, len>>) /\ PeerNxt' = PeerNxt + len
  BY <1>1, PeerIs, ReachGrows
<1>3. PeerNxt \in Nat /\ len \in Nat /\ OffsetOf(nxt) \in Nat /\ OffsetOf(nxt) <= PeerNxt
  BY BookFacts DEF Bookkeeping, NxtSent
<1>4. SegmentsSound'
  BY <1>1, <1>2 DEF SegmentsSound
<1>5. TypeOK'
  <2>1. segments' \subseteq (0 .. StreamLen) \X (1 .. MSS)
    BY <1>2 DEF Bookkeeping, TypeOK, SegSound
  <2> QED
    BY <2>1 DEF Bookkeeping, TypeOK, bufferVars
<1>6. UNCHANGED <<nbr, nxt, early, reader, notifies, fin, failed>>
  BY DEF bufferVars
<1>7. NxtSent' /\ DataEnd' = DataEnd
  BY <1>2, <1>3, <1>6 DEF NxtSent, DataEnd, Min2, OffsetOf
<1>8. EarlySent'
  <2>1. ASSUME NEW iv \in early PROVE OffsetOf(iv.end) \in Nat /\ OffsetOf(iv.end) <= PeerNxt
    BY OffsetType, IntervalType DEF Bookkeeping, EarlySent, TypeOK
  <2> QED
    BY <1>2, <1>3, <1>6, <2>1 DEF EarlySent
<1>9. NoLostReaderWakeup'
  BY <1>6, <1>7 DEF Bookkeeping, NoLostReaderWakeup, Running, OffsetOf
<1> QED
  BY <1>2, <1>4, <1>5, <1>7, <1>8, <1>9 DEF Bookkeeping

\* The window edge that is advertised.
LEMMA EdgeType ==
    ASSUME edge \in Int, NEW o \in Int, NEW free \in Int, Advertise(o, free)
    PROVE  edge' \in Int
<1>1. N + 1 \in Nat /\ N + 1 > 0
  BY Constants
<1>2. \A d \in Nat : d > 0 => o + (free % d) \in Int
  OBVIOUS
<1> QED
  BY <1>1, <1>2 DEF Advertise

\* onCtrl: the FIN's number is not data.
LEMMA BookCtrl ==
    ASSUME Bookkeeping, OnCtrl, finWorker' \in BOOLEAN,
           state' \in {"established", "finWait", "timeWait", "closeWait", "lastAck", "closed"}
    PROVE  Bookkeeping' /\ DataEnd' = DataEnd
<1>1. fin /\ UNCHANGED <<nbr, early, stopped, buf, reader, notifies, segments, fin, closing, failed>>
  BY DEF OnCtrl, peerVars
<1>2. PeerNxt' = PeerNxt /\ PeerNxt \in Nat /\ PeerNxt <= StreamLen
  BY <1>1, PeerIs, BookFacts
<1>3. nxt' \in U32 /\ DataEnd' = DataEnd
  <2>1. CASE SeqOf(PeerNxt) = nxt
    <3>1. nxt' = SeqOf(PeerNxt + 1) /\ PeerNxt + 1 \in Nat /\ PeerNxt + 1 <= StreamLen + 1
      BY <1>2, <2>1, NumbersAdd, Constants DEF OnCtrl
    <3>2. nxt' \in U32 /\ OffsetOf(nxt') = PeerNxt + 1 /\ OffsetOf(nxt) = PeerNxt
      BY <1>2, <2>1, <3>1, Offsets, Constants
    <3> QED
      BY <1>2, <3>2 DEF DataEnd, Min2, OffsetOf
  <2>2. CASE SeqOf(PeerNxt) # nxt
    BY <1>2, <2>2, BookFacts DEF OnCtrl, DataEnd, OffsetOf
  <2> QED
    BY <2>1, <2>2
<1>4. edge' \in Int
  <2>1. Sub(nxt', nbr) \in Nat /\ OffsetOf(nxt') \in Nat /\ N \in Nat /\ edge \in Int
    BY <1>3, SubType, OffsetType, Constants DEF Bookkeeping, TypeOK
  <2>2. N - Sub(nxt', nbr) \in Int /\ OffsetOf(nxt') \in Int
    BY <2>1
  <2> QED
    BY <2>1, <2>2, EdgeType DEF OnCtrl
<1>5. TypeOK'
  BY <1>1, <1>3, <1>4 DEF Bookkeeping, TypeOK
<1>6. SegmentsSound' /\ NxtSent' /\ EarlySent' /\ NoLostReaderWakeup'
  BY <1>1, <1>2, <1>3 DEF Bookkeeping, SegmentsSound, NxtSent, EarlySent, NoLostReaderWakeup, Running
<1> QED
  BY <1>3, <1>5, <1>6 DEF Bookkeeping

\* What write() makes of the buffer, when its assertion holds.
LEMMA RingWritten ==
    ASSUME Bookkeeping, NEW d \in Seq(0 .. StreamLen), NEW at \in U32, RangeAsserted(at)
    PROVE  /\ write(buf, d, at, Last).n = WriteCount(Len(d), at, Last)
           /\ Stores(0 .. StreamLen, buf, d, at, write(buf, d, at, Last))
           /\ write(buf, d, at, Last).n \in Nat /\ write(buf, d, at, Last).n <= Len(d)
           /\ write(buf, d, at, Last).buf \in [Cells -> 0 .. StreamLen]
<1>1. buf \in [Cells -> 0 .. StreamLen] /\ at \in Nat /\ Last \in Int
  BY BookFacts, Constants DEF Bookkeeping, TypeOK, Last, U32
<1>2. at < Last => Last - at < N
  BY DEF RangeAsserted
<1>3. /\ write(buf, d, at, Last).n = WriteCount(Len(d), at, Last)
      /\ Stores(0 .. StreamLen, buf, d, at, write(buf, d, at, Last))
  BY <1>1, <1>2, WriteExact
<1> QED
  BY <1>3, LenProperties DEF Stores

\* A segment beyond nxt_: nothing becomes readable.
LEMMA BookEarly ==
    ASSUME Bookkeeping, NEW s \in segments, EarlyArrival(s), Running,
           UNCHANGED <<reader, finWorker, state, peerVars, closing>>
    PROVE  Bookkeeping'
<1> DEFINE seq == SeqOf(s[1])
           w   == write(buf, Payload(s), seq, Last)
           iv  == Written(seq, w.n)
           m   == emplaceMerge(early, iv)
<1>1. SegSound(s) /\ s[1] + s[2] <= PeerNxt /\ PeerNxt \in Nat
  BY BookFacts
<1>2. s[1] \in Nat /\ s[2] \in Nat /\ s[1] <= StreamLen + 1 /\ s[2] > 0
  BY <1>1, SegmentType, Constants
<1>3. seq \in U32 /\ Payload(s) \in Seq(0 .. StreamLen) /\ Len(Payload(s)) = s[2]
  BY <1>1, <1>2, Offsets, PayloadType
<1>4. w.n \in Nat /\ w.n <= s[2] /\ w.buf \in [Cells -> 0 .. StreamLen]
  BY <1>3, RingWritten DEF EarlyArrival
<1>5. iv \in [begin : U32, end : U32] /\ OffsetOf(iv.end) = s[1] + w.n
  <2> HIDE DEF w
  <2> QED
    BY <1>1, <1>4, WrittenType
<1>6. early \in SUBSET Interval /\ edge \in Int
  BY DEF Bookkeeping, TypeOK
<1>7. /\ m.set \in SUBSET Interval /\ m.outcome \in {"ok", "throw", "undefined"}
      /\ Ends(m.set) \subseteq Ends(early) \cup {iv.end}
  <2> HIDE DEF iv
  <2> QED
    BY <1>5, <1>6, EmplaceMergeType
<1>8. /\ buf' = w.buf
      /\ \/ UNCHANGED <<early, failed>>
         \/ early' = m.set /\ failed' \in {failed, m.outcome} /\ (m.outcome = "ok" => failed' = failed)
      /\ UNCHANGED <<nbr, nxt, stopped, notifies, reader, finWorker, state, segments, fin, closing>>
  BY DEF EarlyArrival, peerVars
<1>9. edge' \in Int
  <2>1. OffsetOf(nxt) \in Int /\ SizeFree \in Int /\ Advertise(OffsetOf(nxt), SizeFree)
    BY BookFacts DEF EarlyArrival
  <2> QED
    BY <1>6, <2>1, EdgeType
<1> HIDE DEF w, m, iv, seq
<1>10. early' \in SUBSET Interval /\ failed' \in {"no", "assert", "throw", "undefined", "read"}
  BY <1>6, <1>7, <1>8 DEF Bookkeeping, TypeOK
<1>11. TypeOK'
  BY <1>4, <1>8, <1>9, <1>10 DEF Bookkeeping, TypeOK
<1>12. PeerNxt' = PeerNxt /\ DataEnd' = DataEnd
  BY <1>8, PeerIs DEF DataEnd
<1>13. SegmentsSound' /\ NxtSent'
  BY <1>8, <1>12 DEF Bookkeeping, SegmentsSound, NxtSent
<1>14. EarlySent'
  <2>1. ASSUME NEW x \in early' PROVE OffsetOf(x.end) <= PeerNxt
    <3>1. x.end \in Ends(early) \cup {iv.end}
      BY <1>7, <1>8 DEF Ends
    <3>2. CASE x.end = iv.end
      BY <1>1, <1>2, <1>4, <1>5, <3>2
    <3>3. CASE x.end \in Ends(early)
      BY <3>3 DEF Ends, Bookkeeping, EarlySent
    <3> QED
      BY <3>1, <3>2, <3>3
  <2> QED
    BY <1>12, <2>1 DEF EarlySent
<1>15. NoLostReaderWakeup'
  BY <1>8, <1>12 DEF Bookkeeping, NoLostReaderWakeup
<1> QED
  BY <1>11, <1>13, <1>14, <1>15 DEF Bookkeeping

\* New data: the worker that brings it is about to notify.
LEMMA BookNew ==
    ASSUME Bookkeeping, NEW s \in segments, NewData(s), Running,
           UNCHANGED <<reader, finWorker, state, peerVars, closing>>
    PROVE  Bookkeeping'
<1> DEFINE seq == SeqOf(s[1])
           k   == Sub(nxt, seq)
           d   == SubSeq(Payload(s), k + 1, s[2])
           w   == write(buf, d, nxt, Last)
           iv  == Written(seq, w.n)
           m   == mergeRemove(early, iv)
<1>1. SegSound(s) /\ s[1] + s[2] <= PeerNxt /\ PeerNxt \in Nat /\ nxt \in U32
  BY BookFacts
<1>2. s[1] \in Nat /\ s[2] \in Nat /\ s[1] <= StreamLen + 1 /\ s[2] > 0
  BY <1>1, SegmentType, Constants
<1>3. seq \in U32 /\ k \in Nat /\ k < s[2]
  BY <1>1, <1>2, Offsets, SubType DEF NewData
<1>4. d \in Seq(0 .. StreamLen) /\ Len(d) = s[2] - k
  <2> HIDE DEF k
  <2> QED
    BY <1>1, <1>3, PayloadType
<1>5. w.n \in Nat /\ w.n <= s[2] /\ w.buf \in [Cells -> 0 .. StreamLen]
  <2>1. RangeAsserted(nxt)
    BY DEF NewData
  <2> HIDE DEF d, k
  <2>2. w.n \in Nat /\ w.n <= Len(d) /\ w.buf \in [Cells -> 0 .. StreamLen]
    BY <1>1, <1>4, <2>1, RingWritten
  <2> QED
    BY <1>2, <1>3, <1>4, <2>2
<1>6. iv \in [begin : U32, end : U32] /\ OffsetOf(iv.end) = s[1] + w.n
  <2> HIDE DEF w
  <2> QED
    BY <1>1, <1>5, WrittenType
<1>7. early \in SUBSET Interval /\ edge \in Int /\ notifies \in 0 .. Workers
  BY DEF Bookkeeping, TypeOK
<1>8. m.set \in SUBSET early /\ m.outcome \in {"ok", "throw"} /\ m.end \in Ends(early) \cup {iv.end}
  <2> HIDE DEF iv
  <2> QED
    BY <1>6, <1>7, MergeRemoveType
<1>9. /\ buf' = w.buf
      /\ \/ /\ m.outcome = "ok" /\ nxt' = m.end /\ early' = m.set
            /\ notifies < Workers /\ notifies' = notifies + 1
            /\ Advertise(OffsetOf(m.end), SizeFree - w.n)
            /\ failed' = failed
         \/ /\ failed' = m.outcome /\ m.outcome # "ok"
            /\ UNCHANGED <<nxt, early, notifies, edge>>
      /\ UNCHANGED <<nbr, stopped, reader, finWorker, state, segments, fin, closing>>
  BY DEF NewData, peerVars
<1>10. m.end \in U32 /\ OffsetOf(m.end) <= PeerNxt
  <2>1. CASE m.end = iv.end
    BY <1>1, <1>2, <1>5, <1>6, <2>1
  <2>2. CASE m.end \in Ends(early)
    BY <1>7, <2>2, IntervalType DEF Ends, Bookkeeping, EarlySent
  <2> QED
    BY <1>8, <2>1, <2>2
<1> HIDE DEF w, m, iv, seq, k, d
<1>11. edge' \in Int
  <2>1. CASE Advertise(OffsetOf(m.end), SizeFree - w.n)
    <3>1. OffsetOf(m.end) \in Int /\ SizeFree - w.n \in Int
      BY <1>5, <1>10, OffsetType, BookFacts
    <3> QED
      BY <1>7, <2>1, <3>1, EdgeType
  <2>2. CASE edge' = edge
    BY <1>7, <2>2
  <2> QED
    BY <1>9, <2>1, <2>2
<1>12. TypeOK'
  <2>1. nxt' \in U32 /\ early' \in SUBSET Interval /\ notifies' \in 0 .. Workers
    BY <1>1, <1>7, <1>8, <1>9, <1>10, Constants
  <2>2. failed' \in {"no", "assert", "throw", "undefined", "read"}
    BY <1>8, <1>9 DEF Bookkeeping, TypeOK
  <2> QED
    BY <1>5, <1>9, <1>11, <2>1, <2>2 DEF Bookkeeping, TypeOK
<1>13. PeerNxt' = PeerNxt
  BY <1>9, PeerIs
<1>14. SegmentsSound' /\ NxtSent' /\ EarlySent'
  <2>1. OffsetOf(nxt') <= PeerNxt \/ nxt' = nxt
    BY <1>9, <1>10
  <2>2. early' \in SUBSET early
    BY <1>8, <1>9
  <2> QED
    BY <1>9, <1>13, <2>1, <2>2 DEF Bookkeeping, SegmentsSound, NxtSent, EarlySent, OffsetOf
<1>15. NoLostReaderWakeup'
  <2>1. CASE notifies' = notifies + 1
    BY <1>7, <2>1 DEF NoLostReaderWakeup
  <2>2. CASE UNCHANGED <<nxt, early, notifies, edge>>
    BY <1>9, <1>13, <2>2 DEF Bookkeeping, NoLostReaderWakeup, DataEnd
  <2> QED
    BY <1>9, <2>1, <2>2
<1> QED
  BY <1>12, <1>14, <1>15 DEF Bookkeeping

LEMMA BookRecv ==
    ASSUME Bookkeeping, NEW s \in segments, OnRecv(s)
    PROVE  Bookkeeping'
<1>1. /\ Running /\ UNCHANGED <<reader, finWorker, state, peerVars, closing>>
      /\ EarlyArrival(s) \/ NothingNew(s) \/ NewData(s) \/ WriteAsserts(s)
  BY DEF OnRecv
<1>2. CASE NothingNew(s)
  <2>1. UNCHANGED <<nbr, nxt, early, stopped, buf, notifies, failed, reader, finWorker, state, segments, fin, closing>>
    BY <1>1, <1>2 DEF NothingNew, bufferVars, peerVars
  <2>2. edge' \in Int
    <3>1. OffsetOf(nxt) \in Int /\ SizeFree \in Int /\ Advertise(OffsetOf(nxt), SizeFree) /\ edge \in Int
      BY <1>2, BookFacts DEF NothingNew, Bookkeeping, TypeOK
    <3> QED
      BY <3>1, EdgeType
  <2>3. TypeOK'
    BY <2>1, <2>2 DEF Bookkeeping, TypeOK
  <2> QED
    BY <1>1, <2>1, <2>3, BookSame
<1>3. CASE WriteAsserts(s)
  <2>1. UNCHANGED <<nbr, nxt, early, stopped, buf, notifies, edge, reader, finWorker, state, segments, fin, closing>>
    BY <1>1, <1>3 DEF WriteAsserts, bufferVars, peerVars
  <2>2. TypeOK'
    BY <1>3, <2>1 DEF Bookkeeping, TypeOK, WriteAsserts
  <2> QED
    BY <1>1, <2>1, <2>2, BookSame
<1> QED
  BY <1>1, <1>2, <1>3, BookEarly, BookNew

LEMMA BookStep ==
    ASSUME Bookkeeping, [Next]_vars
    PROVE  Bookkeeping'
<1>0. TypeOK /\ reader \in [pc : {"idle", "ready", "asleep"}, n : Nat]
  BY DEF Bookkeeping, TypeOK
<1>w. Wake(reader) \in [pc : {"idle", "ready", "asleep"}, n : Nat] /\ Wake(reader).pc # "asleep"
  BY <1>0 DEF Wake
<1>1. ASSUME NEW len \in 1 .. MSS, PeerSend(len) PROVE Bookkeeping'
  <2>1. PeerNxt + len <= StreamLen
    <3>1. PeerNxt \in Nat /\ OffsetOf(nbr) \in Nat /\ edge \in Int /\ N \in Nat /\ StreamLen \in Nat
      BY <1>0, BookFacts, Constants DEF TypeOK
    <3> QED
      BY <1>1, <3>1 DEF PeerSend, Min2, PeerLimit
  <2> QED
    BY <1>1, <2>1, BookSend DEF PeerSend
<1>2. CASE PeerProbe
  <2>1. 1 \in 1 .. MSS /\ PeerNxt + 1 <= StreamLen
    BY <1>2, BookFacts, Constants DEF PeerProbe
  <2> QED
    BY <1>2, <2>1, BookSend DEF PeerProbe
<1>3. CASE PeerFin
  <2>1. UNCHANGED <<nbr, nxt, early, reader, notifies, segments, failed>> /\ fin'
    BY <1>3 DEF PeerFin, bufferVars
  <2>2. TypeOK'
    BY <1>0, <1>3 DEF TypeOK, PeerFin, bufferVars
  <2>3. PeerNxt' = PeerNxt
    BY <2>1, PeerIs
  <2> QED
    BY <2>1, <2>2, <2>3 DEF Bookkeeping, SegmentsSound, NxtSent, EarlySent, NoLostReaderWakeup, DataEnd, Running
<1>4. ASSUME NEW s \in segments, OnRecv(s) PROVE Bookkeeping'
  BY <1>4, BookRecv
<1>5. CASE Notify
  <2>1. notifies' \in 0 .. Workers
    BY <1>0, <1>5, Constants DEF TypeOK, Notify
  <2>2. TypeOK'
    BY <1>0, <1>w, <1>5, <2>1 DEF TypeOK, Notify, bufferVars, peerVars
  <2> QED
    BY <1>w, <1>5, <2>2, BookSame DEF Notify, bufferVars, peerVars
<1>6. CASE EstablishedFin \/ CloseWaitFin \/ FinWait2Fin \/ TimeWaitFin
  <2>1. OnCtrl /\ finWorker' \in BOOLEAN
    BY <1>0, <1>6 DEF EstablishedFin, CloseWaitFin, FinWait2Fin, TimeWaitFin, TypeOK
  <2>2. state' \in {"established", "finWait", "timeWait", "closeWait", "lastAck", "closed"}
    BY <1>0, <1>6 DEF EstablishedFin, CloseWaitFin, FinWait2Fin, TimeWaitFin, TypeOK
  <2> QED
    BY <2>1, <2>2, BookCtrl
<1>7. CASE FinDone
  <2>1. TypeOK'
    BY <1>0, <1>w, <1>7 DEF TypeOK, FinDone, peerVars
  <2> QED
    BY <1>w, <1>7, <2>1, BookSame DEF FinDone, peerVars
<1>8. CASE SendAckWnd
  <2>1. edge' \in Int
    <3>1. OffsetOf(nxt) \in Int /\ SizeFree \in Int /\ Advertise(OffsetOf(nxt), SizeFree) /\ edge \in Int
      BY <1>0, <1>8, BookFacts DEF SendAckWnd, TypeOK
    <3> QED
      BY <3>1, EdgeType
  <2>2. TypeOK'
    BY <1>0, <1>8, <2>1 DEF TypeOK, SendAckWnd, bufferVars, peerVars
  <2>3. Running
    BY <1>8 DEF SendAckWnd
  <2> QED
    BY <1>8, <2>2, <2>3, BookSame DEF SendAckWnd, bufferVars, peerVars
<1>9. CASE VClose
  <2>1. TypeOK' /\ Running
    BY <1>0, <1>9 DEF TypeOK, VClose, bufferVars, peerVars
  <2> QED
    BY <1>9, <2>1, BookSame DEF VClose, bufferVars, peerVars
<1>10. CASE Abort
  <2>1. TypeOK'
    BY <1>0, <1>w, <1>10 DEF TypeOK, Abort, peerVars
  <2> QED
    BY <1>w, <1>10, <2>1, BookSame DEF Abort, peerVars
<1>11. ASSUME NEW n \in ReadSizes, VRecv(n) PROVE Bookkeeping'
  <2>1. n \in Nat
    BY Constants
  <2>2. /\ reader.pc = "idle" /\ (reader' = reader \/ reader' = [pc |-> "ready", n |-> n])
        /\ closing' = closing \/ closing' = TRUE
    BY <1>11 DEF VRecv
  <2>3. reader' \in [pc : {"idle", "ready", "asleep"}, n : Nat] /\ reader'.pc # "asleep"
    BY <1>0, <2>1, <2>2
  <2>4. TypeOK'
    BY <1>0, <1>11, <2>2, <2>3 DEF TypeOK, VRecv, bufferVars, peerVars
  <2> QED
    BY <1>11, <2>3, <2>4, BookSame DEF VRecv, bufferVars, peerVars
<1>12. CASE ReaderSleep
  <2>1. nbr' = nxt'
    BY <1>0, <1>12, SubType DEF ReaderSleep, SizeToRead, TypeOK, bufferVars
  <2>2. TypeOK'
    BY <1>0, <1>12 DEF TypeOK, ReaderSleep, bufferVars, peerVars
  <2> QED
    BY <1>12, <2>1, <2>2, BookSame DEF ReaderSleep, bufferVars, peerVars
<1>13. CASE ReaderStop
  <2>1. TypeOK' /\ reader'.pc # "asleep"
    BY <1>0, <1>13 DEF TypeOK, ReaderStop, bufferVars, peerVars
  <2> QED
    BY <1>13, <2>1, BookSame DEF ReaderStop, bufferVars, peerVars
<1>14. CASE ReaderRead
  <2>1. nbr' \in U32
    <3>1. Min2(reader.n, SizeToRead) \in Nat /\ Min2(reader.n, SizeToRead) < M
      BY <1>0, SubType, Constants DEF Min2, SizeToRead, TypeOK
    <3> QED
      BY <1>0, <1>14, <3>1, SubType DEF ReaderRead, TypeOK
  <2>2. TypeOK' /\ reader'.pc # "asleep"
    BY <1>0, <1>14, <2>1 DEF TypeOK, ReaderRead, peerVars
  <2> QED
    BY <1>14, <2>2, BookSame DEF ReaderRead, peerVars
<1>16. CASE ReaderAsserts
  <2>1. TypeOK' /\ Running /\ reader.pc # "asleep"
    BY <1>0, <1>16 DEF TypeOK, ReaderAsserts, bufferVars, peerVars
  <2> QED
    BY <1>16, <2>1, BookSame DEF ReaderAsserts, bufferVars, peerVars
<1>15. CASE UNCHANGED vars
  <2>1. UNCHANGED <<nbr, nxt, early, stopped, buf, reader, notifies, segments, fin, failed>>
    BY <1>15 DEF vars
  <2>2. TypeOK'
    BY <1>0, <1>15 DEF TypeOK, vars
  <2> QED
    BY <2>1, <2>2, BookSame DEF Running
<1> QED
  BY <1>1, <1>2, <1>3, <1>4, <1>5, <1>6, <1>7, <1>8, <1>9, <1>10, <1>11, <1>12, <1>13, <1>14, <1>15, <1>16 DEF Next

\* For every peer and every initial number: pointers and counters keep their
\* types, nxt_ and the early arrivals stay within what the peer sent, and no
\* wake-up of the reader is lost.
THEOREM RecvBookkeeping == Spec => []Bookkeeping
<1>1. Init => Bookkeeping
  BY BookInit
<1>2. Bookkeeping /\ [Next]_vars => Bookkeeping'
  BY BookStep
<1> QED
  BY <1>1, <1>2, PTL DEF Spec

\* The state of the receive buffer keeps its types, also where sequence
\* numbers wrap and where the peer oversteps the buffer.
THEOREM RecvTypeCorrect == Spec => []TypeOK
<1>1. Bookkeeping => TypeOK
  BY DEF Bookkeeping
<1> QED
  BY <1>1, RecvBookkeeping, PTL

\* A reader asleep in vRecv() next to unread data has a worker between the
\* unlock and the notify_one() of onRecv(), buffers.hpp:647-696.
THEOREM ReaderWakeupNotLost == Spec => []NoLostReaderWakeup
<1>1. Bookkeeping => NoLostReaderWakeup
  BY DEF Bookkeeping
<1> QED
  BY <1>1, RecvBookkeeping, PTL

---------------------------------------------------------------------------
(* A peer that stays within the buffer: the stream.                        *)

\* What the byte stream calls taken, and a step of it or none.
Taken == Min2(OffsetOf(nbr), PeerNxt)

StreamStep == [Stream!Next]_<<PeerNxt, DataEnd, Taken>>

\* Without wrap-around the arithmetic of uint32_t is the plain one.
LEMMA PlainNumbers ==
    ASSUME Unwrapped
    PROVE  /\ IRS \in Nat /\ StreamLen \in Nat /\ M \in Nat /\ IRS + StreamLen + 2 < M
           /\ \A o \in Nat : o <= StreamLen + 1 => SeqOf(o) = IRS + o
           /\ \A x \in Nat : IRS <= x => OffsetOf(x) = x - IRS
           /\ \A x, y \in Nat : y <= x => Sub(x, y) = x - y
           /\ \A x, n \in Nat : x + n < M => Add(x, n) = x + n
BY Constants DEF Unwrapped, SeqOf, OffsetOf, Add, Sub

LEMMA StreamFacts ==
    ASSUME Unwrapped, StreamInv
    PROVE  /\ IRS \in Nat /\ StreamLen \in Nat /\ M \in Nat /\ IRS + StreamLen + 2 < M
           /\ nbr \in Nat /\ nxt \in Nat /\ PeerNxt \in Nat /\ N \in Nat /\ N > 1
           /\ PeerNxt <= StreamLen
           /\ IRS <= nbr /\ nbr <= nxt /\ nxt <= IRS + PeerNxt + 1
           /\ (~fin => nxt <= IRS + PeerNxt)
           /\ OffsetOf(nbr) = nbr - IRS /\ OffsetOf(nxt) = nxt - IRS
           /\ SizeToRead = nxt - nbr
           /\ DataEnd = Min2(nxt - IRS, PeerNxt) /\ Taken = Min2(nbr - IRS, PeerNxt)
           /\ (Running \/ ~fin => failed = "no")
<1>1. Bookkeeping /\ PointersOrdered /\ (Running \/ ~fin => failed = "no")
  BY DEF StreamInv, FailsOnlyBeyondFin, Running
<1>2. nbr \in Nat /\ nxt \in Nat /\ PeerNxt \in Nat /\ N \in Nat /\ N > 1 /\ PeerNxt <= StreamLen
  BY <1>1, BookFacts, Constants
<1>3. IRS \in Nat /\ StreamLen \in Nat /\ M \in Nat /\ IRS + StreamLen + 2 < M
  BY PlainNumbers
<1>4. IRS <= nbr /\ nbr <= nxt /\ nxt <= IRS + PeerNxt + 1 /\ (~fin => nxt <= IRS + PeerNxt)
  BY <1>1, <1>2, <1>3 DEF PointersOrdered
<1>5. OffsetOf(nbr) = nbr - IRS /\ OffsetOf(nxt) = nxt - IRS /\ SizeToRead = nxt - nbr
  BY <1>2, <1>3, <1>4, PlainNumbers DEF SizeToRead
<1> QED
  BY <1>1, <1>2, <1>3, <1>4, <1>5 DEF DataEnd, Taken

LEMMA SegmentFacts ==
    ASSUME Unwrapped, StreamInv, NEW s \in segments
    PROVE  /\ SegSound(s) /\ s[1] \in Nat /\ s[2] \in Nat /\ s[2] > 0 /\ s[1] + s[2] <= PeerNxt
           /\ SeqOf(s[1]) = IRS + s[1] /\ IRS + s[1] \in Nat
           /\ IRS + s[1] + s[2] <= nbr + N \/ s[2] = 1
<1>1. SegSound(s) /\ s[1] + s[2] <= PeerNxt
  BY BookFacts DEF StreamInv
<1>2. s[1] \in Nat /\ s[2] \in Nat /\ s[2] > 0 /\ s[1] <= StreamLen + 1
  BY <1>1, SegmentType, Constants
<1>3. SeqOf(s[1]) = IRS + s[1] /\ IRS + s[1] \in Nat
  BY <1>2, PlainNumbers
<1>4. IRS + s[1] + s[2] <= nbr + N \/ s[2] = 1
  BY DEF StreamInv, Fits
<1> QED
  BY <1>1, <1>2, <1>3, <1>4

LEMMA EarlyFacts ==
    ASSUME Unwrapped, StreamInv
    PROVE  /\ early \in SUBSET Interval
           /\ \A iv \in early : /\ iv.begin \in Nat /\ iv.end \in Nat /\ iv.begin < iv.end
                                /\ nxt < iv.begin /\ iv.end <= nbr + N /\ iv.end <= IRS + PeerNxt
                                /\ iv.end + 2 < M
<1>1. early \in SUBSET Interval /\ EarlyPlaced
  BY DEF StreamInv, Bookkeeping, TypeOK
<1>2. \A iv \in early : iv.begin \in Nat /\ iv.end \in Nat /\ iv.begin < iv.end
  BY <1>1, IntervalType
<1> QED
  BY <1>1, <1>2, StreamFacts DEF EarlyPlaced

\* The end of a segment is a boundary.
LEMMA EndIsBoundary ==
    ASSUME Unwrapped, StreamInv, NEW s \in segments
    PROVE  Boundary(IRS + s[1] + s[2])
<1>1. ASSUME NEW t \in segments
      PROVE  IRS + t[1] + t[2] <= IRS + s[1] + s[2] \/ IRS + s[1] + s[2] <= IRS + t[1]
  <2>1. s = t \/ s[1] + s[2] <= t[1] \/ t[1] + t[2] <= s[1]
    BY DEF StreamInv, Apart
  <2>2. s[1] \in Nat /\ s[2] \in Nat /\ t[1] \in Nat /\ t[2] \in Nat /\ IRS \in Nat
    BY SegmentFacts, StreamFacts
  <2> QED
    BY <2>1, <2>2
<1> QED
  BY <1>1 DEF Boundary

\* The cells of the window after a write into it.
LEMMA WindowCells ==
    ASSUME NEW d \in Seq(0 .. StreamLen), NEW at \in Nat, NEW w,
           Stores(0 .. StreamLen, buf, d, at, w), nbr \in Nat, nbr <= at, at + w.n <= nbr + N,
           NEW p \in Nat, nbr <= p, p < nbr + N
    PROVE  w.buf[idx(p)] = IF at <= p /\ p < at + w.n THEN d[p - at + 1] ELSE buf[idx(p)]
<1>0. N \in Nat /\ w.n \in Nat /\ idx(p) \in Cells
  <2>1. Len(d) \in Nat /\ w.n \in 0 .. Len(d)
    BY LenProperties DEF Stores
  <2> QED
    BY <2>1, NAssumption, IdxDivides
<1>1. CASE at <= p /\ p < at + w.n
  <2>1. p - at \in 0 .. w.n - 1 /\ at + (p - at) = p
    BY <1>0, <1>1
  <2> QED
    BY <1>1, <2>1 DEF Stores
<1>2. CASE ~(at <= p /\ p < at + w.n)
  <2>1. ASSUME NEW k \in 0 .. w.n - 1, idx(p) = idx(at + k) PROVE FALSE
    <3>1. k \in Nat /\ k < w.n /\ at + k \in Nat
      BY <1>0
    <3>2. p - (at + k) < N /\ (at + k) - p < N
      BY <1>0, <3>1
    <3>3. p = at + k
      BY <2>1, <3>1, <3>2, IdxInjective
    <3> QED
      BY <1>0, <1>2, <3>1, <3>3
  <2> QED
    BY <1>0, <1>2, <2>1 DEF Stores
<1> QED
  BY <1>1, <1>2

LEMMA StreamInit ==
    ASSUME Unwrapped, Init
    PROVE  StreamInv /\ Stream!Init
<1>1. Bookkeeping
  BY BookInit
<1>2. segments = {} /\ early = {} /\ nbr = IRS /\ nxt = IRS /\ failed = "no"
  BY DEF Init
<1>3. PeerNxt = 0
  BY <1>2, PeerIs, ReachOf
<1>4. IRS \in Nat /\ OffsetOf(IRS) = 0
  BY Constants DEF OffsetOf, Sub
<1>5. FailsOnlyBeyondFin /\ PointersOrdered /\ Separated(early) /\ Apart /\ Boundaries /\ Fits /\ DataFits
      /\ EarlyPlaced
  BY <1>2, <1>3, <1>4, Constants DEF FailsOnlyBeyondFin, PointersOrdered, Separated, Apart, Boundaries, Boundary,
                          Fits, DataFits, EarlyPlaced
<1>6. AllStored
  BY <1>2, <1>4 DEF AllStored, Covered
<1>7. Stream!Init
  BY <1>2, <1>3, <1>4 DEF Stream!Init, DataEnd, Min2
<1> QED
  BY <1>1, <1>5, <1>6, <1>7 DEF StreamInv

\* A step that touches neither the buffer nor the segments.
LEMMA StreamSame ==
    ASSUME Unwrapped, StreamInv, Bookkeeping', UNCHANGED <<nbr, nxt, early, buf, segments, failed>>, fin => fin',
           reader'.n = reader.n \/ failed = "no"
    PROVE  StreamInv' /\ StreamStep
<1>1. PeerNxt' = PeerNxt
  BY PeerIs
<1>2. PointersOrdered' /\ FailsOnlyBeyondFin' /\ EarlyPlaced' /\ DataFits'
  BY <1>1 DEF StreamInv, PointersOrdered, FailsOnlyBeyondFin, EarlyPlaced, DataFits, SizeToRead
<1>3. Separated(early)' /\ Apart' /\ Boundaries' /\ Fits'
  BY DEF StreamInv, Separated, Apart, Boundaries, Boundary, Fits
<1>4. AllStored'
  BY <1>1 DEF StreamInv, AllStored, Stored, Covered
<1>5. UNCHANGED <<PeerNxt, DataEnd, Taken>>
  BY <1>1 DEF DataEnd, Taken
<1> QED
  BY <1>2, <1>3, <1>4, <1>5 DEF StreamInv, StreamStep

\* The peer sends a segment that fits into the buffer, or a probe.
LEMMA StreamSend ==
    ASSUME Unwrapped, StreamInv, NEW len \in 1 .. MSS, ~fin, PeerNxt + len <= StreamLen,
           PeerNxt + len <= OffsetOf(nbr) + N \/ len = 1,
           segments' = segments \cup {<<PeerNxt, len>>},
           UNCHANGED <<bufferVars, reader, notifies, finWorker, state, fin, edge, closing, failed>>
    PROVE  StreamInv' /\ StreamStep
<1> DEFINE t == <<PeerNxt, len>>
<1>1. Bookkeeping' /\ PeerNxt' = PeerNxt + len
  BY BookSend DEF StreamInv
<1>2. UNCHANGED <<nbr, nxt, early, buf, fin, failed>>
  BY DEF bufferVars
<1>3. /\ IRS \in Nat /\ nbr \in Nat /\ nxt \in Nat /\ PeerNxt \in Nat /\ N \in Nat /\ len \in Nat /\ len > 0
      /\ IRS <= nbr /\ nbr <= nxt /\ nxt <= IRS + PeerNxt
      /\ OffsetOf(nbr) = nbr - IRS /\ OffsetOf(nxt) = nxt - IRS
      /\ failed = "no"
  BY StreamFacts
<1>4. \A s \in segments : s[1] \in Nat /\ s[2] \in Nat /\ s[1] + s[2] <= PeerNxt
  BY SegmentFacts
<1>5. t[1] = PeerNxt /\ t[2] = len /\ segments' = segments \cup {t}
  OBVIOUS
<1> HIDE DEF t
<1>6. PointersOrdered' /\ FailsOnlyBeyondFin' /\ Separated(early)' /\ DataFits'
  BY <1>1, <1>2, <1>3 DEF StreamInv, PointersOrdered, FailsOnlyBeyondFin, Separated, DataFits
<1>7. EarlyPlaced'
  BY <1>1, <1>2, <1>3, EarlyFacts DEF EarlyPlaced
<1>8. Apart'
  <2>1. \A s \in segments : s[1] + s[2] <= t[1]
    BY <1>4, <1>5
  <2> QED
    BY <1>5, <2>1 DEF StreamInv, Apart
<1>9. Boundaries'
  <2>1. nxt <= IRS + t[1] /\ \A iv \in early : iv.end <= IRS + t[1]
    BY <1>3, <1>5, EarlyFacts
  <2> QED
    BY <1>2, <1>5, <2>1 DEF StreamInv, Boundaries, Boundary
<1>10. Fits'
  <2>1. IRS + t[1] + t[2] <= nbr + N \/ t[2] = 1
    BY <1>3, <1>5
  <2> QED
    BY <1>2, <1>5, <2>1 DEF StreamInv, Fits
<1>11. AllStored'
  <2>1. \A p \in Nat : nbr <= p /\ p < nxt => Stored(p)
    BY <1>3 DEF StreamInv, AllStored
  <2> QED
    BY <1>2, <2>1 DEF StreamInv, AllStored, Stored, Covered
<1>12. Stream!Send
  <2>1. DataEnd = nxt - IRS /\ Taken = nbr - IRS
    BY <1>3 DEF DataEnd, Taken, Min2
  <2>2. DataEnd' = DataEnd /\ Taken' = Taken
    BY <1>1, <1>2, <1>3, <2>1 DEF DataEnd, Taken, Min2
  <2>3. len \in 1 .. PeerNxt' - PeerNxt /\ PeerNxt' = PeerNxt + len
    BY <1>1, <1>3
  <2> QED
    BY <2>2, <2>3 DEF Stream!Send, Taken
<1> QED
  BY <1>1, <1>6, <1>7, <1>8, <1>9, <1>10, <1>11, <1>12 DEF StreamInv, StreamStep, Stream!Next

\* onCtrl: when the FIN is taken nothing is missing, so no early arrival is
\* left.
LEMMA StreamCtrl ==
    ASSUME Unwrapped, StreamInv, OnCtrl, finWorker' \in BOOLEAN,
           state' \in {"established", "finWait", "timeWait", "closeWait", "lastAck", "closed"}
    PROVE  StreamInv' /\ StreamStep
<1>1. Bookkeeping' /\ DataEnd' = DataEnd
  BY BookCtrl DEF StreamInv
<1>2. fin /\ UNCHANGED <<nbr, early, buf, segments, fin, failed>>
  BY DEF OnCtrl, peerVars
<1>3. PeerNxt' = PeerNxt /\ SeqOf(PeerNxt) = IRS + PeerNxt
  BY <1>2, PeerIs, PlainNumbers, StreamFacts
<1>4. /\ IRS \in Nat /\ nbr \in Nat /\ nxt \in Nat /\ PeerNxt \in Nat
      /\ IRS <= nbr /\ nbr <= nxt /\ PeerNxt <= StreamLen /\ StreamLen \in Nat /\ IRS + StreamLen + 2 < M
  BY StreamFacts
<1>5. StreamStep
  BY <1>1, <1>2, <1>3 DEF StreamStep, Taken
<1>6. CASE nxt = IRS + PeerNxt
  <2>1. nxt' = nxt + 1
    BY <1>3, <1>4, <1>6, PlainNumbers DEF OnCtrl
  <2>2. early = {}
    BY <1>4, <1>6, EarlyFacts
  <2>f. failed = "no"
    BY StreamFacts DEF OnCtrl
  <2>3. /\ PointersOrdered' /\ FailsOnlyBeyondFin' /\ Separated(early)' /\ EarlyPlaced'
        /\ DataFits'
    BY <1>2, <1>3, <1>4, <1>6, <2>1, <2>2, <2>f, Constants
       DEF StreamInv, PointersOrdered, FailsOnlyBeyondFin, Separated, EarlyPlaced, DataFits
  <2>4. Boundaries'
    <3>1. \A s \in segments : IRS + s[1] + s[2] <= nxt + 1
      BY <1>4, <1>6, SegmentFacts
    <3> QED
      BY <1>2, <2>1, <2>2, <3>1 DEF Boundaries, Boundary
  <2>5. AllStored'
    <3>1. \A p \in Nat : p < nxt + 1 /\ p < IRS + PeerNxt => p < nxt
      BY <1>6
    <3> QED
      BY <1>2, <1>3, <2>1, <2>2, <3>1 DEF StreamInv, AllStored, Stored, Covered
  <2>6. Apart' /\ Fits'
    BY <1>2 DEF StreamInv, Apart, Fits
  <2> QED
    BY <1>1, <1>5, <2>3, <2>4, <2>5, <2>6 DEF StreamInv
<1>7. CASE nxt # IRS + PeerNxt
  BY <1>1, <1>2, <1>3, <1>7, StreamSame DEF OnCtrl
<1> QED
  BY <1>6, <1>7

LEMMA CutOrder ==
    ASSUME NEW r \in Nat, NEW x \in Nat, NEW y \in Nat, NEW p \in Nat, r <= x, x <= y
    PROVE  Min2(x - r, p) \in Nat /\ Min2(y - r, p) \in Nat /\ Min2(x - r, p) <= Min2(y - r, p)
BY DEF Min2

LEMMA Gain ==
    ASSUME NEW a \in Nat, NEW b \in Nat, NEW c \in Nat, a <= b, b <= c
    PROVE  b # a => b - a \in 1 .. c - a /\ b = a + (b - a)
OBVIOUS

\* readAtMostNBytes: the reader takes no more than there is.
LEMMA StreamRead ==
    ASSUME Unwrapped, StreamInv, ReaderRead, Bookkeeping'
    PROVE  StreamInv' /\ StreamStep
<1> DEFINE n == Min2(reader.n, SizeToRead)
<1>1. /\ IRS \in Nat /\ nbr \in Nat /\ nxt \in Nat /\ PeerNxt \in Nat /\ N \in Nat /\ StreamLen \in Nat /\ M \in Nat
      /\ IRS <= nbr /\ nbr <= nxt /\ nxt <= IRS + PeerNxt + 1
      /\ PeerNxt <= StreamLen /\ IRS + StreamLen + 2 < M /\ SizeToRead = nxt - nbr
      /\ DataEnd = Min2(nxt - IRS, PeerNxt) /\ Taken = Min2(nbr - IRS, PeerNxt)
  BY StreamFacts
<1>2. UNCHANGED <<nxt, early, buf, segments, fin, failed>> /\ nbr' = Add(nbr, n)
  BY DEF ReaderRead, peerVars
<1>3. n \in Nat /\ n <= nxt - nbr
  <2>1. reader.n \in Nat
    BY DEF StreamInv, Bookkeeping, TypeOK
  <2> QED
    BY <1>1, <2>1 DEF Min2
<1> HIDE DEF n
<1>4. nbr' = nbr + n
  BY <1>1, <1>2, <1>3, PlainNumbers
<1>5. nbr' \in Nat /\ nbr <= nbr' /\ nbr' <= nxt /\ nbr' + N >= nbr + N
  BY <1>1, <1>3, <1>4
<1>6. PeerNxt' = PeerNxt
  BY <1>2, PeerIs
<1>7. PointersOrdered' /\ FailsOnlyBeyondFin' /\ DataFits'
  <2>1. failed = "no"
    BY StreamFacts DEF ReaderRead
  <2> QED
    BY <1>1, <1>2, <1>5, <1>6, <2>1 DEF StreamInv, PointersOrdered, FailsOnlyBeyondFin, DataFits
<1>8. Separated(early)' /\ Apart' /\ Boundaries'
  BY <1>2 DEF StreamInv, Separated, Apart, Boundaries, Boundary
<1>9. Fits'
  <2>1. ASSUME NEW s \in segments PROVE IRS + s[1] + s[2] <= nbr' + N \/ s[2] = 1
    BY <1>1, <1>5, SegmentFacts
  <2> QED
    BY <1>2, <2>1 DEF Fits
<1>10. EarlyPlaced'
  <2>1. ASSUME NEW iv \in early PROVE nxt < iv.begin /\ iv.end <= nbr' + N /\ iv.end <= IRS + PeerNxt
    BY <1>1, <1>5, EarlyFacts
  <2> QED
    BY <1>2, <1>6, <2>1 DEF EarlyPlaced
<1>11. AllStored'
  <2>1. \A p \in Nat : nbr' <= p => nbr <= p
    BY <1>1, <1>5
  <2> QED
    BY <1>2, <1>6, <2>1 DEF StreamInv, AllStored, Stored, Covered
<1>12. StreamStep
  <2>1. OffsetOf(nbr)' = nbr' - IRS /\ DataEnd' = DataEnd
    BY <1>1, <1>2, <1>5, <1>6, PlainNumbers DEF DataEnd
  <2>2. Taken' = Min2(nbr' - IRS, PeerNxt)
    BY <1>6, <2>1 DEF Taken
  <2>c. Taken \in Nat /\ Taken' \in Nat /\ DataEnd \in Nat /\ Taken <= Taken' /\ Taken' <= DataEnd
    <3>1. Min2(nbr - IRS, PeerNxt) \in Nat /\ Min2(nbr - IRS, PeerNxt) <= Min2(nbr' - IRS, PeerNxt)
      BY <1>1, <1>5, CutOrder
    <3>2. /\ Min2(nbr' - IRS, PeerNxt) \in Nat /\ Min2(nxt - IRS, PeerNxt) \in Nat
          /\ Min2(nbr' - IRS, PeerNxt) <= Min2(nxt - IRS, PeerNxt)
      <4>1. nbr' \in Nat /\ nxt \in Nat /\ IRS <= nbr' /\ nbr' <= nxt /\ IRS \in Nat /\ PeerNxt \in Nat
        BY <1>1, <1>5
      <4> QED
        BY <4>1, CutOrder
    <3> QED
      BY <1>1, <2>2, <3>1, <3>2
  <2>d. Taken' # Taken => Taken' - Taken \in 1 .. DataEnd - Taken /\ Taken' = Taken + (Taken' - Taken)
    BY <2>c, Gain
  <2>3. CASE Taken' = Taken
    BY <1>6, <2>1, <2>3 DEF StreamStep
  <2>4. CASE Taken' # Taken
    <3>1. Taken' - Taken \in 1 .. DataEnd - Taken /\ Taken' = Taken + (Taken' - Taken)
      BY <2>4, <2>d
    <3>2. Stream!Take
      BY <1>6, <2>1, <3>1 DEF Stream!Take, Taken
    <3> QED
      BY <3>2 DEF StreamStep, Stream!Next
  <2> QED
    BY <2>3, <2>4
<1> QED
  BY <1>7, <1>8, <1>9, <1>10, <1>11, <1>12 DEF StreamInv

\* The assertion of write() cannot fail: both positions are at nbr_ or beyond.
LEMMA NoAssert ==
    ASSUME Unwrapped, StreamInv, NEW s \in segments
    PROVE  ~WriteAsserts(s)
<1>1. nbr \in Nat /\ nxt \in Nat /\ N \in Nat /\ nbr <= nxt
  BY StreamFacts
<1>2. SeqOf(s[1]) \in Nat
  BY SegmentFacts
<1>3. \A at \in Nat : nbr <= at => RangeAsserted(at)
  BY <1>1 DEF RangeAsserted, Last
<1> QED
  BY <1>1, <1>2, <1>3 DEF WriteAsserts

\* A write of a segment's bytes at their own numbers keeps every byte of the
\* window that was in its place, and puts the new ones there.
LEMMA BytesPlaced ==
    ASSUME buf \in [Cells -> 0 .. StreamLen], nbr \in Nat, IRS \in Nat,
           NEW at \in Nat, NEW d \in Seq(0 .. StreamLen), NEW w,
           Stores(0 .. StreamLen, buf, d, at, w), \A i \in 1 .. Len(d) : d[i] = at + i - 1 - IRS,
           nbr <= at, w.n = 0 \/ at + w.n <= nbr + N,
           buf' = w.buf, NEW p \in Nat, nbr <= p, p < nbr + N
    PROVE  (Stored(p) => Stored(p)') /\ (at <= p /\ p < at + w.n => Stored(p)')
<1>1. w.n \in Nat /\ w.n <= Len(d) /\ N \in Nat /\ idx(p) \in Cells
  BY NAssumption, IdxDivides, LenProperties DEF Stores
<1>2. CASE w.n = 0
  <2>1. w.buf[idx(p)] = buf[idx(p)]
    BY <1>1, <1>2 DEF Stores
  <2> QED
    BY <1>2, <2>1 DEF Stored
<1>3. CASE w.n # 0
  <2>1. w.buf[idx(p)] = IF at <= p /\ p < at + w.n THEN d[p - at + 1] ELSE buf[idx(p)]
    <3>1. at + w.n <= nbr + N
      BY <1>3
    <3> QED
      BY <3>1, WindowCells
  <2>2. at <= p /\ p < at + w.n => d[p - at + 1] = p - IRS
    <3>1. SUFFICES ASSUME at <= p, p < at + w.n PROVE d[p - at + 1] = p - IRS
      OBVIOUS
    <3>2. p - at + 1 \in 1 .. Len(d) /\ Len(d) \in Nat
      BY <1>1, <3>1, LenProperties
    <3>3. d[p - at + 1] = at + (p - at + 1) - 1 - IRS
      BY <3>2
    <3> QED
      BY <3>3
  <2> QED
    BY <2>1, <2>2 DEF Stored
<1> QED
  BY <1>2, <1>3

\* A segment is kept whole or not at all.
LEMMA WholeSegments ==
    ASSUME Unwrapped, StreamInv, NEW s \in segments, nbr <= IRS + s[1]
    PROVE  /\ RangeAsserted(IRS + s[1])
           /\ WriteCount(s[2], IRS + s[1], Last) = IF IRS + s[1] >= Last THEN 0 ELSE s[2]
           /\ IRS + s[1] < Last => IRS + s[1] + s[2] <= nbr + N
<1>1. /\ s[1] \in Nat /\ s[2] \in Nat /\ IRS \in Nat /\ N \in Nat /\ nbr \in Nat
      /\ IRS + s[1] + s[2] <= nbr + N \/ s[2] = 1
  BY SegmentFacts, StreamFacts
<1> QED
  BY <1>1 DEF RangeAsserted, WriteCount, Last, Min2

\* A segment beyond nxt_ joins the early arrivals whole.
LEMMA StreamEarly ==
    ASSUME Unwrapped, StreamInv, NEW s \in segments, EarlyArrival(s), Running, Bookkeeping',
           UNCHANGED <<reader, finWorker, state, peerVars, closing>>
    PROVE  StreamInv' /\ StreamStep
<1> DEFINE seq == IRS + s[1]
           w   == write(buf, Payload(s), seq, Last)
           iv  == Written(seq, w.n)
           m   == emplaceMerge(early, iv)
<1>1. /\ SegSound(s) /\ s[1] \in Nat /\ s[2] \in Nat /\ s[2] > 0 /\ s[1] + s[2] <= PeerNxt
      /\ SeqOf(s[1]) = seq /\ seq \in Nat
  BY SegmentFacts
<1>2. /\ IRS \in Nat /\ nbr \in Nat /\ nxt \in Nat /\ PeerNxt \in Nat /\ N \in Nat /\ StreamLen \in Nat /\ M \in Nat
      /\ IRS <= nbr /\ nbr <= nxt /\ PeerNxt <= StreamLen /\ IRS + StreamLen + 2 < M
      /\ failed = "no"
  BY StreamFacts
<1>3. nxt < seq /\ nbr <= seq /\ seq \in U32 /\ seq < M
  BY <1>1, <1>2 DEF EarlyArrival, U32
<1>4. /\ RangeAsserted(seq)
      /\ WriteCount(s[2], seq, Last) = IF seq >= Last THEN 0 ELSE s[2]
      /\ seq < Last => seq + s[2] <= nbr + N
  BY <1>3, WholeSegments
<1>5. /\ Payload(s) \in Seq(0 .. StreamLen) /\ Len(Payload(s)) = s[2]
      /\ \A i \in 1 .. s[2] : Payload(s)[i] = s[1] + i - 1
  BY <1>1, PayloadType DEF Payload
<1>6. w.n = (IF seq >= Last THEN 0 ELSE s[2]) /\ Stores(0 .. StreamLen, buf, Payload(s), seq, w)
  <2> HIDE DEF seq
  <2> QED
    BY <1>3, <1>4, <1>5, RingWritten DEF StreamInv
<1>7. /\ buf' = w.buf
      /\ IF w.n = 0 THEN UNCHANGED <<early, failed>>
         ELSE early' = m.set /\ failed' = IF m.outcome = "ok" THEN failed ELSE m.outcome
      /\ UNCHANGED <<nbr, nxt, segments, fin>>
  BY <1>1 DEF EarlyArrival, peerVars
<1>8. w.n = 0 \/ (w.n = s[2] /\ seq + s[2] <= nbr + N)
  <2>1. Last \in Int
    BY <1>2 DEF Last
  <2> QED
    BY <1>1, <1>4, <1>6, <2>1
<1>9. PeerNxt' = PeerNxt
  BY <1>7, PeerIs
<1>p. ASSUME NEW p \in Nat, nbr <= p, p < nbr + N
      PROVE  /\ Stored(p) => Stored(p)'
             /\ w.n = s[2] /\ seq <= p /\ p < seq + s[2] => Stored(p)'
  <2>1. \A i \in 1 .. Len(Payload(s)) : Payload(s)[i] = seq + i - 1 - IRS
    <3>1. \A i \in 1 .. s[2] : s[1] + i - 1 = IRS + s[1] + i - 1 - IRS
      BY <1>1, <1>2
    <3> QED
      BY <1>5, <3>1
  <2>2. buf \in [Cells -> 0 .. StreamLen] /\ (w.n = 0 \/ seq + w.n <= nbr + N)
    BY <1>8 DEF StreamInv, Bookkeeping, TypeOK
  <2> HIDE DEF w, seq
  <2>3. (Stored(p) => Stored(p)') /\ (seq <= p /\ p < seq + w.n => Stored(p)')
    BY <1>1, <1>2, <1>3, <1>5, <1>6, <1>7, <1>p, <2>1, <2>2, BytesPlaced
  <2> QED
    BY <2>3
<1> HIDE DEF w
<1>10. /\ failed' = "no" /\ Separated(early') /\ early' \in SUBSET Interval
       /\ Covered(early') = Covered(early) \cup {p \in Nat : w.n = s[2] /\ seq <= p /\ p < seq + s[2]}
       /\ Ends(early') \subseteq Ends(early) \cup {e \in {seq + s[2]} : w.n = s[2]}
  <2>0. early \in SUBSET Interval /\ Separated(early) /\ FarFromWrap(early)
    BY EarlyFacts DEF FarFromWrap, StreamInv
  <2>1. CASE w.n = 0
    <3>1. w.n # s[2] /\ early' = early /\ failed' = failed
      BY <1>1, <1>7, <2>1
    <3> QED
      BY <1>2, <2>0, <3>1
  <2>2. CASE w.n # 0
    <3>1. w.n = s[2] /\ Add(seq, s[2]) = seq + s[2] /\ seq + s[2] \in Nat /\ seq + s[2] + 2 < M
      BY <1>1, <1>2, <1>8, <2>2, PlainNumbers, SMTT(40)
    <3>2. iv = [begin |-> seq, end |-> seq + s[2]]
      BY <3>1 DEF Written
    <3>3. iv \in Interval /\ FarFromWrap(early \cup {iv})
      <4>1. seq + s[2] \in U32 /\ seq < seq + s[2]
        BY <1>1, <1>2, <3>1 DEF U32
      <4> HIDE DEF seq, iv
      <4>2. iv \in Interval /\ iv.end = seq + s[2]
        BY <1>3, <3>2, <4>1 DEF Interval
      <4> QED
        BY <2>0, <3>1, <4>2 DEF FarFromWrap
    <3>4. Inserted(early, iv, m)
      <4> HIDE DEF iv
      <4> QED
        BY <2>0, <3>3, EmplaceMergeExact
    <3>5. early' = m.set /\ failed' = "no"
      BY <1>2, <1>7, <2>2, <3>4 DEF Inserted
    <3>6. Covered(early \cup {iv}) = Covered(early) \cup {p \in Nat : In(p, iv)}
      BY DEF Covered
    <3>7. \A p \in Nat : In(p, iv) <=> (w.n = s[2] /\ seq <= p /\ p < seq + s[2])
      BY <3>1, <3>2 DEF In
    <3> QED
      BY <3>1, <3>2, <3>4, <3>5, <3>6, <3>7 DEF Inserted
  <2> QED
    BY <2>1, <2>2
<1>11. EarlyPlaced'
  <2>1. ASSUME NEW x \in early' PROVE nxt < x.begin /\ x.end <= nbr + N /\ x.end <= IRS + PeerNxt
    <3>1. x.begin \in Nat /\ x.begin < x.end /\ x.end \in Nat
      BY <1>10, IntervalType
    <3>2. x.begin \in Covered(early')
      BY <3>1 DEF Covered, In
    <3>3. nxt < x.begin
      <4>1. CASE x.begin \in Covered(early)
        <5>1. PICK y \in early : y.begin <= x.begin
          BY <4>1 DEF Covered, In
        <5> QED
          BY <1>2, <3>1, <5>1, EarlyFacts
      <4>2. CASE seq <= x.begin
        BY <1>1, <1>2, <1>3, <3>1, <4>2
      <4> QED
        BY <1>10, <3>2, <4>1, <4>2
    <3>4. x.end \in Ends(early')
      BY DEF Ends
    <3>5. x.end <= nbr + N /\ x.end <= IRS + PeerNxt
      <4>1. CASE x.end \in Ends(early)
        BY <4>1, EarlyFacts DEF Ends
      <4>2. CASE x.end = seq + s[2] /\ w.n = s[2]
        <5>1. seq + s[2] <= nbr + N
          BY <1>1, <1>8, <4>2
        <5> QED
          BY <1>1, <1>2, <4>2, <5>1
      <4> QED
        BY <1>10, <3>4, <4>1, <4>2
    <3> QED
      BY <3>3, <3>5
  <2> QED
    BY <1>7, <1>9, <2>1 DEF EarlyPlaced
<1>12. Boundaries'
  <2>1. Boundary(seq + s[2])
    BY EndIsBoundary
  <2>2. ASSUME NEW x \in early' PROVE Boundary(x.end)
    <3>1. x.end \in Ends(early')
      BY DEF Ends
    <3>2. x.end = seq + s[2] \/ x.end \in Ends(early)
      BY <1>10, <3>1
    <3>3. CASE x.end \in Ends(early)
      BY <3>3 DEF Ends, StreamInv, Boundaries
    <3> QED
      BY <2>1, <3>2, <3>3
  <2> QED
    BY <1>7, <2>2 DEF StreamInv, Boundaries, Boundary
<1>13. AllStored'
  <2>1. ASSUME NEW p \in Nat, nbr <= p, p < nxt, p < IRS + PeerNxt PROVE Stored(p)'
    <3>1. CASE p < nbr + N
      BY <1>p, <2>1, <3>1 DEF StreamInv, AllStored
    <3>2. CASE p >= nbr + N
      <4>1. nxt <= nbr + N \/ w.n = 0
        BY <1>1, <1>2, <1>3, <1>8
      <4>2. w.n = 0 /\ idx(p) \in Cells
        BY <1>2, <2>1, <3>2, <4>1, IdxDivides
      <4>3. buf'[idx(p)] = buf[idx(p)]
        BY <1>6, <1>7, <4>2 DEF Stores
      <4> QED
        BY <2>1, <4>3 DEF StreamInv, AllStored, Stored
    <3> QED
      BY <1>2, <3>1, <3>2
  <2>2. ASSUME NEW p \in Covered(early') PROVE Stored(p)'
    <3>1. CASE p \in Covered(early)
      <4>1. p \in Nat /\ nbr <= p /\ p < nbr + N
        <5>1. p \in Nat /\ \E y \in early : y.begin <= p /\ p < y.end
          BY <3>1 DEF Covered, In
        <5> QED
          BY <1>2, <5>1, EarlyFacts
      <4> QED
        BY <1>p, <3>1, <4>1 DEF StreamInv, AllStored
    <3>2. CASE p \in Nat /\ w.n = s[2] /\ seq <= p /\ p < seq + s[2]
      <4>1. nbr <= p /\ p < nbr + N
        BY <1>1, <1>2, <1>3, <1>8, <3>2
      <4> QED
        BY <1>p, <3>2, <4>1
    <3> QED
      BY <1>10, <2>2, <3>1, <3>2
  <2> QED
    BY <1>7, <1>9, <2>1, <2>2 DEF AllStored, Stored, Covered
<1>14. PointersOrdered' /\ FailsOnlyBeyondFin' /\ Separated(early)' /\ DataFits'
  BY <1>7, <1>9, <1>10 DEF StreamInv, PointersOrdered, FailsOnlyBeyondFin, Separated, DataFits
<1>15. Apart' /\ Fits'
  BY <1>7 DEF StreamInv, Apart, Fits
<1>16. StreamStep
  BY <1>7, <1>9 DEF StreamStep, DataEnd, Taken
<1> QED
  BY <1>11, <1>12, <1>13, <1>14, <1>15, <1>16 DEF StreamInv

\* New data lands at nxt_, which moves to the first byte still missing.
LEMMA StreamNew ==
    ASSUME Unwrapped, StreamInv, NEW s \in segments, NewData(s), Running, Bookkeeping',
           UNCHANGED <<reader, finWorker, state, peerVars, closing>>
    PROVE  StreamInv' /\ StreamStep
<1> DEFINE d  == SubSeq(Payload(s), Sub(nxt, SeqOf(s[1])) + 1, s[2])
           w  == write(buf, d, nxt, Last)
           iv == Written(SeqOf(s[1]), w.n)
           m  == mergeRemove(early, iv)
<1>1. /\ SegSound(s) /\ s[1] \in Nat /\ s[2] \in Nat /\ s[2] > 0 /\ s[1] + s[2] <= PeerNxt
      /\ SeqOf(s[1]) = IRS + s[1] /\ IRS + s[1] \in Nat
  BY SegmentFacts
<1>2. /\ IRS \in Nat /\ nbr \in Nat /\ nxt \in Nat /\ PeerNxt \in Nat /\ N \in Nat /\ StreamLen \in Nat /\ M \in Nat
      /\ IRS <= nbr /\ nbr <= nxt /\ PeerNxt <= StreamLen /\ IRS + StreamLen + 2 < M
      /\ failed = "no"
  BY StreamFacts
<1>3. IRS + s[1] <= nxt /\ Sub(nxt, IRS + s[1]) < s[2] /\ nxt < Last /\ RangeAsserted(nxt)
  BY <1>1 DEF NewData
<1>4. nxt = IRS + s[1] /\ Sub(nxt, SeqOf(s[1])) = 0
  <2>1. Sub(nxt, IRS + s[1]) = nxt - (IRS + s[1])
    BY <1>1, <1>2, <1>3, PlainNumbers
  <2>2. IRS + s[1] + s[2] <= nxt \/ nxt <= IRS + s[1]
    BY DEF StreamInv, Boundaries, Boundary
  <2> QED
    BY <1>1, <1>2, <1>3, <2>1, <2>2
<1>5. /\ d \in Seq(0 .. StreamLen) /\ Len(d) = s[2]
      /\ \A i \in 1 .. Len(d) : d[i] = nxt + i - 1 - IRS
  <2>1. d = SubSeq(Payload(s), 0 + 1, s[2])
    BY <1>4
  <2>2. /\ SubSeq(Payload(s), 0 + 1, s[2]) \in Seq(0 .. StreamLen)
        /\ Len(SubSeq(Payload(s), 0 + 1, s[2])) = s[2] - 0
        /\ \A i \in 1 .. s[2] - 0 : SubSeq(Payload(s), 0 + 1, s[2])[i] = s[1] + 0 + i - 1
    BY <1>1, PayloadType
  <2> HIDE DEF d
  <2>3. /\ d \in Seq(0 .. StreamLen) /\ Len(d) = s[2]
        /\ \A i \in 1 .. s[2] : d[i] = s[1] + i - 1
    BY <1>1, <2>1, <2>2
  <2> QED
    BY <1>1, <1>2, <1>4, <2>3, SMTT(40)
<1>6. w.n = s[2] /\ Stores(0 .. StreamLen, buf, d, nxt, w) /\ nxt + s[2] <= nbr + N
  <2>1. nxt \in U32
    BY DEF StreamInv, Bookkeeping, TypeOK
  <2>2. Last \in Int
    BY <1>2 DEF Last
  <2>3. nbr <= IRS + s[1] /\ ~(IRS + s[1] >= Last) /\ IRS + s[1] < Last
    BY <1>1, <1>2, <1>3, <1>4, <2>2
  <2>4. WriteCount(s[2], nxt, Last) = s[2] /\ nxt + s[2] <= nbr + N
    BY <1>4, <2>3, WholeSegments
  <2> HIDE DEF d
  <2> QED
    BY <1>3, <1>5, <2>1, <2>4, RingWritten DEF StreamInv
<1>7. /\ buf' = w.buf
      /\ IF m.outcome = "ok" THEN nxt' = m.end /\ early' = m.set /\ UNCHANGED <<nbr, failed>>
         ELSE failed' = m.outcome
      /\ UNCHANGED <<segments, fin>>
  BY DEF NewData, peerVars
<1>8. PeerNxt' = PeerNxt
  BY <1>7, PeerIs
<1>p. ASSUME NEW p \in Nat, nbr <= p, p < nbr + N
      PROVE  (Stored(p) => Stored(p)') /\ (nxt <= p /\ p < nxt + s[2] => Stored(p)')
  <2>1. buf \in [Cells -> 0 .. StreamLen] /\ nxt + w.n <= nbr + N
    BY <1>6 DEF StreamInv, Bookkeeping, TypeOK
  <2> HIDE DEF w, d
  <2>2. (Stored(p) => Stored(p)') /\ (nxt <= p /\ p < nxt + w.n => Stored(p)')
    BY <1>2, <1>5, <1>6, <1>7, <1>p, <2>1, BytesPlaced
  <2> QED
    BY <1>6, <2>2
<1>9. iv = [begin |-> nxt, end |-> nxt + s[2]]
  <2>1. Add(nxt, s[2]) = nxt + s[2]
    BY <1>1, <1>2, <1>4, PlainNumbers, SMTT(40)
  <2> QED
    BY <1>1, <1>4, <1>6, <2>1 DEF Written
<1>10. early \in SUBSET Interval /\ Separated(early) /\ FarFromWrap(early)
  BY EarlyFacts DEF FarFromWrap, StreamInv
<1> HIDE DEF w, d, iv
<1>11. iv \in Interval /\ FarFromWrap(early \cup {iv}) /\ iv.begin = nxt /\ iv.end = nxt + s[2]
  <2>1. nxt \in U32 /\ nxt + s[2] \in U32 /\ nxt < nxt + s[2] /\ nxt + s[2] + 2 < M
    BY <1>1, <1>2, <1>4 DEF U32
  <2> QED
    BY <1>9, <1>10, <2>1 DEF Interval, FarFromWrap
<1>12. Merged(early, iv, m)
  BY <1>10, <1>11, MergeRemoveExact
<1>13. /\ nxt' = m.end /\ early' = m.set /\ nbr' = nbr /\ failed' = "no" /\ early' \in SUBSET early
       /\ nxt' \in Ends(early) \cup {nxt + s[2]} /\ nxt' >= nxt + s[2]
       /\ \A p \in Nat : nxt <= p /\ p < nxt' => p \in Covered(early \cup {iv})
       /\ \A y \in early' : y.end < nxt \/ nxt' < y.begin
  BY <1>2, <1>7, <1>11, <1>12 DEF Merged
<1> HIDE DEF m
<1>14. nxt' \in Nat /\ nxt < nxt' /\ nxt' <= nbr + N /\ nxt' <= IRS + PeerNxt
  <2>1. \A e \in Ends(early) : e \in Nat /\ e <= nbr + N /\ e <= IRS + PeerNxt
    BY EarlyFacts DEF Ends
  <2>2. nxt + s[2] \in Nat /\ nxt + s[2] <= IRS + PeerNxt
    BY <1>1, <1>2, <1>4
  <2> QED
    BY <1>1, <1>2, <1>6, <1>13, <2>1, <2>2
<1>15. PointersOrdered' /\ FailsOnlyBeyondFin' /\ DataFits'
  BY <1>2, <1>7, <1>8, <1>13, <1>14 DEF PointersOrdered, FailsOnlyBeyondFin, DataFits
<1>16. Separated(early)'
  BY <1>13, <1>10 DEF Separated
<1>17. EarlyPlaced'
  <2>1. ASSUME NEW y \in early' PROVE nxt' < y.begin /\ y.end <= nbr + N /\ y.end <= IRS + PeerNxt
    <3>1. y \in early
      BY <1>13
    <3> QED
      BY <1>2, <1>13, <3>1, EarlyFacts
  <2> QED
    BY <1>8, <1>13, <2>1 DEF EarlyPlaced
<1>18. Boundaries'
  <2>1. Boundary(IRS + s[1] + s[2])
    BY EndIsBoundary
  <2>2. \A e \in Ends(early) : Boundary(e)
    BY DEF Ends, StreamInv, Boundaries
  <2>3. Boundary(nxt') /\ \A y \in early' : Boundary(y.end)
    BY <1>4, <1>13, <2>1, <2>2 DEF Ends
  <2> QED
    BY <1>7, <2>3 DEF Boundaries, Boundary
<1>19. Apart' /\ Fits'
  BY <1>7, <1>13 DEF StreamInv, Apart, Fits
<1>20. AllStored'
  <2>1. ASSUME NEW p \in Covered(early) PROVE Stored(p)' /\ p \in Nat
    <3>1. p \in Nat /\ \E y \in early : y.begin <= p /\ p < y.end
      BY DEF Covered, In
    <3>2. nbr <= p /\ p < nbr + N
      BY <1>2, <3>1, EarlyFacts
    <3> QED
      BY <1>p, <3>1, <3>2 DEF StreamInv, AllStored
  <2>2. ASSUME NEW p \in Nat, nbr <= p, p < nxt' PROVE Stored(p)'
    <3>0. p < nbr + N /\ p < IRS + PeerNxt
      BY <1>2, <1>14, <2>2
    <3>1. CASE p < nxt
      BY <1>p, <2>2, <3>0, <3>1 DEF StreamInv, AllStored
    <3>2. CASE nxt <= p
      <4>1. p \in Covered(early \cup {iv})
        BY <1>13, <2>2, <3>2
      <4>2. p \in Covered(early) \/ (nxt <= p /\ p < nxt + s[2])
        BY <1>11, <4>1 DEF Covered, In
      <4> QED
        BY <1>p, <2>1, <2>2, <3>0, <4>2
    <3> QED
      BY <1>2, <3>1, <3>2
  <2>3. Covered(early') \in SUBSET Covered(early)
    BY <1>13 DEF Covered
  <2> QED
    BY <1>13, <2>1, <2>2, <2>3 DEF AllStored, Stored, Covered
<1>21. StreamStep
  <2>1. OffsetOf(nxt) = nxt - IRS /\ OffsetOf(nxt)' = nxt' - IRS
    BY <1>2, <1>14, PlainNumbers DEF OffsetOf
  <2>2. DataEnd = Min2(nxt - IRS, PeerNxt) /\ DataEnd' = Min2(nxt' - IRS, PeerNxt)
    BY <1>8, <2>1 DEF DataEnd
  <2>3. /\ DataEnd \in Nat /\ DataEnd' \in Nat /\ DataEnd <= DataEnd' /\ DataEnd' <= PeerNxt
        /\ DataEnd' # DataEnd
    <3>1. /\ IRS \in Nat /\ nxt \in Nat /\ nxt' \in Nat /\ PeerNxt \in Nat
          /\ IRS <= nxt /\ nxt < nxt' /\ nxt' <= IRS + PeerNxt
      BY <1>1, <1>2, <1>3, <1>14
    <3>2. /\ Min2(nxt - IRS, PeerNxt) = nxt - IRS /\ Min2(nxt' - IRS, PeerNxt) = nxt' - IRS
          /\ nxt - IRS \in Nat /\ nxt' - IRS \in Nat /\ nxt - IRS <= nxt' - IRS
          /\ nxt' - IRS <= PeerNxt /\ nxt - IRS # nxt' - IRS
      <4> DEFINE x == nxt
                 y == nxt'
                 p == PeerNxt
      <4>1. IRS \in Nat /\ x \in Nat /\ y \in Nat /\ p \in Nat /\ IRS <= x /\ x < y /\ y <= IRS + p
        BY <3>1
      <4> HIDE DEF x, y, p
      <4>2. /\ Min2(x - IRS, p) = x - IRS /\ Min2(y - IRS, p) = y - IRS
            /\ x - IRS \in Nat /\ y - IRS \in Nat /\ x - IRS <= y - IRS
            /\ y - IRS <= p /\ x - IRS # y - IRS
        BY <4>1 DEF Min2
      <4> QED
        BY <4>2 DEF x, y, p
    <3> QED
      BY <2>2, <3>2
  <2>4. DataEnd' - DataEnd \in 1 .. PeerNxt - DataEnd /\ DataEnd' = DataEnd + (DataEnd' - DataEnd)
    BY <1>2, <2>3, Gain
  <2>5. Taken' = Taken
    BY <1>8, <1>13 DEF Taken
  <2>6. Stream!Ack
    BY <1>8, <2>4, <2>5 DEF Stream!Ack, Taken
  <2> QED
    BY <2>6 DEF StreamStep, Stream!Next
<1> QED
  BY <1>15, <1>16, <1>17, <1>18, <1>19, <1>20, <1>21 DEF StreamInv

LEMMA StreamRecv ==
    ASSUME Unwrapped, StreamInv, NEW s \in segments, OnRecv(s), Bookkeeping'
    PROVE  StreamInv' /\ StreamStep
<1>1. /\ UNCHANGED <<reader, finWorker, state, peerVars, closing>> /\ Running
      /\ EarlyArrival(s) \/ NothingNew(s) \/ NewData(s)
  BY NoAssert DEF OnRecv
<1>2. CASE NothingNew(s)
  BY <1>1, <1>2, StreamSame DEF NothingNew, bufferVars, peerVars
<1> QED
  BY <1>1, <1>2, StreamEarly, StreamNew

\* The read that fails: the FIN's number makes one byte more than the buffer.
LEMMA StreamReadAsserts ==
    ASSUME Unwrapped, StreamInv, ReaderAsserts, Bookkeeping'
    PROVE  StreamInv' /\ StreamStep
<1>1. UNCHANGED <<nbr, nxt, early, buf, segments, fin, reader>> /\ failed' = "read"
  BY DEF ReaderAsserts, bufferVars, peerVars
<1>2. PeerNxt' = PeerNxt
  BY <1>1, PeerIs
<1>3. /\ IRS \in Nat /\ nbr \in Nat /\ nxt \in Nat /\ PeerNxt \in Nat /\ N \in Nat
      /\ nbr <= nxt /\ nxt <= IRS + PeerNxt + 1 /\ (~fin => nxt <= IRS + PeerNxt) /\ PeerNxt <= StreamLen
      /\ SizeToRead = nxt - nbr /\ reader.n \in Nat /\ StreamLen \in Nat
  BY StreamFacts DEF StreamInv, Bookkeeping, TypeOK
<1>4. reader.n > N /\ SizeToRead > N
  BY <1>3 DEF ReaderAsserts, Min2
<1>5. IRS + PeerNxt <= nbr + N /\ nxt = IRS + PeerNxt + 1 /\ SizeToRead = N + 1 /\ fin
  BY <1>3, <1>4 DEF StreamInv, DataFits
<1>6. SeqOf(PeerNxt + 1) = IRS + (PeerNxt + 1)
  BY <1>3, PlainNumbers
<1>7. FailsOnlyBeyondFin'
  BY <1>1, <1>2, <1>3, <1>4, <1>5, <1>6 DEF FailsOnlyBeyondFin, SizeToRead
<1>8. PointersOrdered' /\ EarlyPlaced' /\ DataFits'
  BY <1>1, <1>2 DEF StreamInv, PointersOrdered, EarlyPlaced, DataFits
<1>9. Separated(early)' /\ Apart' /\ Boundaries' /\ Fits'
  BY <1>1 DEF StreamInv, Separated, Apart, Boundaries, Boundary, Fits
<1>10. AllStored'
  BY <1>1, <1>2 DEF StreamInv, AllStored, Stored, Covered
<1>11. UNCHANGED <<PeerNxt, DataEnd, Taken>>
  BY <1>1, <1>2 DEF DataEnd, Taken
<1> QED
  BY <1>7, <1>8, <1>9, <1>10, <1>11 DEF StreamInv, StreamStep

LEMMA StreamPreserved ==
    ASSUME Unwrapped, StreamInv, [Next]_vars
    PROVE  StreamInv' /\ StreamStep
<1>0. Bookkeeping'
  BY BookStep DEF StreamInv
<1>1. ASSUME NEW len \in 1 .. MSS, PeerSend(len) PROVE StreamInv' /\ StreamStep
  <2>1. PeerNxt \in Nat /\ OffsetOf(nbr) \in Nat /\ edge \in Int /\ N \in Nat /\ StreamLen \in Nat /\ len \in Nat
    BY BookFacts, Constants DEF StreamInv, Bookkeeping, TypeOK
  <2>2. PeerNxt + len <= StreamLen /\ PeerNxt + len <= OffsetOf(nbr) + N
    BY <1>1, <2>1 DEF PeerSend, Min2, PeerLimit, Unwrapped
  <2> QED
    BY <1>1, <2>2, StreamSend DEF PeerSend
<1>2. CASE PeerProbe
  <2>1. 1 \in 1 .. MSS /\ PeerNxt + 1 <= StreamLen
    BY <1>2, BookFacts, Constants DEF PeerProbe, StreamInv
  <2> QED
    BY <1>2, <2>1, StreamSend DEF PeerProbe
<1>3. ASSUME NEW s \in segments, OnRecv(s) PROVE StreamInv' /\ StreamStep
  BY <1>0, <1>3, StreamRecv
<1>4. CASE EstablishedFin \/ CloseWaitFin \/ FinWait2Fin \/ TimeWaitFin
  <2>1. OnCtrl /\ finWorker' \in BOOLEAN
    BY <1>4 DEF EstablishedFin, CloseWaitFin, FinWait2Fin, TimeWaitFin, StreamInv, Bookkeeping, TypeOK
  <2>2. state' \in {"established", "finWait", "timeWait", "closeWait", "lastAck", "closed"}
    BY <1>0 DEF Bookkeeping, TypeOK
  <2> QED
    BY <2>1, <2>2, StreamCtrl
<1>5. CASE ReaderRead
  BY <1>0, <1>5, StreamRead
<1>6. CASE PeerFin \/ Notify \/ FinDone \/ SendAckWnd \/ VClose \/ Abort
  <2>1. UNCHANGED <<nbr, nxt, early, buf, segments, failed>> /\ (fin => fin')
    BY <1>6 DEF PeerFin, Notify, FinDone, SendAckWnd, VClose, Abort, bufferVars, peerVars
  <2>2. reader' = reader \/ Running
    BY <1>6 DEF PeerFin, Notify, FinDone, SendAckWnd, VClose, Abort
  <2>3. reader'.n = reader.n \/ failed = "no"
    BY <2>2, StreamFacts
  <2> QED
    BY <1>0, <2>1, <2>3, StreamSame
<1>7. CASE (\E n \in ReadSizes : VRecv(n)) \/ ReaderSleep \/ ReaderStop \/ UNCHANGED vars
  <2>1. UNCHANGED <<nbr, nxt, early, buf, segments, failed>> /\ (fin => fin')
    BY <1>7 DEF VRecv, ReaderSleep, ReaderStop, vars, bufferVars, peerVars
  <2>2. reader' = reader \/ Running
    BY <1>7 DEF VRecv, ReaderSleep, ReaderStop, vars
  <2>3. reader'.n = reader.n \/ failed = "no"
    BY <2>2, StreamFacts
  <2> QED
    BY <1>0, <2>1, <2>3, StreamSame
<1>8. CASE ReaderAsserts
  BY <1>0, <1>8, StreamReadAsserts
<1> QED
  BY <1>1, <1>2, <1>3, <1>4, <1>5, <1>6, <1>7, <1>8 DEF Next

\* The receive buffer is sound as long as the peer stays within it: pointers,
\* early arrivals and ring agree with what the peer sent.
THEOREM StreamInvariant ==
    ASSUME Unwrapped
    PROVE  Spec => []StreamInv
<1>1. Init => StreamInv
  BY StreamInit
<1>2. StreamInv /\ [Next]_vars => StreamInv'
  BY StreamPreserved
<1> QED
  BY <1>1, <1>2, PTL DEF Spec

\* No assertion of write(), no check of an interval's constructor and no
\* undefined erase() is reached by onRecv() and onCtrl(); the assertion of
\* read() (buffers.hpp:94) only by a read of more than the buffer, when it is
\* full to the last byte and the peer's FIN is taken.
THEOREM RecvFailsOnlyBeyondFin ==
    ASSUME Unwrapped
    PROVE  Spec => []FailsOnlyBeyondFin
<1>1. StreamInv => FailsOnlyBeyondFin
  BY DEF StreamInv
<1> QED
  BY <1>1, StreamInvariant, PTL

\* An application that never asks vRecv() for more than the buffer holds
\* reaches no assertion at all, readAtMostNBytes() (buffers.hpp:578-601)
\* included.
THEOREM RecvNeverFails ==
    ASSUME Unwrapped, \A n \in ReadSizes : n <= N
    PROVE  Spec => []NeverFails
<1>1. Init => reader.n <= N
  BY Constants DEF Init
<1>2. TypeOK /\ reader.n <= N /\ [Next]_vars => (reader.n <= N)'
  <2> SUFFICES ASSUME TypeOK, reader.n <= N, [Next]_vars PROVE reader'.n <= N
    OBVIOUS
  <2>1. reader' = reader \/ reader' = Wake(reader) \/ reader'.n = 0 \/ (\E n \in ReadSizes : VRecv(n))
        \/ reader' = [reader EXCEPT !.pc = "asleep"]
    BY DEF Next, vars, PeerSend, PeerProbe, PeerFin, OnRecv, Notify, EstablishedFin, CloseWaitFin, FinWait2Fin,
           TimeWaitFin, OnCtrl, FinDone, SendAckWnd, VClose, Abort, ReaderSleep, ReaderStop, ReaderRead,
           ReaderAsserts
  <2>2. reader \in [pc : {"idle", "ready", "asleep"}, n : Nat]
    BY DEF TypeOK
  <2>3. Wake(reader).n = reader.n
    BY <2>2 DEF Wake
  <2>4. ASSUME NEW n \in ReadSizes, VRecv(n) PROVE reader'.n <= N
    BY <2>4 DEF VRecv
  <2> QED
    BY <2>1, <2>2, <2>3, <2>4, Constants
<1>3. TypeOK /\ reader.n <= N /\ FailsOnlyBeyondFin => NeverFails
  BY Constants DEF TypeOK, FailsOnlyBeyondFin, NeverFails
<1>4. Spec => [](reader.n <= N)
  BY <1>1, <1>2, RecvTypeCorrect, PTL DEF Spec
<1> QED
  BY <1>3, <1>4, RecvTypeCorrect, RecvFailsOnlyBeyondFin, PTL

\* The early arrivals that mergeRemove() acknowledges unseen lie beyond nxt_,
\* inside the window, and their bytes are in the ring.
THEOREM EarlyArrivalsSound ==
    ASSUME Unwrapped
    PROVE  Spec => []EarlySound
<1>1. StreamInv => EarlySound
  <2> SUFFICES ASSUME StreamInv, NEW iv \in early
               PROVE  /\ nxt < iv.begin /\ iv.end <= nbr + N
                      /\ \A seq \in iv.begin .. iv.end - 1 : buf[idx(seq)] = OffsetOf(seq)
    BY DEF EarlySound
  <2>1. /\ iv.begin \in Nat /\ iv.end \in Nat /\ nxt < iv.begin /\ iv.end <= nbr + N
        /\ IRS \in Nat /\ IRS <= nxt /\ nxt \in Nat
    BY EarlyFacts, StreamFacts
  <2>2. ASSUME NEW seq \in iv.begin .. iv.end - 1 PROVE buf[idx(seq)] = OffsetOf(seq)
    <3>1. seq \in Nat /\ iv.begin <= seq /\ seq < iv.end /\ IRS <= seq
      BY <2>1
    <3>2. seq \in Covered(early)
      BY <3>1 DEF Covered, In
    <3>3. buf[idx(seq)] = seq - IRS
      BY <3>2 DEF StreamInv, AllStored, Stored
    <3> QED
      BY <3>1, <3>3, PlainNumbers
  <2> QED
    BY <2>1, <2>2
<1> QED
  BY <1>1, StreamInvariant, PTL

\* Every byte between nbr_ and nxt_ is the byte the peer sent at that place.
THEOREM ReadableBytesIntact ==
    ASSUME Unwrapped
    PROVE  Spec => []ReadableIntact
<1>1. StreamInv => ReadableIntact
  <2> SUFFICES ASSUME StreamInv, NEW o \in OffsetOf(nbr) .. DataEnd - 1
               PROVE  buf[idx(nbr + o - OffsetOf(nbr))] = o
    BY DEF ReadableIntact
  <2>1. /\ IRS \in Nat /\ nbr \in Nat /\ nxt \in Nat /\ PeerNxt \in Nat /\ IRS <= nbr
        /\ OffsetOf(nbr) = nbr - IRS /\ DataEnd = Min2(nxt - IRS, PeerNxt)
    BY StreamFacts
  <2>2. o \in Nat /\ nbr - IRS <= o /\ o < nxt - IRS /\ o < PeerNxt
    BY <2>1 DEF Min2
  <2> DEFINE q == IRS + o
  <2>3. q \in Nat /\ nbr <= q /\ q < nxt /\ q < IRS + PeerNxt
    BY <2>1, <2>2
  <2>4. nbr + o - OffsetOf(nbr) = q /\ q - IRS = o
    BY <2>1, <2>2
  <2> HIDE DEF q
  <2>5. \A p \in Nat : nbr <= p /\ p < nxt /\ p < IRS + PeerNxt => buf[idx(p)] = p - IRS
    BY DEF StreamInv, AllStored, Stored
  <2>6. buf[idx(q)] = q - IRS
    BY <2>3, <2>5
  <2> QED
    BY <2>4, <2>6
<1> QED
  BY <1>1, StreamInvariant, PTL

\* The receive buffer implements the byte stream: what is acknowledged was
\* sent and stays acknowledged, what is read was acknowledged, in order, once.
THEOREM ImplementsStream ==
    ASSUME Unwrapped
    PROVE  Spec => StreamSpec
<1>1. Init => StreamInv /\ Stream!Init
  BY StreamInit
<1>2. StreamInv /\ [Next]_vars => StreamInv' /\ StreamStep
  BY StreamPreserved
<1>3. StreamStep => [Stream!Next]_<<PeerNxt, DataEnd, Min2(OffsetOf(nbr), PeerNxt)>>
  BY DEF StreamStep, Taken
<1> QED
  BY <1>1, <1>2, <1>3, PTL DEF Spec, StreamSpec, Stream!Spec
=============================================================================
