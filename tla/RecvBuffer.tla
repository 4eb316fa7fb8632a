----------------------------- MODULE RecvBuffer -----------------------------
(***************************************************************************)
(* The receiving half of a NormalSocket: the RecvBuffer of tcp/buffers.hpp *)
(* with its early arrivals, the reader in vRecv(), and the handlers of     *)
(* tcp_stack.cpp that deliver segments and FINs to it.  Each action is one *)
(* critical section of RecvBuffer::mutex_; onRecv()'s notify_one() comes   *)
(* after the unlock and is an action of its own.                           *)
(*                                                                         *)
(* The peer cuts its stream into segments once and sends them, in any      *)
(* order and any number of times (the 8 workers of the thread pool reorder *)
(* them even when the network does not).  A byte is its offset in the      *)
(* stream; offset o travels under the sequence number IRS + o.             *)
(***************************************************************************)
EXTENDS Seq32, RingBuffer, IntervalSet, FiniteSets

CONSTANTS MSS,          \* MAX_TCP_PAYLOAD_SIZE
          IRS,          \* sequence number of the peer's first byte
          StreamLen,    \* bound on the bytes the peer sends
          ReadSizes,    \* sizes the application passes to vRecv()
          Workers,      \* bound on workers between unlock and notify_one()
          Fitting       \* the peer stays within the buffer (TRUE), or within
                        \* the window it was told (FALSE)

ASSUME RecvAssumption ==
    /\ N < M
    /\ MSS \in Nat \ {0}
    /\ IRS \in U32
    /\ StreamLen \in Nat /\ StreamLen < M - 1
    /\ ReadSizes \subseteq Nat \ {0}
    /\ Workers \in Nat \ {0}
    /\ Fitting \in BOOLEAN

VARIABLES nbr, nxt, early, stopped,     \* RecvBuffer: nbr_, nxt_, earlyArrivals_, stopped_
          buf,                          \* RingBuffer::buf_
          reader,                       \* pc and size of the vRecv() in progress
          notifies,                     \* workers about to call notify_one()
          finWorker,                    \* a worker between onCtrl() and shutdownRecv_()
          state,                        \* NormalSocket::state_
          segments, fin,                \* what the peer has sent: <<offset, length>>; its FIN
          edge,                         \* history: the largest window edge advertised
          closing,                      \* history: a vRecv() has returned CLOSING
          failed                        \* "no", or how the process or a worker came to grief

bufferVars == <<nbr, nxt, early, stopped, buf>>
peerVars   == <<segments, fin>>
vars == <<nbr, nxt, early, stopped, buf, reader, notifies, finWorker, state,
          segments, fin, edge, closing, failed>>

Junk == StreamLen       \* the contents of a cell nobody wrote

TypeOK ==
    /\ nbr \in U32 /\ nxt \in U32
    /\ early \subseteq Interval
    /\ stopped \in BOOLEAN
    /\ buf \in [Cells -> 0 .. StreamLen]
    /\ reader \in [pc : {"idle", "ready", "asleep"}, n : Nat]
    /\ notifies \in 0 .. Workers
    /\ finWorker \in BOOLEAN
    /\ state \in {"established", "finWait", "timeWait", "closeWait", "lastAck", "closed"}
    /\ segments \subseteq (0 .. StreamLen) \X (1 .. MSS)
    /\ fin \in BOOLEAN
    /\ edge \in Int
    /\ closing \in BOOLEAN
    /\ failed \in {"no", "assert", "throw", "undefined", "read"}

\* The handshake is over and both pointers are at the peer's first byte.
Init ==
    /\ nbr = IRS /\ nxt = IRS
    /\ early = {}
    /\ stopped = FALSE
    /\ buf = [c \in Cells |-> Junk]
    /\ reader = [pc |-> "idle", n |-> 0]
    /\ notifies = 0
    /\ finWorker = FALSE
    /\ state = "established"
    /\ segments = {}
    /\ fin = FALSE
    /\ edge = N
    /\ closing = FALSE
    /\ failed = "no"

---------------------------------------------------------------------------

SeqOf(o) == Add(IRS, o)
OffsetOf(seq) == Sub(seq, IRS)

SizeToRead == Sub(nxt, nbr)
SizeFree   == N - SizeToRead

\* How far the peer has got in its stream.
PeerNxt == LET ends == {s[1] + s[2] : s \in segments}
           IN CHOOSE m \in {0} \cup ends : \A e \in ends : m >= e

Wake(t) == IF t.pc = "asleep" THEN [t EXCEPT !.pc = "ready"] ELSE t

\* The peer learns of a window of free bytes past offset o.  The window is cast
\* to uint16_t, whose largest value is the size of the buffer: the -1 of a full
\* buffer and a FIN becomes N.
Advertise(o, free) ==
    LET e == o + (free % (N + 1))
    IN edge' = IF e > edge THEN e ELSE edge

Running == failed \in {"no", "throw"}

---------------------------------------------------------------------------
(* The peer.                                                               *)

PeerLimit == IF Fitting THEN Min2(edge, OffsetOf(nbr) + N) ELSE edge

\* The next segment, within the window.
PeerSend(len) ==
    /\ ~fin
    /\ PeerNxt + len <= Min2(PeerLimit, StreamLen)
    /\ segments' = segments \cup {<<PeerNxt, len>>}
    /\ UNCHANGED <<bufferVars, reader, notifies, finWorker, state, fin, edge, closing, failed>>

\* A zero-window probe: one byte past the window.
PeerProbe ==
    /\ ~fin
    /\ PeerNxt = PeerLimit /\ PeerNxt < StreamLen
    /\ segments' = segments \cup {<<PeerNxt, 1>>}
    /\ UNCHANGED <<bufferVars, reader, notifies, finWorker, state, fin, edge, closing, failed>>

PeerFin ==
    /\ ~fin
    /\ fin' = TRUE
    /\ UNCHANGED <<bufferVars, reader, notifies, finWorker, state, segments, edge, closing, failed>>

---------------------------------------------------------------------------
(* Workers: onRecv() through the GetAck handlers.                          *)

Payload(s) == [i \in 1 .. s[2] |-> s[1] + i - 1]

\* The last position onRecv() lets RingBuffer::write() fill, not wrapped.
Last == nbr + N - 1

\* The assertion of write(): no range longer than the buffer.
RangeAsserted(at) == at < Last => Last - at < N

\* The interval a segment adds to the early arrivals, or is merged with them by.
Written(seq, n) == [begin |-> seq, end |-> Add(seq, n)]

\* A segment beyond nxt_ is kept if there is room.
EarlyArrival(s) ==
    LET seq == SeqOf(s[1])
        w   == write(buf, Payload(s), seq, Last)
        m   == emplaceMerge(early, Written(seq, w.n))
    IN /\ seq > nxt
       /\ RangeAsserted(seq)
       /\ buf' = w.buf
       /\ IF w.n = 0 THEN UNCHANGED <<early, failed>>
          ELSE /\ early' = m.set
               /\ failed' = IF m.outcome = "ok" THEN failed ELSE m.outcome
       /\ Advertise(OffsetOf(nxt), SizeFree)
       /\ UNCHANGED <<nbr, nxt, stopped, notifies>>

\* A segment that holds nothing new, or for which there is no room.
NothingNew(s) ==
    LET offset == Sub(nxt, SeqOf(s[1]))
    IN /\ SeqOf(s[1]) <= nxt
       /\ \/ offset >= s[2]
          \/ offset < s[2] /\ nxt >= Last
       /\ Advertise(OffsetOf(nxt), SizeFree)
       /\ UNCHANGED <<bufferVars, notifies, failed>>

\* A segment with new data, written at nxt_.  The interval is taken from
\* seqNum and not from nxt_, and the window from before the merge.  A
\* mergeRemove() that throws takes the rest of the handler with it.
NewData(s) ==
    LET seq    == SeqOf(s[1])
        offset == Sub(nxt, seq)
        w      == write(buf, SubSeq(Payload(s), offset + 1, s[2]), nxt, Last)
        m      == mergeRemove(early, Written(seq, w.n))
    IN /\ seq <= nxt /\ offset < s[2] /\ nxt < Last
       /\ RangeAsserted(nxt)
       /\ buf' = w.buf
       /\ IF m.outcome = "ok"
          THEN /\ nxt' = m.end
               /\ early' = m.set
               /\ notifies < Workers
               /\ notifies' = notifies + 1
               /\ Advertise(OffsetOf(m.end), SizeFree - w.n)
               /\ UNCHANGED <<nbr, stopped, failed>>
          ELSE /\ failed' = m.outcome
               /\ UNCHANGED <<nbr, nxt, early, stopped, notifies, edge>>

\* The assertion of write() fails.
WriteAsserts(s) ==
    LET seq == SeqOf(s[1])
    IN /\ \/ seq > nxt /\ ~RangeAsserted(seq)
          \/ seq <= nxt /\ Sub(nxt, seq) < s[2] /\ ~RangeAsserted(nxt)
       /\ failed' = "assert"
       /\ UNCHANGED <<bufferVars, notifies, edge>>

\* ESTABLISHED, CLOSE_WAIT, FIN_WAIT_1 and FIN_WAIT_2 take data.
OnRecv(s) ==
    /\ Running
    /\ state \in {"established", "finWait", "closeWait"}
    /\ EarlyArrival(s) \/ NothingNew(s) \/ NewData(s) \/ WriteAsserts(s)
    /\ UNCHANGED <<reader, finWorker, state, peerVars, closing>>

\* Mutant of Notify: the notification reaches nobody.
NotifyNobody ==
    /\ Running
    /\ notifies > 0
    /\ notifies' = notifies - 1
    /\ UNCHANGED <<bufferVars, reader, finWorker, state, peerVars, edge, closing, failed>>

\* cv_.notify_one(), after the unlock.
Notify ==
    /\ Running
    /\ notifies > 0
    /\ notifies' = notifies - 1
    /\ reader' = Wake(reader)
    /\ UNCHANGED <<bufferVars, finWorker, state, peerVars, edge, closing, failed>>

---------------------------------------------------------------------------
(* Workers: onCtrl() through the GetFin handlers.                          *)

\* The FIN comes after the peer's last byte; if it is early, nothing happens
\* but the reply.
OnCtrl ==
    /\ Running
    /\ fin
    /\ nxt' = IF SeqOf(PeerNxt) = nxt THEN Add(nxt, 1) ELSE nxt
    /\ Advertise(OffsetOf(nxt'), N - Sub(nxt', nbr))
    /\ UNCHANGED <<nbr, early, stopped, buf, reader, notifies, peerVars, closing, failed>>

FinTaken == nxt' = Add(SeqOf(PeerNxt), 1)

\* ESTABLISHED: the handler goes on to FinDone, unless the FIN is early.
EstablishedFin ==
    /\ state = "established"
    /\ OnCtrl
    /\ finWorker' = (finWorker \/ FinTaken)
    /\ UNCHANGED state

\* CLOSE_WAIT and TIME_WAIT: a FIN that was retransmitted.
CloseWaitFin ==
    /\ state = "closeWait"
    /\ OnCtrl
    /\ UNCHANGED <<finWorker, state>>

TimeWaitFin ==
    /\ state = "timeWait"
    /\ OnCtrl
    /\ UNCHANGED <<finWorker, state>>

\* FIN_WAIT_2; FIN_WAIT_1 has no handler for a FIN and drops it.
FinWait2Fin ==
    /\ state = "finWait"
    /\ OnCtrl
    /\ state' = IF FinTaken THEN "timeWait" ELSE state
    /\ UNCHANGED finWorker

\* The rest of the ESTABLISHED handler: shutdownRecv_(), then CLOSE_WAIT.
FinDone ==
    /\ Running
    /\ finWorker
    /\ finWorker' = FALSE
    /\ stopped' = TRUE
    /\ reader' = Wake(reader)
    /\ state' = "closeWait"
    /\ UNCHANGED <<nbr, nxt, early, buf, notifies, peerVars, edge, closing, failed>>

\* A data segment or a probe of our own carries getAckWnd().
SendAckWnd ==
    /\ Running
    /\ state \in {"established", "closeWait", "finWait"}
    /\ Advertise(OffsetOf(nxt), SizeFree)
    /\ UNCHANGED <<bufferVars, reader, notifies, finWorker, state, peerVars, closing, failed>>

---------------------------------------------------------------------------
(* The application: vClose(), vAbort(), vRecv().                           *)

VClose ==
    /\ Running
    /\ state \in {"established", "closeWait"}
    /\ state' = IF state = "established" THEN "finWait" ELSE "lastAck"
    /\ UNCHANGED <<bufferVars, reader, notifies, finWorker, peerVars, edge, closing, failed>>

\* vAbort(), LAST_ACK -> CLOSED, or the reaper: shutdown_().
Abort ==
    /\ Running
    /\ state # "closed"
    /\ state' = "closed"
    /\ stopped' = TRUE
    /\ reader' = Wake(reader)
    /\ UNCHANGED <<nbr, nxt, early, buf, notifies, finWorker, peerVars, edge, closing, failed>>

\* vRecv() dispatches on the state; in CLOSE_WAIT it looks at the size first.
VRecv(n) ==
    /\ Running
    /\ reader.pc = "idle"
    /\ \/ /\ \/ state \in {"established", "finWait", "timeWait"}
             \/ state = "closeWait" /\ SizeToRead > 0
          /\ reader' = [pc |-> "ready", n |-> n]
          /\ UNCHANGED closing
       \/ /\ \/ state = "lastAck"
             \/ state = "closeWait" /\ SizeToRead = 0
          /\ closing' = TRUE
          /\ UNCHANGED reader
    /\ UNCHANGED <<bufferVars, notifies, finWorker, state, peerVars, edge, failed>>

ReaderSleep ==
    /\ Running
    /\ reader.pc = "ready"
    /\ SizeToRead = 0 /\ ~stopped
    /\ reader' = [reader EXCEPT !.pc = "asleep"]
    /\ UNCHANGED <<bufferVars, notifies, finWorker, state, peerVars, edge, closing, failed>>

\* readAtMostNBytes() returns CLOSING.
ReaderStop ==
    /\ Running
    /\ reader.pc = "ready"
    /\ stopped
    /\ reader' = [pc |-> "idle", n |-> 0]
    /\ closing' = TRUE
    /\ UNCHANGED <<bufferVars, notifies, finWorker, state, peerVars, edge, failed>>

\* Mutants of ReaderRead: n is not cut to what there is, and a loop that
\* counts down what it has not read.
ReaderReadUncut ==
    /\ Running
    /\ reader.pc = "ready"
    /\ SizeToRead > 0 /\ ~stopped
    /\ nbr' = Add(nbr, reader.n)
    /\ reader' = [pc |-> "idle", n |-> 0]
    /\ UNCHANGED <<nxt, early, stopped, buf, notifies, finWorker, state, peerVars, edge, closing, failed>>

ReaderReadAll ==
    /\ Running
    /\ reader.pc = "ready"
    /\ SizeToRead > 0 /\ ~stopped
    /\ nbr' = nxt
    /\ reader' = [pc |-> "ready", n |-> reader.n - SizeToRead]
    /\ UNCHANGED <<nxt, early, stopped, buf, notifies, finWorker, state, peerVars, edge, closing, failed>>

ReaderRead ==
    /\ Running
    /\ reader.pc = "ready"
    /\ SizeToRead > 0 /\ ~stopped
    /\ Min2(reader.n, SizeToRead) <= N
    /\ nbr' = Add(nbr, Min2(reader.n, SizeToRead))
    /\ reader' = [pc |-> "idle", n |-> 0]
    /\ UNCHANGED <<nxt, early, stopped, buf, notifies, finWorker, state, peerVars, edge, closing, failed>>

\* The assertion of RingBuffer::read(), no range longer than the buffer: the
\* number of the FIN counts as a byte to read.
ReaderAsserts ==
    /\ Running
    /\ reader.pc = "ready"
    /\ SizeToRead > 0 /\ ~stopped
    /\ Min2(reader.n, SizeToRead) > N
    /\ failed' = "read"
    /\ UNCHANGED <<bufferVars, reader, notifies, finWorker, state, peerVars, edge, closing>>

---------------------------------------------------------------------------

Next ==
    \/ \E len \in 1 .. MSS : PeerSend(len)
    \/ PeerProbe \/ PeerFin
    \/ \E s \in segments : OnRecv(s)
    \/ Notify
    \/ EstablishedFin \/ CloseWaitFin \/ FinWait2Fin \/ TimeWaitFin
    \/ FinDone \/ SendAckWnd
    \/ VClose \/ Abort
    \/ \E n \in ReadSizes : VRecv(n)
    \/ ReaderSleep \/ ReaderStop \/ ReaderRead \/ ReaderAsserts

Spec == Init /\ [][Next]_vars

---------------------------------------------------------------------------
(* Properties.                                                             *)

\* The bytes received in order: a FIN moves nxt_ one further than the data.
DataEnd == Min2(OffsetOf(nxt), PeerNxt)

\* Every byte between nbr_ and nxt_ is the byte the peer sent at that place:
\* no early arrival, duplicate or write past the window overwrote it in the
\* ring before the reader came (onRecv(), buffers.hpp:647-696).
ReadableIntact ==
    \A o \in OffsetOf(nbr) .. DataEnd - 1 : buf[idx(nbr + o - OffsetOf(nbr))] = o

\* The early arrivals lie beyond nxt_ and inside the window, and their bytes
\* are in the ring: mergeRemove() may acknowledge them unseen.
EarlySound ==
    \A iv \in early :
        /\ nxt < iv.begin /\ iv.end <= nbr + N
        /\ \A seq \in iv.begin .. iv.end - 1 : buf[idx(seq)] = OffsetOf(seq)

\* A reader asleep next to unread data still has a worker about to notify it.
\* (The FIN's sequence number is not data.)
NoLostReaderWakeup ==
    (Running /\ reader.pc = "asleep" /\ OffsetOf(nbr) < DataEnd) => notifies > 0

\* Nothing that this socket does to its receive buffer trips an assertion,
\* the check of an interval's constructor or undefined behaviour.
NeverFails == failed = "no"

\* Nothing fails but a read of more than the whole buffer (RingBuffer::read(),
\* buffers.hpp:94) when the buffer is full, unread to the last byte, and
\* onCtrl() (641) has counted the peer's FIN on top of it.
FailsOnlyBeyondFin ==
    \/ failed = "no"
    \/ /\ failed = "read" /\ reader.n > N
       /\ fin /\ nxt = SeqOf(PeerNxt + 1) /\ SizeToRead = N + 1

\* The receive buffer implements one direction of a byte stream: what is
\* acknowledged was sent and stays acknowledged, what is read was
\* acknowledged, in order and once.
Stream == INSTANCE ByteStream WITH
              sent  <- PeerNxt,
              acked <- DataEnd,
              taken <- Min2(OffsetOf(nbr), PeerNxt)

StreamSpec == Stream!Spec
=============================================================================
