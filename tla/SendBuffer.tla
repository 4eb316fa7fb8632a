---------------------------- MODULE SendBuffer ----------------------------
(***************************************************************************)
(* The sending half of a NormalSocket (tcp/sockets.hpp): the SendBuffer of *)
(* tcp/buffers.hpp with its RetransmissionQueue, and the threads that work *)
(* on them:                                                                *)
(*   writer   the application inside vSend(), blocked on cvWriter_         *)
(*   sender   senderThread_, blocked on cvSender_                          *)
(*   zwp      zwpThread_, the zero-window prober                           *)
(*   rtx      retransmitThread_, every 250 ms                              *)
(*   closer   the threads inside vClose(), each sending a FIN              *)
(*   the thread-pool workers that run onAck() for arriving segments        *)
(* Every action is one critical section of SendBuffer::mutex_ or of        *)
(* RetransmissionQueue::mutex_.  A byte is identified with the sequence    *)
(* number it was written at.  The network is outside this module: segments *)
(* handed to it may be lost, acknowledgements arrive late, twice or never. *)
(***************************************************************************)
EXTENDS Seq32, RingBuffer, RetransmissionQueue, FiniteSets

CONSTANTS MSS,          \* MAX_TCP_PAYLOAD_SIZE
          ISN,          \* the initial sequence number of this side
          InitWnds,     \* windowSize given to the constructor: M - 1 for an
                        \* active open, the client's window for a passive one
          Wnds,         \* windows the peer advertises
          WriteSizes,   \* lengths of the application's writes
          AckThreads,   \* workers that can be inside onAck() at once
          Closers,      \* threads that can be inside vClose() at once
          MaxFins       \* bound on the FINs; the code has none of its own

ASSUME SendAssumption ==
    /\ N + MaxFins + 1 < M
    /\ MSS \in 1 .. N         \* a segment fits the ring: read() never asserts
    /\ ISN \in U32
    /\ InitWnds \subseteq U32
    /\ Wnds \subseteq U32
    /\ WriteSizes \subseteq Nat \ {0}
    /\ AckThreads \in Nat
    /\ MaxFins \in Nat

VARIABLES una, nxt, nbw, wnd, stopped,  \* SendBuffer: una_, nxt_, nbw_, wnd_, stopped_
          buf,                          \* RingBuffer::buf_
          deque, zwpEntry,              \* RetransmissionQueue: deque_, zwpEntry_ (<<>> or <<e>>)
          writer,                       \* pc and bytes left of the write in progress
          sender,                       \* pc and the segment taken but not yet enqueued
          zwp,                          \* pc, and zwp_.state, zwp_.seq
          rtx,                          \* pc and the right window edge read
          closer,                       \* per thread: pc, and the FIN's seq
          fins,                         \* history: FINs counted, see FinHistory
          pendingAcks,                  \* acks past the first half of onAck()
          adv,                          \* history: the largest window edge offered, from una
          aborted                       \* "no", or the assertion that ended the process

bufferVars == <<una, nxt, nbw, wnd, stopped, buf>>
queueVars  == <<deque, zwpEntry>>
vars == <<una, nxt, nbw, wnd, stopped, buf, deque, zwpEntry, writer, sender, zwp,
          rtx, closer, fins, pendingAcks, adv, aborted>>

Junk  == M                  \* the contents of a cell nobody wrote
Bytes == 0 .. M
Entry == [seq : U32, data : Seq(Bytes), counter : Nat]

Writer == [pc : {"idle", "ready", "asleep"}, left : Nat]
Sender == [pc : {"ready", "asleep", "enqueue", "done"}, seq : U32, data : Seq(Bytes)]
Zwp    == [pc : {"ready", "asleep", "countdown", "waitAck", "done"}, state : 0 .. 2, seq : U32]
Rtx    == [pc : {"idle", "scan"}, edge : U32]
Closer == [pc : {"open", "gotNxt", "enqueue"}, seq : U32]

\* How many FINs sendFin_() has counted, the sequence numbers they took (nxt_
\* at the time) and the cells it skipped (nbw_ at the time).
FinHistory == [n : 0 .. MaxFins, at : SUBSET U32, holes : SUBSET U32]

TypeOK ==
    /\ una \in U32 /\ nxt \in U32 /\ nbw \in U32 /\ wnd \in U32
    /\ stopped \in BOOLEAN
    /\ buf \in [Cells -> Bytes]
    /\ deque \in Seq(Entry)
    /\ zwpEntry \in Seq(Entry)
    /\ writer \in Writer
    /\ sender \in Sender
    /\ zwp \in Zwp
    /\ rtx \in Rtx
    /\ closer \in [Closers -> Closer]
    /\ fins \in FinHistory
    /\ pendingAcks \subseteq U32
    /\ adv \in Nat
    /\ aborted \in {"no", "write", "enqueue", "enqueueZwp"}

\* The socket was just opened: the SYN (or SYN-ACK) occupies ISN, was sent
\* and is on the retransmission queue; nothing has been written yet.
Init ==
    /\ una = ISN
    /\ nxt = Add(ISN, 1)
    /\ nbw = Add(ISN, 1)
    /\ wnd \in InitWnds
    /\ stopped = FALSE
    /\ buf = [c \in Cells |-> Junk]
    /\ deque = <<NewEntry(ISN, <<>>)>>
    /\ zwpEntry = <<>>
    /\ writer = [pc |-> "idle", left |-> 0]
    /\ sender = [pc |-> "ready", seq |-> ISN, data |-> <<>>]
    /\ zwp = [pc |-> "ready", state |-> 0, seq |-> ISN]
    /\ rtx = [pc |-> "idle", edge |-> 0]
    /\ closer = [c \in Closers |-> [pc |-> "open", seq |-> ISN]]
    /\ fins = [n |-> 0, at |-> {}, holes |-> {}]
    /\ pendingAcks = {}
    /\ adv = wnd + 1
    /\ aborted = "no"

---------------------------------------------------------------------------
(* Sizes (buffers.hpp:480-487) and wake-ups.                               *)

\* Mutant: the window is not looked at.
CanSendAll(u, x, b, w) == Sub(b, x)

CanSend(u, x, b, w) ==
    IF w > Sub(x, u) THEN Min2(w - Sub(x, u), Sub(b, x)) ELSE 0

SizeUnacked == Sub(nxt, una)
SizeNotSent == Sub(nbw, nxt)
SizeCanSend == CanSend(una, nxt, nbw, wnd)

\* size_t: -1 (possible after a FIN) is the largest size_t in the program.
SizeFree == N - Sub(nbw, una)

\* notify: a thread asleep on a condition variable looks at its condition again.
Wake(t) == IF t.pc = "asleep" THEN [t EXCEPT !.pc = "ready"] ELSE t

Max2(a, b) == IF a >= b THEN a ELSE b

Running == aborted = "no"

---------------------------------------------------------------------------
(* The application: vSend() -> write().                                    *)

\* vSend() in a state that allows it.  A vClose() does not end that: a FIN
\* handler can overwrite FIN_WAIT_1 with CLOSE_WAIT, where vSend() goes on.
AppWrite(k) ==
    /\ Running
    /\ writer.pc = "idle"
    /\ ~stopped
    /\ writer' = [pc |-> "ready", left |-> k]
    /\ UNCHANGED <<bufferVars, queueVars, sender, zwp, rtx, closer, fins, pendingAcks, adv, aborted>>

\* cvWriter_.wait: no free space.
WriterSleep ==
    /\ Running
    /\ writer.pc = "ready"
    /\ SizeFree = 0
    /\ ~stopped
    /\ writer' = [writer EXCEPT !.pc = "asleep"]
    /\ UNCHANGED <<bufferVars, queueVars, sender, zwp, rtx, closer, fins, pendingAcks, adv, aborted>>

\* write() returns CLOSING.
WriterStop ==
    /\ Running
    /\ writer.pc = "ready"
    /\ stopped
    /\ writer' = [pc |-> "idle", left |-> 0]
    /\ UNCHANGED <<bufferVars, queueVars, sender, zwp, rtx, closer, fins, pendingAcks, adv, aborted>>

\* Mutant of FreeUpTo: one byte too many.
FreeUpToInclusive(b, free) == b + free

\* The last position write() may fill; size_t arithmetic, not wrapped.
FreeUpTo(b, free) == b + free - 1

\* RingBuffer's write() takes the last position for one beyond the ring: FINs
\* have made SizeFree negative, and nbw_ is too small for the sum, a size_t,
\* to come out below it.
WriteAsserts == FreeUpTo(nbw, SizeFree) < 0

WriterAsserts ==
    /\ Running
    /\ writer.pc = "ready"
    /\ SizeFree # 0
    /\ ~stopped
    /\ WriteAsserts
    /\ aborted' = "write"
    /\ UNCHANGED <<bufferVars, queueVars, writer, sender, zwp, rtx, closer, fins, pendingAcks, adv>>

\* One round of the loop of write(); with SizeFree negative it writes nothing.
WriterWrite ==
    /\ Running
    /\ writer.pc = "ready"
    /\ SizeFree # 0
    /\ ~stopped
    /\ ~WriteAsserts
    /\ LET data == [i \in 1 .. writer.left |-> (nbw + i - 1) % M]
           w    == RingWrite(buf, data, nbw, FreeUpTo(nbw, SizeFree))
       IN /\ buf' = w.buf
          /\ nbw' = Add(nbw, w.n)
          /\ writer' = [pc   |-> IF writer.left = w.n THEN "idle" ELSE "ready",
                        left |-> writer.left - w.n]
    /\ sender' = IF CanSend(una, nxt, nbw', wnd) > 0 THEN Wake(sender) ELSE sender
    /\ UNCHANGED <<una, nxt, wnd, stopped, queueVars, zwp, rtx, closer, fins, pendingAcks, adv, aborted>>

---------------------------------------------------------------------------
(* senderThread_: sendReadyData(), then sendPacket_().                     *)

SenderSleep ==
    /\ Running
    /\ sender.pc = "ready"
    /\ SizeCanSend = 0
    /\ ~stopped
    /\ sender' = [sender EXCEPT !.pc = "asleep"]
    /\ UNCHANGED <<bufferVars, queueVars, writer, zwp, rtx, closer, fins, pendingAcks, adv, aborted>>

SenderStop ==
    /\ Running
    /\ sender.pc = "ready"
    /\ stopped
    /\ sender' = [sender EXCEPT !.pc = "done"]
    /\ UNCHANGED <<bufferVars, queueVars, writer, zwp, rtx, closer, fins, pendingAcks, adv, aborted>>

\* Takes the segment and shrinks the window, under SendBuffer::mutex_.
SenderTake ==
    /\ Running
    /\ sender.pc = "ready"
    /\ SizeCanSend > 0
    /\ ~stopped
    /\ LET n == Min2(SizeCanSend, MSS)
       IN /\ sender' = [pc   |-> "enqueue",
                        seq  |-> nxt,
                        data |-> RingRead(buf, n, nxt, nxt + n - 1)]
          /\ wnd' = wnd - n
          /\ nxt' = Add(nxt, n)
    /\ UNCHANGED <<una, nbw, stopped, buf, queueVars, writer, zwp, rtx, closer,
                   fins, pendingAcks, adv, aborted>>

\* enqueue() with its assertion, under RetransmissionQueue::mutex_ alone.
Enqueue(seq, data) ==
    IF InOrder(deque, seq)
    THEN /\ deque' = Append(deque, NewEntry(seq, data))
         /\ UNCHANGED aborted
    ELSE /\ aborted' = "enqueue"
         /\ UNCHANGED deque

SenderEnqueue ==
    /\ Running
    /\ sender.pc = "enqueue"
    /\ Enqueue(sender.seq, sender.data)
    /\ sender' = [pc |-> "ready", seq |-> ISN, data |-> <<>>]
    /\ UNCHANGED <<bufferVars, zwpEntry, writer, zwp, rtx, closer, fins, pendingAcks, adv>>

---------------------------------------------------------------------------
(* Workers: onAck(), first under SendBuffer::mutex_, then under the queue's *)
(* mutex.                                                                  *)

Acceptable(ack) == ack > una /\ ack <= nxt

\* The switch on zwp_.state, after wnd_ became w.
ZwpOnAck(ack, w) ==
    CASE zwp.state = 0 /\ w = 0          -> Wake(zwp)
      [] zwp.state = 2 /\ ack > zwp.seq  -> [zwp EXCEPT !.state = 0]
      [] OTHER                           -> zwp

\* Mutant: the window of every segment is taken, however old.
OnAckAnyWindow(ack, w) ==
    /\ Running
    /\ wnd' = w
    /\ sender' = Wake(sender)
    /\ zwp' = ZwpOnAck(ack, w)
    /\ IF Acceptable(ack)
       THEN /\ Cardinality(pendingAcks) < AckThreads
            /\ una' = ack
            /\ pendingAcks' = pendingAcks \cup {ack}
       ELSE UNCHANGED <<una, pendingAcks>>
    /\ adv' = CASE ack < una       -> adv
                [] Acceptable(ack) -> Max2(adv - (ack - una), w)
                [] OTHER           -> Max2(adv, w)
    /\ UNCHANGED <<nxt, nbw, stopped, buf, queueVars, writer, rtx, closer, fins, aborted>>

\* Not guarded by stopped: a worker that found the socket open may get here
\* after shutdown().
OnAck(ack, w) ==
    /\ Running
    /\ IF ack >= una
       THEN /\ wnd' = w
            /\ sender' = IF w > wnd THEN Wake(sender) ELSE sender
            /\ zwp' = ZwpOnAck(ack, w)
       ELSE UNCHANGED <<wnd, sender, zwp>>
    /\ IF Acceptable(ack)
       THEN /\ Cardinality(pendingAcks) < AckThreads
            /\ una' = ack
            /\ pendingAcks' = pendingAcks \cup {ack}
       ELSE UNCHANGED <<una, pendingAcks>>
    /\ adv' = CASE ack < una       -> adv
                [] Acceptable(ack) -> Max2(adv - (ack - una), w)
                [] OTHER           -> Max2(adv, w)
    /\ UNCHANGED <<nxt, nbw, stopped, buf, queueVars, writer, rtx, closer, fins, aborted>>

\* The peer acknowledges what was sent to it, possibly late and repeatedly.
PeerAcks == {a \in U32 : Sub(a, ISN) <= Sub(nxt, ISN)}

\* The FIN handlers of tcp_stack.cpp call onAck(0, wndSize).
GetFin(w) == OnAck(0, w)

\* Mutant of AckQueue: the writers are not notified.
AckQueueSilent(ack) ==
    /\ Running
    /\ pendingAcks' = pendingAcks \ {ack}
    /\ deque' = DropAcked(deque, ack)
    /\ zwpEntry' = IF zwpEntry # <<>> /\ getEndExclusive(zwpEntry[1]) <= ack
                   THEN <<>> ELSE zwpEntry
    /\ UNCHANGED <<bufferVars, writer, sender, zwp, rtx, closer, fins, adv, aborted>>

\* cvWriter_.notify_all(), then RetransmissionQueue::onAck().
AckQueue(ack) ==
    /\ Running
    /\ writer' = Wake(writer)
    /\ pendingAcks' = pendingAcks \ {ack}
    /\ deque' = DropAcked(deque, ack)
    /\ zwpEntry' = IF zwpEntry # <<>> /\ getEndExclusive(zwpEntry[1]) <= ack
                   THEN <<>> ELSE zwpEntry
    /\ UNCHANGED <<bufferVars, sender, zwp, rtx, closer, fins, adv, aborted>>

---------------------------------------------------------------------------
(* zwpThread_: zwpGetProbeByte(), sendZwpPacket_(), zwpWaitAck().          *)

\* State 0, PAUSE: wait for a zero window.
ZwpPause ==
    /\ Running
    /\ zwp.pc = "ready"
    /\ zwp' = CASE stopped  -> [pc |-> "done", state |-> 0, seq |-> zwp.seq]
                [] ~stopped /\ wnd # 0 -> [pc |-> "asleep", state |-> 0, seq |-> zwp.seq]
                [] OTHER    -> [pc |-> "countdown", state |-> 1, seq |-> zwp.seq]
    /\ UNCHANGED <<bufferVars, queueVars, writer, sender, rtx, closer, fins, pendingAcks, adv, aborted>>

\* State 1, COUNTDOWN, is over without a probe: shut down, the window is
\* open again, or there is nothing to send.
ZwpCountdownEnds ==
    /\ Running
    /\ zwp.pc = "countdown"
    /\ stopped \/ wnd > 0 \/ SizeNotSent = 0
    /\ zwp' = IF stopped THEN [zwp EXCEPT !.pc = "done"]
                         ELSE [pc |-> "ready", state |-> 0, seq |-> zwp.seq]
    /\ UNCHANGED <<bufferVars, queueVars, writer, sender, rtx, closer, fins, pendingAcks, adv, aborted>>

\* The countdown timed out: one byte is sent into the closed window.  The
\* SendBuffer lock is held until the probe is on the queue and sent.
ZwpProbe ==
    /\ Running
    /\ zwp.pc = "countdown"
    /\ ~stopped /\ wnd = 0 /\ SizeNotSent # 0
    /\ zwp' = [pc |-> "waitAck", state |-> 2, seq |-> nxt]
    /\ nxt' = Add(nxt, 1)
    /\ IF zwpEntry = <<>>
       THEN /\ zwpEntry' = <<NewEntry(nxt, <<buf[idx(nxt)]>>)>>
            /\ UNCHANGED aborted
       ELSE /\ aborted' = "enqueueZwp"
            /\ UNCHANGED zwpEntry
    /\ UNCHANGED <<una, nbw, wnd, stopped, buf, deque, writer, sender, rtx, closer,
                   fins, pendingAcks, adv>>

\* State 2, WAITACK, is over: onAck() reset the state, or shutdown.
ZwpAcked ==
    /\ Running
    /\ zwp.pc = "waitAck"
    /\ zwp.state = 0 \/ stopped
    /\ zwp' = [zwp EXCEPT !.pc = IF stopped THEN "done" ELSE "ready"]
    /\ UNCHANGED <<bufferVars, queueVars, writer, sender, rtx, closer, fins, pendingAcks, adv, aborted>>

---------------------------------------------------------------------------
(* vClose(): closeAsActive_() or closeAsPassive_() through sendFin_().     *)

\* Two threads can be here: each found ESTABLISHED or CLOSE_WAIT before the
\* other wrote the next state.  Not guarded by stopped: shutdown() comes
\* before the state CLOSED is written.
CloseGetNxt(c) ==
    /\ Running
    /\ closer[c].pc = "open"
    /\ fins.n < MaxFins
    /\ closer' = [closer EXCEPT ![c] = [pc |-> "gotNxt", seq |-> nxt]]
    /\ UNCHANGED <<bufferVars, queueVars, writer, sender, zwp, rtx, fins, pendingAcks, adv, aborted>>

\* writeAndSendOne(): a critical section of its own.
CloseWriteOne(c) ==
    /\ Running
    /\ closer[c].pc = "gotNxt"
    /\ fins.n < MaxFins
    /\ closer' = [closer EXCEPT ![c].pc = "enqueue"]
    /\ fins' = [n |-> fins.n + 1, at |-> fins.at \cup {nxt}, holes |-> fins.holes \cup {nbw}]
    /\ nbw' = Add(nbw, 1)
    /\ nxt' = Add(nxt, 1)
    /\ UNCHANGED <<una, wnd, stopped, buf, queueVars, writer, sender, zwp, rtx,
                   pendingAcks, adv, aborted>>

CloseEnqueue(c) ==
    /\ Running
    /\ closer[c].pc = "enqueue"
    /\ Enqueue(closer[c].seq, <<>>)
    /\ closer' = [closer EXCEPT ![c] = [pc |-> "open", seq |-> ISN]]
    /\ UNCHANGED <<bufferVars, zwpEntry, writer, sender, zwp, rtx, fins, pendingAcks, adv>>

---------------------------------------------------------------------------
(* retransmitThread_ and shutdown.                                         *)

WndEndExclusive == Add(una, wnd)

\* getWndEndExclusive(), a critical section of its own.
RtxRead ==
    /\ Running
    /\ rtx.pc = "idle"
    /\ ~stopped
    /\ rtx' = [pc |-> "scan", edge |-> WndEndExclusive]
    /\ UNCHANGED <<bufferVars, queueVars, writer, sender, zwp, closer, fins, pendingAcks, adv, aborted>>

\* SendBuffer::shutdown(), from shutdown_().
ShutDown ==
    /\ stopped' = TRUE
    /\ writer' = Wake(writer)
    /\ sender' = Wake(sender)
    /\ zwp' = Wake(zwp)

\* getExpiredEntries() over the entries that have expired; an exhausted entry
\* aborts the socket (vAbort()), otherwise the eligible ones are sent again.
\* A probe is sent again too; its counter (and resetZwpCounter()) only sets
\* the time until then.
RtxScan(expired) ==
    /\ Running
    /\ rtx.pc = "scan"
    /\ rtx' = [pc |-> "idle", edge |-> 0]
    /\ LET el == Eligible(deque, expired, rtx.edge)
       IN /\ deque' = Retransmitted(deque, el)
          /\ IF Exhausted(deque, el) = {}
             THEN UNCHANGED <<stopped, writer, sender, zwp>>
             ELSE ShutDown
    /\ UNCHANGED <<una, nxt, nbw, wnd, buf, zwpEntry, closer, fins, pendingAcks, adv, aborted>>

\* vAbort() by the user, or LAST_ACK -> CLOSED.
Abort ==
    /\ Running
    /\ ~stopped
    /\ ShutDown
    /\ UNCHANGED <<una, nxt, nbw, wnd, buf, queueVars, rtx, closer, fins, pendingAcks, adv, aborted>>

---------------------------------------------------------------------------

Next ==
    \/ \E k \in WriteSizes : AppWrite(k)
    \/ WriterSleep \/ WriterStop \/ WriterWrite \/ WriterAsserts
    \/ SenderSleep \/ SenderStop \/ SenderTake \/ SenderEnqueue
    \/ \E ack \in PeerAcks, w \in Wnds : OnAck(ack, w)
    \/ \E w \in Wnds : GetFin(w)
    \/ \E ack \in pendingAcks : AckQueue(ack)
    \/ ZwpPause \/ ZwpCountdownEnds \/ ZwpProbe \/ ZwpAcked
    \/ \E c \in Closers : CloseGetNxt(c) \/ CloseWriteOne(c) \/ CloseEnqueue(c)
    \/ RtxRead
    \/ \E expired \in SUBSET DOMAIN deque : RtxScan(expired)
    \/ Abort

Spec == Init /\ [][Next]_vars

\* The retransmit thread runs every 250 ms, and an entry that is not sent
\* again has expired after at most one second (MAX_RTO): scans that find
\* every entry expired keep happening.  The other threads of the socket are
\* scheduled.  Nothing is assumed of the peer, the network or the user.
Fairness ==
    /\ WF_vars(RtxRead)
    /\ SF_vars(RtxScan(DOMAIN deque))
    /\ WF_vars(WriterSleep \/ WriterStop \/ WriterWrite \/ WriterAsserts)
    /\ WF_vars(SenderSleep \/ SenderStop \/ SenderTake \/ SenderEnqueue)
    /\ WF_vars(ZwpPause \/ ZwpCountdownEnds \/ ZwpProbe \/ ZwpAcked)
    /\ WF_vars(\E ack \in pendingAcks : AckQueue(ack))
    /\ \A c \in Closers : WF_vars(CloseWriteOne(c) \/ CloseEnqueue(c))

FairSpec == Spec /\ Fairness

---------------------------------------------------------------------------
(* Properties.                                                             *)

\* The comment "Invariant: una_ <= nxt_ <= nbw_" (buffers.hpp:499) on the
\* circle of sequence numbers, and the buffer never holds more than it can:
\* N bytes, plus one for every FIN that sendFin_() has counted without asking
\* for space.
\* Depends on which acknowledgements onAck() accepts and on write(),
\* sendReadyData(), the prober and sendFin_() moving the pointers in turn.
PointerOrder ==
    /\ Sub(nxt, una) + Sub(nbw, nxt) = Sub(nbw, una)
    /\ Sub(nbw, una) <= N + fins.n

\* Every copy of a packet that sending or retransmission works from.
Copies == {deque[i] : i \in DOMAIN deque} \cup {zwpEntry[i] : i \in DOMAIN zwpEntry}
          \cup (IF sender.pc = "enqueue" THEN {NewEntry(sender.seq, sender.data)} ELSE {})

\* The sequence numbers have not wrapped yet.  From the wrap on the plain
\* comparisons of onAck() and of the queue no longer order them, and onAck()
\* accepts nothing any more: una_ stays where it is, beyond nbw_.
NoWrap == nbw >= una

Covers(e, s) == Sub(s, e.seq) < Len(e.data)

\* Nothing in flight is forgotten: every data byte sent and not acknowledged
\* is in a packet of the retransmission queue, is the outstanding probe, or is
\* in the hands of the sender thread between sendReadyData() and enqueue().
\* (ISN is the SYN, fins.at the sequence numbers the FINs consumed.)
InFlightCovered ==
    (Running /\ NoWrap) => \A s \in U32 :
        (Sub(s, una) < SizeUnacked /\ s # ISN /\ s \notin fins.at) =>
            \E e \in Copies : Covers(e, s)

\* No segment carries a byte other than the one the application wrote at that
\* sequence number, until a byte past the wrap is written.  The ring is
\* shared by write(), sendReadyData() and the prober; an overwritten or a
\* misplaced cell shows here.  fins.holes: when vClose() runs with unsent data,
\* sendFin_() moves nbw_ past a cell nobody wrote.
PayloadIntact ==
    NoWrap \/ nbw = 0 => \A e \in Copies : \A i \in 1 .. Len(e.data) :
        \/ e.data[i] = e.seq + i - 1
        \/ e.seq + i - 1 \in fins.holes

\* The sender never runs past the largest window edge the peer has offered,
\* but for the one byte of a zero-window probe and one number for every FIN
\* that sendFin_() has counted (buffers.hpp:505).
\* Old acknowledgements must not reopen a window that has moved on.
WindowRespected ==
    (Running /\ NoWrap) => SizeUnacked <= adv + 1 + fins.n

\* The notify_all() of onAck(), after the unlock, is never lost on a writer:
\* one asleep next to a free byte still has a worker about to wake it.
NoLostWriterWakeup ==
    (Running /\ writer.pc = "asleep" /\ SizeFree > 0) => pendingAcks # {}

\* The SYN (SYN-ACK) is answered or the socket is given up: the retransmit
\* thread finds it within the window and counts its retransmissions until
\* vAbort() (sockets.hpp:385-403).
OpenResolved == (una = ISN /\ Running) ~> (una # ISN \/ stopped \/ ~Running)

\* The right window edge, a uint32_t sum, has not wrapped.
EdgeBelowWrap == una + wnd < M

\* What is left of OpenResolved: it holds if, as long as the SYN (SYN-ACK) is
\* not answered, the window's edge from some time on does not wrap.  With an
\* initial sequence number drawn from all of uint32_t that is no property of
\* the window's size alone: the edge of a small window wraps too.
OpenResolvedBelowWrap == <>[](una = ISN => EdgeBelowWrap) => OpenResolved
=============================================================================
