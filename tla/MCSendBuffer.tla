-------------------------- MODULE MCSendBuffer --------------------------
(***************************************************************************)
(* SendBuffer for TLC.  The cfgs give small sequence spaces, with M % N = 1 *)
(* (2^32 % 65535 = 1 in the program) where data is transferred, and an ISN *)
(* close enough to the end that the sequence numbers wrap; a wrapped       *)
(* connection accepts no more acknowledgements, so every behaviour is      *)
(* finite up to stuttering.                                                *)
(***************************************************************************)
EXTENDS SendBuffer

(* ISN leaves room for PeerAcks to tell old acknowledgements from new ones. *)
ASSUME ISNAssumption == ISN >= N + MaxFins + 1

---------------------------------------------------------------------------
(* What comments and assertions of the source say, and the code does not   *)
(* do.  OpenResolved has a run of its own (send_syn); the README says how  *)
(* to see each of these refuted.                                           *)

\* buffers.hpp:499, "Invariant: una_ <= nxt_ <= nbw_", with the plain
\* comparisons that onAck() makes.
LinearPointers == una <= nxt /\ nxt <= nbw

\* buffers.hpp:236, "Notify SENDER thread if window expands": the sender does
\* not sleep while there are bytes it could send.
SenderAwake == (sender.pc = "asleep" /\ ~stopped) => SizeCanSend = 0

\* retransmission_queue.hpp:76-78, the assertion "Packet enqueued to the
\* retransmission queue is out of order", before any wrap.
EnqueuedInOrder == NoWrap => aborted # "enqueue"

\* retransmission_queue.hpp:90, the assertion "ZWP already exists in the
\* retransmission queue".
ProbeQueuedOnce == aborted # "enqueueZwp"

\* retransmission_queue.hpp:46, only packets that are "*entirely*
\* acknowledged" leave the queue: a FIN that is not acknowledged is there.
FinQueued ==
    (Running /\ NoWrap /\ \A c \in Closers : closer[c].pc = "open") =>
        Cardinality({s \in fins.at : una <= s})
            <= Cardinality({i \in DOMAIN deque : deque[i].data = <<>> /\ deque[i].seq # ISN})

\* buffers.hpp:183, write() waits until "sizeFreeNoLock_() > 0": what it then
\* writes fits the ring (the assertion of RingBuffer's write()).
WriteFits == aborted # "write"

\* retransmission_queue.hpp:107-113, "SHOULD retransmit normally the old
\* unacknowledged data between SND.UNA and SND.UNA+SND.WND": what is in
\* flight is acknowledged at last, or retransmitted until the socket is
\* given up.
InFlightResolved ==
    \A s \in U32 : (una = s /\ nxt # s /\ Running) ~> (una # s \/ stopped \/ ~Running)
=============================================================================
