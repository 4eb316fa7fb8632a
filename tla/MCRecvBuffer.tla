---------------------------- MODULE MCRecvBuffer ----------------------------
(***************************************************************************)
(* RecvBuffer for TLC.  StreamLen bounds every behaviour: a peer that has  *)
(* sent it all only repeats its segments.                                  *)
(***************************************************************************)
EXTENDS RecvBuffer

---------------------------------------------------------------------------
(* What comments and checks of the source say, and the code does not do.   *)
(* The first two are steps on the way to the failed assertion that the run *)
(* recv_assert reaches; the README says how to see each refuted.           *)

\* buffers.hpp:618 and 646: the window sent back is the free size, RCV.WND.
\* No window edge ever told to the peer lies beyond the buffer.
AdvertisedFits == edge <= OffsetOf(nbr) + N

\* buffers.hpp:623, "Receiving in-order data causes nxt_ to shift right (more
\* data available)": never to the left.
NxtForward == [][nxt' >= nxt]_vars

\* buffers.hpp:622, "[nbr_, nxt_) is the (acked) data available for reading":
\* the reader gets only bytes that the peer's application has sent.
OnlyDataRead == OffsetOf(nbr) <= PeerNxt

\* The same comment from the other side: when a read fails because the peer has
\* closed, no acknowledged byte is left unread.
NothingUnread == (closing /\ state = "closeWait") => OffsetOf(nbr) >= DataEnd
=============================================================================
