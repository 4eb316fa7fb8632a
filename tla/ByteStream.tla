----------------------------- MODULE ByteStream -----------------------------
(***************************************************************************)
(* What one direction of a TCP connection promises, in offsets from the    *)
(* start of the stream: the peer's application has sent `sent' bytes, the  *)
(* first `acked' of them are acknowledged and stay so, and the reader has  *)
(* taken the first `taken' of those, in order and each once.               *)
(***************************************************************************)
EXTENDS Integers

VARIABLES sent, acked, taken

Init == sent = 0 /\ acked = 0 /\ taken = 0

Send == /\ \E n \in 1 .. sent' - sent : sent' = sent + n
        /\ UNCHANGED <<acked, taken>>

Ack == /\ \E n \in 1 .. sent - acked : acked' = acked + n
       /\ UNCHANGED <<sent, taken>>

Take == /\ \E n \in 1 .. acked - taken : taken' = taken + n
        /\ UNCHANGED <<sent, acked>>

Next == Send \/ Ack \/ Take

Spec == Init /\ [][Next]_<<sent, acked, taken>>
=============================================================================
