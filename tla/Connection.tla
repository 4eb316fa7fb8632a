----------------------------- MODULE Connection -----------------------------
(***************************************************************************)
(* The two ends of one TCP connection, from the handshake to the close,    *)
(* with the event handlers of tcp_stack.cpp at both: the client runs       *)
(* tcpSendFile(), the server tcpRecvFile() (host_node.hpp), and the users  *)
(* type the commands s, r, cl and ab of vhost.cpp meanwhile.               *)
(*                                                                         *)
(* net is the set of all packets ever sent.  A packet may be delivered at  *)
(* any time, again and again, or never: that is loss, delay, reordering,   *)
(* duplication and the retransmission of the same packet at once.          *)
(*                                                                         *)
(* Numbers are counted from the initial one of each side: 0 is the SYN, 1  *)
(* the first byte.  A segment carries one byte.  Windows, wrapping, and    *)
(* the threads inside a buffer are the subject of SendBuffer and           *)
(* RecvBuffer; ids, the socket table and the reaper are that of TcpStack.  *)
(*                                                                         *)
(* No lock covers a socket's state.  A handler, vClose() and vAbort() look *)
(* at it once, and what they do afterwards (the shutdowns, the FIN, each   *)
(* assignment of the state) is one step of the thread after another, with  *)
(* any steps of the other threads in between.                              *)
(***************************************************************************)
EXTENDS Naturals, Sequences, FiniteSets, SequencesExt

CONSTANTS Plans,      \* what the users may have in mind
          Workers     \* the workers of a host that can pause in a handler

Client == "C"
Server == "S"
Ends   == {Client, Server}
Peer(e) == IF e = Client THEN Server ELSE Client

\* The other threads of a host that close a socket: the one of tcpSendFile() or
\* tcpRecvFile(), the command line, and the socket's retransmitThread_.
File  == "file"
User  == "user"
Timer == "timer"
Threads == Workers \cup {File, User, Timer}

\* The bytes of the client's file and those the server's user types, the ends
\* that read, the ends where somebody may type cl, the threads that may abort,
\* and, as a bound, the threads that may be overtaken between two steps.
Plan == [file : Nat, say : Nat, read : SUBSET Ends, close : SUBSET Ends,
         abort : SUBSET (Ends \X {User, Timer}), pause : SUBSET (Ends \X Threads)]

ASSUME ConnectionAssumption ==
    Plans \subseteq Plan /\ Workers # {} /\ Workers \cap {File, User, Timer} = {}

VARIABLES plan,     \* the member of Plans that is carried out
          sock,     \* the socket of each end
          net,      \* the packets sent so far
          todo,     \* the steps each thread of each end has still to take
          result,   \* SynAckResult, for the caller of vConnect
          sf,       \* where tcpSendFile() is, at the client
          reader,   \* where tcpRecvFile() is, at the server; r, at the client
          sane,     \* FALSE once an assertion has failed
          reset     \* history: a second SYN-ACK has moved the client's
                    \* receive pointers back

vars == <<plan, sock, net, todo, result, sf, reader, sane, reset>>

Junk == 0   \* what nobody wrote

\* The bytes each application sends: the client's file and the server's words.
Text(e) == [i \in 1 .. (IF e = Client THEN plan.file ELSE plan.say) |-> i]

States == {"NONE", "SYN_SENT", "SYN_RECEIVED", "ESTABLISHED", "FIN_WAIT_1", "FIN_WAIT_2",
           "CLOSE_WAIT", "LAST_ACK", "TIME_WAIT", "CLOSED"}

\* What is left of a handler or a call: a state is an assignment of it.
Steps == (States \ {"NONE"})
         \cup {"setPointers", "assert", "accept", "sendFin_", "shutdownRecv_", "shutdown_"}

\* NormalSocket: the state, the send buffer (una_, nxt_, what was written, the
\* numbers its FINs took, stopped_) and the receive buffer (nxt_, nbr_, the
\* cells that were written, earlyArrivals_, stopped_).  got is what was read.
Socket == [state : States,
           una : Nat, nxt : Nat, stream : Seq(Nat), fins : SUBSET Nat, sstop : BOOLEAN,
           rnxt : Nat, nbr : Nat, have : SUBSET Nat, early : SUBSET Nat, rstop : BOOLEAN,
           got : Seq(Nat)]

NoSocket == [state |-> "NONE", una |-> 0, nxt |-> 0, stream |-> <<>>, fins |-> {},
             sstop |-> FALSE, rnxt |-> 0, nbr |-> 0, have |-> {}, early |-> {},
             rstop |-> FALSE, got |-> <<>>]

Packet == [to : Ends, flags : {"SYN", "SYN_ACK", "ACK", "FIN"}, seq : Nat, ack : Nat,
           data : BOOLEAN]

\* Every variable keeps its type, and each send buffer its pointers' order: a
\* FIN, which moves two of them at once, leaves them so.
ConnectionTypeOK ==
    /\ plan \in Plans
    /\ sock \in [Ends -> Socket]
    /\ \A e \in Ends : sock[e].state # "NONE" =>
           sock[e].una <= sock[e].nxt /\ sock[e].nxt <= Len(sock[e].stream) + 1
    /\ net \subseteq Packet
    /\ todo \in [Ends -> [Threads -> Seq(Steps)]]
    /\ result \in {"none", "synAck", "error"}
    /\ sf \in {"connect", "wait", "send", "close", "sent", "failed"}
    /\ reader \in [Ends -> {"off", "dropped", "call", "wait", "closing", "received", "failed"}]
    /\ sane \in BOOLEAN
    /\ reset \in BOOLEAN

Init ==
    /\ plan \in Plans
    /\ sock = [e \in Ends |-> NoSocket]
    /\ net = {}
    /\ todo = [e \in Ends |-> [t \in Threads |-> <<>>]]
    /\ result = "none"
    /\ sf = "connect"
    /\ reader = [e \in Ends |-> "off"]
    /\ sane = TRUE
    /\ reset = FALSE

---------------------------------------------------------------------------
(* Packets, and what the buffers do with numbers.                          *)

SynPacket(e, seq)         == [to |-> Peer(e), flags |-> "SYN", seq |-> seq, ack |-> 0, data |-> FALSE]
SynAckPacket(e, seq, ack) == [to |-> Peer(e), flags |-> "SYN_ACK", seq |-> seq, ack |-> ack, data |-> FALSE]
AckPacket(e, seq, ack)    == [to |-> Peer(e), flags |-> "ACK", seq |-> seq, ack |-> ack, data |-> FALSE]
DataPacket(e, seq, ack)   == [AckPacket(e, seq, ack) EXCEPT !.data = TRUE]
FinPacket(e, seq)         == [to |-> Peer(e), flags |-> "FIN", seq |-> seq, ack |-> 0, data |-> FALSE]

Nbw(s) == Len(s.stream) + 1

OnAck(s, ack) == IF ack > s.una /\ ack <= s.nxt THEN [s EXCEPT !.una = ack] ELSE s

AllAcked(s) == s.una = s.nxt

\* Mutant of OnCtrl: an early FIN is counted too.
OnCtrlEarly(s, seq) == [s EXCEPT !.rnxt = IF seq >= @ THEN seq + 1 ELSE @]

OnCtrl(s, seq) == IF seq = s.rnxt THEN [s EXCEPT !.rnxt = @ + 1] ELSE s

\* mergeRemove(): past the byte at rnxt and the early ones that follow it.
RunEnd(s) == CHOOSE n \in s.rnxt + 1 .. s.rnxt + 1 + Cardinality(s.early) :
                 n \notin s.early /\ (s.rnxt + 1) .. (n - 1) \subseteq s.early

OnRecv(s, seq) ==
    CASE seq > s.rnxt -> [s EXCEPT !.have = @ \cup {seq}, !.early = @ \cup {seq}]
      [] seq = s.rnxt -> [s EXCEPT !.have = @ \cup {seq}, !.rnxt = RunEnd(s),
                                   !.early = {n \in @ : n >= RunEnd(s)}]
      [] seq < s.rnxt -> s

\* Mutant of SendFin: only nxt_ moves.
SendFinUnwritten(s) == [s EXCEPT !.fins = @ \cup {s.nxt}, !.nxt = @ + 1]

\* writeAndSendOne() for a FIN: it takes the next number to send and leaves
\* one more cell to send at the end.
SendFin(s) == [s EXCEPT !.fins = @ \cup {s.nxt}, !.nxt = @ + 1, !.stream = Append(@, Junk)]

\* readAtMostNBytes() of all there is, sent by the peer p.
ReadAll(s, p) ==
    [s EXCEPT !.nbr = s.rnxt,
              !.got = @ \o [i \in 1 .. s.rnxt - s.nbr |->
                               LET n == s.nbr + i - 1
                               IN IF n \in s.have THEN p.stream[n] ELSE Junk]]

Become(e, s) == sock' = [sock EXCEPT ![e] = s]

\* Thread t of e enters a handler or a call that leaves it these steps to take.
Enter(e, t, steps) == todo[e][t] = <<>> /\ todo' = [todo EXCEPT ![e][t] = steps]

\* It takes the first of them.
TakeStep(e, t, step) ==
    /\ todo[e][t] # <<>> /\ Head(todo[e][t]) = step
    /\ todo' = [todo EXCEPT ![e][t] = Tail(@)]

\* state_ = ...
WriteState(e, t, state) ==
    /\ TakeStep(e, t, state)
    /\ Become(e, [sock[e] EXCEPT !.state = state])
    /\ UNCHANGED <<net, result, sf, reader, sane, reset>>

---------------------------------------------------------------------------
(* Opening.                                                                *)

\* createActiveConnection_() up to its wait.
Connect ==
    /\ sf = "connect"
    /\ sf' = "wait"
    /\ Become(Client, [NoSocket EXCEPT !.state = "SYN_SENT", !.nxt = 1])
    /\ net' = net \cup {SynPacket(Client, 0)}
    /\ UNCHANGED <<todo, result, reader, sane, reset>>

\* createPassiveConnection_().
GetSyn(m) ==
    /\ m.flags = "SYN"
    /\ sock[Server].state = "NONE"
    /\ Become(Server, [NoSocket EXCEPT !.state = "SYN_RECEIVED", !.nxt = 1,
                                       !.rnxt = m.seq + 1, !.nbr = m.seq + 1])
    /\ net' = net \cup {SynAckPacket(Server, 0, m.seq + 1)}
    /\ UNCHANGED <<todo, result, sf, reader, sane, reset>>

\* The SYN-ACK handler in SYN_SENT, up to the sleep of 50 ms.
GetSynAck(w, m) ==
    LET s == OnAck(sock[Client], m.ack)
    IN /\ m.flags = "SYN_ACK"
       /\ sock[Client].state = "SYN_SENT"
       /\ Enter(Client, w, IF AllAcked(s) THEN <<"setPointers">> ELSE <<>>)
       /\ Become(Client, s)
       /\ UNCHANGED <<net, result, sf, reader, sane, reset>>

\* The rest of it: setPointersNoLock(), the ACK, onSynAck().
SynAckEnd(w) ==
    /\ TakeStep(Client, w, "setPointers")
    /\ Become(Client, [sock[Client] EXCEPT !.rnxt = 1, !.nbr = 1])
    /\ net' = net \cup {AckPacket(Client, 1, 1)}
    /\ result' = IF result = "error" THEN result ELSE "synAck"
    /\ reset' = (reset \/ sock[Client].rnxt > 1)
    /\ UNCHANGED <<sf, reader, sane>>

\* waitForSynAck() returns: an error if the socket was closed before.
ConnectReturns ==
    /\ sf = "wait"
    /\ \/ /\ result = "synAck"
          /\ Enter(Client, File, <<"assert", "ESTABLISHED">>)
          /\ sf' = "send"
          /\ reader' = [reader EXCEPT ![Client] = "call"]
       \/ /\ result = "error"
          /\ sf' = "failed"
          /\ UNCHANGED <<todo, reader>>
    /\ UNCHANGED <<sock, net, result, sane, reset>>

\* sanityCheckAtStart() of both buffers.
Sane(s) == AllAcked(s) /\ s.nxt = Nbw(s) /\ s.nbr = s.rnxt

\* The assertions of createActiveConnection_().
AssertConnected ==
    /\ TakeStep(Client, File, "assert")
    /\ sane' = (sock[Client].state = "SYN_SENT" /\ Sane(sock[Client]))
    /\ UNCHANGED <<sock, net, result, sf, reader, reset>>

\* The ACK in SYN_RECEIVED, with the assertions on both buffers; its payload
\* is not looked at.
GetAckSynReceived(w, m) ==
    LET s == OnAck(sock[Server], m.ack)
    IN /\ m.flags = "ACK" /\ m.to = Server
       /\ sock[Server].state = "SYN_RECEIVED"
       /\ m.seq = sock[Server].rnxt
       /\ Become(Server, s)
       /\ Enter(Server, w, IF AllAcked(s) THEN <<"ESTABLISHED", "accept">> ELSE <<>>)
       /\ sane' = (AllAcked(s) => Sane(s))
       /\ UNCHANGED <<net, result, sf, reader, reset>>

\* The rest of it: the socket moves from the list of pending ones, where it has
\* to be, to the queue, and vAccept returns it to tcpRecvFile().
Accept(w) ==
    /\ TakeStep(Server, w, "accept")
    /\ IF reader[Server] = "off"
       THEN reader' = [reader EXCEPT ![Server] = "call"] /\ UNCHANGED sane
       ELSE sane' = FALSE /\ UNCHANGED reader
    /\ UNCHANGED <<sock, net, result, sf, reset>>

\* A SYN-ACK again, in ESTABLISHED.
GetSynAckAgain(m) ==
    LET s == OnAck(sock[Client], m.ack)
    IN /\ m.flags = "SYN_ACK"
       /\ sock[Client].state = "ESTABLISHED"
       /\ Become(Client, s)
       /\ net' = net \cup {AckPacket(Client, s.nxt, s.rnxt)}
       /\ UNCHANGED <<todo, result, sf, reader, sane, reset>>

---------------------------------------------------------------------------
(* Data.                                                                   *)

\* The first half of the ACK handlers: sendBuffer_.onAck(), and if there is
\* data recvBuffer_.onRecv() and a reply.
TakeAck(e, m) ==
    LET s == OnAck(sock[e], m.ack)
    IN IF m.data THEN OnRecv(s, m.seq) ELSE s

\* Mutant of ReplyTo: the segment is acknowledged, and not all before it.
ReplyToSegment(e, m, s) == IF m.data THEN {AckPacket(e, s.nxt, m.seq + 1)} ELSE {}

ReplyTo(e, m, s) == IF m.data THEN {AckPacket(e, s.nxt, s.rnxt)} ELSE {}

GetAck(e, m) ==
    LET s == TakeAck(e, m)
    IN /\ m.flags = "ACK" /\ m.to = e
       /\ sock[e].state \in {"ESTABLISHED", "CLOSE_WAIT", "FIN_WAIT_2"}
       /\ Become(e, s)
       /\ net' = net \cup ReplyTo(e, m, s)
       /\ UNCHANGED <<todo, result, sf, reader, sane, reset>>

\* senderFunction_(): a byte that was written and not sent.
SendByte(e) ==
    LET s == sock[e]
    IN /\ s.state # "NONE" /\ ~s.sstop
       /\ s.nxt < Nbw(s)
       /\ net' = net \cup {DataPacket(e, s.nxt, s.rnxt)}
       /\ Become(e, [s EXCEPT !.nxt = @ + 1])
       /\ UNCHANGED <<todo, result, sf, reader, sane, reset>>

\* The states in which vSend() writes.
Writable(s) == s.state \in {"SYN_SENT", "SYN_RECEIVED", "ESTABLISHED", "CLOSE_WAIT"} /\ ~s.sstop

\* The loop of tcpSendFile().
SendFile ==
    /\ sf = "send" /\ todo[Client][File] = <<>>
    /\ IF Writable(sock[Client])
       THEN /\ Become(Client, [sock[Client] EXCEPT !.stream = @ \o Text(Client)])
            /\ sf' = "close"
       ELSE sf' = "failed" /\ UNCHANGED sock
    /\ UNCHANGED <<net, todo, result, reader, sane, reset>>

\* The command s at the server, with one byte.
Say ==
    LET s    == sock[Server]
        said == Cardinality({i \in 1 .. Len(s.stream) : s.stream[i] # Junk})
    IN /\ Writable(s)
       /\ said < plan.say
       /\ Become(Server, [s EXCEPT !.stream = Append(@, said + 1)])
       /\ UNCHANGED <<net, todo, result, sf, reader, sane, reset>>

\* vRecv() looks at the state, then waits in the receive buffer.  One that
\* fails before the connection is open is called again.
RecvCall(e) ==
    LET s == sock[e]
        waits == \/ s.state \in {"ESTABLISHED", "FIN_WAIT_1", "FIN_WAIT_2", "TIME_WAIT"}
                 \/ s.state = "CLOSE_WAIT" /\ s.rnxt # s.nbr
    IN /\ e \in plan.read
       /\ reader[e] = "call" /\ s.state # "SYN_SENT"
       /\ reader' = [reader EXCEPT ![e] = CASE waits -> "wait"
                                            [] s.state = "CLOSED" -> "failed"
                                            [] OTHER -> "closing"]
       /\ UNCHANGED <<sock, net, todo, result, sf, sane, reset>>

\* readAtMostNBytes() wakes: stopped_ comes first.
RecvReturn(e) ==
    LET s == sock[e]
    IN /\ reader[e] = "wait"
       /\ s.rstop \/ s.rnxt > s.nbr
       /\ IF s.rstop
          THEN reader' = [reader EXCEPT ![e] = "closing"] /\ UNCHANGED sock
          ELSE /\ reader' = [reader EXCEPT ![e] = "call"]
               /\ Become(e, ReadAll(s, sock[Peer(e)]))
       /\ UNCHANGED <<net, todo, result, sf, sane, reset>>

---------------------------------------------------------------------------
(* Closing.                                                                *)

\* sendFin_().
CloseFin(e, t) ==
    /\ TakeStep(e, t, "sendFin_")
    /\ Become(e, SendFin(sock[e]))
    /\ net' = net \cup {FinPacket(e, sock[e].nxt)}
    /\ UNCHANGED <<result, sf, reader, sane, reset>>

\* shutdownRecv_().
ShutdownRecv(e, t) ==
    /\ TakeStep(e, t, "shutdownRecv_")
    /\ Become(e, [sock[e] EXCEPT !.rstop = TRUE])
    /\ UNCHANGED <<net, result, sf, reader, sane, reset>>

\* shutdown_().
Shutdown(e, t) ==
    /\ TakeStep(e, t, "shutdown_")
    /\ Become(e, [sock[e] EXCEPT !.sstop = TRUE, !.rstop = TRUE])
    /\ UNCHANGED <<net, result, sf, reader, sane, reset>>

\* In SYN_SENT both closing calls tell vConnect of it, and in SYN_RECEIVED they
\* take the socket off the list of pending ones.
ReportError(state) == result' = IF state = "SYN_SENT" THEN "error" ELSE result
Unlisted(e) == IF sock[e].state = "SYN_RECEIVED" /\ reader[e] = "off"
               THEN [reader EXCEPT ![e] = "dropped"] ELSE reader

\* vClose() in each state.
CloseSteps(state) ==
    CASE state = "SYN_SENT" -> <<"shutdown_", "CLOSED">>
      [] state \in {"SYN_RECEIVED", "ESTABLISHED"} -> <<"sendFin_", "FIN_WAIT_1">>
      [] state = "CLOSE_WAIT" -> <<"sendFin_", "LAST_ACK">>
      [] OTHER -> <<>>

vClose(e, t) == Enter(e, t, CloseSteps(sock[e].state)) /\ ReportError(sock[e].state)

\* The end of tcpSendFile().
SendFileClose ==
    /\ sf = "close"
    /\ sf' = "sent"
    /\ vClose(Client, File)
    /\ UNCHANGED <<sock, net, reader, sane, reset>>

\* The end of tcpRecvFile().
RecvFileClose ==
    /\ reader[Server] = "closing"
    /\ reader' = [reader EXCEPT ![Server] = "received"]
    /\ vClose(Server, File)
    /\ UNCHANGED <<sock, net, sf, sane, reset>>

\* The command cl.
CloseCommand(e) ==
    /\ e \in plan.close
    /\ sock[e].state \in {"SYN_SENT", "SYN_RECEIVED", "ESTABLISHED", "CLOSE_WAIT"}
    /\ vClose(e, User)
    /\ reader' = Unlisted(e)
    /\ UNCHANGED <<sock, net, sf, sane, reset>>

\* vAbort(): the command ab, or a packet retransmitted too often.
Abort(e, t) ==
    /\ <<e, t>> \in plan.abort
    /\ sock[e].state \notin {"NONE", "CLOSED"}
    /\ Enter(e, t, <<"shutdown_", "CLOSED">>) /\ ReportError(sock[e].state)
    /\ reader' = Unlisted(e)
    /\ UNCHANGED <<sock, net, sf, sane, reset>>

\* A FIN in ESTABLISHED.  It closes this direction if it is not an early
\* arrival.
GetFin(e, w, m) ==
    LET s == OnCtrl(sock[e], m.seq)
    IN /\ m.flags = "FIN" /\ m.to = e
       /\ sock[e].state = "ESTABLISHED"
       /\ Become(e, s)
       /\ net' = net \cup {AckPacket(e, s.nxt, s.rnxt)}
       /\ Enter(e, w, IF s.rnxt = m.seq + 1 THEN <<"shutdownRecv_", "CLOSE_WAIT">> ELSE <<>>)
       /\ UNCHANGED <<result, sf, reader, sane, reset>>

\* A FIN in FIN_WAIT_2, and one that was sent again.
GetFinLate(e, w, m) ==
    LET s    == OnCtrl(sock[e], m.seq)
        done == s.state = "FIN_WAIT_2" /\ s.rnxt = m.seq + 1
    IN /\ m.flags = "FIN" /\ m.to = e
       /\ s.state \in {"FIN_WAIT_2", "CLOSE_WAIT", "TIME_WAIT"}
       /\ Become(e, s)
       /\ net' = net \cup {AckPacket(e, s.nxt, s.rnxt)}
       /\ Enter(e, w, IF done THEN <<"TIME_WAIT">> ELSE <<>>)
       /\ UNCHANGED <<result, sf, reader, sane, reset>>

\* Mutant of FinAcked: the ACK's number is not looked at.
FinAckedAny(s, m) == ~m.data /\ m.seq = s.rnxt

\* The checks of the ACK handler in FIN_WAIT_1.
FinAcked(s, m) == ~m.data /\ m.seq = s.rnxt /\ AllAcked(s)

GetAckFinWait1(e, w, m) ==
    LET s == TakeAck(e, m)
    IN /\ m.flags = "ACK" /\ m.to = e
       /\ sock[e].state = "FIN_WAIT_1"
       /\ Become(e, s)
       /\ net' = net \cup ReplyTo(e, m, s)
       /\ Enter(e, w, IF FinAcked(s, m) THEN <<"FIN_WAIT_2">> ELSE <<>>)
       /\ UNCHANGED <<result, sf, reader, sane, reset>>

\* The ACK in LAST_ACK.
GetAckLastAck(e, w, m) ==
    LET s == OnAck(sock[e], m.ack)
    IN /\ m.flags = "ACK" /\ m.to = e
       /\ sock[e].state = "LAST_ACK"
       /\ Become(e, s)
       /\ Enter(e, w, IF AllAcked(s) THEN <<"shutdown_", "CLOSED">> ELSE <<>>)
       /\ UNCHANGED <<net, result, sf, reader, sane, reset>>

---------------------------------------------------------------------------

\* Worker w takes a packet from the network.
Receive(w, m) ==
    \/ GetSyn(m) \/ GetSynAck(w, m) \/ GetSynAckAgain(m) \/ GetAckSynReceived(w, m)
    \/ \E e \in Ends : \/ GetAck(e, m) \/ GetAckFinWait1(e, w, m) \/ GetAckLastAck(e, w, m)
                       \/ GetFin(e, w, m) \/ GetFinLate(e, w, m)

\* Thread t of e goes on in its handler or call.
Continue(e, t) ==
    \/ \E state \in States : WriteState(e, t, state)
    \/ CloseFin(e, t) \/ ShutdownRecv(e, t) \/ Shutdown(e, t)
    \/ e = Client /\ SynAckEnd(t)
    \/ e = Client /\ t = File /\ AssertConnected
    \/ e = Server /\ Accept(t)

\* The threads in the middle of something that are not overtaken.
Hurried == {et \in (Ends \X Threads) \ plan.pause : todo[et[1]][et[2]] # <<>>}

\* Nothing is followed any further once an assertion has failed or the
\* client's pointers have been moved back.
Next ==
    /\ sane /\ ~reset
    /\ UNCHANGED plan
    /\ \/ \E e \in Ends, t \in Threads :
              (Hurried # {} => <<e, t>> \in Hurried) /\ Continue(e, t)
       \/ /\ Hurried = {}
          /\ \/ Connect \/ ConnectReturns
             \/ \E w \in Workers, m \in net : Receive(w, m)
             \/ SendFile \/ Say \/ SendFileClose \/ RecvFileClose
             \/ \E e \in Ends :
                    \/ SendByte(e) \/ RecvCall(e) \/ RecvReturn(e) \/ CloseCommand(e)
                    \/ \E t \in {User, Timer} : Abort(e, t)

Spec == Init /\ [][Next]_vars

---------------------------------------------------------------------------
(* Properties.                                                             *)

\* What was read before the place of the first FIN: the i-th byte that is read has
\* the number i.
Words(got, fins) ==
    LET last == CHOOSE n \in 0 .. Len(got) :
                    /\ fins \cap 1 .. n = {}
                    /\ n = Len(got) \/ n + 1 \in fins
    IN SubSeq(got, 1, last)

\* What an application reads is what the other one wrote, in order and without
\* a gap, whatever the network does and wherever a FIN arrives, up to the
\* place of the FIN: its number is counted like a byte (buffers.hpp:641), and
\* a reader that comes before shutdownRecv_() reads what is in that cell.
ReadInOrder == ~reset => \A e \in Ends : IsPrefix(Words(sock[e].got, sock[Peer(e)].fins), Text(Peer(e)))

\* Nobody takes for acknowledged what the other end has not counted: una_ may
\* be behind the other side's nxt_, never ahead, through the handshake, the
\* hack that gives SYN and FIN a number, and acknowledgements that arrive out
\* of order.
AcknowledgedCounted ==
    ~reset => \A e \in Ends : sock[e].una <= sock[Peer(e)].rnxt

\* What the states of a close promise about the other end, whichever threads
\* raced for them: in FIN_WAIT_2 and TIME_WAIT it has counted a FIN of ours, and
\* in TIME_WAIT we have counted one of its, so that nothing that was written
\* before the first FIN is missing.
HalfClosed ==
    ~reset => \A e \in Ends :
        LET s == sock[e]
            p == sock[Peer(e)]
        IN /\ s.state \in {"FIN_WAIT_2", "TIME_WAIT"} => \E n \in s.fins : n < p.rnxt
           /\ s.state = "TIME_WAIT" => \E n \in p.fins : n < s.rnxt
=============================================================================
