---------------------------- MODULE MCConnection ----------------------------
(***************************************************************************)
(* What the users of the two hosts do in the run, and what the code says   *)
(* but does not do (see the README for both).                              *)
(***************************************************************************)
EXTENDS Connection, TLC

\* Nobody types anything, and no thread is overtaken.
Quiet == [file |-> 0, say |-> 0, read |-> {Server}, close |-> {}, abort |-> {}, pause |-> {}]

\* Bytes both ways; a SYN-ACK again; every thread of the server overtaken while
\* it closes; the same of the client, by cl during vConnect; and aborts.
UserPlans ==
    { [Quiet EXCEPT !.file = 2, !.say = 1],
      [Quiet EXCEPT !.file = 1, !.say = 1, !.read = Ends, !.pause = {Client} \X Workers],
      [Quiet EXCEPT !.close = {Server}, !.pause = {Server} \X Threads],
      [Quiet EXCEPT !.close = {Client}, !.pause = {Client} \X Threads],
      [Quiet EXCEPT !.file = 1, !.abort = {<<Server, Timer>>}, !.pause = {Server} \X Workers],
      [Quiet EXCEPT !.abort = {<<Client, User>>, <<Server, Timer>>},
                    !.pause = {<<Client, User>>, <<Client, File>>, <<Server, Timer>>}] }

WorkerSymmetry == Permutations(Workers)

\* vhost.cpp:392 and host_node.hpp:94 report "[SUCCESS]" at both ends.  Refuted:
\* a FIN or the own user's ab stops the receive buffer, and readAtMostNBytes()
\* asks for stopped_ before it looks at what is unread.
TransferComplete ==
    sf = "sent" /\ reader[Server] = "received" => sock[Server].got = Text(Client)

\* setPointersNoLock() is for the start of a connection.  Refuted: the handler
\* of a second SYN-ACK sleeps before it calls it.
PointersSetOnce == ~reset

\* The assertions of the ACK handler in SYN_RECEIVED (tcp_stack.cpp:74-82).
\* Refuted by a user who writes on a socket in SYN_RECEIVED, and by cl, which
\* takes it off the list of pending ones between the checks and line 82.
SaneAtStart == sane

\* In FIN_WAIT_2 the other end has acknowledged all that was sent, the FIN with
\* it (tcp_stack.cpp:244).  Refuted: another thread sends a second FIN between
\* that check and the assignment of the state.
FinAcknowledged ==
    ~reset => \A e \in Ends :
        sock[e].state = "FIN_WAIT_2" => \A n \in sock[e].fins : n < sock[Peer(e)].rnxt
=============================================================================
