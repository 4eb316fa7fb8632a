----------------------------- MODULE MCTcpStack -----------------------------
(***************************************************************************)
(* What comments and assertions of the code say of the socket table, and   *)
(* the code does not do.  The README says how to see each of them refuted. *)
(***************************************************************************)
EXTENDS TcpStack, TLC

\* Workers are interchangeable, and so are the peers.
Symmetry == Permutations(Workers) \cup Permutations(Peers)

\* createNormalSocket_ asserts that the session it has just found absent is
\* still absent when the new socket is entered.
SessionUnique == failed # "duplicate"

\* The ACK that establishes a connection finds its socket in the pending
\* list: "FATAL: Normal socket not found in pending list".
PendingFound == failed # "pending"

\* When vConnect wakes without an error its socket is in SYN_SENT: "FATAL:
\* Socket state should still be in SynSent".
StillSynSent == failed # "synSent"

\* A SYN "will send a SYN-ACK and put the socket in SYN-RECEIVED state": the
\* socket exists until its creator has taken it out of CLOSED.
CreatorHoldsLive ==
    \A t \in Threads :
        \/ op[t].pc = "reply"
        \/ op[t].pc = "setState" /\ op[t].to \in {"SYN_RECEIVED", "SYN_SENT"}
        => Live(op[t].sock)

\* acceptQ_ is "a queue of ESTABLISHED sockets waiting to be accepted": what
\* vAccept can return has not been closed or destroyed.
QueueEstablished ==
    \A o \in ToSet(listener.queue) : Live(o) /\ sock[o].state # "CLOSED"

\* The FIN handlers are transitions from ESTABLISHED to CLOSE_WAIT: no
\* socket enters CLOSE_WAIT from another state.
CloseWaitFromEstablished ==
    [][\A o \in Objects :
          sock'[o].state = "CLOSE_WAIT" /\ sock[o].state # "CLOSE_WAIT"
          => sock[o].state = "ESTABLISHED"]_vars
=============================================================================
