------------------------------ MODULE TcpStack ------------------------------
(***************************************************************************)
(* The socket table of one host (TcpStack), the listen socket with its     *)
(* pending list and accept queue, and the opening, closing, aborting and   *)
(* reaping of normal sockets.  The threads that share them are the pool    *)
(* workers that run tcpProtocolHandler, the caller of vConnect, the caller *)
(* of vAccept, the thread that closes or aborts (the REPL, or a            *)
(* retransmission thread that gives up) and the reaper.                    *)
(*                                                                         *)
(* A handler looks the socket up, visits its state and writes the new      *)
(* state in separate steps, as the code holds no lock over them.  Socket   *)
(* objects are named by their allocation and never reused, so a reference  *)
(* that outlives its object is visible.  Sequence numbers, windows and     *)
(* payloads are the business of SendBuffer and RecvBuffer; a packet that   *)
(* a handler rejects changes nothing here and is not enumerated.           *)
(***************************************************************************)
EXTENDS Naturals, FiniteSets, FiniteSetsExt, Sequences, SequencesExt

CONSTANTS
    Peers,       \* sessions whose remote end sends us a SYN
    Dials,       \* sessions that vConnect opens
    Workers,     \* the pool's worker threads
    Connector,   \* the thread in vConnect
    User,        \* the thread in vClose or vAbort
    MaxObjects,  \* bound: normal sockets allocated in a behaviour
    MaxId,       \* MAX_SOCKET_FD
    MaxPending   \* MAX_PENDING_SOCKS

Sessions == Peers \cup Dials
Threads  == Workers \cup {Connector, User}
Objects  == 1 .. MaxObjects
Ids      == 1 .. MaxId
NoSock   == 0
NoId     == 0
Lsn      == MaxObjects + 1   \* the listen socket, in the reaper's list

ASSUME StackAssumption ==
    /\ MaxObjects \in Nat /\ MaxId \in Nat /\ MaxPending \in Nat
    /\ Peers \cap Dials = {}
    /\ IsFiniteSet(Dials) /\ Cardinality(Dials) <= 1  \* one SynAckResult
    /\ Connector \notin Workers /\ User \notin Workers /\ Connector # User

\* The normal socket states; UNBORN and GONE are before the constructor and
\* after the destructor.
States == {"UNBORN", "CLOSED", "SYN_SENT", "SYN_RECEIVED", "ESTABLISHED",
           "FIN_WAIT_1", "FIN_WAIT_2", "TIME_WAIT", "CLOSE_WAIT", "LAST_ACK",
           "GONE"}

VARIABLES
    sock,      \* [Objects -> [sess, state, id]]
    table,     \* sessionToSocket_
    freeIds,   \* freeSocketIDs_
    listener,  \* the ListenSocket: state_, id_, pendingSocks_, acceptQ_
    op,        \* what each thread is in the middle of
    result,    \* the SynAckResult on the stack of createActiveConnection_
    closing,   \* ListenSocket::vClose in progress: the sockets left to close
    accepter,  \* the thread in vAccept, and the sockets it has returned
    reaper,    \* the reaper's pass over socketTable_ (under socketTableMutex_)
    failed     \* the assert that stopped the process, or a dangling access

vars == <<sock, table, freeIds, listener, op, result, closing, accepter,
          reaper, failed>>

Asserts == {"no", "duplicate", "pending", "synSent", "dangling"}

IdleOp == [pc |-> "idle", sess |-> "none", sock |-> NoSock, id |-> NoId,
           to |-> "CLOSED"]

TypeOK ==
    /\ sock \in [Objects -> [sess : Sessions \cup {"none"}, state : States,
                             id : Ids \cup {NoId}]]
    /\ table \in [Sessions -> Objects \cup {NoSock}]
    /\ freeIds \subseteq Ids
    /\ listener \in [state : {"NONE", "LISTEN", "CLOSED", "GONE"},
                     id : Ids \cup {NoId}, pending : Seq(Objects),
                     queue : Seq(Objects), closed : BOOLEAN]
    /\ Len(listener.pending) <= MaxPending
    /\ op \in [Threads -> [pc : {"idle", "takeId", "emplace", "reply",
                                 "setState", "establish", "unpend", "push",
                                 "notify", "onSynAck", "wait", "check"},
                           sess : Sessions \cup {"none"},
                           sock : Objects \cup {NoSock},
                           id : Ids \cup {NoId}, to : States]]
    /\ result \in [alive : BOOLEAN, notified : BOOLEAN, error : BOOLEAN]
    /\ closing \in [phase : {"none", "pending", "queue"}, todo : Seq(Objects)]
    /\ accepter \in [pc : {"idle", "asleep", "awake", "stopped"},
                     got : SUBSET Objects]
    /\ reaper \in [todo : SUBSET (Objects \cup {Lsn}), locked : BOOLEAN,
                   erase : Objects \cup {NoSock}]
    /\ failed \in Asserts

Init ==
    /\ sock = [o \in Objects |->
                  [sess |-> "none", state |-> "UNBORN", id |-> NoId]]
    /\ table = [s \in Sessions |-> NoSock]
    /\ freeIds = Ids
    /\ listener = [state |-> "NONE", id |-> NoId, pending |-> <<>>,
                   queue |-> <<>>, closed |-> FALSE]
    /\ op = [t \in Threads |-> IdleOp]
    /\ result = [alive |-> FALSE, notified |-> FALSE, error |-> FALSE]
    /\ closing = [phase |-> "none", todo |-> <<>>]
    /\ accepter = [pc |-> "idle", got |-> {}]
    /\ reaper = [todo |-> {}, locked |-> FALSE, erase |-> NoSock]
    /\ failed = "no"

Running == failed = "no"

\* socketTableMutex_ is not held by the reaper: the other critical sections
\* are single steps.
Unlocked == ~reaper.locked

Live(o) == sock[o].state \notin {"UNBORN", "GONE"}

Go(t, next) == op' = [op EXCEPT ![t] = next]
Done(t)     == Go(t, IdleOp)

\* The access of a thread to an object that is already destroyed.
Dangle(why) ==
    /\ failed' = why
    /\ UNCHANGED <<sock, table, freeIds, listener, op, result, closing,
                   accepter, reaper>>

-----------------------------------------------------------------------------
(* Listening: vListen takes an id and enters the port's listen socket.     *)

VListen ==
    /\ Running /\ Unlocked
    /\ listener.state = "NONE" /\ freeIds # {}
    /\ listener' = [listener EXCEPT !.state = "LISTEN", !.id = Min(freeIds)]
    /\ freeIds' = freeIds \ {Min(freeIds)}
    /\ UNCHANGED <<sock, table, op, result, closing, accepter, reaper, failed>>

-----------------------------------------------------------------------------
(* createNormalSocket_: the check for a duplicate under the shared lock,   *)
(* the id under its own mutex, the insertion under the unique lock.        *)

\* A SYN that finds no session but a socket listening on the port.
GetSyn(w, s) ==
    /\ Running /\ Unlocked
    /\ op[w].pc = "idle"
    /\ table[s] = NoSock /\ listener.state = "LISTEN"
    /\ Go(w, [op[w] EXCEPT !.pc = "takeId", !.sess = s])
    /\ UNCHANGED <<sock, table, freeIds, listener, result, closing, accepter,
                   reaper, failed>>

\* vConnect.
Dial(s) ==
    /\ Running /\ Unlocked
    /\ op[Connector].pc = "idle" /\ table[s] = NoSock
    /\ Go(Connector, [op[Connector] EXCEPT !.pc = "takeId", !.sess = s])
    /\ UNCHANGED <<sock, table, freeIds, listener, result, closing, accepter,
                   reaper, failed>>

\* getNextSocketId_: the smallest free id, or NO_RESOURCES.
TakeId(t) ==
    /\ Running /\ op[t].pc = "takeId"
    /\ IF freeIds = {}
         THEN Done(t) /\ UNCHANGED freeIds
         ELSE /\ Go(t, [op[t] EXCEPT !.pc = "emplace", !.id = Min(freeIds)])
              /\ freeIds' = freeIds \ {Min(freeIds)}
    /\ UNCHANGED <<sock, table, listener, result, closing, accepter, reaper,
                   failed>>

Enter(t, o) ==
    /\ sock' = [sock EXCEPT ![o] = [sess |-> op[t].sess, state |-> "CLOSED",
                                    id |-> op[t].id]]
    /\ table' = [table EXCEPT ![op[t].sess] = o]
    /\ Go(t, [op[t] EXCEPT !.pc = "reply", !.sock = o])
    /\ UNCHANGED failed

\* Both insertions are asserted to succeed.
Emplace(t) ==
    /\ Running /\ Unlocked
    /\ op[t].pc = "emplace"
    /\ \E o \in Objects : sock[o].state = "UNBORN"
    /\ LET fresh == Min({o \in Objects : sock[o].state = "UNBORN"})
       IN  IF \/ table[op[t].sess] # NoSock
              \/ \E o \in Objects : Live(o) /\ sock[o].id = op[t].id
             THEN failed' = "duplicate" /\ UNCHANGED <<sock, table, op>>
             ELSE Enter(t, fresh)
    /\ UNCHANGED <<freeIds, listener, result, closing, accepter, reaper>>

\* A mutant: the pending list takes one socket too many.
SendSynAckOneMore(w) ==
    /\ Running /\ op[w].pc = "reply" /\ w \in Workers
    /\ Live(op[w].sock) /\ listener.state # "GONE"
    /\ IF Len(listener.pending) <= MaxPending
         THEN /\ listener' = [listener EXCEPT !.pending =
                                 Append(@, op[w].sock)]
              /\ Go(w, [op[w] EXCEPT !.pc = "setState", !.to = "SYN_RECEIVED"])
         ELSE Done(w) /\ UNCHANGED listener
    /\ UNCHANGED <<sock, table, freeIds, result, closing, accepter, reaper,
                   failed>>

\* createPassiveConnection_: SYN-ACK, then the listener's pending list; a
\* full list leaves the socket as it is, CLOSED.
SendSynAck(w) ==
    /\ Running /\ op[w].pc = "reply" /\ w \in Workers
    /\ IF ~Live(op[w].sock) \/ listener.state = "GONE"
         THEN Dangle("dangling")
         ELSE /\ IF Len(listener.pending) < MaxPending
                   THEN /\ listener' = [listener EXCEPT !.pending =
                                           Append(@, op[w].sock)]
                        /\ Go(w, [op[w] EXCEPT !.pc = "setState", !.to = "SYN_RECEIVED"])
                   ELSE Done(w) /\ UNCHANGED listener
              /\ UNCHANGED <<sock, table, freeIds, result, closing, accepter,
                             reaper, failed>>

\* createActiveConnection_: SYN, then a fresh SynAckResult on the stack.
SendSyn ==
    /\ Running /\ op[Connector].pc = "reply"
    /\ IF ~Live(op[Connector].sock)
         THEN Dangle("dangling")
         ELSE /\ result' = [alive |-> TRUE, notified |-> FALSE,
                            error |-> FALSE]
              /\ Go(Connector, [op[Connector] EXCEPT !.pc = "setState",
                                                     !.to = "SYN_SENT"])
              /\ UNCHANGED <<sock, table, freeIds, listener, closing,
                             accepter, reaper, failed>>

-----------------------------------------------------------------------------
(* sock.state_ = ..., the last statement of most handlers.                 *)

\* What a thread does after it has written the state.
After(t) == IF op[t].pc = "establish"
              THEN [op[t] EXCEPT !.pc = "unpend"]
              ELSE IF op[t].to = "SYN_SENT"
                     THEN [op[t] EXCEPT !.pc = "wait"]
                     ELSE IdleOp

\* Overwriting SYN_SENT runs ~SynSent, which notifies the SynAckResult it
\* points to; vConnect may have returned, and then the write goes to a dead
\* stack frame, which the process may or may not survive.
SetState(t) ==
    /\ Running /\ op[t].pc \in {"setState", "establish"}
    /\ LET o == op[t].sock
           destroysSynSent == sock[o].state = "SYN_SENT"
       IN  IF ~Live(o)
             THEN Dangle("dangling")
             ELSE /\ sock' = [sock EXCEPT ![o].state = op[t].to]
                  /\ op' = [op EXCEPT ![t] = After(t)]
                  /\ result' = [result EXCEPT
                         !.notified = @ \/ (destroysSynSent /\ result.alive),
                         !.alive = @ /\ ~(t = Connector
                                          /\ op[t].to = "ESTABLISHED")]
                  /\ failed' \in {"no"} \cup
                         IF destroysSynSent /\ ~result.alive
                           THEN {"dangling"} ELSE {}
                  /\ UNCHANGED <<table, freeIds, listener, closing, accepter,
                                 reaper>>

-----------------------------------------------------------------------------
(* tcpProtocolHandler for a packet of an existing session: the handler is  *)
(* chosen by the state that is visited now and acts on it later.           *)

\* The handlers that do no more than write a state.
Teardown == [ESTABLISHED |-> [ev |-> "FIN", to |-> "CLOSE_WAIT"],
             FIN_WAIT_1  |-> [ev |-> "ACK", to |-> "FIN_WAIT_2"],
             FIN_WAIT_2  |-> [ev |-> "FIN", to |-> "TIME_WAIT"],
             LAST_ACK    |-> [ev |-> "ACK", to |-> "CLOSED"]]

Handler(st, ev) ==
    IF st = "SYN_RECEIVED" /\ ev = "ACK" THEN <<"establish", "ESTABLISHED">>
    ELSE IF st = "SYN_SENT" /\ ev = "SYNACK" THEN <<"onSynAck", "CLOSED">>
    ELSE IF st \in DOMAIN Teardown /\ Teardown[st].ev = ev
           THEN <<"setState", Teardown[st].to>>
    ELSE <<"idle", "CLOSED">>   \* unsupported transitions return

GetPacket(w, s, ev) ==
    /\ Running /\ Unlocked
    /\ op[w].pc = "idle" /\ table[s] # NoSock
    /\ LET h == Handler(sock[table[s]].state, ev)
       IN  /\ h[1] # "idle"
           /\ Go(w, [op[w] EXCEPT !.pc = h[1], !.to = h[2], !.sess = s, !.sock = table[s]])
    /\ UNCHANGED <<sock, table, freeIds, listener, result, closing, accepter,
                   reaper, failed>>

\* PendingSocks::remove finds the first entry of the session.
Position(o) == SelectInSeq(listener.pending,
                           LAMBDA p : sock[p].sess = sock[o].sess)
Unlisted(o) == IF Position(o) = 0
                 THEN listener.pending
                 ELSE RemoveAt(listener.pending, Position(o))

\* SYN_RECEIVED => ESTABLISHED, after the state is written: the socket
\* leaves the pending list, which is asserted to hold it.
Unpend(w) ==
    /\ Running /\ op[w].pc = "unpend"
    /\ IF ~Live(op[w].sock) \/ listener.state = "GONE"
         THEN Dangle("dangling")
         ELSE /\ IF Position(op[w].sock) = 0
                   THEN failed' = "pending" /\ UNCHANGED <<listener, op>>
                   ELSE /\ listener' = [listener EXCEPT !.pending =
                                           Unlisted(op[w].sock)]
                        /\ Go(w, [op[w] EXCEPT !.pc = "push"])
                        /\ UNCHANGED failed
              /\ UNCHANGED <<sock, table, freeIds, result, closing, accepter,
                             reaper>>

\* AcceptQueue::pushAndNotify: the push under queueMutex ...
Push(w) ==
    /\ Running /\ op[w].pc = "push"
    /\ IF listener.state = "GONE"
         THEN Dangle("dangling")
         ELSE /\ listener' = [listener EXCEPT !.queue =
                                 Append(@, op[w].sock)]
              /\ Go(w, [op[w] EXCEPT !.pc = "notify"])
              /\ UNCHANGED <<sock, table, freeIds, result, closing, accepter,
                             reaper, failed>>

\* Condition variables: external.
Wake == accepter' = [accepter EXCEPT !.pc = IF @ = "asleep" THEN "awake"
                                                            ELSE @]

\* A mutant: the accepter is not told.
NotifyNobody(w) ==
    /\ Running /\ op[w].pc = "notify"
    /\ Done(w)
    /\ UNCHANGED <<sock, table, freeIds, listener, result, closing, accepter,
                   reaper, failed>>

\* ... and the notification after it.
Notify(w) ==
    /\ Running /\ op[w].pc = "notify"
    /\ IF listener.state = "GONE"
         THEN Dangle("dangling")
         ELSE /\ Wake
              /\ Done(w)
              /\ UNCHANGED <<sock, table, freeIds, listener, result, closing,
                             reaper, failed>>

\* SYN_SENT x SYN-ACK, after the sleep: onSynAck through the SynSent object
\* that was visited before it.  If that object is gone its pointer is stale,
\* and the call does nothing that matters or brings the process down.
OnSynAck(w) ==
    /\ Running /\ op[w].pc = "onSynAck"
    /\ LET o == op[w].sock
       IN  IF sock[o].state = "SYN_SENT" /\ result.alive
             THEN /\ result' = [result EXCEPT !.notified = TRUE]
                  /\ UNCHANGED failed
             ELSE /\ failed' \in {"no", "dangling"}
                  /\ UNCHANGED result
    /\ Done(w)
    /\ UNCHANGED <<sock, table, freeIds, listener, closing, accepter, reaper>>

\* waitForSynAck returns: with an error vConnect fails and its SynAckResult
\* dies, otherwise the socket is asserted to be in SYN_SENT still.
Connected ==
    /\ Running /\ op[Connector].pc = "wait" /\ result.notified
    /\ IF result.error
         THEN Done(Connector) /\ result' = [result EXCEPT !.alive = FALSE]
         ELSE Go(Connector, [op[Connector] EXCEPT !.pc = "check"]) /\ UNCHANGED result
    /\ UNCHANGED <<sock, table, freeIds, listener, closing, accepter, reaper,
                   failed>>

CheckSynSent ==
    /\ Running /\ op[Connector].pc = "check"
    /\ LET st == sock[op[Connector].sock].state
       IN  IF st = "SYN_SENT"
             THEN /\ Go(Connector, [op[Connector] EXCEPT !.pc = "setState",
                                                         !.to = "ESTABLISHED"])
                  /\ UNCHANGED failed
             ELSE /\ failed' = IF st = "GONE" THEN "dangling" ELSE "synSent"
                  /\ UNCHANGED op
    /\ UNCHANGED <<sock, table, freeIds, listener, result, closing, accepter,
                   reaper>>

-----------------------------------------------------------------------------
(* NormalSocket::vClose and vAbort: the state is visited, the party that   *)
(* waits on the socket is told, then the state is written.                 *)

CloseTo == [SYN_SENT |-> "CLOSED", SYN_RECEIVED |-> "FIN_WAIT_1",
            ESTABLISHED |-> "FIN_WAIT_1", CLOSE_WAIT |-> "LAST_ACK"]

\* SYN_SENT tells vConnect the error, SYN_RECEIVED leaves the pending list.
Tell(o) ==
    /\ result' = IF sock[o].state = "SYN_SENT" /\ result.alive
                   THEN [result EXCEPT !.notified = TRUE, !.error = TRUE]
                   ELSE result
    /\ listener' = IF sock[o].state = "SYN_RECEIVED"
                     THEN [listener EXCEPT !.pending = Unlisted(o)]
                     ELSE listener

\* The listener of a SYN_RECEIVED socket is already destroyed.
LostListener(o) == sock[o].state = "SYN_RECEIVED" /\ listener.state = "GONE"

Visit(o, to) ==
    IF LostListener(o)
      THEN Dangle("dangling")
      ELSE /\ Tell(o)
           /\ Go(User, [op[User] EXCEPT !.pc = "setState", !.sock = o, !.to = to])
           /\ UNCHANGED <<sock, table, freeIds, closing, accepter, reaper,
                          failed>>

UserIdle == op[User].pc = "idle" /\ closing.phase = "none"

VClose(o) ==
    /\ Running /\ Unlocked /\ UserIdle
    /\ sock[o].state \in DOMAIN CloseTo
    /\ Visit(o, CloseTo[sock[o].state])

VAbort(o) ==
    /\ Running /\ Unlocked /\ UserIdle
    /\ Live(o) /\ sock[o].state # "CLOSED"
    /\ Visit(o, "CLOSED")

-----------------------------------------------------------------------------
(* ListenSocket::vClose: vClose of every pending socket, then of every     *)
(* queued one, then the waiters in vAccept are woken and the state is      *)
(* CLOSED.  The queue's sockets are taken out in one step: its mutex is    *)
(* held while they are closed, and a push in between stays in the queue    *)
(* either way.                                                             *)

ListenerClose ==
    /\ Running /\ Unlocked /\ UserIdle
    /\ listener.state = "LISTEN"
    /\ closing' = [phase |-> "pending", todo |-> listener.pending]
    /\ listener' = [listener EXCEPT !.pending = <<>>]
    /\ UNCHANGED <<sock, table, freeIds, op, result, accepter, reaper, failed>>

\* The next socket of the list: vClose of one that has nothing to close
\* returns an error.
CloseNext ==
    /\ Running /\ op[User].pc = "idle" /\ closing.todo # <<>>
    /\ LET o == Head(closing.todo)
           st == sock[o].state
       IN  IF ~Live(o) \/ LostListener(o)
             THEN Dangle("dangling")
             ELSE /\ closing' = [closing EXCEPT !.todo = Tail(@)]
                  /\ Tell(o)
                  /\ IF st \in DOMAIN CloseTo
                       THEN Go(User, [op[User] EXCEPT !.pc = "setState",
                                         !.sock = o, !.to = CloseTo[st]])
                       ELSE UNCHANGED op
                  /\ UNCHANGED <<sock, table, freeIds, accepter, reaper,
                                 failed>>

\* A mutant: the queued sockets are dropped instead of closed.
QueueCloseDrops ==
    /\ Running /\ op[User].pc = "idle"
    /\ closing.phase = "pending" /\ closing.todo = <<>>
    /\ closing' = [phase |-> "queue", todo |-> <<>>]
    /\ listener' = [listener EXCEPT !.queue = <<>>, !.closed = TRUE]
    /\ UNCHANGED <<sock, table, freeIds, op, result, accepter, reaper, failed>>

\* AcceptQueue::onClose.
QueueClose ==
    /\ Running /\ op[User].pc = "idle"
    /\ closing.phase = "pending" /\ closing.todo = <<>>
    /\ closing' = [phase |-> "queue", todo |-> listener.queue]
    /\ listener' = [listener EXCEPT !.queue = <<>>, !.closed = TRUE]
    /\ UNCHANGED <<sock, table, freeIds, op, result, accepter, reaper, failed>>

ListenerClosed ==
    /\ Running /\ op[User].pc = "idle"
    /\ closing.phase = "queue" /\ closing.todo = <<>>
    /\ closing' = [closing EXCEPT !.phase = "none"]
    /\ listener' = [listener EXCEPT !.state = "CLOSED"]
    /\ Wake
    /\ UNCHANGED <<sock, table, freeIds, op, result, reaper, failed>>

-----------------------------------------------------------------------------
(* vAccept: AcceptQueue::waitAndPop.                                       *)

Accept ==
    /\ Running
    /\ \/ accepter.pc = "idle" /\ listener.state \in {"LISTEN", "CLOSED"}
       \/ accepter.pc = "awake"
    /\ IF listener.state = "GONE"
         THEN Dangle("dangling")
         ELSE /\ accepter' =
                   IF listener.closed
                     THEN [accepter EXCEPT !.pc = "stopped"]
                   ELSE IF listener.queue = <<>>
                     THEN [accepter EXCEPT !.pc = "asleep"]
                   ELSE [pc |-> "idle",
                         got |-> accepter.got \cup {Head(listener.queue)}]
              /\ listener' = IF listener.closed \/ listener.queue = <<>>
                               THEN listener
                               ELSE [listener EXCEPT !.queue = Tail(@)]
              /\ UNCHANGED <<sock, table, freeIds, op, result, closing,
                             reaper, failed>>

-----------------------------------------------------------------------------
(* The reaper: one pass in the order of the ids under the unique lock.  A  *)
(* TIME_WAIT socket may have expired or not.                               *)

IdOf(x) == IF x = Lsn THEN listener.id ELSE sock[x].id

ReapStart ==
    /\ Running /\ Unlocked
    /\ LET all == {o \in Objects : Live(o)} \cup
                  (IF listener.state \in {"LISTEN", "CLOSED"} THEN {Lsn}
                                                              ELSE {})
       IN  /\ all # {}
           /\ reaper' = [reaper EXCEPT !.todo = all, !.locked = TRUE]
    /\ UNCHANGED <<sock, table, freeIds, listener, op, result, closing,
                   accepter, failed>>

Next1 == CHOOSE x \in reaper.todo : \A y \in reaper.todo : IdOf(x) <= IdOf(y)

\* A mutant: only the sockets in TIME_WAIT are looked for.
TimeWaitOnly(o, expired) == sock[o].state = "TIME_WAIT" /\ expired

Reapable(o, expired) ==
    sock[o].state = "CLOSED" \/ (sock[o].state = "TIME_WAIT" /\ expired)

\* The element is left in the table.
ReapSkip ==
    /\ Running /\ reaper.todo # {} /\ reaper.erase = NoSock
    /\ IF Next1 = Lsn THEN listener.state # "CLOSED"
         ELSE \E expired \in BOOLEAN : ~Reapable(Next1, expired)
    /\ reaper' = [reaper EXCEPT !.todo = @ \ {Next1}]
    /\ UNCHANGED <<sock, table, freeIds, listener, op, result, closing,
                   accepter, failed>>

\* A mutant: the session stays in sessionToSocket_.
ReapKeepsSession ==
    /\ Running /\ reaper.todo # {} /\ reaper.erase = NoSock
    /\ Next1 # Lsn /\ \E expired \in BOOLEAN : Reapable(Next1, expired)
    /\ freeIds' = freeIds \cup {sock[Next1].id}
    /\ reaper' = [reaper EXCEPT !.erase = Next1]
    /\ UNCHANGED <<sock, table, listener, op, result, closing, accepter,
                   failed>>

\* The session and the id go first ...
ReapFree ==
    /\ Running /\ reaper.todo # {} /\ reaper.erase = NoSock
    /\ Next1 # Lsn /\ \E expired \in BOOLEAN : Reapable(Next1, expired)
    /\ table' = [table EXCEPT ![sock[Next1].sess] = NoSock]
    /\ freeIds' = freeIds \cup {sock[Next1].id}
    /\ reaper' = [reaper EXCEPT !.erase = Next1]
    /\ UNCHANGED <<sock, listener, op, result, closing, accepter, failed>>

\* ... then the object.
ReapErase ==
    /\ Running /\ reaper.erase # NoSock
    /\ sock' = [sock EXCEPT ![reaper.erase] = [@ EXCEPT !.state = "GONE",
                                                        !.id = NoId]]
    /\ reaper' = [reaper EXCEPT !.todo = @ \ {reaper.erase}, !.erase = NoSock]
    /\ UNCHANGED <<table, freeIds, listener, op, result, closing, accepter,
                   failed>>

\* ~ListenSocket closes what was queued or pending after vClose emptied
\* both: workers that found the listener before it closed put it there.
ReapListener ==
    /\ Running /\ reaper.todo # {} /\ reaper.erase = NoSock
    /\ Next1 = Lsn /\ listener.state = "CLOSED"
    /\ LET left == ToSet(listener.queue) \cup ToSet(listener.pending)
       IN  IF \E o \in left : ~Live(o)
             THEN Dangle("dangling")
             ELSE /\ sock' = [o \in Objects |->
                        IF o \in left /\ sock[o].state \in DOMAIN CloseTo
                          THEN [sock[o] EXCEPT !.state = CloseTo[@]]
                          ELSE sock[o]]
                  /\ freeIds' = freeIds \cup {listener.id}
                  /\ listener' = [listener EXCEPT !.state = "GONE",
                                    !.id = NoId, !.queue = <<>>,
                                    !.pending = <<>>]
                  /\ reaper' = [reaper EXCEPT !.todo = @ \ {Lsn}]
                  /\ UNCHANGED <<table, op, result, closing, accepter, failed>>

ReapEnd ==
    /\ Running /\ reaper.locked /\ reaper.todo = {}
    /\ reaper' = [reaper EXCEPT !.locked = FALSE]
    /\ UNCHANGED <<sock, table, freeIds, listener, op, result, closing,
                   accepter, failed>>

Reaper == ReapStart \/ ReapSkip \/ ReapFree \/ ReapErase \/ ReapListener
          \/ ReapEnd

-----------------------------------------------------------------------------
Worker(w) ==
    \/ \E s \in Peers : GetSyn(w, s)
    \/ \E s \in Sessions, ev \in {"ACK", "FIN", "SYNACK"} : GetPacket(w, s, ev)
    \/ SendSynAck(w) \/ Unpend(w) \/ Push(w) \/ Notify(w) \/ OnSynAck(w)

Next ==
    \/ VListen
    \/ \E w \in Workers : Worker(w)
    \/ \E s \in Dials : Dial(s)
    \/ \E t \in Threads : TakeId(t) \/ Emplace(t) \/ SetState(t)
    \/ SendSyn \/ Connected \/ CheckSynSent
    \/ \E o \in Objects : VClose(o) \/ VAbort(o)
    \/ ListenerClose \/ CloseNext \/ QueueClose \/ ListenerClosed
    \/ Accept
    \/ Reaper

Spec == Init /\ [][Next]_vars

\* The reaper is a PeriodicThread that runs as long as the stack exists.
FairSpec == Spec /\ WF_vars(Reaper)

-----------------------------------------------------------------------------
\* sessionToSocket_ and the socket table agree whenever the table's lock is
\* free, no two sockets share an id, and every id is free, in use, or in the
\* hands of exactly one thread that is creating a socket: no interleaving of
\* creation, failure and reaping leaks an id or a session.
IdHolders(i) ==
    {<<"sock", o>> : o \in {o \in Objects : sock[o].id = i
                                             /\ reaper.erase # o}} \cup
    {<<"thread", t>> : t \in {t \in Threads : op[t].pc = "emplace"
                                               /\ op[t].id = i}} \cup
    (IF listener.id = i THEN {<<"listener", Lsn>>} ELSE {}) \cup
    (IF i \in freeIds THEN {<<"free", i>>} ELSE {})

TableConsistent ==
    /\ \A i \in Ids : Cardinality(IdHolders(i)) = 1
    /\ \A s \in Sessions : table[s] # NoSock =>
          Live(table[s]) /\ sock[table[s]].sess = s
    /\ \A o \in Objects : Live(o) /\ reaper.erase # o =>
          table[sock[o].sess] = o

\* A connection that a peer opened and that is ESTABLISHED is known to
\* somebody who will accept, hold or close it: it is in the accept queue,
\* returned by vAccept, on its way into the queue, or about to be closed.
NoOrphan ==
    \A o \in Objects : sock[o].state = "ESTABLISHED" /\ sock[o].sess \in Peers =>
        \/ o \in ToSet(listener.queue) \cup accepter.got \cup
                 ToSet(closing.todo)
        \/ \E w \in Workers : op[w].sock = o /\ op[w].pc \in {"unpend", "push"}
        \/ op[User].sock = o /\ op[User].pc = "setState"
        \/ ~Running

\* A thread asleep in vAccept has nothing to return, or its wake-up is on
\* the way: push and close release queueMutex before they notify.
NoLostAccept ==
    accepter.pc = "asleep" /\ (listener.queue # <<>> \/ listener.closed) =>
        \/ \E w \in Workers : op[w].pc = "notify"
        \/ closing.phase = "queue"
        \/ ~Running

\* A CLOSED socket does not keep its id and its session for ever: it is
\* reaped, unless its creator was just about to take it out of CLOSED.
ClosedReaped ==
    \A o \in Objects :
        sock[o].state = "CLOSED" ~> (sock[o].state # "CLOSED" \/ ~Running)
=============================================================================
