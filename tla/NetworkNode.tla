---------------------------- MODULE NetworkNode ----------------------------
(***************************************************************************)
(* The life of a node, host or router: the constructor that starts threads *)
(* one after the other (network_node.cpp, host_node.cpp, router_node.cpp), *)
(* the interfaces' receiving threads that submit datagrams to the thread   *)
(* pool (network_interface.cpp), and the destruction in the reverse order  *)
(* of the members while datagrams still arrive.                            *)
(*                                                                         *)
(* What the handlers do with a datagram is the business of Rip, Forwarding *)
(* and TcpStack; here it is one step that needs the node to be whole.      *)
(***************************************************************************)
EXTENDS ThreadPool, PeriodicThread

CONSTANTS Kind,           \* "host" or "router"
          NumInterfaces,
          MaxDatagrams    \* bound: datagrams that arrive in a behaviour

Interfaces == 1 .. NumInterfaces

ASSUME NodeAssumption ==
    /\ Kind \in {"host", "router"}
    /\ NumInterfaces \in Nat /\ MaxDatagrams \in Nat
    /\ Submitters = Interfaces
    /\ Tasks = Interfaces \X (1 .. MaxDatagrams)

VARIABLES main,       \* where the constructing and destroying thread is
          iface,      \* each NetworkInterface: socket, receiving thread, object
          recv,       \* recvThread_ of each interface, and its datagram
          inbox,      \* datagrams in the UDP socket's buffer
          arrived,    \* datagrams that have arrived so far
          request,    \* the detached thread that sends the RIP request
          quiet       \* history: the node was idle when its destruction began,
                      \* and nothing has arrived since

nodeVars == <<main, iface, recv, inbox, arrived, request, quiet>>
vars     == <<poolVars, failed, periodicVars, nodeVars>>

Stages == <<"pool", "interfaces", "handlers", "running",
            "~derived", "~pool", "~interfaces", "gone">>
Stage(s) == CHOOSE k \in 1 .. Len(Stages) : Stages[k] = s
Before(s) == Stage(main) < Stage(s)

\* Every variable keeps its type: above all, what workers take from the queue
\* is a datagram with its interface, never a task that was moved from.
NodeTypeOK ==
    /\ PoolTypeOK /\ PeriodicTypeOK
    /\ failed \in {"no", "pool", "tasks", "locks", "handler", "request"}
    /\ main \in {Stages[k] : k \in 1 .. Len(Stages)}
    /\ iface \in [Interfaces -> {"none", "bound", "listening", "known", "shut", "gone"}]
    /\ recv \in [Interfaces -> [pc : {"none", "recv", "submit", "exited"},
                                task : Tasks \cup {NoTask}]]
    /\ inbox \in [Interfaces -> Seq(Tasks)]
    /\ arrived \in 0 .. MaxDatagrams
    /\ request \in {"none", "asleep", "done"}
    /\ quiet \in BOOLEAN

Init ==
    /\ PoolInit /\ PeriodicInit
    /\ failed = "no"
    /\ main = "pool"
    /\ iface = [i \in Interfaces |-> "none"]
    /\ recv = [i \in Interfaces |-> [pc |-> "none", task |-> NoTask]]
    /\ inbox = [i \in Interfaces |-> <<>>]
    /\ arrived = 0
    /\ request = "none"
    /\ quiet = FALSE

Alive == failed = "no"
All(state) == \A i \in Interfaces : iface[i] = state

---------------------------------------------------------------------------
(* Construction.  A host's TCP stack is a member and so there, with its    *)
(* reaper thread, before the constructor's body runs; a router starts its  *)
(* RIP threads at the end of it.                                           *)

PeriodicDue == IF Kind = "host" THEN main = "pool" ELSE main = "handlers"

StartPeriodic ==
    /\ PeriodicDue
    /\ StartThread
    /\ UNCHANGED <<poolVars, failed, nodeVars>>

\* The constructor of the PeriodicThread goes on.
FinishPeriodic ==
    /\ InitMembers
    /\ UNCHANGED <<poolVars, failed, nodeVars>>

\* The constructor has no PeriodicThread to start, or is done with it.
PeriodicDone == PeriodicDue => thread # "none" /\ members = "ready"

StartPool ==
    /\ main = "pool"
    /\ PeriodicDone
    /\ MakePool
    /\ main' = "interfaces"
    /\ UNCHANGED <<periodicVars, iface, recv, inbox, arrived, request, quiet>>

\* NetworkInterface's constructor binds the socket: from here on datagrams
\* queue up.  The object is then moved into interfaces_.
Bind(i) ==
    /\ main = "interfaces"
    /\ iface[i] = "none" /\ \A j \in 1 .. i - 1 : iface[j] = "known"
    /\ iface' = [iface EXCEPT ![i] = "bound"]
    /\ UNCHANGED <<poolVars, failed, periodicVars, main, recv, inbox, arrived, request, quiet>>

\* startListening(), before the node knows the interface's address, route and
\* handlers.
StartListening(i) ==
    /\ iface[i] = "bound"
    /\ iface' = [iface EXCEPT ![i] = "listening"]
    /\ recv' = [recv EXCEPT ![i].pc = "recv"]
    /\ UNCHANGED <<poolVars, failed, periodicVars, main, inbox, arrived, request, quiet>>

\* interfacesByAddr_, interfacesByName_ and the local route.
RegisterInterface(i) ==
    /\ iface[i] = "listening" /\ main = "interfaces"
    /\ iface' = [iface EXCEPT ![i] = "known"]
    /\ main' = IF i = NumInterfaces THEN "handlers" ELSE main
    /\ UNCHANGED <<poolVars, failed, periodicVars, recv, inbox, arrived, request, quiet>>

\* protocolHandlers_ is filled in, then, in a router, the request thread is
\* detached.
RegisterHandlers ==
    /\ main = "handlers"
    /\ PeriodicDone
    /\ main' = "running"
    /\ request' = IF Kind = "router" THEN "asleep" ELSE "done"
    /\ UNCHANGED <<poolVars, failed, periodicVars, iface, recv, inbox, arrived, quiet>>

---------------------------------------------------------------------------
(* Datagrams.                                                              *)

\* A datagram arrives at a bound socket.  External: the network.
Arrive(i) ==
    /\ Alive
    /\ iface[i] \in {"bound", "listening", "known"}
    /\ arrived < MaxDatagrams
    /\ arrived' = arrived + 1
    /\ inbox' = [inbox EXCEPT ![i] = Append(@, <<i, arrived'>>)]
    /\ quiet' = FALSE
    /\ UNCHANGED <<poolVars, failed, periodicVars, main, iface, recv, request>>

\* recvDatagram() takes one from the socket; it may be invalid, or the
\* interface may be down.
Receive(i) ==
    /\ Alive
    /\ recv[i].pc = "recv" /\ i \notin notifying
    /\ inbox[i] # <<>>
    /\ inbox' = [inbox EXCEPT ![i] = Tail(@)]
    /\ recv' \in {recv, [recv EXCEPT ![i] = [pc |-> "submit", task |-> Head(inbox[i])]]}
    /\ UNCHANGED <<poolVars, failed, periodicVars, main, iface, arrived, request, quiet>>

\* Mutant of Submit: the datagram is moved out before the task is made.
SubmitMoved(i) ==
    /\ Alive
    /\ recv[i].pc = "submit"
    /\ Enqueue(i, NoTask)
    /\ recv' = [recv EXCEPT ![i] = [pc |-> "recv", task |-> NoTask]]
    /\ UNCHANGED <<periodicVars, main, iface, inbox, arrived, request, quiet>>

\* submitDatagram_() -> enqueueTask().  The task refers to the address in the
\* interface.
Submit(i) ==
    /\ Alive
    /\ recv[i].pc = "submit"
    /\ Enqueue(i, recv[i].task)
    /\ recv' = [recv EXCEPT ![i] = [pc |-> "recv", task |-> NoTask]]
    /\ UNCHANGED <<periodicVars, main, iface, inbox, arrived, request, quiet>>

SubmitNotify(i) ==
    /\ Alive
    /\ NotifyOne(i)
    /\ UNCHANGED <<periodicVars, nodeVars>>

\* recv() returns 0, which recvDatagram() throws, and the thread ends.
ReceiveEnd(i) ==
    /\ Alive
    /\ recv[i].pc = "recv" /\ i \notin notifying
    /\ iface[i] = "shut" /\ inbox[i] = <<>>
    /\ recv' = [recv EXCEPT ![i].pc = "exited"]
    /\ UNCHANGED <<poolVars, failed, periodicVars, main, iface, inbox, arrived, request, quiet>>

WorkerStep(w) ==
    /\ Alive
    /\ WorkerCheck(w) \/ WorkerSleep(w) \/ WorkerExit(w) \/ WorkerTake(w)
    /\ UNCHANGED <<periodicVars, nodeVars>>

\* datagramHandler_() looks things up in interfacesByAddr_, the routing table
\* and protocolHandlers_, which the constructor may still be filling in, without
\* a lock; it is virtual, and its protocol handlers use the members of HostNode
\* or RouterNode, which the destructor takes away.  Outside of the time between
\* the two it may or may not survive.
Handle(w) ==
    /\ Alive
    /\ WorkerReturn(w)
    /\ failed' \in IF main = "running" THEN {"no"} ELSE {"no", "handler"}
    /\ UNCHANGED <<periodicVars, nodeVars>>

\* A mutex locked after its destruction may or may not be survived.
PeriodicStep ==
    /\ Alive
    /\ PeriodicCheck \/ PeriodicLock \/ PeriodicWake \/ PeriodicReturn
    /\ failed' \in IF LocksDestroyed THEN {"no", "locks"} ELSE {"no"}
    /\ UNCHANGED <<poolVars, nodeVars>>

\* The detached thread wakes up after 200 ms and sends through the node.
Request ==
    /\ Alive
    /\ request = "asleep"
    /\ request' = "done"
    /\ failed' \in IF Before("~derived") THEN {"no"} ELSE {"no", "request"}
    /\ UNCHANGED <<poolVars, periodicVars, main, iface, recv, inbox, arrived, quiet>>

---------------------------------------------------------------------------
(* Destruction: HostNode's or RouterNode's members, the pool, the          *)
(* interfaces.                                                             *)

Idle ==
    /\ \A i \in Interfaces : inbox[i] = <<>> /\ recv[i].pc = "recv"
    /\ tasks = <<>> /\ notifying = {} /\ At("run") = {}
    /\ request = "done"

Exit ==
    /\ Alive
    /\ main = "running"
    /\ main' = "~derived"
    /\ StopThread
    /\ quiet' = Idle
    /\ UNCHANGED <<poolVars, failed, iface, recv, inbox, arrived, request>>

\* The periodic threads' own members go before the threads are joined.
EndPeriodicMembers ==
    /\ Alive
    /\ main = "~derived"
    /\ DestroyMembers
    /\ UNCHANGED <<poolVars, failed, nodeVars>>

\* Mutant of EndDerived: the periodic thread is stopped but not waited for.
EndDerivedAtOnce ==
    /\ Alive
    /\ main = "~derived"
    /\ main' = "~pool"
    /\ failed' = IF thread = "task" THEN "handler" ELSE "no"
    /\ UNCHANGED <<poolVars, periodicVars, iface, recv, inbox, arrived, request, quiet>>

\* The periodic threads are joined; what their tasks use is still there.
EndDerived ==
    /\ Alive
    /\ main = "~derived"
    /\ Joinable
    /\ main' = "~pool"
    /\ UNCHANGED <<poolVars, failed, periodicVars, iface, recv, inbox, arrived, request, quiet>>

DestroyPool ==
    /\ Alive
    /\ main = "~pool"
    /\ DtorStop \/ DtorNotify \/ DtorMembers \/ DtorJoin
    /\ UNCHANGED <<periodicVars, nodeVars>>

\* Mutant of InterfacesTurn: the pool is declared before the interfaces, and
\* is still there when they go.
InterfacesTurnFirst ==
    /\ Alive
    /\ main = "~pool"
    /\ main' = "~interfaces"
    /\ UNCHANGED <<poolVars, failed, periodicVars, iface, recv, inbox, arrived, request, quiet>>

InterfacesTurn ==
    /\ Alive
    /\ main = "~pool" /\ pool = "gone"
    /\ main' = "~interfaces"
    /\ UNCHANGED <<poolVars, failed, periodicVars, iface, recv, inbox, arrived, request, quiet>>

\* ~NetworkInterface(): the socket is shut down, then its thread joined.
ShutInterface(i) ==
    /\ Alive
    /\ main = "~interfaces"
    /\ iface[i] = "known" /\ \A j \in 1 .. i - 1 : iface[j] = "gone"
    /\ iface' = [iface EXCEPT ![i] = "shut"]
    /\ UNCHANGED <<poolVars, failed, periodicVars, main, recv, inbox, arrived, request, quiet>>

JoinInterface(i) ==
    /\ Alive
    /\ iface[i] = "shut" /\ recv[i].pc = "exited"
    /\ iface' = [iface EXCEPT ![i] = "gone"]
    /\ main' = IF i = NumInterfaces THEN "gone" ELSE main
    /\ UNCHANGED <<poolVars, failed, periodicVars, recv, inbox, arrived, request, quiet>>

---------------------------------------------------------------------------

MainStep ==
    \/ StartPeriodic \/ FinishPeriodic \/ StartPool \/ RegisterHandlers
    \/ \E i \in Interfaces : Bind(i) \/ StartListening(i) \/ RegisterInterface(i)
    \/ EndPeriodicMembers \/ EndDerived \/ DestroyPool \/ InterfacesTurn
    \/ \E i \in Interfaces : ShutInterface(i) \/ JoinInterface(i)

ReceiverStep(i) == Receive(i) \/ Submit(i) \/ SubmitNotify(i) \/ ReceiveEnd(i)

Next ==
    \/ MainStep \/ Exit
    \/ \E i \in Interfaces : Arrive(i) \/ ReceiverStep(i)
    \/ \E w \in Workers : WorkerStep(w) \/ Handle(w)
    \/ PeriodicStep \/ Request

Spec == Init /\ [][Next]_vars

\* Every thread that can go on does.  Handlers return.  Nothing is assumed of
\* the network or the user.
FairSpec ==
    /\ Spec
    /\ WF_vars(MainStep)
    /\ \A i \in Interfaces : WF_vars(ReceiverStep(i))
    /\ \A w \in Workers : WF_vars(WorkerStep(w) \/ Handle(w))
    /\ WF_vars(PeriodicStep)
    /\ WF_vars(Request)

---------------------------------------------------------------------------
(* Properties.                                                             *)

Running(w, t) == worker[w].pc = "run" /\ worker[w].task = t
Waiting(t)    == Locks /\ \E k \in 1 .. Len(tasks) : tasks[k] = t

\* A task holds a reference to the address inside its interface
\* (network_node.cpp:276), and nothing but the order of NetworkNode's members
\* keeps the interface alive: the pool is joined before interfaces_ goes.
AddressAlive ==
    \A t \in Tasks : Waiting(t) \/ (\E w \in Workers : Running(w, t)) =>
        iface[t[1]] # "gone"

\* If nothing is under way when the program exits and nothing arrives after,
\* the pool, the node, its tables and its interfaces outlive the threads that
\* use them.  The only accesses to something destroyed are those of a worker or
\* a periodic thread to the mutex and the queue beside which it was declared
\* (thread_pool.hpp:24-28, periodic_thread.hpp:50-53).
QuietExit == quiet => failed \in {"no", "locks"}

\* A datagram submitted is handled, whatever the workers are doing, until the
\* pool is stopped.
Handled == \A t \in Tasks : Waiting(t) ~> (~Waiting(t) \/ stop \/ ~Alive)

\* The destructor ends: every thread it joins has been told to stop and hears
\* of it, the workers asleep on the condition variable, the threads blocked in
\* recv() and the periodic thread in the middle of its period.
Exits == main = "~derived" ~> (main = "gone" \/ ~Alive)
=============================================================================
