------------------------- MODULE NetworkNode_proofs -------------------------
(***************************************************************************)
(* Proofs about NetworkNode, ThreadPool and PeriodicThread, for hosts and  *)
(* routers with any number of interfaces, workers and datagrams:           *)
(* NodeTypeCorrect, WorkIsConserved, AddressStaysAlive and QuietExitIsSafe.*)
(*                                                                         *)
(* The strengthening is about the order of destruction: the interfaces go  *)
(* only when the pool is gone, and then every worker has ended (Ordered);  *)
(* and a node that was idle when its destruction began stays idle until    *)
(* something arrives (Silent).                                             *)
(***************************************************************************)
EXTENDS NetworkNode, TLAPS, FiniteSetTheorems

\* A datagram that is about to be submitted is one.
Holding == \A i \in Interfaces : recv[i].pc = "submit" => recv[i].task \in Tasks

Ending == main \in {"~interfaces", "gone"}

Ordered ==
    /\ pool \in {"none", "alive"} => ~stop
    /\ Ending => pool = "gone"
    /\ pool = "gone" => \A w \in Workers : worker[w].pc = "exited"
    /\ \A i \in Interfaces : iface[i] \in {"shut", "gone"} => Ending

Silent ==
    quiet => /\ main \in {"~derived", "~pool", "~interfaces", "gone"}
             /\ \A i \in Interfaces : inbox[i] = <<>> /\ recv[i].pc # "submit"
             /\ tasks = <<>> /\ notifying = {} /\ request = "done"
             /\ \A w \in Workers : worker[w].pc # "run"
             /\ failed \in {"no", "locks"}

NodeInv == NodeTypeOK /\ Holding /\ Ordered /\ Silent /\ WorkConserving

---------------------------------------------------------------------------
(* Constants.                                                              *)

MainStages == {"pool", "interfaces", "handlers", "running",
               "~derived", "~pool", "~interfaces", "gone"}

LEMMA StagesAre == {Stages[k] : k \in 1 .. Len(Stages)} = MainStages
<1>1. Len(Stages) = 8 /\ 1 .. 8 = {1, 2, 3, 4, 5, 6, 7, 8}
  BY DEF Stages
<1>2. /\ Stages[1] = "pool" /\ Stages[2] = "interfaces" /\ Stages[3] = "handlers"
      /\ Stages[4] = "running" /\ Stages[5] = "~derived" /\ Stages[6] = "~pool"
      /\ Stages[7] = "~interfaces" /\ Stages[8] = "gone"
  BY DEF Stages
<1> QED
  BY <1>1, <1>2 DEF MainStages

\* The types, spelled out.
LEMMA Types ==
    ASSUME NodeTypeOK
    PROVE  /\ pool \in {"none", "alive", "stopping", "notified", "dead", "gone"}
           /\ tasks \in Seq(Tasks) /\ stop \in BOOLEAN
           /\ worker \in [Workers -> [pc : Pcs, task : Tasks \cup {NoTask}]]
           /\ notifying \subseteq Submitters
           /\ main \in MainStages
           /\ iface \in [Interfaces -> {"none", "bound", "listening", "known", "shut", "gone"}]
           /\ recv \in [Interfaces -> [pc : {"none", "recv", "submit", "exited"},
                                       task : Tasks \cup {NoTask}]]
           /\ inbox \in [Interfaces -> Seq(Tasks)]
           /\ arrived \in 0 .. MaxDatagrams
BY StagesAre DEF NodeTypeOK, PoolTypeOK

\* Sets of workers and of submitters are finite.
LEMMA Finite ==
    ASSUME NodeTypeOK
    PROVE  /\ IsFiniteSet(notifying) /\ IsFiniteSet(OnTheWay)
           /\ Cardinality(notifying) \in Nat /\ Cardinality(OnTheWay) \in Nat
<1>1. IsFiniteSet(Workers) /\ IsFiniteSet(Submitters)
  BY PoolAssumption
<1>2. notifying \subseteq Submitters /\ OnTheWay \subseteq Workers
  BY Types DEF OnTheWay, At
<1>3. IsFiniteSet(notifying) /\ IsFiniteSet(OnTheWay)
  BY <1>1, <1>2, FS_Subset
<1> QED
  BY <1>3, FS_CardinalityType

LEMMA InitInv == Init => NodeInv
<1> SUFFICES ASSUME Init PROVE NodeInv
  OBVIOUS
<1> USE DEF Init, PoolInit, PeriodicInit
<1>1. NodeTypeOK
  <2>1. main \in MainStages
    BY DEF MainStages
  <2>2. PoolTypeOK
    <3>1. <<>> \in Seq(Tasks)
      OBVIOUS
    <3>2. worker \in [Workers -> [pc : Pcs, task : Tasks \cup {NoTask}]]
      BY DEF Pcs
    <3> QED
      BY <3>1, <3>2 DEF PoolTypeOK
  <2>3. PeriodicTypeOK
    BY DEF PeriodicTypeOK
  <2>4. arrived \in 0 .. MaxDatagrams
    BY NodeAssumption
  <2>5. inbox \in [Interfaces -> Seq(Tasks)]
    <3>1. <<>> \in Seq(Tasks)
      OBVIOUS
    <3> QED
      BY <3>1
  <2>6. recv \in [Interfaces -> [pc : {"none", "recv", "submit", "exited"},
                                 task : Tasks \cup {NoTask}]]
    OBVIOUS
  <2> QED
    BY <2>1, <2>2, <2>3, <2>4, <2>5, <2>6, StagesAre DEF NodeTypeOK
<1>2. Holding /\ Silent
  BY DEF Holding, Silent
<1>3. Ordered
  BY DEF Ordered, Ending
<1>4. WorkConserving
  BY DEF WorkConserving
<1> QED
  BY <1>1, <1>2, <1>3, <1>4 DEF NodeInv

---------------------------------------------------------------------------
(* The order of destruction.                                               *)

LEMMA OrderedKept ==
    ASSUME NodeInv, Next
    PROVE  Ordered'
<1> USE DEF Ordered, Ending, poolVars, nodeVars, periodicVars
<1>0. NodeTypeOK /\ Ordered
  BY DEF NodeInv
<1>1. /\ worker \in [Workers -> [pc : Pcs, task : Tasks \cup {NoTask}]]
      /\ iface \in [Interfaces -> {"none", "bound", "listening", "known", "shut", "gone"}]
      /\ main \in MainStages
  BY <1>0, Types
<1>2. CASE StartPeriodic
  BY <1>0, <1>1, <1>2 DEF StartPeriodic, StartThread
<1>3. CASE FinishPeriodic
  BY <1>0, <1>1, <1>3 DEF FinishPeriodic, InitMembers
<1>4. CASE StartPool
  BY <1>0, <1>1, <1>4 DEF StartPool, MakePool
<1>5. CASE RegisterHandlers
  BY <1>0, <1>1, <1>5 DEF RegisterHandlers
<1>6. ASSUME NEW i \in Interfaces, Bind(i) PROVE Ordered'
  BY <1>0, <1>1, <1>6 DEF Bind
<1>7. ASSUME NEW i \in Interfaces, StartListening(i) PROVE Ordered'
  BY <1>0, <1>1, <1>7 DEF StartListening
<1>8. ASSUME NEW i \in Interfaces, RegisterInterface(i) PROVE Ordered'
  BY <1>0, <1>1, <1>8 DEF RegisterInterface
<1>9. CASE EndDerived
  BY <1>0, <1>1, <1>9 DEF EndDerived
<1>24. CASE EndPeriodicMembers
  BY <1>0, <1>1, <1>24 DEF EndPeriodicMembers, DestroyMembers
<1>10. CASE DestroyPool
  BY <1>0, <1>1, <1>10 DEF DestroyPool, DtorStop, DtorNotify, DtorMembers, DtorJoin, Woken, At
<1>11. CASE InterfacesTurn
  BY <1>0, <1>1, <1>11 DEF InterfacesTurn
<1>12. ASSUME NEW i \in Interfaces, ShutInterface(i) PROVE Ordered'
  BY <1>0, <1>1, <1>12 DEF ShutInterface
<1>13. ASSUME NEW i \in Interfaces, JoinInterface(i) PROVE Ordered'
  BY <1>0, <1>1, <1>13 DEF JoinInterface
<1>14. CASE Exit
  BY <1>0, <1>1, <1>14 DEF Exit, StopThread
<1>15. ASSUME NEW i \in Interfaces, Arrive(i) PROVE Ordered'
  BY <1>0, <1>1, <1>15 DEF Arrive
<1>16. ASSUME NEW i \in Interfaces, Receive(i) PROVE Ordered'
  BY <1>0, <1>1, <1>16 DEF Receive
<1>17. ASSUME NEW i \in Interfaces, Submit(i) PROVE Ordered'
  BY <1>0, <1>1, <1>17 DEF Submit, Enqueue
<1>18. ASSUME NEW i \in Interfaces, SubmitNotify(i) PROVE Ordered'
  BY <1>0, <1>1, <1>18 DEF SubmitNotify, NotifyOne, At, Woken
<1>19. ASSUME NEW i \in Interfaces, ReceiveEnd(i) PROVE Ordered'
  BY <1>0, <1>1, <1>19 DEF ReceiveEnd
<1>20. ASSUME NEW w \in Workers, WorkerStep(w) PROVE Ordered'
  BY <1>0, <1>1, <1>20
     DEF WorkerStep, WorkerCheck, WorkerSleep, WorkerExit, WorkerTake, LockOutcomes, Go, HasLock
<1>21. ASSUME NEW w \in Workers, Handle(w) PROVE Ordered'
  BY <1>0, <1>1, <1>21 DEF Handle, WorkerReturn
<1>22. CASE PeriodicStep
  BY <1>0, <1>1, <1>22
     DEF PeriodicStep, PeriodicCheck, PeriodicLock, PeriodicWake, PeriodicReturn
<1>23. CASE Request
  BY <1>0, <1>1, <1>23 DEF Request
<1> QED
    BY <1>2, <1>3, <1>4, <1>5, <1>6, <1>7, <1>8, <1>9, <1>10, <1>11, <1>12, <1>13, <1>14,
     <1>15, <1>16, <1>17, <1>18, <1>19, <1>20, <1>21, <1>22, <1>23, <1>24 DEF Next, MainStep,
     ReceiverStep

---------------------------------------------------------------------------
(* Silence.                                                                *)

LEMMA SilentKept ==
    ASSUME NodeInv, Next
    PROVE  Silent'
<1> USE DEF Silent, Alive, poolVars, nodeVars, periodicVars
<1>0. NodeTypeOK /\ Silent
  BY DEF NodeInv
<1>1. /\ worker \in [Workers -> [pc : Pcs, task : Tasks \cup {NoTask}]]
      /\ recv \in [Interfaces -> [pc : {"none", "recv", "submit", "exited"},
                                  task : Tasks \cup {NoTask}]]
      /\ main \in MainStages
  BY <1>0, Types
<1>2. CASE StartPeriodic
  BY <1>0, <1>1, <1>2 DEF StartPeriodic, StartThread
<1>3. CASE FinishPeriodic
  BY <1>0, <1>1, <1>3 DEF FinishPeriodic, InitMembers
<1>4. CASE StartPool
  BY <1>0, <1>1, <1>4 DEF StartPool, MakePool
<1>5. CASE RegisterHandlers
  BY <1>0, <1>1, <1>5 DEF RegisterHandlers
<1>6. ASSUME NEW i \in Interfaces, Bind(i) PROVE Silent'
  BY <1>0, <1>1, <1>6 DEF Bind
<1>7. ASSUME NEW i \in Interfaces, StartListening(i) PROVE Silent'
  BY <1>0, <1>1, <1>7 DEF StartListening
<1>8. ASSUME NEW i \in Interfaces, RegisterInterface(i) PROVE Silent'
  BY <1>0, <1>1, <1>8 DEF RegisterInterface
<1>9. CASE EndDerived
  BY <1>0, <1>1, <1>9 DEF EndDerived
<1>24. CASE EndPeriodicMembers
  BY <1>0, <1>1, <1>24 DEF EndPeriodicMembers, DestroyMembers
<1>10. CASE DestroyPool
  BY <1>0, <1>1, <1>10 DEF DestroyPool, DtorStop, DtorNotify, DtorMembers, DtorJoin, Woken, At
<1>11. CASE InterfacesTurn
  BY <1>0, <1>1, <1>11 DEF InterfacesTurn
<1>12. ASSUME NEW i \in Interfaces, ShutInterface(i) PROVE Silent'
  BY <1>0, <1>1, <1>12 DEF ShutInterface
<1>13. ASSUME NEW i \in Interfaces, JoinInterface(i) PROVE Silent'
  BY <1>0, <1>1, <1>13 DEF JoinInterface
<1>14. CASE Exit
  BY <1>0, <1>1, <1>14 DEF Exit, StopThread, Idle, At
<1>15. ASSUME NEW i \in Interfaces, Arrive(i) PROVE Silent'
  BY <1>0, <1>1, <1>15 DEF Arrive
<1>16. ASSUME NEW i \in Interfaces, Receive(i) PROVE Silent'
  BY <1>0, <1>1, <1>16 DEF Receive
<1>17. ASSUME NEW i \in Interfaces, Submit(i) PROVE Silent'
  BY <1>0, <1>1, <1>17 DEF Submit, Enqueue
<1>18. ASSUME NEW i \in Interfaces, SubmitNotify(i) PROVE Silent'
  BY <1>0, <1>1, <1>18 DEF SubmitNotify, NotifyOne, At, Woken
<1>19. ASSUME NEW i \in Interfaces, ReceiveEnd(i) PROVE Silent'
  BY <1>0, <1>1, <1>19 DEF ReceiveEnd
<1>20. ASSUME NEW w \in Workers, WorkerStep(w) PROVE Silent'
  BY <1>0, <1>1, <1>20
     DEF WorkerStep, WorkerCheck, WorkerSleep, WorkerExit, WorkerTake, LockOutcomes, Go, HasLock
<1>21. ASSUME NEW w \in Workers, Handle(w) PROVE Silent'
  BY <1>0, <1>1, <1>21 DEF Handle, WorkerReturn
<1>22. CASE PeriodicStep
  BY <1>0, <1>1, <1>22
     DEF PeriodicStep, PeriodicCheck, PeriodicLock, PeriodicWake, PeriodicReturn
<1>23. CASE Request
  BY <1>0, <1>1, <1>23 DEF Request
<1> QED
    BY <1>2, <1>3, <1>4, <1>5, <1>6, <1>7, <1>8, <1>9, <1>10, <1>11, <1>12, <1>13, <1>14,
     <1>15, <1>16, <1>17, <1>18, <1>19, <1>20, <1>21, <1>22, <1>23, <1>24 DEF Next, MainStep,
     ReceiverStep

---------------------------------------------------------------------------
(* Types.                                                                  *)

LEMMA PoolTypesKept ==
    ASSUME NodeInv, Next
    PROVE  PoolTypeOK'
<1> USE DEF PoolTypeOK, poolVars, nodeVars, periodicVars
<1>0. PoolTypeOK /\ Holding
  BY DEF NodeInv, NodeTypeOK
<1>1. Submitters = Interfaces
  BY NodeAssumption
<1>2. CASE StartPeriodic
  BY <1>0, <1>1, <1>2 DEF StartPeriodic, StartThread
<1>3. CASE FinishPeriodic
  BY <1>0, <1>1, <1>3 DEF FinishPeriodic, InitMembers
<1>4. CASE StartPool
  BY <1>0, <1>1, <1>4 DEF StartPool, MakePool, Pcs
<1>5. CASE RegisterHandlers
  BY <1>0, <1>1, <1>5 DEF RegisterHandlers
<1>6. ASSUME NEW i \in Interfaces, Bind(i) PROVE PoolTypeOK'
  BY <1>0, <1>1, <1>6 DEF Bind
<1>7. ASSUME NEW i \in Interfaces, StartListening(i) PROVE PoolTypeOK'
  BY <1>0, <1>1, <1>7 DEF StartListening
<1>8. ASSUME NEW i \in Interfaces, RegisterInterface(i) PROVE PoolTypeOK'
  BY <1>0, <1>1, <1>8 DEF RegisterInterface
<1>9. CASE EndDerived
  BY <1>0, <1>1, <1>9 DEF EndDerived
<1>24. CASE EndPeriodicMembers
  BY <1>0, <1>1, <1>24 DEF EndPeriodicMembers, DestroyMembers
<1>10. CASE DestroyPool
  BY <1>0, <1>1, <1>10
     DEF DestroyPool, DtorStop, DtorNotify, DtorMembers, DtorJoin, Woken, At, Pcs
<1>11. CASE InterfacesTurn
  BY <1>0, <1>1, <1>11 DEF InterfacesTurn
<1>12. ASSUME NEW i \in Interfaces, ShutInterface(i) PROVE PoolTypeOK'
  BY <1>0, <1>1, <1>12 DEF ShutInterface
<1>13. ASSUME NEW i \in Interfaces, JoinInterface(i) PROVE PoolTypeOK'
  BY <1>0, <1>1, <1>13 DEF JoinInterface
<1>14. CASE Exit
  BY <1>0, <1>1, <1>14 DEF Exit, StopThread
<1>15. ASSUME NEW i \in Interfaces, Arrive(i) PROVE PoolTypeOK'
  BY <1>0, <1>1, <1>15 DEF Arrive
<1>16. ASSUME NEW i \in Interfaces, Receive(i) PROVE PoolTypeOK'
  BY <1>0, <1>1, <1>16 DEF Receive
<1>17. ASSUME NEW i \in Interfaces, Submit(i) PROVE PoolTypeOK'
  BY <1>0, <1>1, <1>17 DEF Submit, Enqueue, Holding
<1>18. ASSUME NEW i \in Interfaces, SubmitNotify(i) PROVE PoolTypeOK'
  BY <1>0, <1>1, <1>18 DEF SubmitNotify, NotifyOne, At, Woken, Pcs
<1>19. ASSUME NEW i \in Interfaces, ReceiveEnd(i) PROVE PoolTypeOK'
  BY <1>0, <1>1, <1>19 DEF ReceiveEnd
<1>20. ASSUME NEW w \in Workers, WorkerStep(w) PROVE PoolTypeOK'
  <2>1. CASE WorkerCheck(w) \/ WorkerSleep(w) \/ WorkerExit(w)
    <3>1. UNCHANGED <<pool, tasks, stop, notifying>>
      BY <2>1 DEF WorkerCheck, WorkerSleep, WorkerExit
    <3>2. \E pc \in {"lock", "asleep", "exited"} : worker' = [worker EXCEPT ![w].pc = pc]
      BY <2>1 DEF WorkerCheck, WorkerSleep, WorkerExit, Go
    <3> QED
      BY <1>0, <3>1, <3>2 DEF Pcs
  <2>2. CASE WorkerTake(w)
    <3>1. UNCHANGED <<pool, stop, notifying>> /\ tasks # <<>>
      BY <2>2 DEF WorkerTake
    <3>2. \/ UNCHANGED <<worker, tasks>>
          \/ /\ worker' = [worker EXCEPT ![w] = [pc |-> "run", task |-> Head(tasks)]]
             /\ tasks' = Tail(tasks)
      BY <2>2 DEF WorkerTake
    <3>3. Head(tasks) \in Tasks /\ Tail(tasks) \in Seq(Tasks)
      BY <1>0, <3>1
    <3> DEFINE h == Head(tasks)
               r == Tail(tasks)
    <3>4. UNCHANGED <<worker, tasks>> \/ (worker' = [worker EXCEPT ![w] = [pc |-> "run", task |-> h]] /\ tasks' = r)
      BY <3>2
    <3>5. h \in Tasks /\ r \in Seq(Tasks)
      BY <3>3
    <3> HIDE DEF h, r
    <3> QED
      BY <1>0, <3>1, <3>4, <3>5 DEF Pcs
  <2> QED
    BY <1>20, <2>1, <2>2 DEF WorkerStep
<1>21. ASSUME NEW w \in Workers, Handle(w) PROVE PoolTypeOK'
  BY <1>0, <1>1, <1>21 DEF Handle, WorkerReturn, Pcs
<1>22. CASE PeriodicStep
  BY <1>0, <1>1, <1>22
     DEF PeriodicStep, PeriodicCheck, PeriodicLock, PeriodicWake, PeriodicReturn
<1>23. CASE Request
  BY <1>0, <1>1, <1>23 DEF Request
<1> QED
    BY <1>2, <1>3, <1>4, <1>5, <1>6, <1>7, <1>8, <1>9, <1>10, <1>11, <1>12, <1>13, <1>14,
     <1>15, <1>16, <1>17, <1>18, <1>19, <1>20, <1>21, <1>22, <1>23, <1>24 DEF Next, MainStep,
     ReceiverStep

\* The types of the threads' and the node's own variables.
OwnTypeOK ==
    /\ PeriodicTypeOK
    /\ failed \in {"no", "pool", "tasks", "locks", "handler", "request"}
    /\ main \in MainStages
    /\ request \in {"none", "asleep", "done"}
    /\ quiet \in BOOLEAN

LEMMA OwnTypesKept ==
    ASSUME NodeInv, Next
    PROVE  OwnTypeOK'
<1> USE DEF OwnTypeOK, PeriodicTypeOK, poolVars, nodeVars, periodicVars
<1>0. OwnTypeOK
  BY Types DEF NodeInv, NodeTypeOK
<1>1. Kind \in {"host", "router"}
  BY NodeAssumption
<1>2. CASE StartPeriodic
  BY <1>0, <1>1, <1>2 DEF StartPeriodic, StartThread
<1>3. CASE FinishPeriodic
  BY <1>0, <1>1, <1>3 DEF FinishPeriodic, InitMembers
<1>4. CASE StartPool
  BY <1>0, <1>1, <1>4 DEF StartPool, MakePool, MainStages
<1>5. CASE RegisterHandlers
  BY <1>0, <1>1, <1>5 DEF RegisterHandlers, MainStages
<1>6. ASSUME NEW i \in Interfaces, Bind(i) PROVE OwnTypeOK'
  BY <1>0, <1>1, <1>6 DEF Bind
<1>7. ASSUME NEW i \in Interfaces, StartListening(i) PROVE OwnTypeOK'
  BY <1>0, <1>1, <1>7 DEF StartListening
<1>8. ASSUME NEW i \in Interfaces, RegisterInterface(i) PROVE OwnTypeOK'
  BY <1>0, <1>1, <1>8 DEF RegisterInterface, MainStages
<1>9. CASE EndDerived
  BY <1>0, <1>1, <1>9 DEF EndDerived, MainStages
<1>24. CASE EndPeriodicMembers
  BY <1>0, <1>1, <1>24 DEF EndPeriodicMembers, DestroyMembers
<1>10. CASE DestroyPool
  BY <1>0, <1>1, <1>10 DEF DestroyPool, DtorStop, DtorNotify, DtorMembers, DtorJoin, Woken, At
<1>11. CASE InterfacesTurn
  BY <1>0, <1>1, <1>11 DEF InterfacesTurn, MainStages
<1>12. ASSUME NEW i \in Interfaces, ShutInterface(i) PROVE OwnTypeOK'
  BY <1>0, <1>1, <1>12 DEF ShutInterface
<1>13. ASSUME NEW i \in Interfaces, JoinInterface(i) PROVE OwnTypeOK'
  BY <1>0, <1>1, <1>13 DEF JoinInterface, MainStages
<1>14. CASE Exit
  BY <1>0, <1>1, <1>14 DEF Exit, StopThread, MainStages, Idle
<1>15. ASSUME NEW i \in Interfaces, Arrive(i) PROVE OwnTypeOK'
  BY <1>0, <1>1, <1>15 DEF Arrive
<1>16. ASSUME NEW i \in Interfaces, Receive(i) PROVE OwnTypeOK'
  BY <1>0, <1>1, <1>16 DEF Receive
<1>17. ASSUME NEW i \in Interfaces, Submit(i) PROVE OwnTypeOK'
  BY <1>0, <1>1, <1>17 DEF Submit, Enqueue
<1>18. ASSUME NEW i \in Interfaces, SubmitNotify(i) PROVE OwnTypeOK'
  BY <1>0, <1>1, <1>18 DEF SubmitNotify, NotifyOne, At, Woken
<1>19. ASSUME NEW i \in Interfaces, ReceiveEnd(i) PROVE OwnTypeOK'
  BY <1>0, <1>1, <1>19 DEF ReceiveEnd
<1>20. ASSUME NEW w \in Workers, WorkerStep(w) PROVE OwnTypeOK'
  BY <1>0, <1>1, <1>20
     DEF WorkerStep, WorkerCheck, WorkerSleep, WorkerExit, WorkerTake, LockOutcomes, Go, HasLock
<1>21. ASSUME NEW w \in Workers, Handle(w) PROVE OwnTypeOK'
  BY <1>0, <1>1, <1>21 DEF Handle, WorkerReturn
<1>22. CASE PeriodicStep
  BY <1>0, <1>1, <1>22
     DEF PeriodicStep, PeriodicCheck, PeriodicLock, PeriodicWake, PeriodicReturn, Reads
<1>23. CASE Request
  BY <1>0, <1>1, <1>23 DEF Request
<1> QED
    BY <1>2, <1>3, <1>4, <1>5, <1>6, <1>7, <1>8, <1>9, <1>10, <1>11, <1>12, <1>13, <1>14,
     <1>15, <1>16, <1>17, <1>18, <1>19, <1>20, <1>21, <1>22, <1>23, <1>24 DEF Next, MainStep,
     ReceiverStep

\* The types of the interfaces' variables.
InterfaceTypeOK ==
    /\ iface \in [Interfaces -> {"none", "bound", "listening", "known", "shut", "gone"}]
    /\ recv \in [Interfaces -> [pc : {"none", "recv", "submit", "exited"},
                                task : Tasks \cup {NoTask}]]
    /\ inbox \in [Interfaces -> Seq(Tasks)]
    /\ arrived \in 0 .. MaxDatagrams
    /\ Holding

LEMMA InterfaceTypesKept ==
    ASSUME NodeInv, Next
    PROVE  InterfaceTypeOK'
<1> USE DEF InterfaceTypeOK, Holding, poolVars, nodeVars, periodicVars
<1>0. InterfaceTypeOK
  BY DEF NodeInv, NodeTypeOK
<1>1. MaxDatagrams \in Nat /\ Tasks = Interfaces \X (1 .. MaxDatagrams)
  BY NodeAssumption
<1>2. CASE StartPeriodic
  BY <1>0, <1>1, <1>2 DEF StartPeriodic, StartThread
<1>3. CASE FinishPeriodic
  BY <1>0, <1>1, <1>3 DEF FinishPeriodic, InitMembers
<1>4. CASE StartPool
  BY <1>0, <1>1, <1>4 DEF StartPool, MakePool
<1>5. CASE RegisterHandlers
  BY <1>0, <1>1, <1>5 DEF RegisterHandlers
<1>6. ASSUME NEW i \in Interfaces, Bind(i) PROVE InterfaceTypeOK'
  BY <1>0, <1>1, <1>6 DEF Bind
<1>7. ASSUME NEW i \in Interfaces, StartListening(i) PROVE InterfaceTypeOK'
  BY <1>0, <1>1, <1>7 DEF StartListening
<1>8. ASSUME NEW i \in Interfaces, RegisterInterface(i) PROVE InterfaceTypeOK'
  BY <1>0, <1>1, <1>8 DEF RegisterInterface
<1>9. CASE EndDerived
  BY <1>0, <1>1, <1>9 DEF EndDerived
<1>24. CASE EndPeriodicMembers
  BY <1>0, <1>1, <1>24 DEF EndPeriodicMembers, DestroyMembers
<1>10. CASE DestroyPool
  BY <1>0, <1>1, <1>10 DEF DestroyPool, DtorStop, DtorNotify, DtorMembers, DtorJoin, Woken, At
<1>11. CASE InterfacesTurn
  BY <1>0, <1>1, <1>11 DEF InterfacesTurn
<1>12. ASSUME NEW i \in Interfaces, ShutInterface(i) PROVE InterfaceTypeOK'
  BY <1>0, <1>1, <1>12 DEF ShutInterface
<1>13. ASSUME NEW i \in Interfaces, JoinInterface(i) PROVE InterfaceTypeOK'
  BY <1>0, <1>1, <1>13 DEF JoinInterface
<1>14. CASE Exit
  BY <1>0, <1>1, <1>14 DEF Exit, StopThread
<1>15. ASSUME NEW i \in Interfaces, Arrive(i) PROVE InterfaceTypeOK'
  BY <1>0, <1>1, <1>15 DEF Arrive
<1>16. ASSUME NEW i \in Interfaces, Receive(i) PROVE InterfaceTypeOK'
  <2> DEFINE q == inbox[i]
             r == [recv EXCEPT ![i] = [pc |-> "submit", task |-> Head(q)]]
  <2>1. /\ q # <<>> /\ inbox' = [inbox EXCEPT ![i] = Tail(q)] /\ recv' \in {recv, r}
        /\ UNCHANGED <<iface, arrived>>
    BY <1>16 DEF Receive
  <2>2. q \in Seq(Tasks)
    BY <1>0
  <2>3. Head(q) \in Tasks /\ Tail(q) \in Seq(Tasks)
    <3> HIDE DEF q
    <3> QED
      BY <2>1, <2>2
  <2> HIDE DEF q
  <2>4. inbox' \in [Interfaces -> Seq(Tasks)]
    BY <1>0, <2>1, <2>3
  <2>5. /\ recv' \in [Interfaces -> [pc : {"none", "recv", "submit", "exited"},
                                     task : Tasks \cup {NoTask}]]
        /\ \A j \in Interfaces : recv'[j].pc = "submit" => recv'[j].task \in Tasks
    <3>1. CASE recv' = recv
      BY <1>0, <3>1
    <3>2. CASE recv' = r
      <4> DEFINE h == Head(q)
                 e == [pc |-> "submit", task |-> h]
      <4>1. h \in Tasks
        BY <2>3
      <4>2. recv' = [recv EXCEPT ![i] = e]
        BY <3>2
      <4> HIDE DEF h
      <4>3. e \in [pc : {"none", "recv", "submit", "exited"}, task : Tasks \cup {NoTask}]
            /\ e.task \in Tasks
        BY <4>1
      <4> HIDE DEF e
      <4> QED
        BY <1>0, <4>2, <4>3
    <3> QED
      BY <2>1, <3>1, <3>2
  <2> QED
    BY <1>0, <2>1, <2>4, <2>5
<1>17. ASSUME NEW i \in Interfaces, Submit(i) PROVE InterfaceTypeOK'
  BY <1>0, <1>1, <1>17 DEF Submit, Enqueue
<1>18. ASSUME NEW i \in Interfaces, SubmitNotify(i) PROVE InterfaceTypeOK'
  BY <1>0, <1>1, <1>18 DEF SubmitNotify, NotifyOne, At, Woken
<1>19. ASSUME NEW i \in Interfaces, ReceiveEnd(i) PROVE InterfaceTypeOK'
  BY <1>0, <1>1, <1>19 DEF ReceiveEnd
<1>20. ASSUME NEW w \in Workers, WorkerStep(w) PROVE InterfaceTypeOK'
  BY <1>0, <1>1, <1>20
     DEF WorkerStep, WorkerCheck, WorkerSleep, WorkerExit, WorkerTake, LockOutcomes, Go, HasLock
<1>21. ASSUME NEW w \in Workers, Handle(w) PROVE InterfaceTypeOK'
  BY <1>0, <1>1, <1>21 DEF Handle, WorkerReturn
<1>22. CASE PeriodicStep
  BY <1>0, <1>1, <1>22
     DEF PeriodicStep, PeriodicCheck, PeriodicLock, PeriodicWake, PeriodicReturn
<1>23. CASE Request
  BY <1>0, <1>1, <1>23 DEF Request
<1> QED
    BY <1>2, <1>3, <1>4, <1>5, <1>6, <1>7, <1>8, <1>9, <1>10, <1>11, <1>12, <1>13, <1>14,
     <1>15, <1>16, <1>17, <1>18, <1>19, <1>20, <1>21, <1>22, <1>23, <1>24 DEF Next, MainStep,
     ReceiverStep

LEMMA TypesKept ==
    ASSUME NodeInv, Next
    PROVE  NodeTypeOK' /\ Holding'
BY PoolTypesKept, OwnTypesKept, InterfaceTypesKept, StagesAre
   DEF OwnTypeOK, InterfaceTypeOK, NodeTypeOK

---------------------------------------------------------------------------
(* The pool conserves work.                                                *)

\* A step that leaves the pool as it is.
LEMMA PoolUntouched ==
    ASSUME WorkConserving, UNCHANGED poolVars
    PROVE  WorkConserving'
BY DEF WorkConserving, poolVars, OnTheWay, At

\* No worker sleeps before the pool is made or after it was told to stop.
LEMMA NobodyWaits ==
    ASSUME pool' # "alive" \/ \A w \in Workers : worker'[w].pc # "asleep"
    PROVE  WorkConserving'
BY DEF WorkConserving, At

\* The worker w leaves OnTheWay, enters it, or neither.
LEMMA OneWorker ==
    ASSUME NodeTypeOK, NEW w \in Workers, NEW pc, NEW tk,
           \/ worker' = [worker EXCEPT ![w].pc = pc]
           \/ worker' = [worker EXCEPT ![w] = [pc |-> pc, task |-> tk]]
    PROVE  /\ At("asleep")' \ {w} = At("asleep") \ {w}
           /\ w \in At("asleep")' <=> pc = "asleep"
           /\ OnTheWay' = IF pc \in {"check", "lock", "woken"} THEN OnTheWay \cup {w}
                                                              ELSE OnTheWay \ {w}
<1>1. worker \in [Workers -> [pc : Pcs, task : Tasks \cup {NoTask}]]
  BY Types
<1>2. worker'[w].pc = pc /\ \A x \in Workers : x # w => worker'[x] = worker[x]
  BY <1>1
<1> QED
  BY <1>1, <1>2 DEF At, OnTheWay

LEMMA NotifyConserves ==
    ASSUME NodeInv, NEW s \in Interfaces, NotifyOne(s)
    PROVE  WorkConserving'
<1>1. NodeTypeOK /\ WorkConserving /\ Submitters = Interfaces
  BY NodeAssumption DEF NodeInv
<1>2. s \in notifying /\ notifying' = notifying \ {s} /\ UNCHANGED <<pool, tasks>>
  BY DEF NotifyOne
<1>3. Cardinality(notifying') = Cardinality(notifying) - 1
  BY <1>1, <1>2, Finite, FS_RemoveElement
<1>4. /\ worker \in [Workers -> [pc : Pcs, task : Tasks \cup {NoTask}]]
      /\ tasks \in Seq(Tasks)
  BY <1>1, Types
<1>5. CASE At("asleep") = {}
  <2>1. UNCHANGED worker
    BY <1>5 DEF NotifyOne
  <2> QED
    BY <1>5, <2>1, NobodyWaits DEF At
<1>6. CASE At("asleep") # {}
  <2>1. PICK w \in At("asleep") : worker' = Woken({w})
    BY <1>6 DEF NotifyOne
  <2>2. w \in Workers /\ worker[w].pc = "asleep"
    BY <2>1 DEF At
  <2>3. worker'[w].pc = "woken" /\ \A x \in Workers : x # w => worker'[x] = worker[x]
    BY <1>4, <2>1, <2>2 DEF Woken
  <2>4. OnTheWay' = OnTheWay \cup {w} /\ w \notin OnTheWay
    BY <2>2, <2>3 DEF OnTheWay, At
  <2>5. Cardinality(OnTheWay') = Cardinality(OnTheWay) + 1
    BY <1>1, <2>4, Finite, FS_AddElement
  <2>6. pool = "alive" => Len(tasks) <= Cardinality(notifying) + Cardinality(OnTheWay)
    BY <1>1, <1>6 DEF WorkConserving
  <2>7. /\ Cardinality(notifying) \in Nat /\ Cardinality(OnTheWay) \in Nat
        /\ Len(tasks) \in Nat
    BY <1>1, <1>4, Finite
  <2>8. pool' = "alive" => Len(tasks') <= Cardinality(notifying') + Cardinality(OnTheWay')
    BY <1>2, <1>3, <2>5, <2>6, <2>7
  <2> QED
    BY <2>8 DEF WorkConserving
<1> QED
  BY <1>5, <1>6

LEMMA EnqueueConserves ==
    ASSUME NodeInv, NEW s \in Interfaces, NEW t \in Tasks, Enqueue(s, t)
    PROVE  WorkConserving'
<1>1. NodeTypeOK /\ WorkConserving
  BY DEF NodeInv
<1>2. CASE Locks
  <2>1. /\ s \notin notifying /\ tasks' = Append(tasks, t) /\ notifying' = notifying \cup {s}
        /\ UNCHANGED <<pool, worker>>
    BY <1>2 DEF Enqueue
  <2>2. Cardinality(notifying') = Cardinality(notifying) + 1
    BY <1>1, <2>1, Finite, FS_AddElement
  <2>3. tasks \in Seq(Tasks) /\ Len(tasks) \in Nat /\ Len(tasks') = Len(tasks) + 1
    BY <1>1, <2>1, Types
  <2>4. At("asleep")' = At("asleep") /\ OnTheWay' = OnTheWay
    BY <2>1 DEF At, OnTheWay
  <2>5. Cardinality(notifying) \in Nat /\ Cardinality(OnTheWay) \in Nat
    BY <1>1, Finite
  <2> QED
    BY <1>1, <2>1, <2>2, <2>3, <2>4, <2>5 DEF WorkConserving
<1>3. CASE ~Locks
  BY <1>1, <1>3 DEF Enqueue, Locks, WorkConserving
<1> QED
  BY <1>2, <1>3

\* A worker that is not about to sleep, and takes at most one task.
LEMMA WorkerConserves ==
    ASSUME NodeInv, NEW w \in Workers, WorkerStep(w) \/ Handle(w)
    PROVE  WorkConserving'
<1> DEFINE n == Cardinality(notifying)
           c == Cardinality(OnTheWay)
<1>1. NodeTypeOK /\ WorkConserving /\ (pool = "alive" => ~stop)
  BY DEF NodeInv, Ordered
<1>2. IsFiniteSet(OnTheWay) /\ n \in Nat /\ c \in Nat
  BY <1>1, Finite
<1>3. tasks \in Seq(Tasks) /\ Len(tasks) \in Nat
  BY <1>1, Types
<1>4. Cardinality(OnTheWay \cup {w}) \in Nat /\ Cardinality(OnTheWay \cup {w}) >= c
  BY <1>2, FS_AddElement, SMTT(30)
<1>5. /\ Cardinality(OnTheWay \ {w}) \in Nat
      /\ Cardinality(OnTheWay \ {w}) = IF w \in OnTheWay THEN c - 1 ELSE c
  <2>1. IsFiniteSet(OnTheWay \ {w})
    BY <1>2, FS_Subset
  <2> QED
    BY <1>2, <2>1, FS_CardinalityType, FS_RemoveElement
<1>6. UNCHANGED <<pool, notifying, stop>>
  BY DEF WorkerStep, Handle, WorkerCheck, WorkerSleep, WorkerExit, WorkerTake, WorkerReturn
<1> HIDE DEF n, c
<1>7. CASE WorkerCheck(w)
  <2>1. CASE pool = "alive"
    <3>1. worker' = [worker EXCEPT ![w].pc = "lock"] /\ UNCHANGED tasks /\ worker[w].pc = "check"
      BY <1>1, <1>7, <2>1 DEF WorkerCheck, Go
    <3>2. OnTheWay' = OnTheWay \cup {w} /\ w \in OnTheWay /\ At("asleep")' = At("asleep")
      BY <1>1, <3>1, OneWorker DEF OnTheWay, At
    <3> QED
      BY <1>1, <1>6, <3>1, <3>2 DEF WorkConserving
  <2>2. CASE pool # "alive"
    BY <1>6, <2>2, NobodyWaits
  <2> QED
    BY <2>1, <2>2
<1>8. CASE WorkerSleep(w)
  <2>1. tasks' = <<>> /\ worker' = [worker EXCEPT ![w].pc = "asleep"]
    BY <1>8 DEF WorkerSleep, Go
  <2>2. OnTheWay' = OnTheWay \ {w}
    BY <1>1, <2>1, OneWorker
  <2>3. Len(tasks') = 0
    BY <2>1
  <2> QED
    BY <1>2, <1>5, <1>6, <2>2, <2>3 DEF WorkConserving, n
<1>9. CASE WorkerExit(w)
  BY <1>1, <1>6, <1>9, NobodyWaits DEF WorkerExit
<1>10. CASE WorkerTake(w)
  <2>1. CASE Locks
    <3>1. /\ worker' = [worker EXCEPT ![w] = [pc |-> "run", task |-> Head(tasks)]]
          /\ tasks' = Tail(tasks) /\ tasks # <<>> /\ HasLock(w)
      BY <1>10, <2>1 DEF WorkerTake
    <3>2. OnTheWay' = OnTheWay \ {w} /\ w \in OnTheWay /\ At("asleep")' = At("asleep")
      <4> DEFINE h == Head(tasks)
      <4>1. worker' = [worker EXCEPT ![w] = [pc |-> "run", task |-> h]]
        BY <3>1
      <4> HIDE DEF h
      <4>2. /\ At("asleep")' \ {w} = At("asleep") \ {w} /\ w \notin At("asleep")'
            /\ OnTheWay' = OnTheWay \ {w}
        <5>1. worker \in [Workers -> [pc : Pcs, task : Tasks \cup {NoTask}]]
          BY <1>1, Types
        <5>2. worker'[w].pc = "run" /\ \A x \in Workers : x # w => worker'[x] = worker[x]
          BY <4>1, <5>1
        <5> QED
          BY <5>2 DEF At, OnTheWay
      <4>3. w \in OnTheWay /\ w \notin At("asleep")
        BY <3>1 DEF OnTheWay, At, HasLock
      <4> QED
        BY <4>2, <4>3
    <3>3. Len(tasks') = Len(tasks) - 1
      BY <1>3, <3>1
    <3>4. Cardinality(OnTheWay') = c - 1
      BY <1>5, <3>2
    <3> QED
      BY <1>1, <1>2, <1>3, <1>6, <3>2, <3>3, <3>4 DEF WorkConserving, n, c
  <2>2. CASE ~Locks
    BY <1>6, <2>2, NobodyWaits DEF Locks
  <2> QED
    BY <2>1, <2>2
<1>11. CASE WorkerReturn(w)
  <2>1. /\ worker' = [worker EXCEPT ![w] = [pc |-> "check", task |-> NoTask]]
        /\ worker[w].pc = "run" /\ UNCHANGED tasks
    BY <1>11 DEF WorkerReturn
  <2>2. OnTheWay' = OnTheWay \cup {w} /\ At("asleep")' = At("asleep")
    BY <1>1, <2>1, OneWorker DEF At
  <2> QED
    BY <1>1, <1>2, <1>3, <1>4, <1>6, <2>1, <2>2 DEF WorkConserving, n, c
<1> QED
  BY <1>7, <1>8, <1>9, <1>10, <1>11 DEF WorkerStep, Handle

LEMMA WorkKept ==
    ASSUME NodeInv, Next
    PROVE  WorkConserving'
<1> USE DEF poolVars, nodeVars, periodicVars
<1>1. NodeTypeOK /\ WorkConserving /\ Holding
  BY DEF NodeInv
<1>2. CASE StartPool
  <2>1. \A w \in Workers : worker'[w].pc = "check"
    BY <1>1, <1>2, Types DEF StartPool, MakePool
  <2> QED
    BY <2>1, NobodyWaits
<1>3. CASE DestroyPool
  <2>1. pool' # "alive"
    BY <1>3 DEF DestroyPool, DtorStop, DtorNotify, DtorMembers, DtorJoin
  <2> QED
    BY <2>1, NobodyWaits
<1>4. ASSUME NEW i \in Interfaces, Submit(i) PROVE WorkConserving'
  BY <1>1, <1>4, EnqueueConserves DEF Submit, Holding
<1>5. ASSUME NEW i \in Interfaces, SubmitNotify(i) PROVE WorkConserving'
  BY <1>5, NotifyConserves DEF SubmitNotify
<1>6. ASSUME NEW w \in Workers, WorkerStep(w) \/ Handle(w) PROVE WorkConserving'
  BY <1>6, WorkerConserves
<1>7. CASE StartPeriodic \/ FinishPeriodic \/ RegisterHandlers \/ EndDerived
           \/ EndPeriodicMembers \/ InterfacesTurn \/ Exit \/ PeriodicStep \/ Request
  <2>1. UNCHANGED poolVars
    BY <1>7 DEF StartPeriodic, FinishPeriodic, RegisterHandlers, EndDerived,
                EndPeriodicMembers, InterfacesTurn, Exit, PeriodicStep, Request
  <2> QED
    BY <1>1, <2>1, PoolUntouched
<1>8. ASSUME NEW i \in Interfaces,
             \/ Bind(i) \/ StartListening(i) \/ RegisterInterface(i) \/ ShutInterface(i)
             \/ JoinInterface(i) \/ Arrive(i) \/ Receive(i) \/ ReceiveEnd(i)
      PROVE  WorkConserving'
  <2>1. UNCHANGED poolVars
    BY <1>8 DEF Bind, StartListening, RegisterInterface, ShutInterface, JoinInterface,
                Arrive, Receive, ReceiveEnd
  <2> QED
    BY <1>1, <2>1, PoolUntouched
<1> QED
  BY <1>2, <1>3, <1>4, <1>5, <1>6, <1>7, <1>8 DEF Next, MainStep, ReceiverStep

---------------------------------------------------------------------------
(* The theorems.                                                           *)

LEMMA NextInv == NodeInv /\ [Next]_vars => NodeInv'
<1> SUFFICES ASSUME NodeInv, [Next]_vars PROVE NodeInv'
  OBVIOUS
<1>1. CASE Next
  BY <1>1, TypesKept, OrderedKept, SilentKept, WorkKept DEF NodeInv
<1>2. CASE UNCHANGED vars
  <2> USE <1>2 DEF vars, poolVars, periodicVars, nodeVars
  <2>1. NodeTypeOK' /\ Holding'
    BY DEF NodeInv, NodeTypeOK, PoolTypeOK, PeriodicTypeOK, Holding
  <2>2. Ordered' /\ Silent'
    BY DEF NodeInv, Ordered, Ending, Silent, Alive
  <2>3. WorkConserving'
    BY PoolUntouched DEF NodeInv
  <2> QED
    BY <2>1, <2>2, <2>3 DEF NodeInv
<1> QED
  BY <1>1, <1>2

\* The invariant holds whatever arrives, and whenever the node is destroyed.
THEOREM NodeInvariant == Spec => []NodeInv
BY InitInv, NextInv, PTL DEF Spec

\* Every variable of a node keeps its type: what workers take is a datagram.
THEOREM NodeTypeCorrect == Spec => []NodeTypeOK
<1>1. NodeInv => NodeTypeOK
  BY DEF NodeInv
<1> QED
  BY <1>1, NodeInvariant, PTL

\* No worker sleeps while a task waits that nobody will take care of, for any
\* number of workers and submitting threads.
THEOREM WorkIsConserved == Spec => []WorkConserving
<1>1. NodeInv => WorkConserving
  BY DEF NodeInv
<1> QED
  BY <1>1, NodeInvariant, PTL

\* The address that a task refers to is alive as long as the task waits or runs.
THEOREM AddressStaysAlive == Spec => []AddressAlive
<1>1. NodeInv => AddressAlive
  <2> SUFFICES ASSUME NodeInv, NEW t \in Tasks,
                      Waiting(t) \/ \E w \in Workers : Running(w, t)
               PROVE  iface[t[1]] # "gone"
    BY DEF AddressAlive
  <2>1. t[1] \in Interfaces
    BY NodeAssumption
  <2>2. pool # "gone"
    BY DEF NodeInv, Ordered, Waiting, Locks, Running
  <2> QED
    BY <2>1, <2>2 DEF NodeInv, Ordered
<1> QED
  BY <1>1, NodeInvariant, PTL

\* A node that is idle when it exits and hears nothing more ends without an
\* access to a pool, table, handler or interface that is destroyed: only the
\* mutex and the queue inside a ThreadPool or PeriodicThread may be used after
\* their end, by the threads that the same object joins too late.
THEOREM QuietExitIsSafe == Spec => []QuietExit
<1>1. NodeInv => QuietExit
  BY DEF NodeInv, Silent, QuietExit
<1> QED
  BY <1>1, NodeInvariant, PTL
=============================================================================
