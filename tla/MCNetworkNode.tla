--------------------------- MODULE MCNetworkNode ---------------------------
(***************************************************************************)
(* NetworkNode on a small instance.                                        *)
(***************************************************************************)
EXTENDS NetworkNode

MCInterfaces == 1 .. 2
MCNoTask     == <<>>
MCTasks      == MCInterfaces \X (1 .. MaxDatagrams)

---------------------------------------------------------------------------
(* Statements that the code does not keep; see the README.                 *)

\* The threads run their tasks "at a constant rate" (router_node.hpp:44) until
\* they are stopped.
PeriodicRuns == thread = "check" ~> (thread = "task" \/ stopped)

\* A node that is idle when it is destroyed, and stays so, ends without an
\* access to anything destroyed.  Workers and periodic threads are joined after
\* their own mutex is gone.
QuietExitIsClean == quiet => Alive
=============================================================================
