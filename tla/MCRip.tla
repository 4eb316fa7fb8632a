------------------------------- MODULE MCRip -------------------------------
(***************************************************************************)
(* Rip on a small network.                                                 *)
(***************************************************************************)
EXTENDS Rip

\* A row of three routers with a stub subnet at the far end.
RowRouters  == {"a", "b", "c"}
RowLinks    == {"ab", "bc", "cx"}
RowAttached == [l \in RowLinks |-> CASE l = "ab" -> {"a", "b"}
                                     [] l = "bc" -> {"b", "c"}
                                     [] l = "cx" -> {"c"}]

\* Hops from r to l in at most k steps, by exhaustion over the routers reached.
Within(att, k, r) ==
    LET reach[i \in 0 .. k] ==
            IF i = 0 THEN {r}
            ELSE reach[i - 1] \cup
                 UNION {att[l] : l \in {x \in DOMAIN att : att[x] \cap reach[i - 1] # {}}}
    IN reach[k]

Hops(rs, att) ==
    [r \in rs |-> [l \in DOMAIN att |->
        CHOOSE k \in 0 .. Cardinality(rs) :
            /\ att[l] \cap Within(att, k, r) # {}
            /\ \A j \in 0 .. k - 1 : att[l] \cap Within(att, j, r) = {}]]

RowSwitched == {<<"c", "cx">>}

RowDist == Hops(RowRouters, RowAttached)

---------------------------------------------------------------------------
(* A statement of the source that the code does not keep; see the README.  *)

\* routing_table.hpp:106, "Mark the local route with the given interface as
\* having infinite cost.", and router_node.cpp:81, "Set local route metric to
\* infinity": of disableInterface().
DisabledIsInfinite ==
    \A a \in Addresses : ~up[a] => table[a[1]][a[2]].metric = Infinity
=============================================================================
