---------------------------- MODULE MCForwarding ----------------------------
(***************************************************************************)
(* Forwarding on the row of MCRip, with a host at either end.              *)
(***************************************************************************)
EXTENDS Forwarding, MCRip

RowHosts   == {"g", "h"}
RowHome    == [x \in RowHosts |-> IF x = "g" THEN "ab" ELSE "cx"]
RowGateway == [x \in RowHosts |-> IF x = "g" THEN "a" ELSE "c"]

\* From one end to the other, and from the far end to its router's other address.
RowFlows == {<<"g", <<"h", "cx">>>>, <<"h", <<"c", "bc">>>>}

RowSwitchedToo == RowSwitched \cup {<<"g", "ab">>}

\* The row is a network of the kind that the properties are about.
ASSUME RowAssumption == Acyclic /\ Lasting
=============================================================================
