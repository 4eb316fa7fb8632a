---------------------------- MODULE MCContainers ----------------------------
(***************************************************************************)
(* A small instance of Containers: the upper half of the addresses is the  *)
(* local subnet, with the gateways; below there is a subnet, one inside    *)
(* it, and one inside that.                                                *)
(***************************************************************************)
EXTENDS Containers

MCLocal   == <<4, 1>>
MCSubnets == {<<0, 1>>, <<2, 2>>, <<3, 3>>}

ASSUME HypothesesHold == NetworksApart /\ GatewaysLocal
=============================================================================
