----------------------------- MODULE Forwarding -----------------------------
(***************************************************************************)
(* A datagram on its way through the routers of Rip, while their tables    *)
(* change: sendIp_() at its source, recvDatagram() and datagramHandler_()  *)
(* wherever it arrives.  Hosts do not speak RIP: they have the route of    *)
(* their own link and a static default route to a router on it.            *)
(*                                                                         *)
(* Handling a datagram changes no table, so that one datagram at a time    *)
(* sees all that any number of them would.                                 *)
(***************************************************************************)
EXTENDS Rip

CONSTANTS Hosts,
          Home,      \* the link of each host
          Gateway,   \* the router that a host's default route names
          Flows,     \* who sends, and to which address
          InitTTL    \* INIT_TTL (16 in the program, like RipMessage::INFINITY)

ASSUME ForwardingAssumption ==
    /\ Hosts \cap Routers = {}
    /\ Home \in [Hosts -> Links]
    /\ \A h \in Hosts : Gateway[h] \in Attached[Home[h]]
    /\ Flows \subseteq (Routers \cup Hosts) \X (Addresses \cup {<<h, Home[h]>> : h \in Hosts})
    /\ InitTTL \in Nat \ {0}

VARIABLES dgram,    \* the datagram in flight, or NoDatagram
          hostUp    \* NetworkInterface::isUp_ of each host's interface

fvars == <<vars, dgram, hostUp>>

HostAddress(h) == <<h, Home[h]>>
HostAddresses  == {HostAddress(h) : h \in Hosts}
Interfaces     == Addresses \cup HostAddresses

\* at is the interface the datagram is sent to; check is the ttl for which the
\* checksum was computed: two headers that differ in the ttl differ in it.
NoDatagram == <<>>
Datagram   == [dst : Interfaces, at : Interfaces, ttl : 0 .. InitTTL, check : 0 .. InitTTL]

FInit == Init /\ dgram = NoDatagram /\ hostUp = [h \in Hosts |-> TRUE]

---------------------------------------------------------------------------
(* The next hop: an interface of the node, and an address to send to.      *)

Unreachable == [out |-> NoGateway, hop |-> NoGateway]

\* queryRoutingTable_() of a router: the route to dst, and if that has a
\* gateway the route to it, whose interface is used.  GatewayOnLink says that
\* this one has an interface.
RouterHop(r, dst) ==
    LET e == table[r][dst[2]]
    IN CASE e.type = "NONE"  -> Unreachable
         [] e.type = "LOCAL" -> [out |-> <<r, dst[2]>>, hop |-> dst]
         [] e.type = "RIP"   -> [out |-> <<r, e.gateway[2]>>, hop |-> e.gateway]

\* The same on a host: the local route is longer than the default route.
HostHop(h, dst) ==
    [out |-> HostAddress(h),
     hop |-> IF dst[2] = Home[h] THEN dst ELSE <<Gateway[h], Home[h]>>]

queryRoutingTable(n, dst) == IF n \in Hosts THEN HostHop(n, dst) ELSE RouterHop(n, dst)

---------------------------------------------------------------------------
(* The link layer.                                                         *)

IsOn(a) == IF a[1] \in Hosts THEN hostUp[a[1]] ELSE up[a]

\* The other interfaces of the link, which the configuration lists.
Reaches(out, hop) == hop \in Interfaces /\ hop[2] = out[2] /\ hop # out

\* sendDatagram(): the datagram as it leaves, or nothing.
sendDatagram(d, out, hop) ==
    IF out # NoGateway /\ IsOn(out) /\ Reaches(out, hop) THEN [d EXCEPT !.at = hop]
                                                         ELSE NoDatagram

\* The first half of recvDatagram(): the checksum of the header as it came,
\* then the ttl.
Valid(d) == d.check = d.ttl /\ d.ttl # 0

Decremented(d) == [d EXCEPT !.ttl = @ - 1]

\* Mutant of updateChecksum: it is forgotten.
checksumKept(d) == d

updateChecksum(d) == [d EXCEPT !.check = d.ttl]

---------------------------------------------------------------------------

\* sendIpTest() -> sendIp_() of node n to the address of another.
SendIp(n, dst) ==
    LET hop == queryRoutingTable(n, dst)
        d   == [dst |-> dst, at |-> dst, ttl |-> InitTTL, check |-> InitTTL]
    IN /\ dgram = NoDatagram
       /\ dst[1] # n
       /\ dgram' = sendDatagram(d, hop.out, hop.hop)
       /\ UNCHANGED <<vars, hostUp>>

\* A router takes what is for one of its addresses and forwards the rest.
RouterHandler ==
    LET d   == Decremented(dgram)
        hop == queryRoutingTable(dgram.at[1], d.dst)
    IN /\ dgram # NoDatagram
       /\ dgram.at[1] \in Routers
       /\ dgram' = IF Valid(dgram) /\ IsOn(dgram.at) /\ d.dst[1] # d.at[1]
                   THEN sendDatagram(updateChecksum(d), hop.out, hop.hop)
                   ELSE NoDatagram
       /\ UNCHANGED <<vars, hostUp>>

\* A host takes what is for the interface's address and discards the rest.
HostHandler ==
    /\ dgram # NoDatagram
    /\ dgram.at[1] \in Hosts
    /\ dgram' = NoDatagram
    /\ UNCHANGED <<vars, hostUp>>

\* The datagram is lost in the UDP below, or its task never runs.
LoseDatagram ==
    /\ dgram # NoDatagram
    /\ dgram' = NoDatagram
    /\ UNCHANGED <<vars, hostUp>>

\* NetworkNode's enableInterface() and disableInterface(): the local route is
\* looked up and left as it is.
SwitchHost(h) ==
    /\ HostAddress(h) \in Switched
    /\ hostUp' = [hostUp EXCEPT ![h] = ~@]
    /\ UNCHANGED <<vars, dgram>>

FNext ==
    \/ Step /\ UNCHANGED <<dgram, hostUp>>
    \/ \E f \in Flows : SendIp(f[1], f[2])
    \/ RouterHandler
    \/ HostHandler
    \/ LoseDatagram
    \/ \E h \in Hosts : SwitchHost(h)

FSpec == FInit /\ [][FNext]_fvars

---------------------------------------------------------------------------
(* Properties.                                                             *)

\* No router ever drops a datagram on its way: when it arrives there, its
\* checksum is the one of the ttl that the last hop left (recvDatagram()
\* decrements the ttl and computes nothing, datagramHandler_() of the router
\* computes the checksum anew), and the ttl lasts for as many routers as RIP
\* counts before it calls a subnet unreachable.  It is never decremented below 0,
\* where the 8 bits of the header would wrap.
AliveAtRouters ==
    dgram # NoDatagram =>
        /\ dgram \in Datagram
        /\ dgram.at[1] \in Routers => Valid(dgram)

\* On a network without cycles every hop brings a datagram nearer to the
\* subnet it is for, also while tables are stale, routes are withdrawn and
\* updates get lost: none goes back to where it came from.  That is what the
\* poisoned reverse of sendRipMessage_() is for; without it an outage makes
\* two routers each other's gateways.
Far(d) == IF d.at = d.dst THEN 0 ELSE Dist[d.at[1]][d.dst[2]] + 1

NearerEachHop ==
    [][dgram # NoDatagram /\ dgram' # NoDatagram /\ dgram' # dgram
          => Far(dgram') < Far(dgram)]_fvars

---------------------------------------------------------------------------
(* What the two properties take the network to be.                         *)

\* A network without cycles, of links between two routers each: a router that
\* is not on a subnet has at most one neighbouring interface that is no farther
\* from it.  (Poisoned reverse goes by the gateway's address, so that a third
\* router on a link is told a route which leads back over the same link.)
Acyclic ==
    /\ \A r \in Routers, n \in Links : Dist[r][n] = 0 => r \in Attached[n]
    /\ \A r \in Routers, n \in Links : \A a, b \in Neighbours(r) :
          /\ 0 < Dist[r][n] /\ Dist[r][n] < Infinity
          /\ Dist[a[1]][n] <= Dist[r][n] /\ Dist[b[1]][n] <= Dist[r][n]
          => a = b

\* The routers that a datagram for dst visits from r on when every hop brings
\* it nearer: the last one is dst itself if that is a router's.
Visits(r, dst) ==
    IF r = dst[1] THEN 1 ELSE Dist[r][dst[2]] + (IF dst[1] \in Routers THEN 2 ELSE 1)

\* The ttl suffices for every flow.  With INIT_TTL = RipMessage::INFINITY only a
\* host that sends to the far address of a link 15 hops away is short of one.
Lasting ==
    \A f \in Flows :
        LET dst == f[2]
            r   == IF f[1] \in Hosts THEN Gateway[f[1]] ELSE f[1]
        IN Dist[r][dst[2]] < Infinity =>
               Visits(r, dst) <= IF f[1] \in Hosts THEN InitTTL ELSE InitTTL + 1
=============================================================================
