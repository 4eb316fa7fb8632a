-------------------------------- MODULE Rip --------------------------------
(***************************************************************************)
(* The routers of a virtual network: RouterNode with its RoutingTable      *)
(* (router_node.cpp, routing_table.cpp) and the RIP messages between them  *)
(* (rip_message.cpp), which travel in UDP datagrams between neighbouring   *)
(* interfaces and are handled by thread-pool workers: they are delayed,    *)
(* reordered and lost.                                                     *)
(*                                                                         *)
(* A link is a subnet; <<r, l>> is the address of router r's interface on  *)
(* it.  The subnets have different network addresses, so that findEntry_() *)
(* finds at most one entry and the table is a function of the link.        *)
(***************************************************************************)
EXTENDS Integers, FiniteSets

CONSTANTS Routers, Links,
          Attached,     \* the routers on each link
          Dist,         \* reference: hops from each router to each link
          Infinity,     \* RipMessage::INFINITY (16 in the program)
          Cap,          \* bound on messages in flight between two interfaces
          Starting,     \* routers that start last: their requests are heard
          Switched      \* interfaces that the user switches off and on

ASSUME RipAssumption ==
    /\ Attached \in [Links -> SUBSET Routers]
    /\ Infinity \in Nat \ {0}
    /\ Cap \in Nat \ {0}
    /\ Starting \subseteq Routers

\* Dist is no longer than any path: all that correctness of a metric needs.
ASSUME DistAssumption ==
    /\ Dist \in [Routers -> [Links -> Nat]]
    /\ \A l \in Links : \A r \in Attached[l] : Dist[r][l] = 0
    /\ \A k, l \in Links : \A r, s \in Attached[k] : Dist[r][l] <= Dist[s][l] + 1

VARIABLES table,    \* RoutingTable::entries_ of each router, by subnet
          up,       \* NetworkInterface::isUp_ of each interface
          msgs,     \* RIP messages in flight
          calm      \* the network is at rest: no interface is switched, no
                    \* message lost, no route expires

vars == <<table, up, msgs, calm>>

Addresses == {a \in Routers \X Links : a[1] \in Attached[a[2]]}
NoGateway == <<>>
NoEntry   == [type |-> "NONE", metric |-> Infinity, gateway |-> NoGateway]
Metrics   == 0 .. Infinity

\* lastRefresh is abstracted: which entries have expired is an argument.
Entry == [type : {"NONE", "LOCAL", "RIP"}, metric : Metrics,
          gateway : Addresses \cup {NoGateway}]

Costs    == UNION {[S -> Metrics] : S \in SUBSET Links}
Request  == [cmd : {"REQUEST"}, src : Addresses, dst : Addresses]
Response == [cmd : {"RESPONSE"}, src : Addresses, dst : Addresses, cost : Costs]

TypeOK ==
    /\ table \in [Routers -> [Links -> Entry]]
    /\ up \in [Addresses -> BOOLEAN]
    /\ msgs \subseteq Request \cup Response
    /\ calm \in BOOLEAN

---------------------------------------------------------------------------
(* Sending.                                                                *)

\* The interfaces on the other end of r's links, ripNeighbors_.
Neighbours(r) == {a \in Addresses : a[1] # r /\ r \in Attached[a[2]]}

\* sendIp_() to a neighbour: through the interface on its link, if that is up,
\* and with that interface as the source.
From(r, dst) == <<r, dst[2]>>

\* Mutant of CostFor: the condition is the wrong way round.
CostPoisonsOthers(out, n, dst) == IF out[n].from # dst THEN Infinity ELSE out[n].cost

\* Mutant of CostFor: no poisoned reverse.
CostUnpoisoned(out, n, dst) == out[n].cost

\* Poisoned reverse: a route goes back to where it was learned at cost infinity.
CostFor(out, n, dst) == IF out[n].from = dst THEN Infinity ELSE out[n].cost

\* sendRipMessage_() of the routes `out' to every interface in dsts.
Messages(r, out, dsts, isUp) ==
    {[cmd |-> "RESPONSE", src |-> From(r, d), dst |-> d,
      cost |-> [n \in DOMAIN out |-> CostFor(out, n, d)]]
        : d \in {x \in dsts : isUp[From(r, x)]}}

\* What fits in the receivers' socket buffers.  Nothing is sent for no routes.
Send(r, out, dsts, isUp) ==
    IF DOMAIN out = {} THEN {}
    ELSE {m \in Messages(r, out, dsts, isUp) :
             Cardinality({x \in msgs : x.src = m.src /\ x.dst = m.dst}) < Cap}

Broadcast(r, out) == Send(r, out, Neighbours(r), up)

\* generateRipEntries_(): the whole table with where each route was learned.
Known(r) == {n \in Links : table[r][n].type # "NONE"}
generateRipEntries(r) ==
    [n \in Known(r) |-> [cost |-> table[r][n].metric, from |-> table[r][n].gateway]]

---------------------------------------------------------------------------

\* initialize_() has added the local routes.  Each router asks its neighbours
\* for their routes once it is up; those that were not there to be asked have
\* missed it.
Init ==
    /\ table = [r \in Routers |-> [l \in Links |->
                  IF r \in Attached[l]
                  THEN [NoEntry EXCEPT !.type = "LOCAL", !.metric = 0]
                  ELSE NoEntry]]
    /\ up = [a \in Addresses |-> TRUE]
    /\ msgs = UNION {{[cmd |-> "REQUEST", src |-> From(r, d), dst |-> d]
                          : d \in Neighbours(r)} : r \in Starting}
    /\ calm = FALSE

\* ripThread_, every RIP_INTERVAL.
Periodic(r) ==
    /\ msgs' = msgs \cup Broadcast(r, generateRipEntries(r))
    /\ UNCHANGED <<table, up, calm>>

\* A REQUEST is answered with the whole table.
HandleRequest(m) ==
    LET r == m.dst[1]
    IN /\ m.cmd = "REQUEST"
       /\ up[m.dst]
       /\ msgs' = (msgs \ {m}) \cup Send(r, generateRipEntries(r), {m.src}, up)
       /\ UNCHANGED <<table, up, calm>>

\* Mutants of Received: the hop is not counted, and the sum is not cut.
ReceivedFree(c)  == c
ReceivedUncut(c) == c + 1

\* The constructor of a received RipMessage counts the hop.
Received(c) == IF c + 1 < Infinity THEN c + 1 ELSE Infinity

\* What handleRipEntries_() makes of an entry e for a route of cost c told by
\* the interface src, and whether it tells the neighbours.
Learned(e, c, src) ==
    LET better == [e EXCEPT !.metric = c, !.gateway = src]
    IN CASE e.type = "NONE" /\ c < Infinity    -> [better EXCEPT !.type = "RIP"]
         [] e.type = "RIP" /\ c < e.metric     -> better
         [] e.type = "RIP" /\ c >= e.metric /\ e.gateway = src ->
                [e EXCEPT !.metric = c]
         [] OTHER                              -> e

Updated(e, c, src) == Learned(e, c, src).metric # e.metric

\* A RESPONSE: the table is updated under its lock, then what changed is
\* broadcast.
HandleResponse(m) ==
    LET r       == m.dst[1]
        cost    == [n \in DOMAIN m.cost |-> Received(m.cost[n])]
        changed == {n \in DOMAIN cost : Updated(table[r][n], cost[n], m.src)}
    IN /\ m.cmd = "RESPONSE"
       /\ up[m.dst]
       /\ table' = [table EXCEPT ![r] = [n \in Links |->
                        IF n \in DOMAIN cost THEN Learned(@[n], cost[n], m.src) ELSE @[n]]]
       /\ msgs' = (msgs \ {m})
                  \cup Broadcast(r, [n \in changed |-> [cost |-> cost[n], from |-> m.src]])
       /\ UNCHANGED <<up, calm>>

\* recvDatagram() on an interface that is down drops the datagram.
Discard(m) ==
    /\ ~up[m.dst]
    /\ msgs' = msgs \ {m}
    /\ UNCHANGED <<table, up, calm>>

\* Mutant of RipRoutes: the type of an entry is not looked at.
RipRoutesAll(r) == Known(r)

RipRoutes(r) == {n \in Links : table[r][n].type = "RIP"}

\* ripCleanerThread_ -> removeStaleRipEntries_(): poisoned routes go silently,
\* expired ones with a message.  A route expires when updates were lost.
CleanUp(r, old) ==
    LET poisoned == {n \in RipRoutes(r) : table[r][n].metric = Infinity}
        expired  == old \ poisoned
    IN /\ calm => old = {}
       /\ table' = [table EXCEPT ![r] = [n \in Links |->
                        IF n \in poisoned \cup expired THEN NoEntry ELSE @[n]]]
       /\ msgs' = msgs \cup Broadcast(r, [n \in expired |-> [cost |-> Infinity, from |-> NoGateway]])
       /\ UNCHANGED <<up, calm>>

\* enableInterface(): up, then a triggered response.  The table stays.
EnableInterface(a) ==
    /\ ~calm
    /\ a \in Switched
    /\ ~up[a]
    /\ up' = [up EXCEPT ![a] = TRUE]
    /\ msgs' = msgs \cup Send(a[1], [n \in {a[2]} |-> [cost |-> 0, from |-> NoGateway]],
                              Neighbours(a[1]), up')
    /\ UNCHANGED <<table, calm>>

\* disableInterface(): a triggered response, then down.  The table stays: the
\* assignment to the metric of the local route is commented out.
DisableInterface(a) ==
    /\ ~calm
    /\ a \in Switched
    /\ up[a]
    /\ up' = [up EXCEPT ![a] = FALSE]
    /\ msgs' = msgs \cup Broadcast(a[1], [n \in {a[2]} |-> [cost |-> Infinity, from |-> NoGateway]])
    /\ UNCHANGED <<table, calm>>

Lose(m) ==
    /\ ~calm
    /\ msgs' = msgs \ {m}
    /\ UNCHANGED <<table, up, calm>>

\* From here on the network is at rest, with every interface up.
Settle ==
    /\ \A a \in Addresses : up[a]
    /\ calm' = TRUE
    /\ UNCHANGED <<table, up, msgs>>

---------------------------------------------------------------------------

Step ==
    \/ \E r \in Routers : Periodic(r)
    \/ \E r \in Routers : \E old \in SUBSET RipRoutes(r) : CleanUp(r, old)
    \/ \E m \in msgs : HandleRequest(m) \/ HandleResponse(m) \/ Discard(m) \/ Lose(m)
    \/ \E a \in Addresses : EnableInterface(a) \/ DisableInterface(a)

Next == Step \/ Settle

Spec == Init /\ [][Next]_vars

\* The periodic threads keep running and the workers take every datagram that
\* arrived.
Fairness ==
    /\ \A r \in Routers : WF_vars(Periodic(r))
    /\ \A b \in Addresses : \A a \in Neighbours(b[1]) : a[2] = b[2] =>
          WF_vars(\E m \in msgs : m.src = a /\ m.dst = b
                                 /\ (HandleRequest(m) \/ HandleResponse(m)))

FairSpec == Spec /\ Fairness

---------------------------------------------------------------------------
(* Properties.                                                             *)

Least(d) == IF d < Infinity THEN d ELSE Infinity

\* No router ever believes a subnet to be nearer than it is, whatever updates
\* are delayed, reordered or lost and whatever expires: a route that looks
\* too good would draw the traffic of the whole network.  It holds because
\* every hop is counted once, by the receiver, poisoned routes included.
MetricsReal ==
    \A r \in Routers, n \in Links :
        table[r][n].type # "NONE" => table[r][n].metric >= Least(Dist[r][n])

\* queryRoutingTable_() looks up a route and then its gateway, and uses the
\* interface of whatever the second lookup finds without asking whether it
\* has one (network_node.cpp:256-264): that must be the local route of a link
\* shared with another router.
GatewayOnLink ==
    \A r \in Routers, n \in Links :
        table[r][n].type = "RIP" =>
            LET g == table[r][n].gateway
            IN g \in Addresses /\ g[1] # r /\ table[r][g[2]].type = "LOCAL"

\* All routes are shortest routes, and each gateway is a hop nearer: no
\* datagram goes round in circles.
Converged ==
    \A r \in Routers, n \in Links :
        LET e == table[r][n]
        IN IF Dist[r][n] < Infinity
           THEN /\ e.type # "NONE" /\ e.metric = Dist[r][n]
                /\ e.type = "RIP" => Dist[e.gateway[1]][n] < Dist[r][n]
           ELSE e.type = "NONE" \/ e.metric = Infinity

\* Once the network is at rest, the routers find the shortest routes and keep
\* them, from whatever tables and messages the outages left behind.
Converges == calm ~> []Converged
=============================================================================
