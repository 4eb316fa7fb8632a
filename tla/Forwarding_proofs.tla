-------------------------- MODULE Forwarding_proofs --------------------------
(***************************************************************************)
(* Proofs about Rip and Forwarding, for any number of routers, links and   *)
(* hosts.  RipInv is the invariant of the tables and the messages between  *)
(* routers.  HeadersSound holds on every network.  NearerOnTrees and       *)
(* LastsOnTrees are about networks without cycles (Acyclic); they rest on  *)
(* Toward: the gateway of every route, and the sender of every message     *)
(* that offers one, is nearer to the subnet than the router that has or    *)
(* hears it.                                                               *)
(***************************************************************************)
EXTENDS Forwarding, TLAPS

---------------------------------------------------------------------------
(* The tables and messages of Rip, on every network.                       *)

\* Every message goes from one router to another over a link they share, and
\* no cost in it is less than the sender's distance.
MsgsReal ==
    \A m \in msgs :
        /\ m.src[2] = m.dst[2] /\ m.src[1] # m.dst[1]
        /\ m.cmd = "RESPONSE" =>
              \A n \in DOMAIN m.cost : m.cost[n] >= Least(Dist[m.src[1]][n])

\* An entry of router r for link n: its type, a metric no less than the
\* distance, a gateway that is another router's interface on a link of r, and
\* the local routes there at no cost.
Sound(r, n, e) ==
    /\ e \in Entry
    /\ e.type # "NONE" => e.metric >= Least(Dist[r][n])
    /\ e.type = "RIP" => /\ e.gateway \in Addresses
                         /\ e.gateway[1] # r /\ r \in Attached[e.gateway[2]]
    /\ r \in Attached[n] => e.type = "LOCAL" /\ e.metric = 0

TablesSound == \A r \in Routers, n \in Links : Sound(r, n, table[r][n])

RipInv == TypeOK /\ MsgsReal /\ TablesSound

---------------------------------------------------------------------------

\* What a router is given to send: a cost at least its distance, and where the
\* route was learned.
Sendable(r, out) ==
    /\ DOMAIN out \subseteq Links
    /\ \A n \in DOMAIN out : out[n].cost \in Metrics /\ out[n].cost >= Least(Dist[r][n])

\* Least keeps within Metrics and below its argument.
LEMMA LeastType == \A d \in Nat : Least(d) \in Metrics /\ Least(d) <= d
BY RipAssumption DEF Least, Metrics

\* An address is a router and a link it is attached to.
LEMMA AddressParts ==
    \A a \in Addresses : /\ a = <<a[1], a[2]>>
                         /\ a[1] \in Routers /\ a[2] \in Links /\ a[1] \in Attached[a[2]]
BY RipAssumption DEF Addresses

\* A neighbour is an interface of another router on a shared link.
LEMMA NeighbourParts ==
    ASSUME NEW r \in Routers, NEW d \in Neighbours(r)
    PROVE  /\ d \in Addresses /\ d[1] # r
           /\ From(r, d) \in Addresses /\ From(r, d)[1] = r /\ From(r, d)[2] = d[2]
BY RipAssumption DEF Neighbours, Addresses, From

\* sendRipMessage_() and broadcastRipMessage_() send messages of the right type
\* with sound costs, to neighbours.
LEMMA SendSound ==
    ASSUME NEW r \in Routers, NEW out, Sendable(r, out),
           NEW dsts \in SUBSET Neighbours(r), NEW isUp, NEW m \in Send(r, out, dsts, isUp)
    PROVE  /\ m \in Response
           /\ m.src[2] = m.dst[2] /\ m.src[1] # m.dst[1]
           /\ \A n \in DOMAIN m.cost : m.cost[n] >= Least(Dist[m.src[1]][n])
<1>1. PICK d \in dsts : m = [cmd |-> "RESPONSE", src |-> From(r, d), dst |-> d,
                             cost |-> [n \in DOMAIN out |-> CostFor(out, n, d)]]
  BY DEF Send, Messages
<1>2. d \in Addresses /\ d[1] # r /\ From(r, d) \in Addresses
      /\ From(r, d)[1] = r /\ From(r, d)[2] = d[2]
  BY NeighbourParts
<1>3. \A n \in DOMAIN out : /\ CostFor(out, n, d) \in Metrics
                            /\ CostFor(out, n, d) >= Least(Dist[r][n])
  <2>1. TAKE n \in DOMAIN out
  <2>2. n \in Links /\ out[n].cost \in Metrics /\ out[n].cost >= Least(Dist[r][n])
    BY DEF Sendable
  <2>3. Dist[r][n] \in Nat
    BY <2>2, DistAssumption
  <2>4. Least(Dist[r][n]) \in Metrics
    BY <2>3, LeastType
  <2>5. QED
    BY <2>2, <2>4, RipAssumption DEF CostFor, Metrics
<1>4. [n \in DOMAIN out |-> CostFor(out, n, d)] \in Costs
  BY <1>3 DEF Costs, Sendable
<1>5. QED
  BY <1>1, <1>2, <1>3, <1>4 DEF Response

\* generateRipEntries_() gives what may be sent.
LEMMA GeneratedSound ==
    ASSUME TypeOK, TablesSound, NEW r \in Routers
    PROVE  Sendable(r, generateRipEntries(r))
BY DEF TypeOK, TablesSound, Sound, Entry, Sendable, generateRipEntries, Known

\* handleRipEntries_() makes a sound entry of a sound one and a sound cost.
LEMMA LearnedSound ==
    ASSUME NEW r \in Routers, NEW n \in Links, NEW e, Sound(r, n, e),
           NEW c \in Metrics, c >= Least(Dist[r][n]),
           NEW src \in Addresses, src[1] # r, r \in Attached[src[2]]
    PROVE  Sound(r, n, Learned(e, c, src))
<1>1. CASE e.type = "NONE" /\ c < Infinity
  BY <1>1 DEF Learned, Sound, Entry
<1>2. CASE e.type = "RIP" /\ c < e.metric
  BY <1>2 DEF Learned, Sound, Entry
<1>3. CASE e.type = "RIP" /\ c >= e.metric /\ e.gateway = src
  BY <1>3 DEF Learned, Sound, Entry, Metrics
<1>4. CASE ~(e.type = "NONE" /\ c < Infinity) /\ ~(e.type = "RIP" /\ c < e.metric)
           /\ ~(e.type = "RIP" /\ c >= e.metric /\ e.gateway = src)
  BY <1>4 DEF Learned
<1>5. QED
  BY <1>1, <1>2, <1>3, <1>4

\* A cost told by a neighbour, with the hop counted, is sound for the receiver.
LEMMA ReceivedSound ==
    ASSUME NEW k \in Links, NEW r \in Attached[k], NEW s \in Attached[k], NEW n \in Links,
           NEW c \in Metrics, c >= Least(Dist[s][n])
    PROVE  Received(c) \in Metrics /\ Received(c) >= Least(Dist[r][n])
<1>1. r \in Routers /\ s \in Routers
  BY RipAssumption
<1>2. Dist[r][n] \in Nat /\ Dist[s][n] \in Nat /\ Dist[r][n] <= Dist[s][n] + 1
  BY <1>1, DistAssumption
<1>3. QED
  BY <1>2, RipAssumption DEF Received, Least, Metrics

\* The routers start with sound tables.
LEMMA RipInit == Init => RipInv
<1> SUFFICES ASSUME Init PROVE RipInv
  OBVIOUS
<1>1. ASSUME NEW r \in Routers, NEW n \in Links
      PROVE  Sound(r, n, table[r][n])
  <2>1. Dist[r][n] \in Nat /\ (r \in Attached[n] => Dist[r][n] = 0)
    BY DistAssumption
  <2>2. r \in Attached[n] => Least(Dist[r][n]) = 0
    BY <2>1, RipAssumption DEF Least
  <2>3. 0 \in Metrics /\ Infinity \in Metrics
    BY RipAssumption DEF Metrics
  <2>4. CASE r \in Attached[n]
    <3>1. table[r][n] = [type |-> "LOCAL", metric |-> 0, gateway |-> NoGateway]
      BY <2>4 DEF Init, NoEntry
    <3>2. QED
      BY <2>2, <2>3, <2>4, <3>1 DEF Sound, Entry
  <2>5. CASE r \notin Attached[n]
    <3>1. table[r][n] = [type |-> "NONE", metric |-> Infinity, gateway |-> NoGateway]
      BY <2>5 DEF Init, NoEntry
    <3>2. QED
      BY <2>3, <2>5, <3>1 DEF Sound, Entry
  <2>6. QED
    BY <2>4, <2>5
<1>2. \A m \in msgs : /\ m \in Request
                      /\ m.src[2] = m.dst[2] /\ m.src[1] # m.dst[1] /\ m.cmd = "REQUEST"
  BY NeighbourParts, RipAssumption DEF Init, Request
<1>3. TypeOK
  BY <1>1, <1>2 DEF Init, TypeOK, Sound
<1>4. QED
  BY <1>1, <1>2, <1>3 DEF RipInv, TablesSound, MsgsReal

\* New messages that are sound keep the messages sound.
LEMMA MsgsKept ==
    ASSUME MsgsReal, msgs \subseteq Request \cup Response,
           NEW old, NEW r \in Routers, NEW out, Sendable(r, out),
           NEW dsts \in SUBSET Neighbours(r), NEW isUp,
           msgs' \subseteq (msgs \ old) \cup Send(r, out, dsts, isUp)
    PROVE  MsgsReal' /\ msgs' \subseteq Request \cup Response
<1>1. ASSUME NEW m \in msgs'
      PROVE  /\ m \in Request \cup Response
             /\ m.src[2] = m.dst[2] /\ m.src[1] # m.dst[1]
             /\ m.cmd = "RESPONSE" =>
                   \A n \in DOMAIN m.cost : m.cost[n] >= Least(Dist[m.src[1]][n])
  <2>1. CASE m \in msgs
    BY <2>1 DEF MsgsReal
  <2>2. CASE m \in Send(r, out, dsts, isUp)
    BY <2>2, SendSound
  <2>3. QED
    BY <2>1, <2>2
<1>2. QED
  BY <1>1 DEF MsgsReal

\* Every step keeps the invariant.
LEMMA RipNext == RipInv /\ [Next]_vars => RipInv'
<1> SUFFICES ASSUME RipInv, [Next]_vars PROVE RipInv'
  OBVIOUS
<1>0. TypeOK /\ MsgsReal /\ TablesSound /\ msgs \subseteq Request \cup Response
  BY DEF RipInv, TypeOK
<1> DEFINE Kept(old, r, out, dsts, isUp) ==
              msgs' \subseteq (msgs \ old) \cup Send(r, out, dsts, isUp)
<1>1. ASSUME NEW r \in Routers, Periodic(r) PROVE RipInv'
  <2>1. Kept({}, r, generateRipEntries(r), Neighbours(r), up)
    BY <1>1 DEF Periodic, Broadcast
  <2>2. MsgsReal' /\ msgs' \subseteq Request \cup Response
    BY <1>0, <2>1, GeneratedSound, MsgsKept
  <2>3. QED
    BY <1>0, <1>1, <2>2 DEF Periodic, RipInv, TypeOK, TablesSound
<1>2. ASSUME NEW m \in msgs, HandleRequest(m) PROVE RipInv'
  <2>1. m.dst \in Addresses /\ m.src \in Addresses
    BY <1>0 DEF Request, Response
  <2>2. m.dst[1] \in Routers /\ {m.src} \in SUBSET Neighbours(m.dst[1])
    BY <1>0, <2>1, AddressParts DEF Neighbours, MsgsReal
  <2>3. Kept({m}, m.dst[1], generateRipEntries(m.dst[1]), {m.src}, up)
    BY <1>2 DEF HandleRequest
  <2>4. MsgsReal' /\ msgs' \subseteq Request \cup Response
    BY <1>0, <2>2, <2>3, GeneratedSound, MsgsKept
  <2>5. QED
    BY <1>0, <1>2, <2>4 DEF HandleRequest, RipInv, TypeOK, TablesSound
<1>3. ASSUME NEW m \in msgs, HandleResponse(m) PROVE RipInv'
  <2> DEFINE r       == m.dst[1]
             cost    == [n \in DOMAIN m.cost |-> Received(m.cost[n])]
             changed == {n \in DOMAIN cost : Updated(table[r][n], cost[n], m.src)}
             out     == [n \in changed |-> [cost |-> cost[n], from |-> m.src]]
  <2>1. m \in Response
    BY <1>0, <1>3 DEF HandleResponse, Request, Response
  <2>2. m.dst \in Addresses /\ m.src \in Addresses /\ DOMAIN m.cost \subseteq Links
        /\ \A n \in DOMAIN m.cost : m.cost[n] \in Metrics
    BY <2>1 DEF Response, Costs
  <2>3. /\ r \in Routers /\ m.src[1] # r /\ r \in Attached[m.src[2]]
        /\ m.src[2] \in Links /\ m.src[1] \in Attached[m.src[2]]
    BY <1>0, <2>2, AddressParts DEF MsgsReal
  <2>4. ASSUME NEW n \in DOMAIN m.cost
        PROVE  cost[n] \in Metrics /\ cost[n] >= Least(Dist[r][n])
    <3>1. m.cost[n] >= Least(Dist[m.src[1]][n])
      BY <1>0, <1>3 DEF MsgsReal, HandleResponse
    <3>2. QED
      BY <2>2, <2>3, <3>1, ReceivedSound
  <2>5. Sendable(r, out)
    BY <2>2, <2>4 DEF Sendable
  <2>6. Kept({m}, r, out, Neighbours(r), up)
    BY <1>3 DEF HandleResponse, Broadcast
  <2>7. MsgsReal' /\ msgs' \subseteq Request \cup Response
    BY <1>0, <2>3, <2>5, <2>6, MsgsKept
  <2>8. table' = [table EXCEPT ![r] = [n \in Links |->
                      IF n \in DOMAIN cost THEN Learned(table[r][n], cost[n], m.src)
                                           ELSE table[r][n]]]
    BY <1>3 DEF HandleResponse
  <2>9. ASSUME NEW q \in Routers, NEW n \in Links
        PROVE  Sound(q, n, table'[q][n])
    <3>1. Sound(q, n, table[q][n])
      BY <1>0 DEF TablesSound
    <3>2. CASE q = r /\ n \in DOMAIN cost
      <4>1. table'[q][n] = Learned(table[q][n], cost[n], m.src)
        BY <1>0, <2>3, <2>8, <3>2 DEF TypeOK
      <4>2. QED
        BY <2>2, <2>3, <2>4, <3>1, <3>2, <4>1, LearnedSound
    <3>3. CASE ~(q = r /\ n \in DOMAIN cost)
      BY <1>0, <2>3, <2>8, <3>1, <3>3 DEF TypeOK
    <3>4. QED
      BY <3>2, <3>3
  <2>10. table' \in [Routers -> [Links -> Entry]]
    BY <1>0, <2>3, <2>8, <2>9 DEF TypeOK, Sound
  <2>11. QED
    BY <1>0, <1>3, <2>7, <2>9, <2>10 DEF HandleResponse, RipInv, TypeOK, TablesSound
<1>4. ASSUME NEW m \in msgs, Discard(m) \/ Lose(m) PROVE RipInv'
  BY <1>0, <1>4 DEF Discard, Lose, RipInv, TypeOK, TablesSound, MsgsReal
<1>5. ASSUME NEW r \in Routers, NEW old \in SUBSET RipRoutes(r), CleanUp(r, old)
      PROVE  RipInv'
  <2> DEFINE poisoned == {n \in RipRoutes(r) : table[r][n].metric = Infinity}
             expired  == old \ poisoned
             out      == [n \in expired |-> [cost |-> Infinity, from |-> NoGateway]]
  <2>1. Infinity \in Metrics
    BY RipAssumption DEF Metrics
  <2>2. ASSUME NEW n \in Links PROVE Infinity >= Least(Dist[r][n])
    BY DistAssumption, LeastType, RipAssumption DEF Metrics
  <2>3. Sendable(r, out)
    BY <2>1, <2>2 DEF Sendable, RipRoutes
  <2>4. Kept({}, r, out, Neighbours(r), up)
    BY <1>5 DEF CleanUp, Broadcast
  <2>5. MsgsReal' /\ msgs' \subseteq Request \cup Response
    BY <1>0, <2>3, <2>4, MsgsKept
  <2>6. ASSUME NEW q \in Routers, NEW n \in Links
        PROVE  Sound(q, n, table'[q][n])
    <3>1. Sound(q, n, table[q][n])
      BY <1>0 DEF TablesSound
    <3>2. CASE q = r /\ n \in poisoned \cup expired
      <4>1. table'[q][n] = NoEntry /\ table[q][n].type = "RIP"
        BY <1>0, <1>5, <3>2 DEF CleanUp, TypeOK, RipRoutes
      <4>2. QED
        BY <2>1, <3>1, <4>1 DEF Sound, NoEntry, NoGateway, Entry
    <3>3. CASE ~(q = r /\ n \in poisoned \cup expired)
      <4>1. table'[q][n] = table[q][n]
        BY <1>0, <1>5, <3>3 DEF CleanUp, TypeOK
      <4>2. QED
        BY <3>1, <4>1
    <3>4. QED
      BY <3>2, <3>3
  <2>7. table' \in [Routers -> [Links -> Entry]]
    BY <1>0, <1>5, <2>6 DEF CleanUp, TypeOK, Sound
  <2>8. QED
    BY <1>0, <1>5, <2>5, <2>6, <2>7 DEF CleanUp, RipInv, TypeOK, TablesSound
<1>6. ASSUME NEW a \in Addresses, EnableInterface(a) \/ DisableInterface(a) PROVE RipInv'
  <2>1. a[1] \in Routers /\ a[2] \in Links /\ a[1] \in Attached[a[2]]
    BY AddressParts
  <2>2. Dist[a[1]][a[2]] = 0 /\ Least(Dist[a[1]][a[2]]) = 0
    BY <2>1, DistAssumption, RipAssumption DEF Least
  <2>3. \A c \in {0, Infinity} :
            Sendable(a[1], [n \in {a[2]} |-> [cost |-> c, from |-> NoGateway]])
    BY <2>1, <2>2, RipAssumption DEF Sendable, Metrics
  <2>4. \E c \in {0, Infinity}, isUp \in {up, up'} :
            Kept({}, a[1], [n \in {a[2]} |-> [cost |-> c, from |-> NoGateway]],
                 Neighbours(a[1]), isUp)
    BY <1>6 DEF EnableInterface, DisableInterface, Broadcast
  <2>5. MsgsReal' /\ msgs' \subseteq Request \cup Response
    BY <1>0, <2>1, <2>3, <2>4, MsgsKept
  <2>6. QED
    BY <1>0, <1>6, <2>5 DEF EnableInterface, DisableInterface, RipInv, TypeOK, TablesSound
<1>7. CASE Settle
  BY <1>0, <1>7 DEF Settle, RipInv, TypeOK, TablesSound, MsgsReal
<1>8. CASE UNCHANGED vars
  BY <1>0, <1>8 DEF vars, RipInv, TypeOK, TablesSound, MsgsReal
<1>9. QED
  BY <1>1, <1>2, <1>3, <1>4, <1>5, <1>6, <1>7, <1>8 DEF Next, Step

\* Tables, interfaces and messages keep their types (rip_message.cpp cuts the
\* received costs to infinity).
THEOREM TypeCorrect == Spec => []TypeOK
<1>1. RipInv => TypeOK
  BY DEF RipInv
<1>2. QED
  BY <1>1, RipInit, RipNext, PTL DEF Spec

\* In no network, whatever is delayed, reordered, lost or expires, does a
\* router have a route that is shorter than the shortest path.
THEOREM NoMetricTooSmall == Spec => []MetricsReal
<1>1. RipInv => MetricsReal
  BY DEF RipInv, TablesSound, Sound, MetricsReal
<1>2. QED
  BY <1>1, RipInit, RipNext, PTL DEF Spec

\* In no network does the second lookup of queryRoutingTable_() end at an entry
\* without an interface.
THEOREM GatewaysOnLink == Spec => []GatewayOnLink
<1>1. RipInv => GatewayOnLink
  BY AddressParts DEF RipInv, TablesSound, Sound, GatewayOnLink
<1>2. QED
  BY <1>1, RipInit, RipNext, PTL DEF Spec

---------------------------------------------------------------------------
(* Routes and messages point towards the link, on networks without cycles. *)

\* A neighbouring interface of r that is nearer to the link n.
Nearer(r, n, g) ==
    /\ g \in Neighbours(r)
    /\ Dist[g[1]][n] < Dist[r][n]
    /\ Dist[r][n] < Infinity

\* A route that a router has leads towards the link or is its own.
RouteToward(r, n, e) ==
    /\ e.type = "RIP" => Nearer(r, n, e.gateway)
    /\ e.type = "LOCAL" => r \in Attached[n]

TablesToward == \A r \in Routers, n \in Links : RouteToward(r, n, table[r][n])

\* A message that offers a route goes away from the link.
Outward(m) ==
    m.cmd = "RESPONSE" =>
        \A n \in DOMAIN m.cost :
            m.cost[n] < Infinity =>
                m.dst[1] \in Attached[n] \/ Dist[m.src[1]][n] < Dist[m.dst[1]][n]

MsgsOutward == \A m \in msgs : Outward(m)

Toward == TablesToward /\ MsgsOutward

\* What a router may tell: a route of its own, or one towards the link.
Tellable(r, out) ==
    /\ DOMAIN out \subseteq Links
    /\ \A n \in DOMAIN out :
          out[n].cost < Infinity => r \in Attached[n] \/ Nearer(r, n, out[n].from)

---------------------------------------------------------------------------
(* The routes.                                                             *)

\* Without cycles only one neighbour is not farther away.
LEMMA OthersFarther ==
    ASSUME Acyclic, NEW r \in Routers, NEW n \in Links, NEW g, Nearer(r, n, g),
           NEW d \in Neighbours(r), d # g
    PROVE  Dist[r][n] < Dist[d[1]][n]
<1>1. g \in Neighbours(r) /\ g[1] \in Routers /\ d[1] \in Routers
  BY AddressParts DEF Nearer, Neighbours
<1>2. Dist[g[1]][n] \in Nat /\ Dist[d[1]][n] \in Nat /\ Dist[r][n] \in Nat
  BY <1>1, DistAssumption
<1>3. 0 < Dist[r][n] /\ Dist[r][n] < Infinity /\ Dist[g[1]][n] <= Dist[r][n]
  BY <1>2 DEF Nearer
<1>4. ~(Dist[d[1]][n] <= Dist[r][n])
  BY <1>1, <1>3 DEF Acyclic
<1> QED
  BY <1>2, <1>4

\* sendRipMessage_() offers routes to those farther away only: the poisoned
\* reverse.
LEMMA SendOutward ==
    ASSUME Acyclic, NEW r \in Routers, NEW out, Tellable(r, out),
           NEW dsts \in SUBSET Neighbours(r), NEW isUp, NEW m \in Send(r, out, dsts, isUp)
    PROVE  Outward(m)
<1>1. PICK d \in dsts : m = [cmd |-> "RESPONSE", src |-> From(r, d), dst |-> d,
                             cost |-> [n \in DOMAIN out |-> CostFor(out, n, d)]]
  BY DEF Send, Messages
<1>2. d \in Neighbours(r) /\ d[1] \in Routers /\ From(r, d)[1] = r
  BY AddressParts, NeighbourParts DEF Neighbours
<1>3. m.dst = d /\ m.src[1] = r /\ DOMAIN m.cost = DOMAIN out
      /\ \A n \in DOMAIN out : m.cost[n] = CostFor(out, n, d)
  BY <1>1, <1>2
<1>4. ASSUME NEW n \in DOMAIN out, CostFor(out, n, d) < Infinity
      PROVE  d[1] \in Attached[n] \/ Dist[r][n] < Dist[d[1]][n]
  <2>1. n \in Links /\ Dist[r][n] \in Nat /\ Dist[d[1]][n] \in Nat
    BY <1>2, DistAssumption DEF Tellable
  <2>2. out[n].from # d /\ out[n].cost < Infinity
    BY <1>4, RipAssumption DEF CostFor
  <2>3. CASE r \in Attached[n]
    <3>1. Dist[r][n] = 0
      BY <2>1, <2>3, DistAssumption
    <3> QED
      BY <1>2, <2>1, <3>1 DEF Acyclic
  <2>4. CASE Nearer(r, n, out[n].from)
    BY <1>2, <2>1, <2>2, <2>4, OthersFarther
  <2> QED
    BY <2>2, <2>3, <2>4 DEF Tellable
<1> QED
  BY <1>3, <1>4 DEF Outward

\* The whole table may be told.
LEMMA GeneratedTellable ==
    ASSUME TablesToward, TypeOK, NEW r \in Routers
    PROVE  Tellable(r, generateRipEntries(r))
<1> DEFINE out == generateRipEntries(r)
<1>1. DOMAIN out \subseteq Links
  BY DEF generateRipEntries, Known
<1>2. ASSUME NEW n \in DOMAIN out
      PROVE  r \in Attached[n] \/ Nearer(r, n, out[n].from)
  <2>1. out[n].from = table[r][n].gateway /\ table[r][n].type # "NONE" /\ n \in Links
    BY DEF generateRipEntries, Known
  <2>2. table[r][n].type \in {"LOCAL", "RIP"}
    BY <2>1 DEF TypeOK, Entry
  <2> QED
    BY <2>1, <2>2 DEF TablesToward, RouteToward
<1> QED
  BY <1>1, <1>2 DEF Tellable

\* Messages told by a router keep MsgsOutward.
LEMMA OutwardKept ==
    ASSUME Acyclic, MsgsOutward, NEW r \in Routers, NEW out, Tellable(r, out),
           NEW old, NEW dsts \in SUBSET Neighbours(r), NEW isUp,
           msgs' \subseteq (msgs \ old) \cup Send(r, out, dsts, isUp)
    PROVE  MsgsOutward'
<1>1. \A m \in msgs' : m \in msgs \/ m \in Send(r, out, dsts, isUp)
  OBVIOUS
<1> QED
  BY <1>1, SendOutward DEF MsgsOutward

\* A finite metric is of a link within reach.
LEMMA Within ==
    ASSUME NEW r \in Routers, NEW n \in Links, NEW c \in Metrics,
           c >= Least(Dist[r][n]), c < Infinity
    PROVE  Dist[r][n] < Infinity
BY DistAssumption, RipAssumption DEF Least, Metrics

\* handleRipEntries_() takes a gateway only with a finite cost.
LEMMA LearnedToward ==
    ASSUME NEW r \in Routers, NEW n \in Links, NEW e, Sound(r, n, e), RouteToward(r, n, e),
           NEW c \in Metrics, NEW src,
           c < Infinity => r \in Attached[n] \/ Nearer(r, n, src)
    PROVE  /\ RouteToward(r, n, Learned(e, c, src))
           /\ Updated(e, c, src) /\ c < Infinity => Nearer(r, n, src)
<1>0. e \in Entry /\ (r \in Attached[n] => e.type = "LOCAL")
  BY DEF Sound
<1>1. CASE e.type = "NONE" /\ c < Infinity
  BY <1>0, <1>1 DEF Learned, RouteToward, Entry
<1>2. CASE e.type = "RIP" /\ c < e.metric
  <2>1. c < Infinity
    BY <1>0, <1>2, RipAssumption DEF Entry, Metrics
  <2> QED
    BY <1>0, <1>2, <2>1 DEF Learned, RouteToward, Entry
<1>3. CASE e.type = "RIP" /\ c >= e.metric /\ e.gateway = src
  BY <1>0, <1>3 DEF Learned, RouteToward, Entry, Metrics
<1>4. CASE ~(e.type = "NONE" /\ c < Infinity) /\ ~(e.type = "RIP" /\ c < e.metric)
           /\ ~(e.type = "RIP" /\ c >= e.metric /\ e.gateway = src)
  BY <1>4 DEF Learned, Updated
<1> QED
  BY <1>1, <1>2, <1>3, <1>4

\* The routers start with the routes of their own links, and have told nothing.
LEMMA TowardInit == Init => Toward
<1> SUFFICES ASSUME Init PROVE Toward
  OBVIOUS
<1>1. ASSUME NEW r \in Routers, NEW n \in Links PROVE RouteToward(r, n, table[r][n])
  <2>1. table[r][n].type = IF r \in Attached[n] THEN "LOCAL" ELSE "NONE"
    BY DEF Init, NoEntry
  <2> QED
    BY <2>1 DEF RouteToward
<1>2. \A m \in msgs : m.cmd = "REQUEST"
  BY DEF Init
<1> QED
  BY <1>1, <1>2 DEF Toward, TablesToward, MsgsOutward, Outward

\* Every step of the routers keeps the routes leading towards their links.
LEMMA TowardNext ==
    ASSUME Acyclic, RipInv, Toward, Step
    PROVE  Toward'
<1>0. TypeOK /\ MsgsReal /\ TablesSound /\ TablesToward /\ MsgsOutward
      /\ msgs \subseteq Request \cup Response
  BY DEF RipInv, TypeOK, Toward
<1> DEFINE Kept(old, r, out, dsts, isUp) ==
              msgs' \subseteq (msgs \ old) \cup Send(r, out, dsts, isUp)
<1>1. ASSUME NEW r \in Routers, Periodic(r) PROVE Toward'
  <2>1. Kept({}, r, generateRipEntries(r), Neighbours(r), up)
    BY <1>1 DEF Periodic, Broadcast
  <2>2. MsgsOutward'
    BY <1>0, <2>1, GeneratedTellable, OutwardKept
  <2> QED
    BY <1>0, <1>1, <2>2 DEF Periodic, Toward, TablesToward
<1>2. ASSUME NEW m \in msgs, HandleRequest(m) PROVE Toward'
  <2>1. m.dst \in Addresses /\ m.src \in Addresses
    BY <1>0 DEF Request, Response
  <2>2. m.dst[1] \in Routers /\ {m.src} \in SUBSET Neighbours(m.dst[1])
    BY <1>0, <2>1, AddressParts DEF Neighbours, MsgsReal
  <2>3. Kept({m}, m.dst[1], generateRipEntries(m.dst[1]), {m.src}, up)
    BY <1>2 DEF HandleRequest
  <2>4. MsgsOutward'
    BY <1>0, <2>2, <2>3, GeneratedTellable, OutwardKept
  <2> QED
    BY <1>0, <1>2, <2>4 DEF HandleRequest, Toward, TablesToward
<1>3. ASSUME NEW m \in msgs, HandleResponse(m) PROVE Toward'
  <2> DEFINE r       == m.dst[1]
             cost    == [n \in DOMAIN m.cost |-> Received(m.cost[n])]
             changed == {n \in DOMAIN cost : Updated(table[r][n], cost[n], m.src)}
             out     == [n \in changed |-> [cost |-> cost[n], from |-> m.src]]
  <2>1. m \in Response /\ m.cmd = "RESPONSE"
    BY <1>0, <1>3 DEF HandleResponse, Request, Response
  <2>2. m.dst \in Addresses /\ m.src \in Addresses /\ DOMAIN m.cost \subseteq Links
        /\ \A n \in DOMAIN m.cost : m.cost[n] \in Metrics
    BY <2>1 DEF Response, Costs
  <2>3. /\ r \in Routers /\ m.src[1] # r /\ r \in Attached[m.src[2]]
        /\ m.src[2] \in Links /\ m.src[1] \in Attached[m.src[2]]
    BY <1>0, <2>2, AddressParts DEF MsgsReal
  <2>4. m.src \in Neighbours(r)
    BY <2>2, <2>3 DEF Neighbours
  <2>5. ASSUME NEW n \in DOMAIN m.cost
        PROVE  /\ cost[n] \in Metrics
               /\ cost[n] < Infinity => r \in Attached[n] \/ Nearer(r, n, m.src)
    <3>1. m.cost[n] >= Least(Dist[m.src[1]][n]) /\ n \in Links /\ m.cost[n] \in Metrics
      BY <1>0, <2>1, <2>2 DEF MsgsReal
    <3>2. cost[n] \in Metrics /\ cost[n] >= Least(Dist[r][n])
      BY <2>3, <3>1, ReceivedSound
    <3>3. ASSUME cost[n] < Infinity
          PROVE  r \in Attached[n] \/ Nearer(r, n, m.src)
      <4>1. m.cost[n] < Infinity
        BY <3>1, <3>3, RipAssumption DEF Received, Metrics
      <4>2. r \in Attached[n] \/ Dist[m.src[1]][n] < Dist[r][n]
        BY <1>0, <2>1, <4>1 DEF MsgsOutward, Outward
      <4>3. Dist[r][n] < Infinity
        BY <2>3, <3>1, <3>2, <3>3, Within
      <4> QED
        BY <2>4, <4>2, <4>3 DEF Nearer
    <3> QED
      BY <3>2, <3>3
  <2>6. ASSUME NEW n \in DOMAIN m.cost
        PROVE  /\ RouteToward(r, n, Learned(table[r][n], cost[n], m.src))
               /\ n \in changed /\ cost[n] < Infinity => Nearer(r, n, m.src)
    <3> DEFINE e == table[r][n]
               c == cost[n]
    <3>1. n \in Links /\ Sound(r, n, e) /\ RouteToward(r, n, e)
      BY <1>0, <2>2, <2>3 DEF TablesSound, TablesToward
    <3>2. c \in Metrics /\ (c < Infinity => r \in Attached[n] \/ Nearer(r, n, m.src))
      BY <2>5
    <3>3. n \in changed <=> Updated(e, c, m.src)
      OBVIOUS
    <3> HIDE DEF e, c, changed
    <3>4. /\ RouteToward(r, n, Learned(e, c, m.src))
          /\ Updated(e, c, m.src) /\ c < Infinity => Nearer(r, n, m.src)
      BY <2>3, <3>1, <3>2, LearnedToward
    <3> QED
      BY <3>3, <3>4 DEF e, c
  <2>7. Tellable(r, out)
    <3>1. DOMAIN out \subseteq Links
      BY <2>2
    <3>2. \A n \in DOMAIN out : out[n].cost = cost[n] /\ out[n].from = m.src
                                /\ n \in DOMAIN m.cost /\ n \in changed
      OBVIOUS
    <3> HIDE DEF out, changed, cost
    <3> QED
      BY <2>6, <3>1, <3>2 DEF Tellable
  <2>8. Kept({m}, r, out, Neighbours(r), up)
    BY <1>3 DEF HandleResponse, Broadcast
  <2>9. MsgsOutward'
    BY <1>0, <2>3, <2>7, <2>8, OutwardKept
  <2>10. table' = [table EXCEPT ![r] = [n \in Links |->
                      IF n \in DOMAIN cost THEN Learned(table[r][n], cost[n], m.src)
                                           ELSE table[r][n]]]
    BY <1>3 DEF HandleResponse
  <2>11. ASSUME NEW q \in Routers, NEW n \in Links
         PROVE  RouteToward(q, n, table'[q][n])
    <3>1. RouteToward(q, n, table[q][n])
      BY <1>0 DEF TablesToward
    <3>2. CASE q = r /\ n \in DOMAIN cost
      <4>1. table'[q][n] = Learned(table[q][n], cost[n], m.src)
        BY <1>0, <2>3, <2>10, <3>2 DEF TypeOK
      <4> QED
        BY <2>6, <3>2, <4>1
    <3>3. CASE ~(q = r /\ n \in DOMAIN cost)
      BY <1>0, <2>3, <2>10, <3>1, <3>3 DEF TypeOK
    <3> QED
      BY <3>2, <3>3
  <2> QED
    BY <2>9, <2>11 DEF Toward, TablesToward
<1>4. ASSUME NEW m \in msgs, Discard(m) \/ Lose(m) PROVE Toward'
  BY <1>0, <1>4 DEF Discard, Lose, Toward, TablesToward, MsgsOutward
<1>5. ASSUME NEW r \in Routers, NEW old \in SUBSET RipRoutes(r), CleanUp(r, old)
      PROVE  Toward'
  <2> DEFINE poisoned == {n \in RipRoutes(r) : table[r][n].metric = Infinity}
             expired  == old \ poisoned
             out      == [n \in expired |-> [cost |-> Infinity, from |-> NoGateway]]
  <2>1. Tellable(r, out)
    BY RipAssumption DEF Tellable, RipRoutes
  <2>2. Kept({}, r, out, Neighbours(r), up)
    BY <1>5 DEF CleanUp, Broadcast
  <2>3. MsgsOutward'
    BY <1>0, <2>1, <2>2, OutwardKept
  <2>4. ASSUME NEW q \in Routers, NEW n \in Links
        PROVE  RouteToward(q, n, table'[q][n])
    <3>1. RouteToward(q, n, table[q][n])
      BY <1>0 DEF TablesToward
    <3>2. table'[q][n] \in {NoEntry, table[q][n]}
      BY <1>0, <1>5 DEF CleanUp, TypeOK
    <3> QED
      BY <3>1, <3>2 DEF RouteToward, NoEntry
  <2> QED
    BY <2>3, <2>4 DEF Toward, TablesToward
<1>6. ASSUME NEW a \in Addresses, EnableInterface(a) \/ DisableInterface(a) PROVE Toward'
  <2>1. a[1] \in Routers /\ a[2] \in Links /\ a[1] \in Attached[a[2]]
    BY AddressParts
  <2>2. \A c \in {0, Infinity} :
            Tellable(a[1], [n \in {a[2]} |-> [cost |-> c, from |-> NoGateway]])
    BY <2>1 DEF Tellable
  <2>3. \E c \in {0, Infinity}, isUp \in {up, up'} :
            Kept({}, a[1], [n \in {a[2]} |-> [cost |-> c, from |-> NoGateway]],
                 Neighbours(a[1]), isUp)
    BY <1>6 DEF EnableInterface, DisableInterface, Broadcast
  <2>4. MsgsOutward'
    BY <1>0, <2>1, <2>2, <2>3, OutwardKept
  <2> QED
    BY <1>0, <1>6, <2>4 DEF EnableInterface, DisableInterface, Toward, TablesToward
<1> QED
  BY <1>1, <1>2, <1>3, <1>4, <1>5, <1>6 DEF Step

---------------------------------------------------------------------------
(* The datagram.                                                           *)

\* The header of a datagram in flight: its ttl has not wrapped, and the
\* checksum is the one for it.
HeaderSound == dgram # NoDatagram => dgram \in Datagram /\ dgram.check = dgram.ttl

\* The ttl lasts for the routers that are left.
LastsFrom(d) ==
    d.at[1] \in Routers =>
        /\ d.ttl >= 1
        /\ Dist[d.at[1]][d.dst[2]] < Infinity => d.ttl >= Visits(d.at[1], d.dst)

Lasts == dgram # NoDatagram => LastsFrom(dgram)

\* An interface is of a router, which is then on its link, or of a host.
LEMMA InterfaceParts ==
    ASSUME NEW a \in Interfaces
    PROVE  /\ a[2] \in Links
           /\ a[1] \in Routers => a \in Addresses /\ a[1] \in Attached[a[2]]
<1>1. CASE a \in Addresses
  BY <1>1, AddressParts
<1>2. CASE a \in HostAddresses
  BY <1>2, ForwardingAssumption DEF HostAddresses, HostAddress
<1> QED
  BY <1>1, <1>2 DEF Interfaces

\* What sendDatagram() makes of a datagram.
LEMMA Sent ==
    ASSUME NEW d \in Datagram, NEW out, NEW hop, NEW s, s = sendDatagram(d, out, hop)
    PROVE  \/ s = NoDatagram
           \/ /\ s \in Datagram /\ s.at = hop /\ hop \in Interfaces /\ out # NoGateway
              /\ s.dst = d.dst /\ s.ttl = d.ttl /\ s.check = d.check
BY DEF sendDatagram, Reaches, Datagram

\* A datagram that a router passes on: what it has become.
LEMMA Forwarded ==
    ASSUME NEW d \in Datagram, d.ttl # 0
    PROVE  /\ updateChecksum(Decremented(d)) \in Datagram
           /\ updateChecksum(Decremented(d)).dst = d.dst
           /\ updateChecksum(Decremented(d)).ttl = d.ttl - 1
           /\ updateChecksum(Decremented(d)).check = d.ttl - 1
<1> DEFINE c == Decremented(d)
           u == updateChecksum(c)
<1>1. d.ttl - 1 \in 0 .. InitTTL
  BY ForwardingAssumption DEF Datagram
<1>2. c \in Datagram /\ c.dst = d.dst /\ c.at = d.at /\ c.ttl = d.ttl - 1
  BY <1>1 DEF Decremented, Datagram
<1> HIDE DEF c
<1>3. u \in Datagram /\ u.dst = c.dst /\ u.ttl = c.ttl /\ u.check = c.ttl
  BY <1>2 DEF updateChecksum, Datagram
<1> QED
  BY <1>2, <1>3 DEF c

\* The datagram that sendIp_() starts with.
LEMMA Started ==
    ASSUME NEW dst \in Interfaces
    PROVE  [dst |-> dst, at |-> dst, ttl |-> InitTTL, check |-> InitTTL] \in Datagram
BY ForwardingAssumption DEF Datagram

\* The routing table of a router sends a datagram to its destination over a
\* link of its own, or to a router that is nearer.
LEMMA HopToward ==
    ASSUME RipInv, TablesToward, NEW r \in Routers, NEW dst \in Interfaces,
           NEW q, q = queryRoutingTable(r, dst), q.out # NoGateway
    PROVE  \/ q.hop = dst /\ Dist[r][dst[2]] = 0
           \/ Nearer(r, dst[2], q.hop)
<1> DEFINE n == dst[2]
           e == table[r][n]
<1>1. n \in Links /\ r \notin Hosts
  BY InterfaceParts, ForwardingAssumption
<1>2. q = RouterHop(r, dst)
  BY <1>1 DEF queryRoutingTable
<1>3. e.type \in {"NONE", "LOCAL", "RIP"} /\ RouteToward(r, n, e)
  BY <1>1 DEF RipInv, TypeOK, Entry, TablesToward
<1>4. CASE e.type = "NONE"
  BY <1>2, <1>4 DEF RouterHop, Unreachable
<1>5. CASE e.type = "LOCAL"
  <2>1. q.hop = dst
    BY <1>2, <1>5 DEF RouterHop
  <2> QED
    BY <1>1, <1>3, <1>5, <2>1, DistAssumption DEF RouteToward
<1>6. CASE e.type = "RIP"
  <2>1. q.hop = e.gateway
    BY <1>2, <1>6 DEF RouterHop
  <2> QED
    BY <1>3, <1>6, <2>1 DEF RouteToward
<1> QED
  BY <1>3, <1>4, <1>5, <1>6

\* What handling makes of the datagram, in one place.
LEMMA Handled ==
    ASSUME HeaderSound, RouterHandler, dgram' # NoDatagram
    PROVE  LET r == dgram.at[1]
               q == queryRoutingTable(r, dgram.dst)
           IN /\ dgram # NoDatagram /\ dgram \in Datagram /\ r \in Routers
              /\ dgram.ttl >= 1 /\ dgram.dst[1] # r
              /\ q.out # NoGateway /\ q.hop \in Interfaces
              /\ dgram' \in Datagram /\ dgram'.at = q.hop /\ dgram'.dst = dgram.dst
              /\ dgram'.ttl = dgram.ttl - 1 /\ dgram'.check = dgram.ttl - 1
<1> DEFINE d == Decremented(dgram)
           u == updateChecksum(d)
           r == dgram.at[1]
           q == queryRoutingTable(r, dgram.dst)
<1>1. dgram # NoDatagram /\ dgram \in Datagram /\ r \in Routers
  BY DEF RouterHandler, HeaderSound
<1>2. d.dst = dgram.dst /\ d.at = dgram.at
  BY <1>1 DEF Decremented, Datagram
<1>3. /\ Valid(dgram) /\ dgram.dst[1] # r
      /\ dgram' = sendDatagram(u, q.out, q.hop)
  BY <1>1, <1>2 DEF RouterHandler
<1>4. dgram.ttl # 0 /\ dgram.ttl >= 1
  BY <1>1, <1>3 DEF Valid, Datagram
<1>5. u \in Datagram /\ u.dst = dgram.dst /\ u.ttl = dgram.ttl - 1 /\ u.check = dgram.ttl - 1
  BY <1>1, <1>4, Forwarded
<1> HIDE DEF u, q
<1>6. /\ dgram' \in Datagram /\ dgram'.at = q.hop /\ q.hop \in Interfaces /\ q.out # NoGateway
      /\ dgram'.dst = u.dst /\ dgram'.ttl = u.ttl /\ dgram'.check = u.check
  BY <1>3, <1>5, Sent
<1> QED
  BY <1>1, <1>3, <1>4, <1>5, <1>6 DEF q

\* The same for sending.
LEMMA Originated ==
    ASSUME NEW f \in Flows, SendIp(f[1], f[2]), dgram' # NoDatagram
    PROVE  LET q == queryRoutingTable(f[1], f[2])
           IN /\ f[1] \in Routers \cup Hosts /\ f[2] \in Interfaces /\ f[2][1] # f[1]
              /\ q.out # NoGateway /\ q.hop \in Interfaces
              /\ dgram' \in Datagram /\ dgram'.at = q.hop /\ dgram'.dst = f[2]
              /\ dgram'.ttl = InitTTL /\ dgram'.check = InitTTL
<1> DEFINE d == [dst |-> f[2], at |-> f[2], ttl |-> InitTTL, check |-> InitTTL]
           q == queryRoutingTable(f[1], f[2])
<1>1. f[1] \in Routers \cup Hosts /\ f[2] \in Interfaces
  BY ForwardingAssumption DEF Interfaces, HostAddresses, HostAddress
<1>2. d \in Datagram
  BY <1>1, Started
<1>3. dgram' = sendDatagram(d, q.out, q.hop) /\ f[2][1] # f[1]
  BY DEF SendIp
<1>4. d.dst = f[2] /\ d.ttl = InitTTL /\ d.check = InitTTL
  OBVIOUS
<1> HIDE DEF d, q
<1>5. /\ dgram' \in Datagram /\ dgram'.at = q.hop /\ q.hop \in Interfaces /\ q.out # NoGateway
      /\ dgram'.dst = d.dst /\ dgram'.ttl = d.ttl /\ dgram'.check = d.check
  BY <1>2, <1>3, Sent
<1> QED
  BY <1>1, <1>3, <1>4, <1>5 DEF q

---------------------------------------------------------------------------

\* Every step keeps the header sound, on any network.
LEMMA HeaderNext == HeaderSound /\ [FNext]_fvars => HeaderSound'
<1> SUFFICES ASSUME HeaderSound, [FNext]_fvars, dgram' # NoDatagram
             PROVE  dgram' \in Datagram /\ dgram'.check = dgram'.ttl
  BY DEF HeaderSound
<1>1. CASE UNCHANGED dgram
  BY <1>1 DEF HeaderSound
<1>2. ASSUME NEW f \in Flows, SendIp(f[1], f[2])
      PROVE  dgram' \in Datagram /\ dgram'.check = dgram'.ttl
  BY <1>2, Originated
<1>3. CASE RouterHandler
  BY <1>3, Handled
<1>4. CASE HostHandler \/ LoseDatagram
  BY <1>4 DEF HostHandler, LoseDatagram
<1> QED
  BY <1>1, <1>2, <1>3, <1>4 DEF FNext, SwitchHost, fvars

\* The datagrams leave the routers alone.
LEMMA RoutersStep == [FNext]_fvars => Step \/ UNCHANGED vars
BY DEF FNext, SendIp, RouterHandler, HostHandler, LoseDatagram, SwitchHost, fvars

\* Every step of the whole keeps the routers' invariant and, without cycles,
\* the routes leading towards their links.
LEMMA RoutersNext ==
    ASSUME RipInv, [FNext]_fvars
    PROVE  RipInv' /\ (Acyclic /\ Toward => Toward')
<1>1. CASE Step
  <2>1. RipInv'
    BY <1>1, RipNext DEF Next
  <2> QED
    BY <1>1, <2>1, TowardNext
<1>2. CASE UNCHANGED vars
  <2>1. RipInv'
    BY <1>2, RipNext
  <2> QED
    BY <1>2, <2>1 DEF Toward, TablesToward, MsgsOutward, vars
<1> QED
  BY <1>1, <1>2, RoutersStep

\* Every hop leaves a ttl for the routers that are left.
LEMMA LastsNext ==
    ASSUME Acyclic, Lasting, RipInv, Toward, HeaderSound, Lasts, [FNext]_fvars
    PROVE  Lasts'
<1> SUFFICES ASSUME dgram' # NoDatagram, dgram'.at[1] \in Routers
             PROVE  /\ dgram'.ttl >= 1
                    /\ Dist[dgram'.at[1]][dgram'.dst[2]] < Infinity =>
                          dgram'.ttl >= Visits(dgram'.at[1], dgram'.dst)
  BY DEF Lasts, LastsFrom
<1>0. TablesToward /\ InitTTL \in Nat /\ InitTTL >= 1
  BY ForwardingAssumption DEF Toward
<1>1. CASE UNCHANGED dgram
  BY <1>1 DEF Lasts, LastsFrom
<1>2. ASSUME NEW f \in Flows, SendIp(f[1], f[2])
      PROVE  /\ dgram'.ttl >= 1
             /\ Dist[dgram'.at[1]][dgram'.dst[2]] < Infinity =>
                   dgram'.ttl >= Visits(dgram'.at[1], dgram'.dst)
  <2> DEFINE q   == queryRoutingTable(f[1], f[2])
             dst == f[2]
  <2>1. /\ f[1] \in Routers \cup Hosts /\ dst \in Interfaces /\ dst[1] # f[1]
        /\ q.out # NoGateway /\ q.hop \in Interfaces
        /\ dgram'.at = q.hop /\ dgram'.dst = dst /\ dgram'.ttl = InitTTL
    BY <1>2, Originated
  <2>2. CASE q.hop = dst
    BY <1>0, <2>1, <2>2 DEF Visits
  <2>3. CASE f[1] \in Hosts /\ q.hop # dst
    <3>1. q.hop = <<Gateway[f[1]], Home[f[1]]>>
      BY <2>3 DEF queryRoutingTable, HostHop
    <3>2. Dist[Gateway[f[1]]][dst[2]] < Infinity => Visits(Gateway[f[1]], dst) <= InitTTL
      BY <2>3 DEF Lasting
    <3> QED
      BY <1>0, <2>1, <3>1, <3>2
         DEF Visits
  <2>4. CASE f[1] \in Routers /\ q.hop # dst
    <3> DEFINE s == f[1]
               g == q.hop
               n == dst[2]
    <3>1. Nearer(s, n, g) /\ n \in Links /\ g[1] \in Routers
      <4>1. Nearer(s, n, g)
        BY <1>0, <2>1, <2>4, HopToward
      <4> QED
        BY <2>1, <4>1, InterfaceParts, AddressParts DEF Nearer, Neighbours
    <3>2. Dist[s][n] \in Nat /\ Dist[g[1]][n] \in Nat
      BY <2>4, <3>1, DistAssumption
    <3>3. s \notin Hosts
      BY <2>4, ForwardingAssumption
    <3>4. Visits(s, dst) <= InitTTL + 1
      BY <3>1, <3>3 DEF Lasting, Nearer
    <3>5. Visits(s, dst) = Dist[s][n] + (IF dst[1] \in Routers THEN 2 ELSE 1)
      BY <2>1 DEF Visits
    <3>6. Visits(g[1], dst) <= InitTTL
      BY <1>0, <3>1, <3>2, <3>4, <3>5 DEF Visits, Nearer
    <3> QED
      BY <1>0, <2>1, <3>2, <3>6 DEF Visits
  <2> QED
    BY <2>1, <2>2, <2>3, <2>4
<1>3. CASE RouterHandler
  <2> DEFINE r   == dgram.at[1]
             dst == dgram.dst
             q   == queryRoutingTable(r, dst)
             n   == dst[2]
             g   == q.hop
             t   == dgram.ttl
  <2>1. /\ dgram # NoDatagram /\ dgram \in Datagram /\ r \in Routers
        /\ t >= 1 /\ dst[1] # r
        /\ q.out # NoGateway /\ g \in Interfaces
        /\ dgram'.at = g /\ dgram'.dst = dst /\ dgram'.ttl = t - 1
    BY <1>3, Handled
  <2>2. dst \in Interfaces /\ t \in Nat
    BY <2>1, ForwardingAssumption DEF Datagram
  <2>3. Dist[r][n] < Infinity => t >= Visits(r, dst)
    BY <2>1 DEF Lasts, LastsFrom
  <2>4. Visits(r, dst) = Dist[r][n] + (IF dst[1] \in Routers THEN 2 ELSE 1)
    BY <2>1 DEF Visits
  <2>5. CASE g = dst /\ Dist[r][n] = 0
    <3>1. dst[1] \in Routers /\ t >= 2
      BY <2>1, <2>2, <2>3, <2>4, <2>5, RipAssumption
    <3>2. Visits(dst[1], dst) = 1
      BY DEF Visits
    <3> QED
      BY <2>1, <2>2, <2>5, <3>1, <3>2
  <2>6. CASE Nearer(r, n, g)
    <3>1. n \in Links /\ g[1] \in Routers
      BY <2>1, <2>2, <2>6, InterfaceParts, AddressParts DEF Nearer, Neighbours
    <3>2. Dist[r][n] \in Nat /\ Dist[g[1]][n] \in Nat
      BY <2>1, <3>1, DistAssumption
    <3>3. /\ Dist[g[1]][n] < Dist[r][n]
          /\ t >= Dist[r][n] + (IF dst[1] \in Routers THEN 2 ELSE 1)
      BY <2>3, <2>4, <2>6 DEF Nearer
    <3>4. Visits(g[1], dst) \in {1, Dist[g[1]][n] + (IF dst[1] \in Routers THEN 2 ELSE 1)}
      BY DEF Visits
    <3> HIDE DEF r, dst, q, n, g, t
    <3>5. t - 1 >= 1 /\ t - 1 >= Visits(g[1], dst)
      BY <2>2, <3>2, <3>3, <3>4
    <3> QED
      BY <2>1, <3>5
  <2>7. \/ g = dst /\ Dist[r][n] = 0
        \/ Nearer(r, n, g)
    BY <1>0, <2>1, <2>2, HopToward
  <2> QED
    BY <2>5, <2>6, <2>7
<1>4. CASE HostHandler \/ LoseDatagram
  BY <1>4 DEF HostHandler, LoseDatagram
<1> QED
  BY <1>1, <1>2, <1>3, <1>4 DEF FNext, SwitchHost, fvars

\* On a network without cycles a datagram that a router passes on gets nearer.
LEMMA HopNearer ==
    ASSUME RipInv, TablesToward, HeaderSound, [FNext]_fvars,
           dgram # NoDatagram, dgram' # NoDatagram, dgram' # dgram
    PROVE  Far(dgram') < Far(dgram)
<1>1. RouterHandler
  BY DEF FNext, SendIp, HostHandler, LoseDatagram, SwitchHost, fvars
<1> DEFINE r   == dgram.at[1]
           dst == dgram.dst
           q   == queryRoutingTable(r, dst)
           n   == dst[2]
           g   == q.hop
<1>2. /\ dgram \in Datagram /\ r \in Routers /\ dst[1] # r
      /\ q.out # NoGateway /\ g \in Interfaces
      /\ dgram'.at = g /\ dgram'.dst = dst
  BY <1>1, Handled
<1>3. dst \in Interfaces /\ n \in Links /\ Dist[r][n] \in Nat
  BY <1>2, InterfaceParts, DistAssumption DEF Datagram
<1>4. Far(dgram) = Dist[r][n] + 1
  BY <1>2 DEF Far
<1>5. Far(dgram') = IF g = dst THEN 0 ELSE Dist[g[1]][n] + 1
  BY <1>2 DEF Far
<1>6. CASE g = dst
  BY <1>3, <1>4, <1>5, <1>6
<1>7. CASE Nearer(r, n, g)
  <2>1. g[1] \in Routers /\ Dist[g[1]][n] \in Nat /\ Dist[g[1]][n] < Dist[r][n]
    BY <1>3, <1>7, AddressParts, DistAssumption DEF Nearer, Neighbours
  <2> HIDE DEF r, g, n, dst
  <2> QED
    BY <1>3, <1>4, <1>5, <2>1
<1>8. g = dst \/ Nearer(r, n, g)
  BY <1>2, <1>3, HopToward
<1> QED
  BY <1>6, <1>7, <1>8

\* On every network, with routes however bad, the checksum of a datagram in
\* flight is the one of its ttl, and the ttl never wraps (datagram.cpp:53-63
\* checks the one, then decrements the other; network_node.cpp computes anew).
THEOREM HeadersSound == FSpec => []HeaderSound
<1>1. FInit => HeaderSound
  BY DEF FInit, HeaderSound
<1> QED
  BY <1>1, HeaderNext, PTL DEF FSpec

\* On every network without cycles each hop brings a datagram nearer to its
\* subnet, whatever the routers have heard, missed or forgotten: poisoned
\* reverse (router_node.cpp) keeps any two from being each other's gateways.
THEOREM NearerOnTrees == ASSUME Acyclic PROVE FSpec => NearerEachHop
<1> DEFINE I == RipInv /\ Toward /\ HeaderSound
<1>1. FInit => I
  BY RipInit, TowardInit DEF FInit, HeaderSound
<1>2. I /\ [FNext]_fvars => I'
  BY RoutersNext, HeaderNext
<1>3. I /\ [FNext]_fvars =>
         [dgram # NoDatagram /\ dgram' # NoDatagram /\ dgram' # dgram
             => Far(dgram') < Far(dgram)]_fvars
  BY HopNearer DEF Toward
<1> QED
  BY <1>1, <1>2, <1>3, PTL DEF FSpec, NearerEachHop

\* On every network without cycles whose flows the ttl is made for, no router
\* drops a datagram for its checksum or its ttl (datagram.cpp:53-63).
THEOREM LastsOnTrees == ASSUME Acyclic, Lasting PROVE FSpec => []AliveAtRouters
<1> DEFINE I == RipInv /\ Toward /\ HeaderSound /\ Lasts
<1>1. FInit => I
  BY RipInit, TowardInit DEF FInit, HeaderSound, Lasts
<1>2. I /\ [FNext]_fvars => I'
  BY RoutersNext, HeaderNext, LastsNext
<1>3. I => AliveAtRouters
  BY DEF HeaderSound, Lasts, LastsFrom, AliveAtRouters, Valid
<1> QED
  BY <1>1, <1>2, <1>3, PTL DEF FSpec

\* The program's values, INIT_TTL = RipMessage::INFINITY, suffice for what
\* routers send to anyone, and for what hosts send to hosts.
LEMMA LastingInProgram ==
    ASSUME InitTTL = Infinity, \A f \in Flows : f[1] \in Hosts => f[2][1] \in Hosts
    PROVE  Lasting
<1> SUFFICES ASSUME NEW f \in Flows,
                    NEW r, r = IF f[1] \in Hosts THEN Gateway[f[1]] ELSE f[1],
                    Dist[r][f[2][2]] < Infinity
             PROVE  Visits(r, f[2]) <= IF f[1] \in Hosts THEN InitTTL ELSE InitTTL + 1
  BY DEF Lasting
<1>1. f[1] \in Routers \cup Hosts /\ f[2] \in Interfaces
  BY ForwardingAssumption DEF Interfaces, HostAddresses, HostAddress
<1>2. r \in Routers /\ f[2][2] \in Links
  BY <1>1, InterfaceParts, ForwardingAssumption, RipAssumption
<1>3. Dist[r][f[2][2]] \in Nat
  BY <1>2, DistAssumption
<1>4. f[2][1] \in Hosts => f[2][1] \notin Routers
  BY ForwardingAssumption
<1> QED
  BY <1>3, <1>4, RipAssumption DEF Visits
=============================================================================
