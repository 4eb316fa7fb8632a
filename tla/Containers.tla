----------------------------- MODULE Containers -----------------------------
(***************************************************************************)
(* The containers of the program as state machines beside what they stand  *)
(* for: a ring buffer that is written and read at every position, with     *)
(* every length the assertions of the code allow (last - at < N); an       *)
(* interval set under any sequence of operations with any intervals below  *)
(* Top, away from the end of uint32_t; a routing table under any sequence  *)
(* of RIP entries, expiries and cleanings; and the sum over the words of a *)
(* header.  A behaviour exercises one of them.                             *)
(***************************************************************************)
EXTENDS RingBuffer, IntervalSet, RoutingTable, Checksum

CONSTANTS MaxPos,   \* the largest absolute position tried
          MaxLen,   \* the longest data written
          Top,      \* the largest end of an interval
          Local,    \* the node's own subnet, as <<network address, length>>
          Own,      \* the node's address there
          Subnets,  \* the other subnets
          Interfaces, \* the addresses of the routers' interfaces
          Gateways, \* the neighbours on the local subnet
          Told      \* the costs that RIP messages tell

ASSUME ContainersAssumption ==
    /\ MaxPos \in Nat /\ MaxLen \in Nat /\ Top \in Nat /\ Top + 2 < M
    /\ Subnets \cup {Local} \subseteq Addr \X (0 .. W)
    /\ Interfaces \cup Gateways \cup {Own} \subseteq Addr
    /\ Told \subseteq 0 .. Unreached

VARIABLES part,               \* the container this behaviour is about
          buf,                \* the ring buffer
          intervals, covered, \* the interval set, and the plain set of the
                              \* numbers inserted and not removed
          entries, routes,    \* the routing table, and the map it stands for
          header,             \* the words summed up: how many, the wide sum, and
                              \* the sum with every carry added at once
          got, want           \* the last result, and what it should be

vars == <<part, buf, intervals, covered, entries, routes, header, got, want>>

NoHeader == [n |-> 0, wide |-> 0, ones |-> 0]

Init == /\ part \in {"ring", "intervals", "table", "checksum"}
        /\ buf = [c \in Cells |-> 0]
        /\ intervals = {}
        /\ covered = {}
        /\ entries = addEntry(<<>>, "LOCAL", Own, Local[2], NoGateway, 0)
        /\ routes = [n \in {Local} |-> entries[1]]
        /\ header = NoHeader
        /\ got = <<>>
        /\ want = <<>>

---------------------------------------------------------------------------
(* The ring buffer.                                                        *)

Datas == {[i \in 1 .. len |-> i] : len \in 0 .. MaxLen}

Ranges == {r \in (0 .. MaxPos) \X (0 .. MaxPos) : r[2] - r[1] < N}

Write(data, at, last) ==
    /\ got' = write(buf, data, at, last)
    /\ want' = RingWrite(buf, data, at, last)
    /\ buf' = got'.buf

Read(size, at, last) ==
    /\ got' = read(buf, size, at, last)
    /\ want' = RingRead(buf, size, at, last)
    /\ UNCHANGED buf

RingStep ==
    /\ part = "ring"
    /\ \E r \in Ranges : \/ \E data \in Datas : Write(data, r[1], r[2])
                         \/ \E size \in 0 .. MaxLen : Read(size, r[1], r[2])
    /\ UNCHANGED <<part, intervals, covered, entries, routes, header>>

---------------------------------------------------------------------------
(* The interval set.                                                       *)

Arguments == {iv \in Interval : iv.end <= Top}

Numbers(iv) == iv.begin .. iv.end - 1

\* The end of the run of consecutive numbers of C that starts at b.
RunEnd(C, b) == CHOOSE t \in b .. Top : t \notin C /\ b .. t - 1 \subseteq C

\* The run of consecutive numbers of C around b.
Run(C, b) == {n \in C : \/ n >= b /\ b .. n \subseteq C
                        \/ n < b /\ n .. b \subseteq C}

EmplaceMerge(iv) ==
    /\ intervals' = emplaceMerge(intervals, iv).set
    /\ covered' = covered \cup Numbers(iv)
    /\ UNCHANGED <<got, want>>

MergeRemove(iv) ==
    LET all == covered \cup Numbers(iv)
    IN /\ intervals' = mergeRemove(intervals, iv).set
       /\ got' = mergeRemove(intervals, iv).end
       /\ want' = RunEnd(all, iv.begin)
       /\ covered' = covered \ Run(all, iv.begin)

IntervalStep ==
    /\ part = "intervals"
    /\ \E iv \in Arguments : EmplaceMerge(iv) \/ MergeRemove(iv)
    /\ UNCHANGED <<part, buf, entries, routes, header>>

---------------------------------------------------------------------------
(* The routing table, beside a function from subnets to routes.  An entry  *)
(* holds some address of its subnet: the one of the interface that the     *)
(* route was first told with.                                              *)

InNet(a, n) == Masked(a, n[2]) = n[1]

Net(e) == <<Masked(e.addr, e.len), e.len>>

\* The hypotheses under which the table is a map.  findEntryNoLock_() cannot
\* tell subnets apart that share a network address.
NetworksApart ==
    /\ InNet(Own, Local) /\ Local \notin Subnets
    /\ \A m, n \in Subnets \cup {Local} : m[1] = n[1] => m = n

\* Gateways are reached over the local subnet, not over a route that was told.
GatewaysLocal ==
    \A g \in Gateways : InNet(g, Local) /\ \A n \in Subnets : ~InNet(g, n)

\* What a neighbour's word does to the route to n.
Heard(n, a, c, from) ==
    IF n \in DOMAIN routes
    THEN LET r == routes[n]
         IN IF r.type = "RIP" /\ (c < r.metric \/ r.gateway = from)
            THEN [routes EXCEPT ![n] = [r EXCEPT !.metric = c, !.gateway = from,
                                                 !.expired = FALSE]]
            ELSE routes
    ELSE IF c < Unreached
         THEN [x \in DOMAIN routes \cup {n} |->
                 IF x = n THEN [type |-> "RIP", addr |-> a, len |-> n[2], gateway |-> from,
                                metric |-> c, expired |-> FALSE]
                 ELSE routes[x]]
         ELSE routes

RipEntry(n, a, c, from) ==
    /\ InNet(a, n)
    /\ entries' = handleRipEntry(entries, a, n[2], c, from)
    /\ routes' = Heard(n, a, c, from)

Expire(n) ==
    /\ n \in DOMAIN routes /\ routes[n].type = "RIP"
    /\ entries' = [k \in 1 .. Len(entries) |->
                     IF Net(entries[k]) = n
                     THEN [entries[k] EXCEPT !.expired = TRUE] ELSE entries[k]]
    /\ routes' = [routes EXCEPT ![n].expired = TRUE]

Clean ==
    /\ entries' = removeStaleRipEntries(entries)
    /\ routes' = [n \in {x \in DOMAIN routes : ~Stale(routes[x])} |-> routes[n]]

TableStep ==
    /\ part = "table"
    /\ \/ \E n \in Subnets \cup {Local}, a \in Interfaces, c \in Told, g \in Gateways :
              RipEntry(n, a, c, g)
       \/ \E n \in Subnets : Expire(n)
       \/ Clean
    /\ UNCHANGED <<part, buf, intervals, covered, header, got, want>>

---------------------------------------------------------------------------
(* The checksum of a header.                                               *)

AddWord(w) == [n    |-> header.n + 1,
               wide |-> header.wide + w,
               ones |-> IF header.ones + w \in Word THEN header.ones + w
                        ELSE header.ones + w - Base + 1]

ChecksumStep ==
    /\ part = "checksum"
    /\ \/ header.n < Words /\ \E w \in Word : header' = AddWord(w)
       \/ header.n = Words /\ header' = NoHeader
    /\ UNCHANGED <<part, buf, intervals, covered, entries, routes, got, want>>

---------------------------------------------------------------------------

Next == RingStep \/ IntervalStep \/ TableStep \/ ChecksumStep

Spec == Init /\ [][Next]_vars

\* The two-range copies of write() and read() (buffers.hpp:36-128) compute
\* what a circular array promises: element i at the cell of position
\* at + i - 1, every other cell untouched, and the count of elements that fit.
CopiesAgree == part = "ring" => got = want

\* After any sequence of insertions and removals the intervals are the maximal
\* runs of what was inserted and not removed: nothing lost, nothing invented,
\* no two intervals that touch (the merging of intervals.hpp:32-91 relies on
\* that last part to look at one neighbour on the left only).  And mergeRemove()
\* returns the first number that is still missing, which RecvBuffer::onRecv()
\* acknowledges.
IntervalsExact ==
    /\ part = "intervals" => got = want
    /\ UNION {Numbers(iv) : iv \in intervals} = covered
    /\ \A a, b \in intervals : a = b \/ a.end < b.begin \/ b.end < a.begin

\* The vector is the map from subnets to routes that Rip takes it for: one
\* entry for each subnet whatever was appended, overwritten, expired and moved
\* about, and the cleaner, which moves an entry it has not looked at into the
\* place of one it removes, leaves no stale route and takes no other.
TableIsMap ==
    /\ Len(entries) = Cardinality(DOMAIN routes)
    /\ {entries[k] : k \in 1 .. Len(entries)} = {routes[n] : n \in DOMAIN routes}

\* A datagram to any address takes the route with the longest matching prefix,
\* and leaves by an interface of the node: the local subnet's, where every
\* gateway is.
Holding(a) == {n \in DOMAIN routes : InNet(a, n)}

LookupLongest ==
    \A a \in Addr :
        LET h == NextHop(entries, a)
            n == CHOOSE x \in Holding(a) : \A y \in Holding(a) : y[2] <= x[2]
        IN IF Holding(a) = {} THEN h.out = 0
           ELSE /\ h.out # 0 /\ entries[h.out].type = "LOCAL"
                /\ h.hop = IF n = Local THEN a ELSE routes[n].gateway

\* Two folds are enough for as many words as a header has: the checksum is the
\* complement of the sum in ones' complement.  So a header of which one word was
\* changed by less than Base - 1, as a new ttl does, is refused unless its
\* checksum is changed too, which is why updateChecksum() may not be left out
\* when a router forwards; Forwarding takes that for granted.
ChecksumExact ==
    /\ ipv4Checksum(header.wide) = Base - 1 - header.ones
    /\ header.n < Words =>
         \A ttl1, ttl2 \in 0 .. Base - 2 :
             ttl1 # ttl2 => ipv4Checksum(header.wide + ttl1) # ipv4Checksum(header.wide + ttl2)

\* routing_table.hpp:87, "Find an iterator to the exact entry in the routing
\* table given the address and mask.", of findEntry_(): the entry for the
\* subnet of an address, and none only if there is no route to it.
ExactEntry ==
    \A n \in Subnets \cup {Local}, a \in Interfaces :
        InNet(a, n) => LET k == findEntry(entries, a, n[2])
                       IN IF k = 0 THEN n \notin DOMAIN routes ELSE Net(entries[k]) = n
=============================================================================
