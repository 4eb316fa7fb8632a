---------------------------- MODULE RoutingTable ----------------------------
(***************************************************************************)
(* ip::RoutingTable as the code keeps it: a vector of entries that is      *)
(* searched from the front, appended to, and shrunk by moving the last     *)
(* entry into the place of a removed one.  Every operator is one critical  *)
(* section of the table's mutex_.  An address is a number of W bits and a  *)
(* mask is given by its length; lastRefresh is reduced to whether the      *)
(* entry has expired.                                                      *)
(***************************************************************************)
EXTENDS Naturals, Sequences, SequencesExt

CONSTANTS W,          \* bits of an address, 32 in the program
          Unreached   \* RipMessage::INFINITY

ASSUME TableAssumption == W \in Nat /\ Unreached \in Nat

\* 1 << n.
Pow2[n \in 0 .. W] == IF n = 0 THEN 1 ELSE 2 * Pow2[n - 1]

Addr      == 0 .. Pow2[W] - 1
NoGateway == Pow2[W]

Entries == [type : {"LOCAL", "RIP", "STATIC"}, addr : Addr, len : 0 .. W,
            gateway : Addr \cup {NoGateway}, metric : 0 .. Unreached, expired : BOOLEAN]

\* The mask of a length, in host byte order, and an address under it.
Mask(len)      == Pow2[W] - Pow2[W - len]
Masked(a, len) == a - (a % Pow2[W - len])

sameSubnet(a, b, len) == Masked(a, len) = Masked(b, len)

---------------------------------------------------------------------------
(* Lookups, which return a position in the vector (a pointer in the code), *)
(* or 0.                                                                   *)

Matches(e, a) == sameSubnet(a, e.addr, e.len)

\* Mutant of Longer: the masks are not compared, so the last match stays.
LongerLast(es, k, best) == TRUE

Longer(es, k, best) == best = 0 \/ Mask(es[k].len) > Mask(es[best].len)

\* best[k] is longestPrefixEntry after k turns of the loop.
queryLongestPrefixMatch(es, a) ==
    LET best[k \in 0 .. Len(es)] ==
            IF k = 0 THEN 0
            ELSE IF Matches(es[k], a) /\ Longer(es, k, best[k - 1]) THEN k ELSE best[k - 1]
    IN best[Len(es)]

\* queryRoutingTable_(): the entry for the destination, then, if it has a
\* gateway, the entry for that, whose interface is used.
NextHop(es, a) ==
    LET e == queryLongestPrefixMatch(es, a)
        g == es[e].gateway
        f == queryLongestPrefixMatch(es, g)
    IN CASE e = 0                      -> [out |-> 0, hop |-> a]
         [] e # 0 /\ g = NoGateway     -> [out |-> e, hop |-> a]
         [] e # 0 /\ g # NoGateway     -> [out |-> f, hop |-> g]

\* The network addresses are compared, each under its own mask.
findEntry(es, a, len) ==
    SelectInSeq(es, LAMBDA e : Masked(e.addr, e.len) = Masked(a, len))

---------------------------------------------------------------------------
(* Changes.                                                                *)

addEntry(es, type, a, len, gateway, metric) ==
    Append(es, [type |-> type, addr |-> a, len |-> len, gateway |-> gateway,
                metric |-> metric, expired |-> FALSE])

\* handleRipEntries_() for one route of cost c to a/len told by the neighbour
\* `from'.
handleRipEntry(es, a, len, c, from) ==
    LET k == findEntry(es, a, len)
    IN CASE k = 0 /\ c < Unreached  -> addEntry(es, "RIP", a, len, from, c)
         [] k = 0 /\ c = Unreached  -> es
         [] k # 0 /\ es[k].type = "LOCAL" -> es
         [] k # 0 /\ es[k].type # "LOCAL" /\ c < es[k].metric ->
                [es EXCEPT ![k].metric = c, ![k].gateway = from, ![k].expired = FALSE]
         [] k # 0 /\ es[k].type # "LOCAL" /\ c >= es[k].metric ->
                IF es[k].gateway = from
                THEN [es EXCEPT ![k].metric = c, ![k].expired = FALSE] ELSE es

Stale(e) == e.type = "RIP" /\ (e.metric = Unreached \/ e.expired)

\* Mutant of CleanStep: the iterator moves on past the entry moved in.
CleanStepSkips(s) ==
    IF s.it > Len(s.es) THEN s
    ELSE [es |-> IF Stale(s.es[s.it]) THEN Front([s.es EXCEPT ![s.it] = Last(s.es)]) ELSE s.es,
          it |-> s.it + 1]

\* A turn of the loop of removeStaleRipEntries_(): *it = back(), pop_back().
CleanStep(s) ==
    IF Stale(s.es[s.it]) THEN [s EXCEPT !.es = Front([s.es EXCEPT ![s.it] = Last(s.es)])]
                         ELSE [s EXCEPT !.it = @ + 1]

\* Each turn removes an entry or steps over one, so there are Len(es) turns.
removeStaleRipEntries(es) ==
    LET turn[k \in 0 .. Len(es)] ==
            IF k = 0 THEN [es |-> es, it |-> 1] ELSE CleanStep(turn[k - 1])
    IN turn[Len(es)].es
=============================================================================
