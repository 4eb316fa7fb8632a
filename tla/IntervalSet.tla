---------------------------- MODULE IntervalSet ----------------------------
(***************************************************************************)
(* RightOpenIntervalSet<uint32_t> of tcp/intervals.hpp, which remembers    *)
(* the segments that arrived early.  A set of records [begin, end) stands  *)
(* for the std::set; its order is the one of operator<=>, by begin and     *)
(* then by end.  Every operation returns the new set, the end of the       *)
(* merged interval and how it came out:                                    *)
(*   "ok"                                                                  *)
(*   "throw"      the constructor of an interval found begin >= end        *)
(*   "undefined"  std::set::erase was given a range that ends before it    *)
(*                begins                                                   *)
(* The last two need an end within two of the largest uint32_t.            *)
(***************************************************************************)
EXTENDS Seq32

Interval == {iv \in [begin : U32, end : U32] : iv.begin < iv.end}

Less(a, b) == a.begin < b.begin \/ (a.begin = b.begin /\ a.end < b.end)

\* std::prev of the first element of S not less than q.
LastBefore(S, q) ==
    LET before == {x \in S : Less(x, q)}
    IN {x \in before : \A y \in before : y = x \/ Less(y, x)}

MaxEnd(end, S) == CHOOSE m \in {end} \cup {x.end : x \in S} :
                      m >= end /\ \A x \in S : m >= x.end

\* The interval on the left of iv that it touches: none or one.
LeftOf(S, iv) == {x \in LastBefore(S, iv) : x.end >= iv.begin}

\* The argument of lower_bound({end + 1, end + 2}), on uint32_t.
Beyond(end) == [begin |-> Add(end, 1), end |-> Add(end, 2)]

\* Mutant of emplaceMerge: neighbours that only touch on the right stay apart.
EmplaceMergeOverlap(S, iv) ==
    LET T     == S \cup {iv}
        left  == LeftOf(S, iv)
        end   == MaxEnd(iv.end, left)
        range == {x \in T : Less(x, [begin |-> end, end |-> end + 1])
                            /\ (x \in left \/ ~Less(x, iv))}
        stop  == MaxEnd(end, range)
    IN IF iv \in S \/ range = {iv}
       THEN [set |-> T, end |-> end, outcome |-> "ok"]
       ELSE [set |-> (T \ range) \cup {[begin |-> (CHOOSE b \in {x.begin : x \in range} :
                                                      \A x \in range : b <= x.begin),
                                        end |-> stop]},
             end |-> stop, outcome |-> "ok"]

\* emplaceMerge(): insert iv and merge it with everything it touches.
emplaceMerge(S, iv) ==
    LET T     == S \cup {iv}
        left  == LeftOf(S, iv)
        begin == IF left = {} THEN iv.begin ELSE (CHOOSE x \in left : TRUE).begin
        end   == MaxEnd(iv.end, left)
        \* [left, right)
        range == {x \in T : Less(x, Beyond(end)) /\ (x \in left \/ ~Less(x, iv))}
        stop  == MaxEnd(end, LastBefore(T, Beyond(end)))
        \* how it comes out once iv is in the set
        merged == CASE Beyond(end) \notin Interval ->
                         [set |-> T, end |-> end, outcome |-> "throw"]
                    [] Beyond(end) \in Interval /\ range = {} ->
                         [set |-> T, end |-> end, outcome |-> "undefined"]
                    [] Beyond(end) \in Interval /\ range = {iv} ->
                         [set |-> T, end |-> end, outcome |-> "ok"]
                    [] OTHER ->
                         [set |-> (T \ range) \cup {[begin |-> begin, end |-> stop]},
                          end |-> stop, outcome |-> "ok"]
    IN CASE iv \notin Interval -> [set |-> S, end |-> iv.end, outcome |-> "throw"]
         [] iv \in S           -> [set |-> S, end |-> iv.end, outcome |-> "ok"]
         [] OTHER              -> merged

\* Mutant of mergeRemove: the merged early arrivals stay in the set.
MergeRemoveKeeps(S, iv) ==
    LET end == MaxEnd(iv.end, LeftOf(S, iv))
    IN [set |-> S, end |-> MaxEnd(end, LastBefore(S, Beyond(end))), outcome |-> "ok"]

\* mergeRemove(): merge iv with everything it touches and take all of it out.
mergeRemove(S, iv) ==
    LET left  == LeftOf(S, iv)
        end   == MaxEnd(iv.end, left)
        range == {x \in S : Less(x, Beyond(end)) /\ (x \in left \/ ~Less(x, iv))}
    IN IF iv \notin Interval \/ Beyond(end) \notin Interval
       THEN [set |-> S, end |-> end, outcome |-> "throw"]
       ELSE [set |-> S \ range, end |-> MaxEnd(end, LastBefore(S, Beyond(end))), outcome |-> "ok"]
=============================================================================
