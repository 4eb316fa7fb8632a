-------------------------- MODULE Connection_proofs --------------------------
(***************************************************************************)
(* Proofs about Connection, for any plans of the users, files of any       *)
(* length, any workers and any threads overtaken between two steps:        *)
(* TypeCorrect, AcksCounted, ClosesPromised and BytesInOrder.              *)
(*                                                                         *)
(* None of the properties is inductive by itself.  What an end believes is *)
(* what packets told it, so the invariant says of every packet ever sent   *)
(* what is true of its sender from then on (Honest); what a reader gets is *)
(* what the receive buffer counted, so it says where each counted number   *)
(* came from (Linked); and the bytes before the first FIN are the ones the *)
(* application wrote (Written).  A state is assigned long after the checks *)
(* it rests on, so the invariant says of every step a thread has still to  *)
(* take that what it relies on holds by then (Ready).                      *)
(***************************************************************************)
EXTENDS Connection, TLAPS, FiniteSetTheorems, SequenceTheorems, NaturalsInduction,
        WellFoundedInduction

\* A socket by itself: its pointers are in order, its FINs took numbers that
\* were sent, and what came early was stored.
Whole(s) ==
    /\ s \in Socket
    /\ s.una <= s.nxt /\ s.nxt <= Len(s.stream) + 1
    /\ s.fins \subseteq 1 .. s.nxt - 1
    /\ s.state # "NONE" => s.nxt >= 1
    /\ s.early \subseteq s.have /\ IsFiniteSet(s.early)

\* s against the socket p of the other end: nothing is acknowledged that p did
\* not count, and every number s has counted is a byte it stored or a FIN of p.
Linked(s, p) ==
    /\ s.una <= p.rnxt
    /\ \A n \in 1 .. s.rnxt - 1 : n \in s.have \cup p.fins
    /\ s.have \subseteq 1 .. p.nxt - 1

\* The other end p has counted one of the FINs of s.
Counted(s, p) == \E n \in s.fins : n < p.rnxt

\* What the states of a close promise.
Promised(s, p) ==
    /\ s.state \in {"FIN_WAIT_2", "TIME_WAIT"} => Counted(s, p)
    /\ s.state = "TIME_WAIT" => Counted(p, s)

\* What a step that is still to be taken relies on: the socket is open, and the
\* promises of a state that is to be assigned are kept already.
Ready(step, s, p) ==
    /\ s.state # "NONE" /\ step # "SYN_SENT"
    /\ step \in (States \ {"CLOSED"}) \cup {"accept"} => s.rnxt >= 1
    /\ step \in {"FIN_WAIT_2", "TIME_WAIT"} => Counted(s, p)
    /\ step = "TIME_WAIT" => Counted(p, s)

\* What vClose() is to do in a connection that is open, and a thread that is to
\* assign FIN_WAIT_1 has sent the FIN, or sends it first.
FirstClose == <<"sendFin_", "FIN_WAIT_1">>
FinFirst(q, s) ==
    (\E i \in DOMAIN q : q[i] = "FIN_WAIT_1") => s.fins # {} \/ q = FirstClose

\* The bytes before the first FIN are those of the application.
Written(s, len) ==
    \A n \in 1 .. Len(s.stream) : (\A f \in s.fins : f > n) => s.stream[n] = n /\ n <= len

\* So are those that the other application has read.
GotRight(s, p, len) ==
    \A n \in 1 .. Len(s.got) : (\A f \in p.fins : f > n) => s.got[n] = n /\ n <= len

\* The next byte to read follows those that were read.
ReadUpTo(s) ==
    /\ s.nbr <= s.rnxt
    /\ IF s.rnxt = 0 THEN s.got = <<>> ELSE s.nbr = Len(s.got) + 1

\* What a packet says of its sender p stays true.
Honest(m, p) ==
    /\ m.ack <= p.rnxt
    /\ m.flags = "SYN" => m.seq = 0
    /\ m.flags = "SYN_ACK" => m.to = Client
    /\ m.flags = "FIN" => m.seq \in p.fins
    /\ m.data => m.seq \in 1 .. p.nxt - 1

Length(e) == IF e = Client THEN plan.file ELSE plan.say

\* How far the opening and the file transfer have got, and the sockets with it.
Phases ==
    /\ IF sf = "connect" THEN sock[Client] = NoSocket ELSE sock[Client].state # "NONE"
    /\ sf \in {"connect", "wait", "send"} /\ sock[Client].fins = {} =>
           sock[Client].stream = <<>>
    /\ result = "synAck" => sock[Client].rnxt >= 1
    /\ sock[Server].state # "SYN_SENT"
    /\ \A e \in Ends :
           /\ sock[e].state = "NONE" => sock[e] = NoSocket
           /\ sock[e].state \notin {"NONE", "SYN_SENT", "CLOSED"} => sock[e].rnxt >= 1
           /\ reader[e] # "off" => sock[e].rnxt >= 1
           /\ sock[e].state = "FIN_WAIT_1" => sock[e].fins # {}

\* The same of the threads that are in the middle of something.
Paused ==
    \A e \in Ends, t \in Threads :
        /\ \A i \in DOMAIN todo[e][t] : Ready(todo[e][t][i], sock[e], sock[Peer(e)])
        /\ FinFirst(todo[e][t], sock[e])

Pairs ==
    \A e \in Ends :
        LET s == sock[e]
            p == sock[Peer(e)]
        IN /\ Linked(s, p) /\ Promised(s, p) /\ ReadUpTo(s)
           /\ Written(s, Length(e)) /\ GotRight(s, p, Length(Peer(e)))

Told == \A m \in net : Honest(m, sock[Peer(m.to)])

Agreed == Phases /\ Paused /\ Pairs /\ Told

ConnectionInv ==
    /\ ConnectionTypeOK
    /\ \A e \in Ends : Whole(sock[e])
    /\ ~reset => Agreed

---------------------------------------------------------------------------
(* What each operation of a buffer does to a socket t that end e may have. *)

Counters == \A e \in Ends : sock[e].nxt \in Nat /\ sock[e].rnxt \in Nat

Grows(s, t) == s.nxt <= t.nxt /\ s.fins \subseteq t.fins /\ s.rnxt <= t.rnxt

Good(e, t) ==
    /\ Whole(t)
    /\ Grows(sock[e], t)
    /\ Linked(t, sock[Peer(e)])
    /\ ReadUpTo(t)
    /\ Written(t, Length(e))
    /\ GotRight(t, sock[Peer(e)], Length(Peer(e)))

\* A finite set of numbers leaves out one, and there is a first that it does.
LEMMA FirstMissing ==
    ASSUME NEW S, IsFiniteSet(S), NEW k \in Nat
    PROVE  \E n \in k .. k + Cardinality(S) : n \notin S /\ k .. (n - 1) \subseteq S
<1> DEFINE T == {n \in k .. k + Cardinality(S) : n \notin S}
<1>1. Cardinality(S) \in Nat
  BY FS_CardinalityType
<1>2. T # {}
  <2>1. SUFFICES ASSUME k .. k + Cardinality(S) \subseteq S PROVE FALSE
    OBVIOUS
  <2>2. Cardinality(k .. k + Cardinality(S)) = Cardinality(S) + 1
    BY <1>1, FS_Interval
  <2>3. Cardinality(k .. k + Cardinality(S)) <= Cardinality(S)
    BY <2>1, FS_Subset
  <2> QED
    BY <1>1, <2>2, <2>3
<1>3. T \subseteq Nat
  BY <1>1
<1>4. PICK n \in T : \A y \in T : ~(<<y, n>> \in OpToRel(<, Nat))
  BY <1>2, <1>3, NatLessThanWellFounded, WFMin, Zenon
<1>5. \A y \in T : ~(y < n)
  <2>1. TAKE y \in T
  <2>2. y \in Nat /\ n \in Nat /\ ~(<<y, n>> \in OpToRel(<, Nat))
    BY <1>3, <1>4
  <2> HIDE DEF T
  <2> QED
    BY <2>2, SMT DEF OpToRel
<1> QED
  BY <1>1, <1>5

\* mergeRemove() stops at the first number that is missing.
LEMMA RunEndFacts ==
    ASSUME NEW s, Whole(s)
    PROVE  /\ RunEnd(s) \in Nat /\ RunEnd(s) > s.rnxt
           /\ \A n \in s.rnxt + 1 .. RunEnd(s) - 1 : n \in s.early
<1>1. IsFiniteSet(s.early) /\ s.rnxt \in Nat
  BY DEF Whole, Socket
<1>2. Cardinality(s.early) \in Nat
  BY <1>1, FS_CardinalityType
<1>3. \E n \in s.rnxt + 1 .. s.rnxt + 1 + Cardinality(s.early) :
          n \notin s.early /\ (s.rnxt + 1) .. (n - 1) \subseteq s.early
  BY <1>1, FirstMissing
<1>4. RunEnd(s) \in s.rnxt + 1 .. s.rnxt + 1 + Cardinality(s.early)
      /\ (s.rnxt + 1) .. (RunEnd(s) - 1) \subseteq s.early
  BY <1>3, Zenon DEF RunEnd
<1> QED
  BY <1>1, <1>2, <1>4

\* sendBuffer_.onAck() with a number the other end has counted.
LEMMA OnAckGood ==
    ASSUME Counters, NEW e \in Ends, NEW s, Good(e, s), NEW ack \in Nat, ack <= sock[Peer(e)].rnxt
    PROVE  Good(e, OnAck(s, ack)) /\ OnAck(s, ack).state = s.state
BY DEF Good, OnAck, Whole, Socket, Grows, Linked, ReadUpTo, Written, GotRight

\* recvBuffer_.onCtrl() with the number of one of the other end's FINs.
LEMMA OnCtrlGood ==
    ASSUME Counters, NEW e \in Ends, NEW s, Good(e, s), s.rnxt >= 1,
           NEW seq \in Nat, seq \in sock[Peer(e)].fins
    PROVE  /\ Good(e, OnCtrl(s, seq)) /\ OnCtrl(s, seq).state = s.state
           /\ OnCtrl(s, seq).rnxt >= 1
           /\ OnCtrl(s, seq).nxt = s.nxt /\ OnCtrl(s, seq).fins = s.fins
<1> DEFINE t == OnCtrl(s, seq)
           p == sock[Peer(e)]
<1>1. CASE seq = s.rnxt
  <2>1. /\ s \in Socket /\ s.rnxt \in Nat /\ s.nbr \in Nat
        /\ sock[e].rnxt \in Nat
    BY DEF Counters, Good, Whole, Socket
  <2>2. /\ t \in Socket /\ t.rnxt = s.rnxt + 1
        /\ t.state = s.state /\ t.una = s.una /\ t.nxt = s.nxt /\ t.stream = s.stream
        /\ t.fins = s.fins /\ t.nbr = s.nbr /\ t.have = s.have /\ t.early = s.early
        /\ t.got = s.got
    <3>1. t = [s EXCEPT !.rnxt = s.rnxt + 1]
      BY <1>1 DEF OnCtrl
    <3>2. s.rnxt + 1 \in Nat
      BY <2>1
    <3> HIDE DEF t
    <3> QED
      BY <2>1, <3>1, <3>2 DEF Socket
  <2> HIDE DEF t
  <2>3. \A n \in 1 .. t.rnxt - 1 : n \in t.have \cup p.fins
    <3>1. ASSUME NEW n \in 1 .. t.rnxt - 1, n # s.rnxt
          PROVE  n \in 1 .. s.rnxt - 1
      BY <2>1, <2>2, <3>1
    <3> QED
      BY <1>1, <2>2, <3>1 DEF Good, Linked
  <2>4. Whole(t) /\ Grows(sock[e], t) /\ ReadUpTo(t)
    BY <2>1, <2>2 DEF Good, Whole, Grows, ReadUpTo
  <2>5. Linked(t, p) /\ Written(t, Length(e)) /\ GotRight(t, p, Length(Peer(e)))
    BY <2>2, <2>3 DEF Good, Linked, Written, GotRight
  <2>6. Good(e, t) /\ t.state = s.state /\ t.rnxt >= 1 /\ t.nxt = s.nxt /\ t.fins = s.fins
    BY <2>1, <2>2, <2>4, <2>5 DEF Good
  <2> QED
    BY <2>6 DEF t
<1>2. CASE seq # s.rnxt
  BY <1>2 DEF OnCtrl
<1> QED
  BY <1>1, <1>2

\* recvBuffer_.onRecv() of a byte that the other end has sent.
LEMMA OnRecvGood ==
    ASSUME Counters, NEW e \in Ends, NEW s, Good(e, s), s.rnxt >= 1,
           NEW seq \in 1 .. sock[Peer(e)].nxt - 1
    PROVE  /\ Good(e, OnRecv(s, seq)) /\ OnRecv(s, seq).state = s.state
           /\ OnRecv(s, seq).rnxt >= 1
           /\ OnRecv(s, seq).nxt = s.nxt /\ OnRecv(s, seq).fins = s.fins
           /\ OnRecv(s, seq).stream = s.stream
<1> DEFINE t == OnRecv(s, seq)
           p == sock[Peer(e)]
           r == RunEnd(s)
           left == {n \in s.early : n >= r}
<1>0. Peer(e) \in Ends
  BY DEF Peer, Ends
<1>1. /\ s \in Socket /\ IsFiniteSet(s.early) /\ s.early \subseteq s.have
      /\ s.rnxt \in Nat /\ s.nbr \in Nat /\ seq \in Nat /\ sock[e].rnxt \in Nat
      /\ s.early \subseteq Nat /\ p.nxt \in Nat
  BY <1>0 DEF Counters, Good, Whole, Socket
<1>2. CASE seq < s.rnxt
  BY <1>1, <1>2 DEF OnRecv
<1>3. CASE seq >= s.rnxt
  <2> DEFINE rn == IF seq > s.rnxt THEN s.rnxt ELSE r
             ea == IF seq > s.rnxt THEN s.early \cup {seq} ELSE left
  <2>1. r \in Nat /\ r > s.rnxt /\ \A n \in s.rnxt + 1 .. r - 1 : n \in s.early
    BY RunEndFacts DEF Good
  <2>2. IsFiniteSet(s.early \cup {seq}) /\ IsFiniteSet(left)
    BY <1>1, FS_AddElement, FS_Subset
  <2>3. t = [s EXCEPT !.rnxt = rn, !.have = s.have \cup {seq}, !.early = ea]
    <3>1. CASE seq > s.rnxt
      <4>1. t = [s EXCEPT !.have = s.have \cup {seq}, !.early = s.early \cup {seq}]
        <5>1. ~(seq = s.rnxt) /\ ~(seq < s.rnxt)
          BY <1>1, <3>1
        <5> QED
          BY <3>1, <5>1, Zenon DEF OnRecv
      <4>2. ea = s.early \cup {seq} /\ rn = s.rnxt
        BY <3>1
      <4> HIDE DEF t, ea, rn
      <4> QED
        BY <1>1, <3>1, <4>1, <4>2 DEF Socket
    <3>2. CASE seq = s.rnxt
      <4>1. ~(seq > s.rnxt)
        BY <1>1, <3>2
      <4> QED
        BY <3>2, <4>1 DEF OnRecv
    <3> QED
      BY <1>1, <1>3, <3>1, <3>2
  <2>4. /\ rn \in Nat /\ rn >= s.rnxt /\ ea \subseteq s.have \cup {seq} /\ IsFiniteSet(ea)
        /\ ea \in SUBSET Nat
    BY <1>1, <2>1, <2>2
  <2>5. \A n \in 1 .. rn - 1 : n \in 1 .. s.rnxt - 1 \/ n = seq \/ n \in s.early
    BY <1>1, <1>3, <2>1
  <2> HIDE DEF rn, ea, t, r, left
  <2>6. /\ t \in Socket /\ t.rnxt = rn /\ t.have = s.have \cup {seq} /\ t.early = ea
        /\ t.state = s.state /\ t.una = s.una /\ t.nxt = s.nxt /\ t.stream = s.stream
        /\ t.fins = s.fins /\ t.nbr = s.nbr /\ t.got = s.got
    <3>1. s \in Socket /\ seq \in Nat /\ rn \in Nat /\ ea \in SUBSET Nat
      BY <1>1, <2>4
    <3> QED
      BY <2>3, <3>1 DEF Socket
  <2>7. Linked(t, p)
    BY <1>1, <2>4, <2>5, <2>6 DEF Good, Linked
  <2>8. Whole(t)
    BY <2>4, <2>6 DEF Good, Whole
  <2>9. Grows(sock[e], t) /\ ReadUpTo(t)
    BY <1>1, <2>4, <2>6 DEF Good, Grows, ReadUpTo
  <2>10. Written(t, Length(e)) /\ GotRight(t, p, Length(Peer(e)))
    BY <2>6 DEF Good, Written, GotRight
  <2>11. Good(e, t) /\ t.rnxt >= 1
    BY <1>1, <2>4, <2>6, <2>7, <2>8, <2>9, <2>10 DEF Good
  <2> QED
    BY <2>6, <2>11 DEF t
<1> QED
  BY <1>1, <1>2, <1>3

\* sendFin_() in a socket that was opened.
LEMMA SendFinGood ==
    ASSUME Counters, NEW e \in Ends, NEW s, Good(e, s), s.state # "NONE"
    PROVE  /\ Good(e, SendFin(s)) /\ SendFin(s).state = s.state
           /\ SendFin(s).fins = s.fins \cup {s.nxt} /\ SendFin(s).rnxt = s.rnxt
<1> DEFINE t == SendFin(s)
           a == Append(s.stream, Junk)
           len == Len(s.stream)
<1>1. s \in Socket /\ s.nxt \in Nat /\ s.una \in Nat /\ s.nxt >= 1 /\ s.nxt <= len + 1
      /\ s.stream \in Seq(Nat) /\ s.fins \subseteq 1 .. s.nxt - 1 /\ s.fins \in SUBSET Nat
      /\ sock[e].nxt \in Nat
  BY DEF Counters, Good, Whole, Socket
<1>2. len \in Nat /\ a \in Seq(Nat) /\ Len(a) = len + 1
      /\ \A n \in 1 .. len : a[n] = s.stream[n]
  BY <1>1 DEF Junk
<1>3. t = [s EXCEPT !.nxt = s.nxt + 1, !.stream = a, !.fins = s.fins \cup {s.nxt}]
  BY <1>1 DEF SendFin, Socket
<1> HIDE DEF t, a, len
<1>4. t \in Socket /\ t.nxt = s.nxt + 1 /\ t.fins = s.fins \cup {s.nxt} /\ t.stream = a
      /\ t.state = s.state /\ t.rnxt = s.rnxt /\ t.una = s.una /\ t.have = s.have
      /\ t.nbr = s.nbr /\ t.got = s.got /\ t.early = s.early
  <2> DEFINE k == s.nxt + 1
             f == s.fins \cup {s.nxt}
  <2>1. s \in Socket /\ a \in Seq(Nat) /\ k \in Nat /\ f \in SUBSET Nat
    BY <1>1, <1>2
  <2>2. t = [s EXCEPT !.nxt = k, !.stream = a, !.fins = f]
    BY <1>3
  <2> HIDE DEF k, f
  <2>3. t \in Socket /\ t.nxt = k /\ t.fins = f /\ t.stream = a
        /\ t.state = s.state /\ t.rnxt = s.rnxt /\ t.una = s.una /\ t.have = s.have
        /\ t.nbr = s.nbr /\ t.got = s.got /\ t.early = s.early
    BY <2>1, <2>2 DEF Socket
  <2> QED
    BY <2>3 DEF k, f
<1>5. Whole(t)
  BY <1>1, <1>2, <1>4 DEF Good, Whole
<1>6. Written(t, Length(e))
  <2>1. \A n \in 1 .. Len(s.stream) : (\A f \in s.fins : f > n) =>
            s.stream[n] = n /\ n <= Length(e)
    BY DEF Good, Written
  <2>2. ASSUME NEW n \in 1 .. Len(a), \A f \in s.fins \cup {s.nxt} : f > n
        PROVE  a[n] = n /\ n <= Length(e)
    <3>1. n \in 1 .. len
      BY <1>1, <1>2, <2>2
    <3>2. a[n] = s.stream[n]
      BY <1>2, <3>1
    <3> QED
      BY <2>1, <2>2, <3>1, <3>2 DEF len
  <2> QED
    BY <1>4, <2>2 DEF Written
<1>7. Grows(sock[e], t) /\ ReadUpTo(t)
  BY <1>1, <1>4 DEF Good, Grows, ReadUpTo
<1>8. Linked(t, sock[Peer(e)]) /\ GotRight(t, sock[Peer(e)], Length(Peer(e)))
  BY <1>4 DEF Good, Linked, GotRight
<1>9. Good(e, t)
  BY <1>5, <1>6, <1>7, <1>8 DEF Good
<1> QED
  BY <1>4, <1>9 DEF t

\* A new state, and stopped buffers.
InState(s, st) == [s EXCEPT !.state = st]
StopReading(s) == [s EXCEPT !.rstop = TRUE]
StopBoth(s) == [s EXCEPT !.sstop = TRUE, !.rstop = TRUE]

LEMMA StateGood ==
    ASSUME Counters, NEW e \in Ends, NEW s, Good(e, s), NEW st \in States \ {"NONE"},
           s.state # "NONE"
    PROVE  LET t == InState(s, st)
           IN /\ Good(e, t) /\ t.state = st /\ t.fins = s.fins /\ t.rnxt = s.rnxt
              /\ t.stream = s.stream /\ t.nxt = s.nxt
BY DEF InState, Good, Whole, Socket, Grows, Linked, ReadUpTo, Written, GotRight

LEMMA StopGood ==
    ASSUME Counters, NEW e \in Ends, NEW s, Good(e, s)
    PROVE  /\ Good(e, StopBoth(s)) /\ StopBoth(s).state = s.state
           /\ StopBoth(s).fins = s.fins /\ StopBoth(s).rnxt = s.rnxt
           /\ StopBoth(s).stream = s.stream
           /\ Good(e, StopReading(s)) /\ StopReading(s).state = s.state
           /\ StopReading(s).fins = s.fins /\ StopReading(s).rnxt = s.rnxt
           /\ StopReading(s).stream = s.stream
BY DEF StopBoth, StopReading, Good, Whole, Socket, Grows, Linked, ReadUpTo, Written, GotRight

\* What is read follows what was read: the k-th byte is the one with number k.
LEMMA Joined ==
    ASSUME NEW got \in Seq(Nat), NEW B \in Seq(Nat), NEW nbr \in Nat, NEW rnxt \in Nat,
           nbr = Len(got) + 1, nbr <= rnxt, Len(B) = rnxt - nbr,
           NEW W, \A i \in 1 .. rnxt - nbr : B[i] = W[nbr + i - 1]
    PROVE  /\ got \o B \in Seq(Nat) /\ Len(got \o B) = rnxt - 1
           /\ \A n \in 1 .. Len(got) : (got \o B)[n] = got[n]
           /\ \A n \in nbr .. rnxt - 1 : (got \o B)[n] = W[n]
<1> DEFINE g == got \o B
<1>1. /\ g \in Seq(Nat) /\ Len(g) = Len(got) + Len(B) /\ Len(got) \in Nat
      /\ \A n \in 1 .. Len(got) + Len(B) :
             g[n] = IF n <= Len(got) THEN got[n] ELSE B[n - Len(got)]
  BY ConcatProperties
<1> HIDE DEF g
<1>2. \A n \in nbr .. rnxt - 1 : g[n] = W[n]
  <2>1. TAKE n \in nbr .. rnxt - 1
  <2>2. /\ ~(n <= Len(got)) /\ n \in 1 .. Len(got) + Len(B)
        /\ n - Len(got) \in 1 .. rnxt - nbr /\ nbr + (n - Len(got)) - 1 = n
    BY <1>1
  <2>3. g[n] = B[n - Len(got)]
    BY <1>1, <2>2
  <2> QED
    BY <2>2, <2>3
<1>3. Len(g) = rnxt - 1 /\ \A n \in 1 .. Len(got) : g[n] = got[n]
  BY <1>1
<1> QED
  BY <1>1, <1>2, <1>3 DEF g

\* readAtMostNBytes() of all that was counted.
LEMMA ReadGood ==
    ASSUME Counters, NEW e \in Ends, NEW s, Good(e, s), s.rnxt >= 1,
           NEW p, p = sock[Peer(e)], Whole(p), Written(p, Length(Peer(e)))
    PROVE  LET t == ReadAll(s, p)
           IN /\ Good(e, t) /\ t.state = s.state /\ t.rnxt = s.rnxt
              /\ t.fins = s.fins /\ t.stream = s.stream
<1> DEFINE t == ReadAll(s, p)
           B == [i \in 1 .. s.rnxt - s.nbr |->
                    LET n == s.nbr + i - 1
                    IN IF n \in s.have THEN p.stream[n] ELSE Junk]
           g == s.got \o B
           W == [n \in Nat |-> IF n \in s.have THEN p.stream[n] ELSE Junk]
<1>0. Whole(s) /\ ReadUpTo(s) /\ Linked(s, p)
  BY DEF Good
<1>1. /\ s \in Socket /\ s.rnxt \in Nat /\ s.nbr \in Nat /\ s.got \in Seq(Nat)
      /\ s.nbr <= s.rnxt /\ s.nbr = Len(s.got) + 1
  <2>1. s \in Socket /\ s.rnxt \in Nat /\ s.nbr \in Nat /\ s.got \in Seq(Nat)
    BY <1>0 DEF Whole, Socket
  <2>2. s.rnxt # 0
    BY <2>1
  <2> QED
    BY <1>0, <2>1, <2>2 DEF ReadUpTo
<1>2. p.nxt \in Nat /\ p.stream \in Seq(Nat) /\ p.nxt <= Len(p.stream) + 1
  BY DEF Whole, Socket
<1>3. \A n \in s.have : n \in 1 .. Len(p.stream) /\ p.stream[n] \in Nat
  <2>1. s.have \subseteq 1 .. p.nxt - 1
    BY <1>0 DEF Linked
  <2>2. TAKE n \in s.have
  <2>3. n \in 1 .. p.nxt - 1
    BY <2>1, <2>2
  <2>4. n \in 1 .. Len(p.stream)
    <3>1. Len(p.stream) \in Nat
      BY <1>2
    <3> QED
      BY <1>2, <2>3, <3>1
  <2>5. p.stream[n] \in Nat
    BY <1>2, <2>4, ElementOfSeq
  <2> QED
    BY <2>4, <2>5
<1>4. s.rnxt - s.nbr \in Nat
  BY <1>1
<1>5. B \in Seq(Nat) /\ Len(B) = s.rnxt - s.nbr
      /\ \A i \in 1 .. s.rnxt - s.nbr : B[i] = W[s.nbr + i - 1]
  <2>1. \A i \in 1 .. s.rnxt - s.nbr : B[i] \in Nat
    BY <1>3 DEF Junk
  <2>2. \A i \in 1 .. s.rnxt - s.nbr : B[i] = W[s.nbr + i - 1]
    <3>1. TAKE i \in 1 .. s.rnxt - s.nbr
    <3>2. s.nbr + i - 1 \in Nat
      BY <1>1, <3>1
    <3> QED
      BY <3>2
  <2> QED
    BY <1>4, <2>1, <2>2
<1>6. /\ g \in Seq(Nat) /\ Len(g) = s.rnxt - 1
      /\ \A n \in 1 .. Len(s.got) : g[n] = s.got[n]
      /\ \A n \in s.nbr .. s.rnxt - 1 : g[n] = W[n]
  <2> DEFINE got  == s.got
             nbr  == s.nbr
             rnxt == s.rnxt
  <2>1. got \in Seq(Nat) /\ B \in Seq(Nat) /\ nbr \in Nat /\ rnxt \in Nat
    BY <1>1, <1>5
  <2>2. /\ nbr = Len(got) + 1 /\ nbr <= rnxt /\ Len(B) = rnxt - nbr
        /\ \A i \in 1 .. rnxt - nbr : B[i] = W[nbr + i - 1]
    BY <1>1, <1>5
  <2> HIDE DEF B, W, got, nbr, rnxt
  <2>3. /\ got \o B \in Seq(Nat) /\ Len(got \o B) = rnxt - 1
        /\ \A n \in 1 .. Len(got) : (got \o B)[n] = got[n]
        /\ \A n \in nbr .. rnxt - 1 : (got \o B)[n] = W[n]
    BY <2>1, <2>2, Joined
  <2> QED
    BY <2>3 DEF got, nbr, rnxt
<1> HIDE DEF B, g
<1>7. t = [s EXCEPT !.nbr = s.rnxt, !.got = g]
  BY DEF ReadAll, B, g
<1> HIDE DEF t
<1>8. /\ t \in Socket /\ t.nbr = s.rnxt /\ t.got = g
       /\ t.state = s.state /\ t.una = s.una /\ t.nxt = s.nxt /\ t.stream = s.stream
       /\ t.fins = s.fins /\ t.rnxt = s.rnxt /\ t.have = s.have /\ t.early = s.early
  <2>1. s \in Socket /\ g \in Seq(Nat)
    BY <1>1, <1>6
  <2> QED
    BY <1>7, <2>1 DEF Socket
<1>9. GotRight(t, p, Length(Peer(e)))
  <2>1. ASSUME NEW n \in 1 .. Len(g), \A f \in p.fins : f > n
        PROVE  g[n] = n /\ n <= Length(Peer(e))
    <3>1. CASE n \in 1 .. Len(s.got)
      BY <1>6, <2>1, <3>1 DEF Good, GotRight
    <3>2. CASE n \notin 1 .. Len(s.got)
      <4>1. n \in s.nbr .. s.rnxt - 1 /\ n \in 1 .. s.rnxt - 1 /\ n \in Nat
        BY <1>1, <1>6, <3>2
      <4>2. n \in s.have \cup p.fins
        BY <1>0, <4>1 DEF Linked
      <4>3. n \notin p.fins
        BY <2>1, <4>1
      <4>4. g[n] = p.stream[n] /\ n \in 1 .. Len(p.stream)
        BY <1>3, <1>6, <4>1, <4>2, <4>3
      <4> QED
        BY <2>1, <4>4 DEF Written
    <3> QED
      BY <3>1, <3>2
  <2> QED
    BY <1>8, <2>1 DEF GotRight
<1>10. Whole(t) /\ Grows(sock[e], t) /\ Linked(t, p) /\ Written(t, Length(e))
  <2>1. Linked(t, p) /\ Written(t, Length(e))
    BY <1>0, <1>8 DEF Good, Linked, Written
  <2>2. Whole(t) /\ Grows(sock[e], t)
    BY <1>0, <1>8 DEF Good, Whole, Grows
  <2> QED
    BY <2>1, <2>2
<1>11. ReadUpTo(t)
  BY <1>1, <1>6, <1>8 DEF ReadUpTo
<1>12. Good(e, t)
  BY <1>9, <1>10, <1>11 DEF Good
<1> QED
  BY <1>8, <1>12 DEF t

---------------------------------------------------------------------------
(* The invariant survives when one socket becomes a good one and its end   *)
(* sends packets that are honest about it.                                 *)

\* Before it opens, a socket has nothing.
LEMMA NoSocketFields ==
    /\ NoSocket \in Socket /\ NoSocket.state = "NONE" /\ NoSocket.una = 0 /\ NoSocket.nxt = 0
    /\ NoSocket.stream = <<>> /\ NoSocket.fins = {} /\ NoSocket.rnxt = 0 /\ NoSocket.nbr = 0
    /\ NoSocket.have = {} /\ NoSocket.early = {} /\ NoSocket.got = <<>>
BY DEF NoSocket, Socket, States

\* What was counted stays so.
LEMMA CountedKept ==
    ASSUME NEW s, NEW t, NEW p, NEW q, s.fins \subseteq t.fins, t.fins \subseteq Nat,
           p.rnxt \in Nat, q.rnxt \in Nat, p.rnxt <= q.rnxt, Counted(s, p)
    PROVE  Counted(t, q)
BY DEF Counted

LEMMA PromiseKept ==
    ASSUME NEW s \in Socket, NEW t \in Socket, NEW p \in Socket, NEW q \in Socket,
           Grows(s, t), Grows(p, q), t.state = s.state, Promised(s, p)
    PROVE  Promised(t, q)
<1>1. /\ t.fins \subseteq Nat /\ q.fins \subseteq Nat /\ s.rnxt \in Nat /\ t.rnxt \in Nat
      /\ p.rnxt \in Nat /\ q.rnxt \in Nat /\ s.fins \subseteq t.fins /\ p.fins \subseteq q.fins
      /\ s.rnxt <= t.rnxt /\ p.rnxt <= q.rnxt
  BY DEF Socket, Grows
<1> QED
  BY <1>1, CountedKept DEF Promised

LEMMA ReadyKept ==
    ASSUME NEW s \in Socket, NEW t \in Socket, NEW p \in Socket, NEW q \in Socket,
           Grows(s, t), Grows(p, q), t.state # "NONE", NEW step, Ready(step, s, p)
    PROVE  Ready(step, t, q)
<1>1. /\ t.fins \subseteq Nat /\ q.fins \subseteq Nat /\ s.rnxt \in Nat /\ t.rnxt \in Nat
      /\ p.rnxt \in Nat /\ q.rnxt \in Nat /\ s.fins \subseteq t.fins /\ p.fins \subseteq q.fins
      /\ s.rnxt <= t.rnxt /\ p.rnxt <= q.rnxt
  BY DEF Socket, Grows
<1>2. Counted(s, p) => Counted(t, q)
  BY <1>1, CountedKept
<1>3. Counted(p, s) => Counted(q, t)
  BY <1>1, CountedKept
<1>4. s.rnxt >= 1 => t.rnxt >= 1
  BY <1>1
<1> QED
  BY <1>2, <1>3, <1>4 DEF Ready

LEMMA SocketStep ==
    ASSUME ConnectionTypeOK, \A x \in Ends : Whole(sock[x]), Pairs, Told, plan' = plan,
           NEW e \in Ends, NEW t, Good(e, t), Promised(t, sock[Peer(e)]),
           sock' = [sock EXCEPT ![e] = t],
           NEW new \in SUBSET Packet, net' = net \cup new,
           \A m \in new : m.to = Peer(e) /\ Honest(m, t)
    PROVE  /\ sock' \in [Ends -> Socket] /\ net' \subseteq Packet
           /\ \A x \in Ends : Whole(sock'[x])
           /\ Pairs' /\ Told'
<1> DEFINE q == Peer(e)
<1>1. q \in Ends /\ q # e /\ Peer(q) = e /\ Ends = {e, q}
  BY DEF Peer, Ends, Client, Server
<1>2. sock \in [Ends -> Socket] /\ net \subseteq Packet
  BY DEF ConnectionTypeOK
<1>3. sock'[e] = t /\ sock'[q] = sock[q]
  BY <1>1, <1>2
<1>4. Whole(t) /\ Grows(sock[e], t)
  BY DEF Good
<1>5. \A x \in Ends : Whole(sock'[x])
  BY <1>1, <1>3, <1>4
<1>6. sock' \in [Ends -> Socket] /\ net' \subseteq Packet
  BY <1>2, <1>4 DEF Whole
<1>7. \A x \in Ends : sock[x].nxt \in Nat /\ sock[x].rnxt \in Nat
                      /\ sock[x].una \in Nat /\ sock[x].fins \subseteq Nat
  BY <1>2 DEF Socket
<1>8. t.nxt \in Nat /\ t.rnxt \in Nat /\ t.fins \subseteq Nat
  BY <1>4 DEF Whole, Socket
<1>9. /\ Linked(sock[q], sock[e]) /\ Promised(sock[q], sock[e]) /\ ReadUpTo(sock[q])
      /\ Written(sock[q], Length(q)) /\ GotRight(sock[q], sock[e], Length(e))
  BY <1>1 DEF Pairs
<1>10. Linked(sock[q], t)
  BY <1>1, <1>4, <1>7, <1>8, <1>9 DEF Linked, Grows
<1>11. Promised(sock[q], t)
  <2>1. Grows(sock[q], sock[q]) /\ t \in Socket /\ sock[q] \in Socket /\ sock[e] \in Socket
    BY <1>1, <1>2, <1>4, <1>7 DEF Grows, Whole
  <2> QED
    BY <1>4, <1>9, <2>1, PromiseKept
<1>12. GotRight(sock[q], t, Length(e))
  BY <1>4, <1>9 DEF GotRight, Grows
<1>13. /\ Linked(t, sock[q]) /\ ReadUpTo(t)
       /\ Written(t, Length(e)) /\ GotRight(t, sock[q], Length(q))
  BY DEF Good
<1>14. Length(e)' = Length(e) /\ Length(q)' = Length(q)
  BY DEF Length
<1>15. Pairs'
  <2>1. ASSUME NEW x \in Ends
        PROVE  /\ Linked(sock'[x], sock'[Peer(x)]) /\ Promised(sock'[x], sock'[Peer(x)])
               /\ ReadUpTo(sock'[x])
               /\ Written(sock'[x], Length(x)') /\ GotRight(sock'[x], sock'[Peer(x)], Length(Peer(x))')
    <3>1. CASE x = e
      BY <1>3, <1>13, <1>14, <3>1
    <3>2. CASE x = q
      BY <1>1, <1>3, <1>9, <1>10, <1>11, <1>12, <1>14, <3>2
    <3> QED
      BY <1>1, <3>1, <3>2
  <2> QED
    BY <2>1 DEF Pairs
<1>16. Told'
  <2>1. ASSUME NEW m \in net'
        PROVE  Honest(m, sock'[Peer(m.to)])
    <3>1. CASE m \in new
      BY <1>1, <1>3, <3>1
    <3>2. CASE m \in net
      <4>1. m.to \in Ends /\ m.ack \in Nat /\ m.seq \in Nat /\ Honest(m, sock[Peer(m.to)])
        BY <1>2, <3>2 DEF Packet, Told
      <4>2. CASE m.to = e
        BY <1>1, <1>3, <4>1, <4>2
      <4>3. CASE m.to = q
        <5>1. Honest(m, sock[e])
          BY <1>1, <4>1, <4>3
        <5>2. Honest(m, t)
          BY <1>4, <1>7, <1>8, <4>1, <5>1 DEF Honest, Grows
        <5> QED
          BY <1>1, <1>3, <4>3, <5>2
      <4> QED
        BY <1>1, <4>1, <4>2, <4>3
    <3> QED
      BY <3>1, <3>2
  <2> QED
    BY <2>1 DEF Told
<1> QED
  BY <1>5, <1>6, <1>15, <1>16

\* What the invariant says of an end before a step.
LEMMA Before ==
    ASSUME ConnectionInv, ~reset
    PROVE  /\ Phases /\ Paused /\ Pairs /\ Told /\ Counters /\ ConnectionTypeOK
           /\ \A x \in Ends : /\ Whole(sock[x]) /\ Good(x, sock[x])
                              /\ Promised(sock[x], sock[Peer(x)])
<1>1. Phases /\ Paused /\ Pairs /\ Told /\ ConnectionTypeOK /\ \A x \in Ends : Whole(sock[x])
  BY DEF ConnectionInv, Agreed
<1>2. \A x \in Ends : sock[x].nxt \in Nat /\ sock[x].rnxt \in Nat
  BY <1>1 DEF Whole, Socket
<1>3. \A x \in Ends : Grows(sock[x], sock[x])
  BY <1>2 DEF Grows
<1>4. \A x \in Ends : Good(x, sock[x]) /\ Promised(sock[x], sock[Peer(x)])
  BY <1>1, <1>3 DEF Good, Pairs
<1> QED
  BY <1>1, <1>2, <1>4 DEF Counters

\* The types of what is not a socket or a packet.
RestTypeOK ==
    /\ todo \in [Ends -> [Threads -> Seq(Steps)]]
    /\ result \in {"none", "synAck", "error"}
    /\ sf \in {"connect", "wait", "send", "close", "sent", "failed"}
    /\ reader \in [Ends -> {"off", "dropped", "call", "wait", "closing", "received", "failed"}]
    /\ sane \in BOOLEAN

\* What is left to do was left before, or e adds it and its new socket t is
\* ready for it.
TodoFits(e, t) ==
    /\ todo' \in [Ends -> [Threads -> Seq(Steps)]]
    /\ \A x \in Ends, th \in Threads :
           /\ \A i \in DOMAIN todo'[x][th] :
                  \/ \E j \in DOMAIN todo[x][th] : todo'[x][th][i] = todo[x][th][j]
                  \/ x = e /\ Ready(todo'[x][th][i], t, sock[Peer(e)])
           /\ FinFirst(todo'[x][th], sock[x]) \/ (x = e /\ t.fins # {})

\* A handler of e may leave these steps.
Begins(steps, t, p) ==
    /\ steps \in Seq(Steps)
    /\ \A i \in DOMAIN steps : Ready(steps[i], t, p)
    /\ (\E i \in DOMAIN steps : steps[i] = "FIN_WAIT_1") => steps = FirstClose

\* What the opening, the readers and the threads in the middle of something
\* ask of the socket t that end e gets.
Fits(e, t) ==
    /\ t.state # "NONE" /\ (e = Server => t.state # "SYN_SENT")
    /\ t.state \notin {"SYN_SENT", "CLOSED"} => t.rnxt >= 1
    /\ t.state = "FIN_WAIT_1" => sock[e].state = "FIN_WAIT_1" \/ sock[e].fins # {}
    /\ e = Client => sf' # "connect"
    /\ e = Client /\ sf' \in {"wait", "send"} /\ t.fins = {} => t.stream = <<>>
    /\ e = Server => sf' = sf
    /\ result' = "synAck" => result = "synAck" \/ (e = Client /\ t.rnxt >= 1)
    /\ reader'[Peer(e)] = reader[Peer(e)]
    /\ reader'[e] # "off" => reader[e] # "off" \/ t.rnxt >= 1
    /\ TodoFits(e, t)

LEMMA EndStep ==
    ASSUME ConnectionInv, ~reset, UNCHANGED <<plan, reset>>, RestTypeOK',
           NEW e \in Ends, NEW t, Good(e, t), Promised(t, sock[Peer(e)]), Fits(e, t),
           sock' = [sock EXCEPT ![e] = t],
           NEW new \in SUBSET Packet, net' = net \cup new,
           \A m \in new : m.to = Peer(e) /\ Honest(m, t)
    PROVE  ConnectionInv'
<1> DEFINE q == Peer(e)
<1>1. /\ Phases /\ Paused /\ Pairs /\ Told /\ ConnectionTypeOK
      /\ \A x \in Ends : Whole(sock[x])
  BY Before
<1>2. /\ sock' \in [Ends -> Socket] /\ net' \subseteq Packet
      /\ \A x \in Ends : Whole(sock'[x])
      /\ Pairs' /\ Told'
  BY <1>1, SocketStep
<1>3. q \in Ends /\ q # e /\ Peer(q) = e /\ Ends = {e, q} /\ Client \in Ends /\ Server \in Ends
      /\ Client # Server
  BY DEF Peer, Ends, Client, Server
<1>4. sock'[e] = t /\ sock'[q] = sock[q]
  BY <1>1, <1>3 DEF ConnectionTypeOK
<1>5. sock[e].rnxt \in Nat /\ t.rnxt \in Nat /\ sock[e].rnxt <= t.rnxt
  BY <1>1 DEF Good, Whole, Socket, Grows
<1>6. ConnectionTypeOK'
  <2>1. \A x \in Ends : sock'[x].state # "NONE" =>
            sock'[x].una <= sock'[x].nxt /\ sock'[x].nxt <= Len(sock'[x].stream) + 1
    BY <1>2 DEF Whole
  <2> QED
    BY <1>1, <1>2, <2>1 DEF ConnectionTypeOK, RestTypeOK
<1>7. Phases'
  <2>1. /\ IF sf' = "connect" THEN sock'[Client] = NoSocket ELSE sock'[Client].state # "NONE"
        /\ sf' \in {"connect", "wait", "send"} /\ sock'[Client].fins = {} =>
               sock'[Client].stream = <<>>
    <3>1. CASE e = Client
      BY <1>4, <3>1 DEF Fits
    <3>2. CASE e = Server
      BY <1>1, <1>3, <1>4, <3>2 DEF Fits, Phases
    <3> QED
      BY <3>1, <3>2 DEF Ends
  <2>2. result' = "synAck" => sock'[Client].rnxt >= 1
    BY <1>1, <1>3, <1>4, <1>5 DEF Fits, Phases
  <2>3. sock'[Server].state # "SYN_SENT"
    BY <1>1, <1>3, <1>4 DEF Fits, Phases
  <2>4. ASSUME NEW x \in Ends
        PROVE  /\ sock'[x].state = "NONE" => sock'[x] = NoSocket
               /\ sock'[x].state \notin {"NONE", "SYN_SENT", "CLOSED"} => sock'[x].rnxt >= 1
               /\ reader'[x] # "off" => sock'[x].rnxt >= 1
               /\ sock'[x].state = "FIN_WAIT_1" => sock'[x].fins # {}
    <3>1. CASE x = e
      <4>1. sock[e].fins # {} => t.fins # {}
        BY DEF Good, Grows
      <4> QED
        BY <1>1, <1>4, <1>5, <3>1, <4>1 DEF Fits, Phases
    <3>2. CASE x = q
      BY <1>1, <1>3, <1>4, <3>2 DEF Fits, Phases
    <3> QED
      BY <1>3, <3>1, <3>2
  <2> QED
    BY <2>1, <2>2, <2>3, <2>4 DEF Phases
<1>8. Paused'
  <2>1. /\ Grows(sock[e], t) /\ Grows(sock[q], sock[q]) /\ t \in Socket
        /\ sock[e] \in Socket /\ sock[q] \in Socket /\ t.state # "NONE"
    <3>1. sock[q] \in Socket /\ sock[e] \in Socket
      BY <1>1, <1>3 DEF ConnectionTypeOK
    <3>2. sock[q].nxt \in Nat /\ sock[q].rnxt \in Nat
      BY <3>1 DEF Socket
    <3>3. Grows(sock[e], t) /\ t \in Socket
      BY DEF Good, Whole
    <3> QED
      BY <3>1, <3>2, <3>3 DEF Grows, Fits
  <2>2. ASSUME NEW x \in Ends, NEW th \in Threads, NEW i \in DOMAIN todo'[x][th]
        PROVE  Ready(todo'[x][th][i], sock'[x], sock'[Peer(x)])
    <3> DEFINE step == todo'[x][th][i]
    <3>1. CASE \E j \in DOMAIN todo[x][th] : step = todo[x][th][j]
      <4>1. Ready(step, sock[x], sock[Peer(x)])
        BY <1>1, <3>1 DEF Paused
      <4> HIDE DEF step
      <4>2. CASE x = e
        <5>1. Ready(step, sock[e], sock[q])
          BY <4>1, <4>2
        <5>2. Ready(step, t, sock[q])
          BY <2>1, <5>1, ReadyKept
        <5> QED
          BY <1>4, <4>2, <5>2 DEF step
      <4>3. CASE x = q
        <5>1. sock[q].state # "NONE" /\ Ready(step, sock[q], sock[e])
          BY <1>3, <4>1, <4>3 DEF Ready
        <5>2. Ready(step, sock[q], t)
          BY <2>1, <5>1, ReadyKept
        <5> QED
          BY <1>3, <1>4, <4>3, <5>2 DEF step
      <4> QED
        BY <1>3, <4>2, <4>3
    <3>2. CASE x = e /\ Ready(step, t, sock[Peer(e)])
      BY <1>3, <1>4, <3>2
    <3> QED
      BY <3>1, <3>2 DEF Fits, TodoFits
  <2>3. ASSUME NEW x \in Ends, NEW th \in Threads
        PROVE  FinFirst(todo'[x][th], sock'[x])
    <3>1. FinFirst(todo'[x][th], sock[x]) \/ (x = e /\ t.fins # {})
      BY DEF Fits, TodoFits
    <3>2. sock[x].fins # {} => sock'[x].fins # {}
      <4>1. sock[e].fins # {} => t.fins # {}
        BY DEF Good, Grows
      <4> QED
        BY <1>3, <1>4, <4>1
    <3> QED
      BY <1>4, <3>1, <3>2 DEF FinFirst
  <2> QED
    BY <2>2, <2>3 DEF Paused
<1> QED
  BY <1>2, <1>6, <1>7, <1>8 DEF ConnectionInv, Agreed

---------------------------------------------------------------------------
(* What the handlers take from a packet, and the new packets.              *)

\* An acknowledgement moves una_ and nothing else.
LEMMA OnAckFields ==
    ASSUME NEW s \in Socket, NEW ack \in Nat
    PROVE  LET t == OnAck(s, ack)
           IN /\ t.state = s.state /\ t.nxt = s.nxt /\ t.fins = s.fins
              /\ t.stream = s.stream /\ t.rnxt = s.rnxt
BY DEF OnAck, Socket

\* A packet that was sent to e is true of the other end.
LEMMA Arrived ==
    ASSUME ConnectionInv, ~reset, NEW e \in Ends, NEW m \in net, m.to = e
    PROVE  /\ m \in Packet /\ m.ack \in Nat /\ m.seq \in Nat
           /\ Honest(m, sock[Peer(e)])
BY Before DEF Told, ConnectionTypeOK, Packet

\* Only the server sends SYN-ACKs.
LEMMA SynAckArrived ==
    ASSUME ConnectionInv, ~reset, NEW m \in net, m.flags = "SYN_ACK"
    PROVE  m.ack \in Nat /\ m.ack <= sock[Peer(Client)].rnxt
BY Before DEF Told, ConnectionTypeOK, Packet, Honest

\* The first half of the ACK handlers leaves a good socket.
LEMMA TakeAckGood ==
    ASSUME ConnectionInv, ~reset, NEW e \in Ends, NEW m \in net, m.to = e, sock[e].rnxt >= 1
    PROVE  LET t == TakeAck(e, m)
           IN /\ Good(e, t) /\ t.state = sock[e].state /\ t.fins = sock[e].fins
              /\ t.stream = sock[e].stream /\ t.rnxt >= 1
<1> DEFINE s == sock[e]
           a == OnAck(s, m.ack)
<1>1. Counters /\ Good(e, s) /\ s \in Socket
  BY Before DEF Whole
<1>2. m.ack \in Nat /\ m.ack <= sock[Peer(e)].rnxt
      /\ (m.data => m.seq \in 1 .. sock[Peer(e)].nxt - 1)
  BY Arrived DEF Honest
<1> HIDE DEF s
<1>3. Good(e, a)
  BY <1>1, <1>2, OnAckGood
<1>4. a.state = s.state /\ a.fins = s.fins /\ a.stream = s.stream /\ a.rnxt = s.rnxt
  BY <1>1, <1>2, OnAckFields
<1>5. TakeAck(e, m) = IF m.data THEN OnRecv(a, m.seq) ELSE a
  BY DEF TakeAck, s
<1> HIDE DEF a
<1>6. a.rnxt >= 1
  BY <1>4 DEF s
<1>7. CASE m.data
  <2>1. /\ Good(e, OnRecv(a, m.seq)) /\ OnRecv(a, m.seq).state = a.state
        /\ OnRecv(a, m.seq).rnxt >= 1 /\ OnRecv(a, m.seq).fins = a.fins
        /\ OnRecv(a, m.seq).stream = a.stream
    BY <1>1, <1>2, <1>3, <1>6, <1>7, OnRecvGood
  <2> QED
    BY <1>4, <1>5, <1>7, <2>1 DEF s
<1>8. CASE ~m.data
  BY <1>3, <1>4, <1>5, <1>6, <1>8 DEF s
<1> QED
  BY <1>7, <1>8

\* An ACK that is sent says what its sender has counted.
LEMMA AckHonest ==
    ASSUME NEW e \in Ends, NEW t, t.nxt \in Nat, t.rnxt \in Nat,
           NEW n \in Nat, NEW k \in Nat, k <= t.rnxt
    PROVE  /\ AckPacket(e, n, k) \in Packet
           /\ AckPacket(e, n, k).to = Peer(e) /\ Honest(AckPacket(e, n, k), t)
<1>1. Peer(e) \in Ends
  BY DEF Peer, Ends
<1> QED
  BY <1>1 DEF AckPacket, Packet, Honest

\* A byte that is sent has a number below nxt_.
LEMMA DataHonest ==
    ASSUME NEW e \in Ends, NEW t, t.nxt \in Nat, t.rnxt \in Nat,
           NEW n \in 1 .. t.nxt - 1, NEW k \in Nat, k <= t.rnxt
    PROVE  /\ DataPacket(e, n, k) \in Packet
           /\ DataPacket(e, n, k).to = Peer(e) /\ Honest(DataPacket(e, n, k), t)
<1> DEFINE a == AckPacket(e, n, k)
           d == DataPacket(e, n, k)
<1>1. a \in Packet /\ a.to = Peer(e) /\ a.flags = "ACK" /\ a.seq = n /\ a.ack = k
  <2>1. Peer(e) \in Ends
    BY DEF Peer, Ends
  <2> QED
    BY <2>1 DEF AckPacket, Packet
<1>2. d = [a EXCEPT !.data = TRUE]
  BY DEF DataPacket
<1> HIDE DEF a, d
<1>3. d \in Packet /\ d.to = a.to /\ d.flags = a.flags /\ d.seq = a.seq /\ d.ack = a.ack
  BY <1>1, <1>2 DEF Packet
<1>4. Honest(d, t)
  BY <1>1, <1>3 DEF Honest
<1> QED
  BY <1>1, <1>3, <1>4 DEF d

LEMMA PromiseNone ==
    ASSUME NEW t, NEW p, t.state \notin {"FIN_WAIT_2", "TIME_WAIT"}
    PROVE  Promised(t, p)
BY DEF Promised

\* What is left to do when one thread gets another list of steps.
LEMMA TodoChange ==
    ASSUME ConnectionInv, ~reset, NEW e \in Ends, NEW th \in Threads, NEW new \in Seq(Steps),
           todo' = [todo EXCEPT ![e][th] = new], NEW t,
           \A i \in DOMAIN new : \/ \E j \in DOMAIN todo[e][th] : new[i] = todo[e][th][j]
                                 \/ Ready(new[i], t, sock[Peer(e)]),
           FinFirst(new, sock[e]) \/ t.fins # {}
    PROVE  TodoFits(e, t)
<1>1. /\ todo \in [Ends -> [Threads -> Seq(Steps)]]
      /\ \A x \in Ends, h \in Threads : FinFirst(todo[x][h], sock[x])
  BY Before DEF ConnectionTypeOK, Paused
<1> DEFINE S == Seq(Steps)
<1>2. todo \in [Ends -> [Threads -> S]] /\ new \in S
  BY <1>1
<1> HIDE DEF S
<1>3. todo' \in [Ends -> [Threads -> S]]
  BY <1>2
<1>4. \A x \in Ends, h \in Threads :
          todo'[x][h] = IF x = e /\ h = th THEN new ELSE todo[x][h]
  BY <1>2
<1>5. ASSUME NEW x \in Ends, NEW h \in Threads, NEW i \in DOMAIN todo'[x][h]
      PROVE  \/ \E j \in DOMAIN todo[x][h] : todo'[x][h][i] = todo[x][h][j]
             \/ x = e /\ Ready(todo'[x][h][i], t, sock[Peer(e)])
  <2>1. CASE x = e /\ h = th
    BY <1>4, <2>1
  <2>2. CASE ~(x = e /\ h = th)
    BY <1>4, <2>2
  <2> QED
    BY <2>1, <2>2
<1>6. ASSUME NEW x \in Ends, NEW h \in Threads
      PROVE  FinFirst(todo'[x][h], sock[x]) \/ (x = e /\ t.fins # {})
  BY <1>1, <1>4
<1> QED
  BY <1>3, <1>5, <1>6 DEF TodoFits, S

\* What a handler leaves: nothing, one step or two.
LEMMA FewSteps ==
    ASSUME NEW s, NEW p
    PROVE  /\ Begins(<<>>, s, p)
           /\ \A a \in Steps \ {"FIN_WAIT_1"} : Ready(a, s, p) => Begins(<<a>>, s, p)
           /\ \A a \in Steps \ {"FIN_WAIT_1"}, b \in Steps :
                  /\ Ready(a, s, p) /\ Ready(b, s, p)
                  /\ b = "FIN_WAIT_1" => a = "sendFin_"
                  => Begins(<<a, b>>, s, p)
<1>1. Begins(<<>>, s, p)
  <2>1. <<>> \in Seq(Steps) /\ DOMAIN <<>> = {}
    OBVIOUS
  <2> QED
    BY <2>1 DEF Begins
<1>2. ASSUME NEW a \in Steps \ {"FIN_WAIT_1"}, Ready(a, s, p)
      PROVE  Begins(<<a>>, s, p)
  <2>1. <<a>> \in Seq(Steps) /\ DOMAIN <<a>> = 1 .. 1 /\ <<a>>[1] = a
    OBVIOUS
  <2>2. \A i \in 1 .. 1 : i = 1
    OBVIOUS
  <2> QED
    BY <1>2, <2>1, <2>2 DEF Begins
<1>3. ASSUME NEW a \in Steps \ {"FIN_WAIT_1"}, NEW b \in Steps, Ready(a, s, p), Ready(b, s, p),
             b = "FIN_WAIT_1" => a = "sendFin_"
      PROVE  Begins(<<a, b>>, s, p)
  <2>1. <<a, b>> \in Seq(Steps) /\ DOMAIN <<a, b>> = 1 .. 2 /\ <<a, b>>[1] = a /\ <<a, b>>[2] = b
    OBVIOUS
  <2>2. \A i \in 1 .. 2 : i = 1 \/ i = 2
    OBVIOUS
  <2>3. b = "FIN_WAIT_1" => <<a, b>> = FirstClose
    BY <1>3 DEF FirstClose
  <2>4. ASSUME NEW i \in DOMAIN <<a, b>>
        PROVE  /\ Ready(<<a, b>>[i], s, p)
               /\ <<a, b>>[i] = "FIN_WAIT_1" => b = "FIN_WAIT_1"
    BY <1>3, <2>1, <2>2
  <2> HIDE DEF FirstClose
  <2> QED
    BY <2>1, <2>3, <2>4 DEF Begins
<1> QED
  BY <1>1, <1>2, <1>3

LEMMA TodoSame ==
    ASSUME ConnectionInv, ~reset, UNCHANGED todo, NEW e \in Ends, NEW t
    PROVE  TodoFits(e, t)
BY Before DEF ConnectionTypeOK, TodoFits, Paused

\* A thread that enters a handler must be ready for all of it.
LEMMA EnterFits ==
    ASSUME ConnectionInv, ~reset, NEW e \in Ends, NEW th \in Threads, NEW steps,
           Enter(e, th, steps), NEW t, Begins(steps, t, sock[Peer(e)])
    PROVE  TodoFits(e, t)
<1>1. FinFirst(steps, sock[e])
  BY DEF Begins, FinFirst
<1> QED
  BY <1>1, TodoChange DEF Enter, Begins

\* One that goes on was ready.
LEMMA TakeFits ==
    ASSUME ConnectionInv, ~reset, NEW e \in Ends, NEW th \in Threads, NEW step,
           TakeStep(e, th, step), NEW t, step = "sendFin_" => t.fins # {}
    PROVE  /\ TodoFits(e, t) /\ step \in Steps
           /\ Ready(step, sock[e], sock[Peer(e)]) /\ sock[e].state # "NONE"
           /\ step = "FIN_WAIT_1" => sock[e].fins # {}
<1> DEFINE q == todo[e][th]
           r == Tail(q)
<1>1. q \in Seq(Steps) /\ q # <<>> /\ step = q[1] /\ todo' = [todo EXCEPT ![e][th] = r]
  BY Before, HeadTailProperties DEF ConnectionTypeOK, TakeStep
<1>2. Ready(step, sock[e], sock[Peer(e)]) /\ FinFirst(q, sock[e])
  <2>1. 1 \in DOMAIN q
    BY <1>1
  <2> QED
    BY <1>1, <2>1, Before DEF Paused
<1> HIDE DEF q
<1>3. /\ r \in Seq(Steps) /\ step \in Steps /\ 1 \in DOMAIN q
      /\ \A i \in DOMAIN r : \E j \in DOMAIN q : r[i] = q[j]
  <2>1. r \in Seq(Steps) /\ Len(r) = Len(q) - 1 /\ Len(q) \in Nat /\ Len(q) >= 1
    BY <1>1
  <2>2. DOMAIN r = 1 .. Len(r) /\ DOMAIN q = 1 .. Len(q)
    BY <1>1, <2>1
  <2>3. \A i \in 1 .. Len(r) : r[i] = q[i + 1]
    BY <1>1, <2>1
  <2>4. \A i \in 1 .. Len(r) : i + 1 \in 1 .. Len(q)
    BY <2>1
  <2>5. step \in Steps
    BY <1>1, <2>1
  <2>6. 1 \in DOMAIN q
    BY <2>1, <2>2
  <2> HIDE DEF r
  <2> QED
    BY <2>1, <2>2, <2>3, <2>4, <2>5, <2>6
<1> HIDE DEF r
<1>4. q = FirstClose => step = "sendFin_"
  BY <1>1 DEF FirstClose
<1>5. FinFirst(r, sock[e]) \/ t.fins # {}
  BY <1>2, <1>3, <1>4 DEF FinFirst
<1>6. step = "FIN_WAIT_1" => sock[e].fins # {}
  BY <1>1, <1>2, <1>3, <1>4 DEF FinFirst
<1>7. \A i \in DOMAIN r : \/ \E j \in DOMAIN todo[e][th] : r[i] = todo[e][th][j]
                         \/ Ready(r[i], t, sock[Peer(e)])
  BY <1>3 DEF q
<1>8. TodoFits(e, t)
  BY <1>1, <1>3, <1>5, <1>7, TodoChange
<1> QED
  BY <1>2, <1>3, <1>6, <1>8 DEF Ready

\* A step that changes only a socket, the packets and what is left to do.
LEMMA PlainFits ==
    ASSUME ConnectionInv, ~reset, UNCHANGED <<result, sf, reader, sane>>,
           NEW e \in Ends, NEW t, TodoFits(e, t), sock[e].state # "NONE", t.state # "NONE",
           t.state = "SYN_SENT" => sock[e].state = "SYN_SENT",
           t.state = "FIN_WAIT_1" => sock[e].state = "FIN_WAIT_1" \/ sock[e].fins # {},
           t.state \notin {"SYN_SENT", "CLOSED"} => t.rnxt >= 1,
           t.fins = {} => t.stream = sock[e].stream /\ sock[e].fins = {}
    PROVE  Fits(e, t) /\ RestTypeOK'
<1>1. Phases /\ ConnectionTypeOK
  BY Before
<1>2. Fits(e, t)
  <2>1. e = Client => sf # "connect"
    BY <1>1 DEF Phases, NoSocket
  <2>2. e = Client /\ sf \in {"wait", "send"} /\ t.fins = {} => t.stream = <<>>
    BY <1>1 DEF Phases
  <2>3. e = Server => t.state # "SYN_SENT"
    BY <1>1 DEF Phases
  <2> QED
    BY <2>1, <2>2, <2>3 DEF Fits
<1> QED
  BY <1>1, <1>2 DEF RestTypeOK, ConnectionTypeOK, TodoFits

\* The promises of a socket whose state stays.
LEMMA SameState ==
    ASSUME ConnectionInv, ~reset, NEW e \in Ends, NEW t, Good(e, t), t.state = sock[e].state
    PROVE  Promised(t, sock[Peer(e)])
<1> DEFINE p == sock[Peer(e)]
<1>1. /\ Promised(sock[e], p) /\ Grows(sock[e], t) /\ Grows(p, p)
      /\ sock[e] \in Socket /\ p \in Socket /\ t \in Socket
  <2>1. Peer(e) \in Ends
    BY DEF Peer, Ends
  <2> QED
    BY <2>1, Before DEF Good, Whole
<1> QED
  BY <1>1, PromiseKept

LEMMA PlainStep ==
    ASSUME ConnectionInv, ~reset, UNCHANGED <<plan, result, sf, reader, sane, reset>>,
           NEW e \in Ends, NEW t, TodoFits(e, t), sock[e].state # "NONE", t.state # "NONE",
           t.state = "SYN_SENT" => sock[e].state = "SYN_SENT",
           t.state = "FIN_WAIT_1" => sock[e].state = "FIN_WAIT_1" \/ sock[e].fins # {},
           t.state \notin {"SYN_SENT", "CLOSED"} => t.rnxt >= 1,
           t.fins = {} => t.stream = sock[e].stream /\ sock[e].fins = {},
           Good(e, t), Promised(t, sock[Peer(e)]),
           sock' = [sock EXCEPT ![e] = t],
           NEW new \in SUBSET Packet, net' = net \cup new,
           \A m \in new : m.to = Peer(e) /\ Honest(m, t)
    PROVE  ConnectionInv'
<1>1. Fits(e, t) /\ RestTypeOK'
  BY PlainFits
<1> QED
  BY <1>1, EndStep

\* The same without a packet.
LEMMA QuietStep ==
    ASSUME ConnectionInv, ~reset, UNCHANGED <<plan, net, reset>>, RestTypeOK',
           NEW e \in Ends, NEW t, Good(e, t), Promised(t, sock[Peer(e)]), Fits(e, t),
           sock' = [sock EXCEPT ![e] = t]
    PROVE  ConnectionInv'
<1> DEFINE new == {}
<1>1. new \in SUBSET Packet /\ net' = net \cup new /\ \A m \in new : FALSE
  OBVIOUS
<1> HIDE DEF new
<1> QED
  BY <1>1, EndStep

LEMMA PlainQuietStep ==
    ASSUME ConnectionInv, ~reset,
           UNCHANGED <<plan, net, result, sf, reader, sane, reset>>,
           NEW e \in Ends, NEW t, TodoFits(e, t), sock[e].state # "NONE", t.state # "NONE",
           t.state = "SYN_SENT" => sock[e].state = "SYN_SENT",
           t.state = "FIN_WAIT_1" => sock[e].state = "FIN_WAIT_1" \/ sock[e].fins # {},
           t.state \notin {"SYN_SENT", "CLOSED"} => t.rnxt >= 1,
           t.fins = {} => t.stream = sock[e].stream /\ sock[e].fins = {},
           Good(e, t), Promised(t, sock[Peer(e)]),
           sock' = [sock EXCEPT ![e] = t]
    PROVE  ConnectionInv'
<1>1. Fits(e, t) /\ RestTypeOK'
  BY PlainFits
<1> QED
  BY <1>1, QuietStep

\* A step of e that touches no socket and sends nothing.
LEMMA CallStep ==
    ASSUME ConnectionInv, ~reset, UNCHANGED <<plan, sock, net, reset>>, RestTypeOK',
           NEW e \in Ends, Fits(e, sock[e])
    PROVE  ConnectionInv'
<1>1. Good(e, sock[e]) /\ Promised(sock[e], sock[Peer(e)]) /\ sock \in [Ends -> Socket]
  BY Before DEF ConnectionTypeOK
<1>2. sock' = [sock EXCEPT ![e] = sock[e]]
  BY <1>1
<1> QED
  BY <1>1, <1>2, QuietStep

\* The reply of an ACK handler.
LEMMA ReplyHonest ==
    ASSUME NEW e \in Ends, NEW m, NEW t, Good(e, t)
    PROVE  /\ ReplyTo(e, m, t) \in SUBSET Packet
           /\ \A r \in ReplyTo(e, m, t) : r.to = Peer(e) /\ Honest(r, t)
           /\ AckPacket(e, t.nxt, t.rnxt) \in Packet
           /\ AckPacket(e, t.nxt, t.rnxt).to = Peer(e)
           /\ Honest(AckPacket(e, t.nxt, t.rnxt), t)
<1>1. t.nxt \in Nat /\ t.rnxt \in Nat /\ t.rnxt <= t.rnxt
  BY DEF Good, Whole, Socket
<1>2. /\ AckPacket(e, t.nxt, t.rnxt) \in Packet
      /\ AckPacket(e, t.nxt, t.rnxt).to = Peer(e)
      /\ Honest(AckPacket(e, t.nxt, t.rnxt), t)
  BY <1>1, AckHonest
<1> QED
  BY <1>2 DEF ReplyTo

---------------------------------------------------------------------------
(* The steps, one by one.                                                  *)

LEMMA GetAckKeeps ==
    ASSUME ConnectionInv, ~reset, UNCHANGED plan, NEW e \in Ends, NEW m \in net, GetAck(e, m)
    PROVE  ConnectionInv'
<1> DEFINE t == TakeAck(e, m)
           new == ReplyTo(e, m, t)
<1>1. /\ m.to = e /\ sock[e].state \in {"ESTABLISHED", "CLOSE_WAIT", "FIN_WAIT_2"}
      /\ sock' = [sock EXCEPT ![e] = t] /\ net' = net \cup new
      /\ UNCHANGED <<result, sf, reader, sane, reset>> /\ TodoFits(e, t)
  BY TodoSame DEF GetAck, Become
<1>2. sock[e].rnxt >= 1
  BY <1>1, Before DEF Phases
<1>3. /\ Good(e, t) /\ t.state = sock[e].state /\ t.fins = sock[e].fins
      /\ t.stream = sock[e].stream /\ t.rnxt >= 1
  BY <1>1, <1>2, TakeAckGood
<1>4. Promised(t, sock[Peer(e)])
  BY <1>3, SameState
<1>5. new \in SUBSET Packet /\ \A r \in new : r.to = Peer(e) /\ Honest(r, t)
  BY <1>3, ReplyHonest
<1> HIDE DEF t, new
<1> QED
  BY <1>1, <1>3, <1>4, <1>5, PlainStep

LEMMA GetAckFinWait1Keeps ==
    ASSUME ConnectionInv, ~reset, UNCHANGED plan, NEW e \in Ends, NEW m \in net,
           NEW w \in Workers, GetAckFinWait1(e, w, m)
    PROVE  ConnectionInv'
<1> DEFINE t == TakeAck(e, m)
           steps == IF FinAcked(t, m) THEN <<"FIN_WAIT_2">> ELSE <<>>
           new == ReplyTo(e, m, t)
           p == sock[Peer(e)]
<1>1. /\ m.to = e /\ sock[e].state = "FIN_WAIT_1"
      /\ sock' = [sock EXCEPT ![e] = t] /\ net' = net \cup new
      /\ Enter(e, w, steps)
      /\ UNCHANGED <<result, sf, reader, sane, reset>>
  BY DEF GetAckFinWait1, Become
<1>2. sock[e].rnxt >= 1 /\ Counters
  BY <1>1, Before DEF Phases
<1>3. /\ Good(e, t) /\ t.state = "FIN_WAIT_1" /\ t.fins = sock[e].fins
      /\ t.stream = sock[e].stream /\ t.rnxt >= 1
  BY <1>1, <1>2, TakeAckGood
<1>4. new \in SUBSET Packet /\ \A r \in new : r.to = Peer(e) /\ Honest(r, t)
  BY <1>3, ReplyHonest
<1> HIDE DEF t, new
<1>5. AllAcked(t) => Counted(t, p)
  <2>1. SUFFICES ASSUME AllAcked(t) PROVE Counted(t, p)
    OBVIOUS
  <2>2. /\ t.una = t.nxt /\ t.nxt \in Nat /\ t.fins \subseteq 1 .. t.nxt - 1
        /\ t.una <= p.rnxt
    BY <1>3, <2>1 DEF AllAcked, Good, Linked, Whole, Socket
  <2>3. t.fins # {}
    BY <1>1, <1>3, Before DEF Phases
  <2>4. p.rnxt \in Nat
    BY <1>2 DEF Counters, Peer, Ends
  <2>5. PICK n \in t.fins : TRUE
    BY <2>3
  <2>6. n < p.rnxt
    BY <2>2, <2>4, <2>5
  <2> QED
    BY <2>5, <2>6 DEF Counted
<1>6. Begins(steps, t, p)
  <2>1. CASE FinAcked(t, m)
    <3>1. Ready("FIN_WAIT_2", t, p)
      BY <1>3, <1>5, <2>1 DEF Ready, FinAcked
    <3>2. "FIN_WAIT_2" \in Steps
      BY DEF Steps, States
    <3> QED
      BY <2>1, <3>1, <3>2, FewSteps
  <2>2. CASE ~FinAcked(t, m)
    BY <2>2, FewSteps
  <2> QED
    BY <2>1, <2>2
<1> HIDE DEF steps
<1>7. TodoFits(e, t)
  BY <1>1, <1>6, EnterFits DEF p, Threads
<1>8. Promised(t, p)
  BY <1>3, PromiseNone
<1> QED
  BY <1>1, <1>3, <1>4, <1>7, <1>8, PlainStep DEF p

LEMMA GetAckLastAckKeeps ==
    ASSUME ConnectionInv, ~reset, UNCHANGED plan, NEW e \in Ends, NEW m \in net,
           NEW w \in Workers, GetAckLastAck(e, w, m)
    PROVE  ConnectionInv'
<1> DEFINE s == sock[e]
           t == OnAck(s, m.ack)
           steps == IF AllAcked(t) THEN <<"shutdown_", "CLOSED">> ELSE <<>>
<1>1. /\ m.to = e /\ sock[e].state = "LAST_ACK"
      /\ sock' = [sock EXCEPT ![e] = t] /\ Enter(e, w, steps)
      /\ UNCHANGED <<net, result, sf, reader, sane, reset>>
  BY DEF GetAckLastAck, Become
<1>2. s.rnxt >= 1 /\ Counters /\ Good(e, s) /\ s \in Socket
  BY <1>1, Before DEF Phases, Whole
<1>3. m.ack \in Nat /\ m.ack <= sock[Peer(e)].rnxt
  BY <1>1, Arrived DEF Honest
<1> HIDE DEF s
<1>4. /\ Good(e, t) /\ t.state = s.state /\ t.fins = s.fins /\ t.stream = s.stream
      /\ t.rnxt = s.rnxt
  BY <1>2, <1>3, OnAckGood, OnAckFields
<1> HIDE DEF t
<1>5. Begins(steps, t, sock[Peer(e)])
  <2>1. t.state # "NONE"
    BY <1>1, <1>4 DEF s
  <2>2. Ready("shutdown_", t, sock[Peer(e)]) /\ Ready("CLOSED", t, sock[Peer(e)])
    BY <2>1 DEF Ready, States
  <2>3. "shutdown_" \in Steps /\ "CLOSED" \in Steps
    BY DEF Steps, States
  <2> QED
    BY <2>2, <2>3, FewSteps
<1> HIDE DEF steps
<1>6. TodoFits(e, t)
  BY <1>1, <1>5, EnterFits DEF Threads
<1>7. Promised(t, sock[Peer(e)])
  BY <1>4, SameState DEF s
<1>8. /\ t.state = "LAST_ACK" /\ t.fins = sock[e].fins
      /\ t.stream = sock[e].stream /\ t.rnxt >= 1
  BY <1>1, <1>2, <1>4 DEF s
<1> QED
  BY <1>1, <1>4, <1>6, <1>7, <1>8, PlainQuietStep

LEMMA GetSynAckAgainKeeps ==
    ASSUME ConnectionInv, ~reset, UNCHANGED plan, NEW m \in net, GetSynAckAgain(m)
    PROVE  ConnectionInv'
<1> DEFINE s == sock[Client]
           t == OnAck(s, m.ack)
           new == {AckPacket(Client, t.nxt, t.rnxt)}
<1>0. Client \in Ends
  BY DEF Ends
<1>1. /\ m.flags = "SYN_ACK" /\ sock[Client].state = "ESTABLISHED"
      /\ sock' = [sock EXCEPT ![Client] = t] /\ net' = net \cup new
      /\ UNCHANGED <<result, sf, reader, sane, reset>> /\ TodoFits(Client, t)
  BY <1>0, TodoSame DEF GetSynAckAgain, Become
<1>2. s.rnxt >= 1 /\ Counters /\ Good(Client, s) /\ s \in Socket
  BY <1>0, <1>1, Before DEF Phases, Whole
<1>3. m.ack \in Nat /\ m.ack <= sock[Peer(Client)].rnxt
  BY <1>0, <1>1, SynAckArrived
<1> HIDE DEF s
<1>4. /\ Good(Client, t) /\ t.state = s.state /\ t.fins = s.fins /\ t.stream = s.stream
      /\ t.rnxt = s.rnxt
  BY <1>0, <1>2, <1>3, OnAckGood, OnAckFields
<1>5. Promised(t, sock[Peer(Client)])
  BY <1>0, <1>4, SameState DEF s
<1>6. new \in SUBSET Packet /\ \A r \in new : r.to = Peer(Client) /\ Honest(r, t)
  BY <1>0, <1>4, ReplyHonest
<1>7. /\ t.state = sock[Client].state /\ t.fins = sock[Client].fins
      /\ t.stream = sock[Client].stream /\ t.rnxt >= 1
  BY <1>2, <1>4 DEF s
<1> HIDE DEF t, new
<1> QED
  BY <1>0, <1>1, <1>4, <1>5, <1>6, <1>7, PlainStep

LEMMA SendByteKeeps ==
    ASSUME ConnectionInv, ~reset, UNCHANGED plan, NEW e \in Ends, SendByte(e)
    PROVE  ConnectionInv'
<1> DEFINE s == sock[e]
           k == s.nxt + 1
           t == [s EXCEPT !.nxt = k]
           new == {DataPacket(e, s.nxt, s.rnxt)}
<1>1. /\ s.state # "NONE" /\ s.nxt < Len(s.stream) + 1
      /\ sock' = [sock EXCEPT ![e] = t] /\ net' = net \cup new
      /\ UNCHANGED <<result, sf, reader, sane, reset>> /\ TodoFits(e, t)
  BY TodoSame DEF SendByte, Become, Nbw
<1>2. Counters /\ Good(e, s) /\ Whole(s) /\ Phases
  BY Before
<1>3. s \in Socket /\ s.nxt \in Nat /\ s.rnxt \in Nat /\ s.una \in Nat /\ s.nxt >= 1
      /\ s.stream \in Seq(Nat) /\ k \in Nat /\ k > s.nxt
  <2>1. s \in Socket /\ s.nxt >= 1
    BY <1>1, <1>2 DEF Whole
  <2>2. s.nxt \in Nat /\ s.rnxt \in Nat /\ s.una \in Nat /\ s.stream \in Seq(Nat)
    BY <2>1 DEF Socket
  <2> QED
    BY <2>1, <2>2
<1>4. sock[e].nxt \in Nat /\ sock[e].nxt <= s.nxt
  BY <1>2, <1>3 DEF Good, Grows
<1>5. s.state \notin {"SYN_SENT", "CLOSED"} => s.rnxt >= 1
  BY <1>1, <1>2 DEF Phases
<1>6. k <= Len(s.stream) + 1
  BY <1>1, <1>3
<1>7. t \in Socket /\ t.nxt = k /\ t.state = s.state /\ t.una = s.una /\ t.stream = s.stream
      /\ t.fins = s.fins /\ t.rnxt = s.rnxt /\ t.nbr = s.nbr /\ t.have = s.have
      /\ t.early = s.early /\ t.got = s.got
  <2> HIDE DEF k, s
  <2> QED
    BY <1>3 DEF Socket
<1>8. Good(e, t)
  <2> HIDE DEF t, s
  <2>1. Whole(t)
    BY <1>2, <1>3, <1>6, <1>7 DEF Whole
  <2>2. Linked(t, sock[Peer(e)]) /\ ReadUpTo(t) /\ Written(t, Length(e))
        /\ GotRight(t, sock[Peer(e)], Length(Peer(e)))
    BY <1>2, <1>7 DEF Good, Linked, ReadUpTo, Written, GotRight
  <2>3. Grows(sock[e], t)
    BY <1>2, <1>3, <1>4, <1>7 DEF Good, Grows
  <2> QED
    BY <2>1, <2>2, <2>3 DEF Good
<1>9. Promised(t, sock[Peer(e)])
  BY <1>7, <1>8, SameState
<1>10. new \in SUBSET Packet /\ \A r \in new : r.to = Peer(e) /\ Honest(r, t)
  <2>1. s.nxt \in 1 .. t.nxt - 1 /\ t.nxt \in Nat /\ t.rnxt \in Nat
        /\ s.rnxt \in Nat /\ s.rnxt <= t.rnxt
    BY <1>3, <1>7
  <2> HIDE DEF t, s
  <2> QED
    BY <2>1, DataHonest
<1>11. sock[e].state # "NONE" /\ t.state = sock[e].state /\ t.stream = sock[e].stream
       /\ t.fins = sock[e].fins /\ (t.state \notin {"SYN_SENT", "CLOSED"} => t.rnxt >= 1)
  BY <1>1, <1>5, <1>7
<1> HIDE DEF t, new, s
<1> QED
  BY <1>1, <1>8, <1>9, <1>10, <1>11, PlainStep

\* A step that touches no socket.
LEMMA IdleStep ==
    ASSUME ConnectionInv, ~reset, UNCHANGED <<plan, sock, net, todo, result, sane, reset>>,
           RestTypeOK', sf' = sf \/ (sf # "connect" /\ sf' = "failed"),
           \A x \in Ends : reader'[x] # "off" => reader[x] # "off"
    PROVE  ConnectionInv'
<1>1. /\ Phases /\ Paused /\ Pairs /\ Told /\ ConnectionTypeOK
      /\ \A x \in Ends : Whole(sock[x])
  BY Before
<1>2. ConnectionTypeOK'
  BY <1>1 DEF ConnectionTypeOK, RestTypeOK
<1>3. Phases'
  BY <1>1 DEF Phases
<1>4. Pairs'
  BY <1>1 DEF Pairs, Length
<1>5. Paused' /\ Told' /\ \A x \in Ends : Whole(sock'[x])
  BY <1>1 DEF Paused, Told
<1> QED
  BY <1>2, <1>3, <1>4, <1>5 DEF ConnectionInv, Agreed

LEMMA RecvCallKeeps ==
    ASSUME ConnectionInv, ~reset, UNCHANGED plan, NEW e \in Ends, RecvCall(e)
    PROVE  ConnectionInv'
<1> DEFINE s == sock[e]
           waits == \/ s.state \in {"ESTABLISHED", "FIN_WAIT_1", "FIN_WAIT_2", "TIME_WAIT"}
                    \/ s.state = "CLOSE_WAIT" /\ s.rnxt # s.nbr
           r == CASE waits -> "wait" [] s.state = "CLOSED" -> "failed" [] OTHER -> "closing"
<1>1. /\ reader[e] = "call" /\ reader' = [reader EXCEPT ![e] = r]
      /\ UNCHANGED <<sock, net, todo, result, sf, sane, reset>>
  BY DEF RecvCall
<1>2. r \in {"wait", "failed", "closing"}
  <2> HIDE DEF waits, s
  <2> QED
    OBVIOUS
<1> HIDE DEF r
<1>3. ConnectionTypeOK
  BY Before
<1>4. RestTypeOK'
  BY <1>1, <1>2, <1>3 DEF ConnectionTypeOK, RestTypeOK
<1>5. \A x \in Ends : reader'[x] # "off" => reader[x] # "off"
  BY <1>1, <1>3 DEF ConnectionTypeOK
<1> QED
  BY <1>1, <1>4, <1>5, IdleStep

LEMMA RecvReturnKeeps ==
    ASSUME ConnectionInv, ~reset, UNCHANGED plan, NEW e \in Ends, RecvReturn(e)
    PROVE  ConnectionInv'
<1> DEFINE s == sock[e]
           p == sock[Peer(e)]
           t == ReadAll(s, p)
<1>1. ConnectionTypeOK /\ Phases /\ Pairs /\ Counters /\ Good(e, s)
  BY Before
<1>2. reader[e] = "wait" /\ UNCHANGED <<net, todo, result, sf, sane, reset>>
  BY DEF RecvReturn
<1>3. CASE s.rstop
  <2>1. reader' = [reader EXCEPT ![e] = "closing"] /\ UNCHANGED sock
    BY <1>3 DEF RecvReturn
  <2>2. RestTypeOK'
    BY <1>1, <1>2, <2>1 DEF ConnectionTypeOK, RestTypeOK
  <2>3. \A x \in Ends : reader'[x] # "off" => reader[x] # "off"
    BY <1>1, <1>2, <2>1 DEF ConnectionTypeOK
  <2> QED
    BY <1>2, <2>1, <2>2, <2>3, IdleStep
<1>4. CASE ~s.rstop
  <2>1. reader' = [reader EXCEPT ![e] = "call"] /\ sock' = [sock EXCEPT ![e] = t]
    BY <1>4 DEF RecvReturn, Become
  <2>2. RestTypeOK'
    BY <1>1, <1>2, <2>1 DEF ConnectionTypeOK, RestTypeOK
  <2>3. Peer(e) \in Ends /\ Peer(e) # e
    BY DEF Peer, Ends, Client, Server
  <2>4. s.rnxt >= 1 /\ Whole(p) /\ Written(p, Length(Peer(e)))
    BY <1>1, <1>2, <2>3, Before DEF Phases, Pairs
  <2> HIDE DEF s, p
  <2>5. /\ Good(e, t) /\ t.state = s.state /\ t.rnxt = s.rnxt /\ t.fins = s.fins
        /\ t.stream = s.stream
    BY <1>1, <2>4, ReadGood DEF p
  <2> HIDE DEF t
  <2>6. Promised(t, sock[Peer(e)])
    BY <2>5, SameState DEF s
  <2>7. s.state # "NONE" /\ t.rnxt >= 1
    BY <1>1, <2>4, <2>5 DEF Phases, NoSocket, s
  <2>8. reader'[Peer(e)] = reader[Peer(e)]
    BY <1>1, <2>1, <2>3 DEF ConnectionTypeOK
  <2>9. Fits(e, t)
    <3>0. TodoFits(e, t)
      BY <1>2, TodoSame
    <3>1. e = Client => sf # "connect"
      BY <1>1, <2>7 DEF Phases, NoSocket, s
    <3>2. e = Client /\ sf \in {"wait", "send"} /\ t.fins = {} => t.stream = <<>>
      BY <1>1, <2>5 DEF Phases, s
    <3>3. t.state # "NONE" /\ (e = Server => t.state # "SYN_SENT")
      BY <1>1, <2>5, <2>7 DEF Phases, s
    <3> QED
      BY <1>2, <2>5, <2>7, <2>8, <3>0, <3>1, <3>2, <3>3 DEF Fits, s
  <2> QED
    BY <1>2, <2>1, <2>2, <2>5, <2>6, <2>9, QuietStep
<1> QED
  BY <1>3, <1>4

\* The steps that are left of a handler or a call.
LEMMA WriteStateKeeps ==
    ASSUME ConnectionInv, ~reset, UNCHANGED plan, NEW e \in Ends, NEW th \in Threads,
           NEW state \in States, WriteState(e, th, state)
    PROVE  ConnectionInv'
<1> DEFINE s == sock[e]
           t == InState(s, state)
           p == sock[Peer(e)]
<1>1. /\ TakeStep(e, th, state) /\ sock' = [sock EXCEPT ![e] = t]
      /\ UNCHANGED <<net, result, sf, reader, sane, reset>>
  BY DEF WriteState, Become, InState
<1>2. Counters /\ Good(e, s)
  BY Before
<1>3. /\ TodoFits(e, t) /\ Ready(state, s, p) /\ s.state # "NONE" /\ state \in States \ {"NONE"}
      /\ state = "FIN_WAIT_1" => s.fins # {}
  <2>1. state # "sendFin_"
    BY DEF States
  <2>2. /\ TodoFits(e, t) /\ Ready(state, s, p) /\ s.state # "NONE" /\ state \in Steps
        /\ state = "FIN_WAIT_1" => s.fins # {}
    BY <1>1, <2>1, TakeFits
  <2> QED
    BY <2>2 DEF Steps
<1>4. /\ Good(e, t) /\ t.state = state /\ t.fins = s.fins /\ t.stream = s.stream
      /\ t.rnxt = s.rnxt
  BY <1>2, <1>3, StateGood
<1> HIDE DEF t, s, p
<1>5. Promised(t, p)
  BY <1>3, <1>4 DEF Promised, Ready, Counted
<1>6. t.state # "SYN_SENT" /\ (t.state # "CLOSED" => t.rnxt >= 1)
  BY <1>3, <1>4 DEF Ready
<1> QED
  BY <1>1, <1>3, <1>4, <1>5, <1>6, PlainQuietStep DEF s, p

LEMMA StopKeeps ==
    ASSUME ConnectionInv, ~reset, UNCHANGED plan, NEW e \in Ends, NEW th \in Threads,
           ShutdownRecv(e, th) \/ Shutdown(e, th)
    PROVE  ConnectionInv'
<1> DEFINE s == sock[e]
<1>1. PICK t \in {StopReading(s), StopBoth(s)}, step \in {"shutdownRecv_", "shutdown_"} :
          /\ TakeStep(e, th, step) /\ sock' = [sock EXCEPT ![e] = t]
          /\ UNCHANGED <<net, result, sf, reader, sane, reset>>
  BY DEF ShutdownRecv, Shutdown, Become, StopReading, StopBoth
<1>2. Counters /\ Good(e, s) /\ Phases
  BY Before
<1>3. TodoFits(e, t) /\ s.state # "NONE"
  BY <1>1, TakeFits
<1>4. /\ Good(e, t) /\ t.state = s.state /\ t.fins = s.fins /\ t.stream = s.stream
      /\ t.rnxt = s.rnxt
  BY <1>1, <1>2, StopGood
<1>5. Promised(t, sock[Peer(e)])
  BY <1>4, SameState
<1>6. t.state \notin {"SYN_SENT", "CLOSED"} => t.rnxt >= 1
  BY <1>2, <1>3, <1>4 DEF Phases
<1> QED
  BY <1>1, <1>3, <1>4, <1>5, <1>6, PlainQuietStep

LEMMA CloseFinKeeps ==
    ASSUME ConnectionInv, ~reset, UNCHANGED plan, NEW e \in Ends, NEW th \in Threads,
           CloseFin(e, th)
    PROVE  ConnectionInv'
<1> DEFINE s == sock[e]
           t == SendFin(s)
           new == {FinPacket(e, s.nxt)}
<1>1. /\ TakeStep(e, th, "sendFin_") /\ sock' = [sock EXCEPT ![e] = t]
      /\ net' = net \cup new /\ UNCHANGED <<result, sf, reader, sane, reset>>
  BY DEF CloseFin, Become
<1>2. Counters /\ Good(e, s) /\ Phases /\ s.nxt \in Nat
  BY Before DEF Counters
<1>3. TodoFits(e, t) /\ s.state # "NONE"
  <2>1. s \in Socket
    BY <1>2 DEF Good, Whole
  <2>2. s.nxt \in t.fins
    BY <2>1 DEF SendFin, Socket
  <2> HIDE DEF t
  <2> QED
    BY <1>1, <2>2, TakeFits
<1>4. /\ Good(e, t) /\ t.state = s.state /\ t.fins = s.fins \cup {s.nxt} /\ t.rnxt = s.rnxt
  BY <1>2, <1>3, SendFinGood
<1> HIDE DEF t
<1>5. Promised(t, sock[Peer(e)])
  BY <1>4, SameState
<1>6. t.state \notin {"SYN_SENT", "CLOSED"} => t.rnxt >= 1
  BY <1>2, <1>3, <1>4 DEF Phases
<1>7. new \in SUBSET Packet /\ \A m \in new : m.to = Peer(e) /\ Honest(m, t)
  <2>1. Peer(e) \in Ends /\ t.rnxt \in Nat /\ s.nxt \in t.fins
    BY <1>4 DEF Peer, Ends, Good, Whole, Socket
  <2> HIDE DEF s
  <2> QED
    BY <1>2, <2>1 DEF FinPacket, Packet, Honest
<1>8. t.fins # {}
  BY <1>4
<1> HIDE DEF new, s
<1> QED
  BY <1>1, <1>3, <1>4, <1>5, <1>6, <1>7, <1>8, PlainStep DEF s

LEMMA AcceptKeeps ==
    ASSUME ConnectionInv, ~reset, UNCHANGED plan, NEW th \in Threads, Accept(th)
    PROVE  ConnectionInv'
<1> DEFINE s == sock[Server]
<1>0. Server \in Ends /\ Client # Server /\ Peer(Server) \in Ends /\ Peer(Server) # Server
  BY DEF Ends, Client, Server, Peer
<1>1. TakeStep(Server, th, "accept") /\ UNCHANGED <<sock, net, result, sf, reset>>
  BY DEF Accept
<1>2. ConnectionTypeOK /\ Phases
  BY <1>0, Before
<1>3. TodoFits(Server, s) /\ s.state # "NONE" /\ s.rnxt >= 1
  BY <1>0, <1>1, TakeFits DEF Ready
<1>4. \/ reader' = [reader EXCEPT ![Server] = "call"] /\ UNCHANGED sane
      \/ sane' = FALSE /\ UNCHANGED reader
  BY DEF Accept
<1>5. RestTypeOK' /\ reader'[Peer(Server)] = reader[Peer(Server)]
  BY <1>0, <1>1, <1>2, <1>3, <1>4 DEF ConnectionTypeOK, RestTypeOK, TodoFits
<1>6. Fits(Server, s)
  BY <1>0, <1>1, <1>2, <1>3, <1>5 DEF Fits, Phases
<1> QED
  BY <1>0, <1>1, <1>5, <1>6, CallStep

LEMMA AssertConnectedKeeps ==
    ASSUME ConnectionInv, ~reset, UNCHANGED plan, AssertConnected
    PROVE  ConnectionInv'
<1> DEFINE s == sock[Client]
<1>0. Client \in Ends /\ Client # Server /\ File \in Threads
  BY DEF Ends, Client, Server, Threads
<1>1. /\ TakeStep(Client, File, "assert") /\ sane' \in BOOLEAN
      /\ UNCHANGED <<sock, net, result, sf, reader, reset>>
  BY DEF AssertConnected, Sane
<1>2. ConnectionTypeOK /\ Phases
  BY <1>0, Before
<1>3. TodoFits(Client, s) /\ s.state # "NONE"
  BY <1>0, <1>1, TakeFits
<1>4. RestTypeOK'
  BY <1>1, <1>2, <1>3 DEF ConnectionTypeOK, RestTypeOK, TodoFits
<1>5. sf # "connect"
  BY <1>2, <1>3, NoSocketFields DEF Phases
<1>6. Fits(Client, s)
  BY <1>0, <1>1, <1>2, <1>3, <1>5 DEF Fits, Phases
<1> QED
  BY <1>0, <1>1, <1>4, <1>6, CallStep

\* vClose() and vAbort() enter a list of steps and tell who waits.
LEMMA CloseCallKeeps ==
    ASSUME ConnectionInv, ~reset, UNCHANGED <<plan, sock, net, sane, reset>>,
           NEW e \in Ends, sock[e].state # "NONE", TodoFits(e, sock[e]),
           ReportError(sock[e].state),
           \/ reader' = Unlisted(e)
           \/ reader' = reader
           \/ reader[e] # "off" /\ reader' = [reader EXCEPT ![e] = "received"],
           sf' = sf \/ (e = Client /\ sf' = "sent")
    PROVE  ConnectionInv'
<1> DEFINE s == sock[e]
<1>1. ConnectionTypeOK /\ Phases
  BY Before
<1>2. Peer(e) \in Ends /\ Peer(e) # e
  BY DEF Peer, Ends, Client, Server
<1>3. /\ result' \in {"none", "synAck", "error"} /\ (result' = "synAck" => result = "synAck")
  BY <1>1 DEF ReportError, ConnectionTypeOK
<1>4. /\ reader' \in [Ends -> {"off", "dropped", "call", "wait", "closing", "received", "failed"}]
      /\ reader'[Peer(e)] = reader[Peer(e)]
      /\ reader'[e] # "off" => reader[e] # "off" \/ s.rnxt >= 1
  <2>1. s.state = "SYN_RECEIVED" => s.rnxt >= 1
    BY <1>1 DEF Phases
  <2> QED
    BY <1>1, <1>2, <2>1 DEF Unlisted, ConnectionTypeOK
<1>5. RestTypeOK'
  BY <1>1, <1>3, <1>4 DEF ConnectionTypeOK, RestTypeOK, TodoFits
<1>6. Fits(e, s)
  <2>1. e = Client => sf' # "connect"
    BY <1>1 DEF Phases, NoSocket
  <2>2. e = Client /\ sf' \in {"wait", "send"} /\ s.fins = {} => s.stream = <<>>
    BY <1>1 DEF Phases
  <2>3. e = Server => s.state # "SYN_SENT" /\ sf' = sf
    BY <1>1 DEF Phases, Client, Server
  <2>4. s.state \notin {"SYN_SENT", "CLOSED"} => s.rnxt >= 1
    BY <1>1 DEF Phases
  <2> QED
    BY <1>3, <1>4, <2>1, <2>2, <2>3, <2>4 DEF Fits
<1> QED
  BY <1>5, <1>6, CallStep

LEMMA AbortKeeps ==
    ASSUME ConnectionInv, ~reset, UNCHANGED plan, NEW e \in Ends, NEW th \in Threads, Abort(e, th)
    PROVE  ConnectionInv'
<1> DEFINE s == sock[e]
           steps == <<"shutdown_", "CLOSED">>
<1>1. /\ s.state # "NONE" /\ Enter(e, th, steps) /\ ReportError(s.state)
      /\ reader' = Unlisted(e) /\ UNCHANGED <<sock, net, sf, sane, reset>>
  BY DEF Abort
<1>2. Begins(steps, s, sock[Peer(e)])
  <2>1. Ready("shutdown_", s, sock[Peer(e)]) /\ Ready("CLOSED", s, sock[Peer(e)])
    BY <1>1 DEF Ready, States
  <2>2. "shutdown_" \in Steps /\ "CLOSED" \in Steps
    BY DEF Steps, States
  <2> QED
    BY <2>1, <2>2, FewSteps
<1> HIDE DEF steps
<1>3. TodoFits(e, s)
  BY <1>1, <1>2, EnterFits
<1> QED
  BY <1>1, <1>3, CloseCallKeeps

\* A FIN that is counted moves nxt_ of the receive buffer and nothing else.
LEMMA OnCtrlFields ==
    ASSUME NEW s \in Socket, NEW seq \in Nat
    PROVE  OnCtrl(s, seq).stream = s.stream
BY DEF OnCtrl, Socket

\* The first half of the FIN handlers leaves a good socket.
LEMMA TakeFinGood ==
    ASSUME ConnectionInv, ~reset, NEW e \in Ends, NEW m \in net, m.to = e, m.flags = "FIN",
           sock[e].rnxt >= 1
    PROVE  LET t == OnCtrl(sock[e], m.seq)
           IN /\ Good(e, t) /\ t.state = sock[e].state /\ t.fins = sock[e].fins
              /\ t.stream = sock[e].stream /\ t.rnxt >= 1
              /\ m.seq \in Nat /\ m.seq \in sock[Peer(e)].fins
<1> DEFINE s == sock[e]
<1>1. Counters /\ Good(e, s) /\ s \in Socket
  BY Before DEF Whole
<1>2. m.seq \in Nat /\ m.seq \in sock[Peer(e)].fins
  BY Arrived DEF Honest
<1> HIDE DEF s
<1>3. s.rnxt >= 1
  BY DEF s
<1>4. LET t == OnCtrl(s, m.seq)
      IN /\ Good(e, t) /\ t.state = s.state /\ t.fins = s.fins
         /\ t.stream = s.stream /\ t.rnxt >= 1
  BY <1>1, <1>2, <1>3, OnCtrlGood, OnCtrlFields
<1> QED
  BY <1>2, <1>4 DEF s

LEMMA GetFinLateKeeps ==
    ASSUME ConnectionInv, ~reset, UNCHANGED plan, NEW e \in Ends, NEW m \in net,
           NEW w \in Workers, GetFinLate(e, w, m)
    PROVE  ConnectionInv'
<1> DEFINE t == OnCtrl(sock[e], m.seq)
           done == t.state = "FIN_WAIT_2" /\ t.rnxt = m.seq + 1
           steps == IF done THEN <<"TIME_WAIT">> ELSE <<>>
           new == {AckPacket(e, t.nxt, t.rnxt)}
           p == sock[Peer(e)]
<1>1. /\ m.to = e /\ m.flags = "FIN" /\ t.state \in {"FIN_WAIT_2", "CLOSE_WAIT", "TIME_WAIT"}
      /\ sock' = [sock EXCEPT ![e] = t] /\ net' = net \cup new /\ Enter(e, w, steps)
      /\ UNCHANGED <<result, sf, reader, sane, reset>>
  BY DEF GetFinLate, Become
<1>2. Counters /\ Phases /\ sock[e] \in Socket /\ m.seq \in Nat
  BY <1>1, Before, Arrived DEF Whole
<1>3. t.state = sock[e].state
  BY <1>2 DEF OnCtrl, Socket
<1>4. sock[e].rnxt >= 1
  BY <1>1, <1>2, <1>3 DEF Phases
<1>5. /\ Good(e, t) /\ t.fins = sock[e].fins
      /\ t.stream = sock[e].stream /\ t.rnxt >= 1 /\ m.seq \in p.fins
  BY <1>1, <1>4, TakeFinGood
<1> HIDE DEF t
<1>6. new \in SUBSET Packet /\ \A r \in new : r.to = Peer(e) /\ Honest(r, t)
  BY <1>5, ReplyHonest
<1>7. Promised(t, p)
  BY <1>3, <1>5, SameState
<1> HIDE DEF p
<1>8. done => Ready("TIME_WAIT", t, p)
  <2>1. SUFFICES ASSUME done PROVE Ready("TIME_WAIT", t, p)
    OBVIOUS
  <2>2. Counted(t, p)
    BY <1>7, <2>1 DEF Promised
  <2>3. m.seq < t.rnxt
    BY <1>2, <2>1
  <2> QED
    BY <1>5, <2>1, <2>2, <2>3 DEF Ready, Counted
<1> HIDE DEF done
<1>9. Begins(steps, t, p)
  <2>1. "TIME_WAIT" \in Steps
    BY DEF Steps, States
  <2> QED
    BY <1>8, <2>1, FewSteps
<1> HIDE DEF steps
<1>10. TodoFits(e, t)
  BY <1>1, <1>9, EnterFits DEF p, Threads
<1> HIDE DEF new
<1> QED
  BY <1>1, <1>3, <1>5, <1>6, <1>7, <1>10, PlainStep DEF p

LEMMA GetFinKeeps ==
    ASSUME ConnectionInv, ~reset, UNCHANGED plan, NEW e \in Ends, NEW m \in net,
           NEW w \in Workers, GetFin(e, w, m)
    PROVE  ConnectionInv'
<1> DEFINE t == OnCtrl(sock[e], m.seq)
           steps == IF t.rnxt = m.seq + 1 THEN <<"shutdownRecv_", "CLOSE_WAIT">> ELSE <<>>
           new == {AckPacket(e, t.nxt, t.rnxt)}
<1>1. /\ m.to = e /\ m.flags = "FIN" /\ sock[e].state = "ESTABLISHED"
      /\ sock' = [sock EXCEPT ![e] = t] /\ net' = net \cup new /\ Enter(e, w, steps)
      /\ UNCHANGED <<result, sf, reader, sane, reset>>
  BY DEF GetFin, Become
<1>2. sock[e].rnxt >= 1
  BY <1>1, Before DEF Phases
<1>3. /\ Good(e, t) /\ t.state = sock[e].state /\ t.fins = sock[e].fins
      /\ t.stream = sock[e].stream /\ t.rnxt >= 1
  BY <1>1, <1>2, TakeFinGood
<1> HIDE DEF t
<1>4. new \in SUBSET Packet /\ \A r \in new : r.to = Peer(e) /\ Honest(r, t)
  BY <1>3, ReplyHonest
<1>5. Promised(t, sock[Peer(e)])
  BY <1>3, SameState
<1>6. Begins(steps, t, sock[Peer(e)])
  <2>1. Ready("shutdownRecv_", t, sock[Peer(e)]) /\ Ready("CLOSE_WAIT", t, sock[Peer(e)])
    BY <1>1, <1>3 DEF Ready, States
  <2>2. "shutdownRecv_" \in Steps /\ "CLOSE_WAIT" \in Steps
    BY DEF Steps, States
  <2> QED
    BY <2>1, <2>2, FewSteps
<1> HIDE DEF steps
<1>7. TodoFits(e, t)
  BY <1>1, <1>6, EnterFits DEF Threads
<1> HIDE DEF new
<1> QED
  BY <1>1, <1>3, <1>4, <1>5, <1>7, PlainStep

\* vClose() enters steps it is ready for.
LEMMA CloseReady ==
    ASSUME ConnectionInv, ~reset, NEW e \in Ends, NEW th \in Threads, vClose(e, th),
           sock[e].state # "NONE"
    PROVE  TodoFits(e, sock[e]) /\ ReportError(sock[e].state)
<1> DEFINE s == sock[e]
           steps == CloseSteps(s.state)
<1>1. Enter(e, th, steps) /\ ReportError(s.state)
  BY DEF vClose
<1>2. s.state \notin {"SYN_SENT", "CLOSED"} => s.rnxt >= 1
  BY Before DEF Phases
<1> HIDE DEF s
<1>3. Begins(steps, s, sock[Peer(e)])
  <2>1. CASE s.state = "SYN_SENT"
    <3>1. Ready("shutdown_", s, sock[Peer(e)]) /\ Ready("CLOSED", s, sock[Peer(e)])
      BY <2>1 DEF Ready, States
    <3>2. steps = <<"shutdown_", "CLOSED">>
      BY <2>1 DEF CloseSteps
    <3>3. "shutdown_" \in Steps /\ "CLOSED" \in Steps
      BY DEF Steps, States
    <3> QED
      BY <3>1, <3>2, <3>3, FewSteps
  <2>2. ASSUME NEW st \in {"FIN_WAIT_1", "LAST_ACK"}, steps = <<"sendFin_", st>>,
               s.state \in {"SYN_RECEIVED", "ESTABLISHED", "CLOSE_WAIT"}
        PROVE  Begins(steps, s, sock[Peer(e)])
    <3> HIDE DEF steps
    <3>1. Ready("sendFin_", s, sock[Peer(e)]) /\ Ready(st, s, sock[Peer(e)])
      BY <1>2, <2>2 DEF Ready, States
    <3>2. st \in Steps /\ "sendFin_" \in Steps
      BY DEF Steps, States
    <3> QED
      BY <2>2, <3>1, <3>2, FewSteps
  <2>3. CASE s.state \in {"SYN_RECEIVED", "ESTABLISHED"}
    <3>1. steps = <<"sendFin_", "FIN_WAIT_1">>
      BY <2>3 DEF CloseSteps
    <3> HIDE DEF steps
    <3> QED
      BY <2>2, <2>3, <3>1
  <2>4. CASE s.state = "CLOSE_WAIT"
    <3>1. steps = <<"sendFin_", "LAST_ACK">>
      BY <2>4 DEF CloseSteps
    <3> HIDE DEF steps
    <3> QED
      BY <2>2, <2>4, <3>1
  <2>5. CASE s.state \notin {"SYN_SENT", "SYN_RECEIVED", "ESTABLISHED", "CLOSE_WAIT"}
    <3>1. steps = <<>>
      BY <2>5 DEF CloseSteps
    <3> QED
      BY <3>1, FewSteps
  <2> QED
    BY <2>1, <2>3, <2>4, <2>5
<1> HIDE DEF steps
<1>4. TodoFits(e, s)
  BY <1>1, <1>3, EnterFits
<1> QED
  BY <1>1, <1>4 DEF s

LEMMA CloseCommandKeeps ==
    ASSUME ConnectionInv, ~reset, UNCHANGED plan, NEW e \in Ends, CloseCommand(e)
    PROVE  ConnectionInv'
<1>1. /\ sock[e].state # "NONE" /\ vClose(e, User) /\ reader' = Unlisted(e)
      /\ UNCHANGED <<sock, net, sf, sane, reset>> /\ User \in Threads
  BY DEF CloseCommand, Threads
<1> QED
  BY <1>1, CloseReady, CloseCallKeeps

LEMMA SendFileCloseKeeps ==
    ASSUME ConnectionInv, ~reset, UNCHANGED plan, SendFileClose
    PROVE  ConnectionInv'
<1>1. /\ sf = "close" /\ sf' = "sent" /\ vClose(Client, File) /\ File \in Threads
      /\ UNCHANGED <<sock, net, reader, sane, reset>> /\ Client \in Ends
  BY DEF SendFileClose, Threads, Ends
<1>2. sock[Client].state # "NONE"
  BY <1>1, Before DEF Phases
<1> QED
  BY <1>1, <1>2, CloseReady, CloseCallKeeps

LEMMA RecvFileCloseKeeps ==
    ASSUME ConnectionInv, ~reset, UNCHANGED plan, RecvFileClose
    PROVE  ConnectionInv'
<1>1. /\ reader[Server] = "closing" /\ reader' = [reader EXCEPT ![Server] = "received"]
      /\ vClose(Server, File) /\ File \in Threads
      /\ UNCHANGED <<sock, net, sf, sane, reset>> /\ Server \in Ends
  BY DEF RecvFileClose, Threads, Ends
<1>2. sock[Server].state # "NONE"
  BY <1>1, Before, NoSocketFields DEF Phases
<1> QED
  BY <1>1, <1>2, CloseReady, CloseCallKeeps

\* A socket that opens: nothing was sent, read or counted before the SYN.
Opened(st, r) == [NoSocket EXCEPT !.state = st, !.nxt = 1, !.rnxt = r, !.nbr = r]

LEMMA OpenGood ==
    ASSUME ConnectionInv, ~reset, NEW e \in Ends, sock[e] = NoSocket,
           NEW st \in States, NEW r \in {0, 1}
    PROVE  LET t == Opened(st, r)
           IN /\ Good(e, t) /\ t.state = st /\ t.stream = <<>> /\ t.rnxt = r /\ t.nxt = 1
<1> DEFINE n == NoSocket
           t == Opened(st, r)
           p == sock[Peer(e)]
<1>1. /\ n \in Socket /\ n.una = 0 /\ n.nxt = 0 /\ n.stream = <<>> /\ n.fins = {}
      /\ n.rnxt = 0 /\ n.have = {} /\ n.early = {} /\ n.got = <<>>
  BY NoSocketFields
<1>2. t = [n EXCEPT !.state = st, !.nxt = 1, !.rnxt = r, !.nbr = r]
  BY DEF Opened
<1>3. sock[e] = n
  OBVIOUS
<1> HIDE DEF n, t
<1>4. /\ t \in Socket /\ t.state = st /\ t.nxt = 1 /\ t.rnxt = r /\ t.nbr = r
      /\ t.una = n.una /\ t.stream = n.stream /\ t.fins = n.fins /\ t.have = n.have
      /\ t.early = n.early /\ t.got = n.got
  <2>1. r \in Nat /\ 1 \in Nat
    OBVIOUS
  <2> QED
    BY <1>1, <1>2, <2>1 DEF Socket
<1>5. p.rnxt \in Nat /\ p.nxt \in Nat /\ p.fins \subseteq Nat
  <2>1. Peer(e) \in Ends /\ \A x \in Ends : sock[x] \in Socket
    BY Before DEF Whole, Peer, Ends
  <2> HIDE DEF p
  <2>2. p \in Socket
    BY <2>1 DEF p
  <2> QED
    BY <2>2 DEF Socket
<1> HIDE DEF p
<1>6. Whole(t)
  <2>1. IsFiniteSet(t.early)
    BY <1>1, <1>4, FS_EmptySet
  <2>2. Len(t.stream) = 0
    BY <1>1, <1>4
  <2> QED
    BY <1>1, <1>4, <2>1, <2>2 DEF Whole
<1>7. Grows(sock[e], t)
  BY <1>1, <1>3, <1>4 DEF Grows
<1>8. Linked(t, p) /\ ReadUpTo(t) /\ Written(t, Length(e)) /\ GotRight(t, p, Length(Peer(e)))
  <2>1. Len(t.got) = 0 /\ Len(t.stream) = 0
    BY <1>1, <1>4
  <2> QED
    BY <1>1, <1>4, <1>5, <2>1 DEF Linked, ReadUpTo, Written, GotRight
<1>9. Good(e, t)
  BY <1>6, <1>7, <1>8 DEF Good, p
<1> QED
  BY <1>1, <1>4, <1>9 DEF t

LEMMA ConnectKeeps ==
    ASSUME ConnectionInv, ~reset, UNCHANGED plan, Connect
    PROVE  ConnectionInv'
<1> DEFINE n == NoSocket
           t == Opened("SYN_SENT", 0)
           new == {SynPacket(Client, 0)}
<1>0. Client \in Ends /\ Client # Server /\ Peer(Client) \in Ends /\ "SYN_SENT" \in States
  BY DEF Ends, Client, Server, Peer, States
<1>1. /\ sf = "connect" /\ sf' = "wait" /\ net' = net \cup new
      /\ sock' = [sock EXCEPT ![Client] = [n EXCEPT !.state = "SYN_SENT", !.nxt = 1]]
      /\ UNCHANGED <<todo, result, reader, sane, reset>>
  BY DEF Connect, Become
<1>2. ConnectionTypeOK /\ Phases
  BY Before
<1>3. sock[Client] = NoSocket
  BY <1>1, <1>2 DEF Phases
<1>4. sock' = [sock EXCEPT ![Client] = t]
  <2>1. n \in Socket /\ n.rnxt = 0 /\ n.nbr = 0
    BY NoSocketFields
  <2>2. t = [n EXCEPT !.state = "SYN_SENT", !.nxt = 1, !.rnxt = 0, !.nbr = 0]
    BY DEF Opened
  <2> HIDE DEF n, t
  <2>3. t = [n EXCEPT !.state = "SYN_SENT", !.nxt = 1]
    BY <2>1, <2>2 DEF Socket
  <2> QED
    BY <1>1, <2>3
<1>5. /\ Good(Client, t) /\ t.state = "SYN_SENT" /\ t.stream = <<>> /\ t.rnxt = 0
  BY <1>0, <1>3, OpenGood
<1> HIDE DEF t
<1>6. Promised(t, sock[Peer(Client)])
  BY <1>5, PromiseNone
<1>7. new \in SUBSET Packet /\ \A m \in new : m.to = Peer(Client) /\ Honest(m, t)
  BY <1>0, <1>5 DEF SynPacket, Packet, Honest
<1>8. RestTypeOK'
  BY <1>1, <1>2 DEF ConnectionTypeOK, RestTypeOK
<1>9. Fits(Client, t)
  BY <1>0, <1>1, <1>5, TodoSame DEF Fits
<1> HIDE DEF new
<1> QED
  BY <1>0, <1>1, <1>4, <1>5, <1>6, <1>7, <1>8, <1>9, EndStep

LEMMA GetSynKeeps ==
    ASSUME ConnectionInv, ~reset, UNCHANGED plan, NEW m \in net, GetSyn(m)
    PROVE  ConnectionInv'
<1> DEFINE t == Opened("SYN_RECEIVED", 1)
           new == {SynAckPacket(Server, 0, 1)}
<1>0. /\ Server \in Ends /\ Client # Server /\ Peer(Server) \in Ends /\ Peer(Server) = Client
      /\ "SYN_RECEIVED" \in States
  BY DEF Ends, Client, Server, Peer, States
<1>1. m.flags = "SYN" /\ sock[Server].state = "NONE"
      /\ UNCHANGED <<todo, result, sf, reader, sane, reset>>
  BY DEF GetSyn
<1>2. ConnectionTypeOK /\ Phases /\ Told
  BY Before
<1>3. m.seq = 0
  BY <1>1, <1>2 DEF Told, Honest
<1>4. sock' = [sock EXCEPT ![Server] = t] /\ net' = net \cup new
  <2>1. m.seq + 1 = 1
    BY <1>3
  <2> QED
    BY <2>1 DEF GetSyn, Become, Opened
<1>5. sock[Server] = NoSocket
  BY <1>0, <1>1, <1>2 DEF Phases
<1>6. /\ Good(Server, t) /\ t.state = "SYN_RECEIVED" /\ t.stream = <<>> /\ t.rnxt = 1
  BY <1>0, <1>5, OpenGood
<1> HIDE DEF t
<1>7. Promised(t, sock[Peer(Server)])
  BY <1>6, PromiseNone
<1>8. new \in SUBSET Packet /\ \A r \in new : r.to = Peer(Server) /\ Honest(r, t)
  BY <1>0, <1>6 DEF SynAckPacket, Packet, Honest
<1>9. RestTypeOK'
  BY <1>1, <1>2 DEF ConnectionTypeOK, RestTypeOK
<1>10. Fits(Server, t)
  BY <1>0, <1>1, <1>6, TodoSame DEF Fits
<1> HIDE DEF new
<1> QED
  BY <1>0, <1>1, <1>4, <1>6, <1>7, <1>8, <1>9, <1>10, EndStep

LEMMA GetSynAckKeeps ==
    ASSUME ConnectionInv, ~reset, UNCHANGED plan, NEW m \in net, NEW w \in Workers, GetSynAck(w, m)
    PROVE  ConnectionInv'
<1> DEFINE s == sock[Client]
           t == OnAck(s, m.ack)
           steps == IF AllAcked(t) THEN <<"setPointers">> ELSE <<>>
<1>0. Client \in Ends /\ Client # Server
  BY DEF Ends, Client, Server
<1>1. /\ m.flags = "SYN_ACK" /\ s.state = "SYN_SENT"
      /\ sock' = [sock EXCEPT ![Client] = t] /\ Enter(Client, w, steps)
      /\ UNCHANGED <<net, result, sf, reader, sane, reset>>
  BY DEF GetSynAck, Become
<1>2. Counters /\ Good(Client, s) /\ s \in Socket
  BY <1>0, Before DEF Whole
<1>3. m.ack \in Nat /\ m.ack <= sock[Peer(Client)].rnxt
  BY <1>1, SynAckArrived
<1> HIDE DEF s
<1>4. /\ Good(Client, t) /\ t.state = s.state /\ t.fins = s.fins /\ t.stream = s.stream
      /\ t.rnxt = s.rnxt
  BY <1>0, <1>2, <1>3, OnAckGood, OnAckFields
<1> HIDE DEF t
<1>5. Promised(t, sock[Peer(Client)])
  BY <1>1, <1>4, PromiseNone
<1>6. Begins(steps, t, sock[Peer(Client)])
  <2>1. Ready("setPointers", t, sock[Peer(Client)])
    BY <1>1, <1>4 DEF Ready, States
  <2>2. "setPointers" \in Steps
    BY DEF Steps
  <2> QED
    BY <2>1, <2>2, FewSteps
<1> HIDE DEF steps
<1>7. TodoFits(Client, t)
  BY <1>0, <1>1, <1>6, EnterFits DEF Threads
<1> QED
  BY <1>0, <1>1, <1>4, <1>5, <1>7, PlainQuietStep DEF s

\* setPointersNoLock() after the sleep of 50 ms.
LEMMA SynAckEndKeeps ==
    ASSUME ConnectionInv, ~reset, UNCHANGED plan, NEW th \in Threads, SynAckEnd(th)
    PROVE  ConnectionInv'
<1> DEFINE s == sock[Client]
           t == [s EXCEPT !.rnxt = 1, !.nbr = 1]
           new == {AckPacket(Client, 1, 1)}
<1>0. /\ Client \in Ends /\ Server \in Ends /\ Client # Server /\ Peer(Client) \in Ends
      /\ Peer(Client) # Client /\ Ends = {Client, Server}
  BY DEF Ends, Client, Server, Peer
<1>1. /\ TakeStep(Client, th, "setPointers")
      /\ sock' = [sock EXCEPT ![Client] = t] /\ net' = net \cup new
      /\ result' \in {"error", "synAck"} /\ reset' = (s.rnxt > 1)
      /\ UNCHANGED <<sf, reader, sane>>
  BY DEF SynAckEnd, Become
<1>2. /\ ConnectionTypeOK /\ Phases /\ Counters /\ Good(Client, s)
      /\ \A x \in Ends : Whole(sock[x])
  BY <1>0, Before
<1>3. s.state # "NONE" /\ TodoFits(Client, t)
  BY <1>0, <1>1, TakeFits
<1>4. /\ s \in Socket /\ s.rnxt \in Nat /\ s.nbr \in Nat /\ s.got \in Seq(Nat)
  BY <1>0, <1>2 DEF Whole, Socket
<1>5. /\ t \in Socket /\ t.rnxt = 1 /\ t.nbr = 1 /\ t.state = s.state /\ t.una = s.una
      /\ t.nxt = s.nxt /\ t.stream = s.stream /\ t.fins = s.fins /\ t.have = s.have
      /\ t.early = s.early /\ t.got = s.got
  <2>1. 1 \in Nat
    OBVIOUS
  <2> HIDE DEF s
  <2> QED
    BY <1>4, <2>1 DEF Socket
<1> HIDE DEF t
<1>8. RestTypeOK'
  BY <1>1, <1>2, <1>3 DEF ConnectionTypeOK, RestTypeOK, TodoFits
<1>9. Whole(t)
  BY <1>0, <1>2, <1>5 DEF Whole
<1>10. new \in SUBSET Packet /\ \A m \in new : m.to = Peer(Client) /\ Honest(m, t)
  <2>1. t.nxt \in Nat
    BY <1>5 DEF Socket
  <2> QED
    BY <1>0, <1>5, <2>1, AckHonest
<1> HIDE DEF new
<1>11. CASE s.rnxt > 1
  <2>1. sock'[Client] = t /\ sock'[Server] = sock[Server] /\ sock' \in [Ends -> Socket]
    BY <1>0, <1>1, <1>2, <1>5 DEF ConnectionTypeOK
  <2>2. \A x \in Ends : Whole(sock'[x])
    BY <1>0, <1>2, <1>9, <2>1
  <2>3. \A x \in Ends : sock'[x].state # "NONE" =>
            sock'[x].una <= sock'[x].nxt /\ sock'[x].nxt <= Len(sock'[x].stream) + 1
    BY <2>2 DEF Whole
  <2>4. net' \subseteq Packet /\ reset'
    BY <1>1, <1>2, <1>10, <1>11 DEF ConnectionTypeOK
  <2>5. ConnectionTypeOK'
    BY <1>2, <1>8, <2>1, <2>3, <2>4 DEF ConnectionTypeOK, RestTypeOK
  <2> QED
    BY <2>2, <2>4, <2>5 DEF ConnectionInv
<1>12. CASE ~(s.rnxt > 1)
  <2>1. UNCHANGED reset
    <3>1. reset = FALSE
      BY <1>2 DEF ConnectionTypeOK
    <3>2. (s.rnxt > 1) = FALSE
      BY <1>4, <1>12
    <3> QED
      BY <1>1, <3>1, <3>2
  <2>2. s.got = <<>>
    BY <1>2, <1>4, <1>12 DEF Good, ReadUpTo
  <2>3. ReadUpTo(t)
    BY <1>5, <2>2 DEF ReadUpTo
  <2>4. Grows(sock[Client], t)
    BY <1>2, <1>4, <1>5, <1>12 DEF Good, Grows
  <2>5. Good(Client, t)
    BY <1>2, <1>5, <1>9, <2>3, <2>4 DEF Good, Linked, Written, GotRight
  <2>6. Promised(t, sock[Peer(Client)])
    BY <1>0, <1>5, <2>5, SameState
  <2>7. Fits(Client, t)
    <3>1. sf # "connect"
      BY <1>2, <1>3, NoSocketFields DEF Phases
    <3>2. sf \in {"wait", "send"} /\ t.fins = {} => t.stream = <<>>
      BY <1>2, <1>5 DEF Phases
    <3> QED
      BY <1>0, <1>1, <1>3, <1>5, <3>1, <3>2 DEF Fits
  <2> HIDE DEF s
  <2> QED
    BY <1>0, <1>1, <1>8, <1>10, <2>1, <2>5, <2>6, <2>7, EndStep
<1> QED
  BY <1>11, <1>12

LEMMA ConnectReturnsKeeps ==
    ASSUME ConnectionInv, ~reset, UNCHANGED plan, ConnectReturns
    PROVE  ConnectionInv'
<1> DEFINE s == sock[Client]
           steps == <<"assert", "ESTABLISHED">>
<1>0. /\ Client \in Ends /\ Client # Server /\ Peer(Client) \in Ends /\ Peer(Client) # Client
      /\ File \in Threads
  BY DEF Ends, Client, Server, Peer, Threads
<1>1. sf = "wait" /\ UNCHANGED <<sock, net, result, sane, reset>>
  BY DEF ConnectReturns
<1>2. ConnectionTypeOK /\ Phases
  BY <1>0, Before
<1>3. CASE /\ result = "synAck" /\ Enter(Client, File, steps)
           /\ sf' = "send" /\ reader' = [reader EXCEPT ![Client] = "call"]
  <2>1. s.rnxt >= 1 /\ s.state # "NONE"
    BY <1>1, <1>2, <1>3 DEF Phases
  <2>2. Begins(steps, s, sock[Peer(Client)])
    <3>1. Ready("assert", s, sock[Peer(Client)]) /\ Ready("ESTABLISHED", s, sock[Peer(Client)])
      BY <2>1 DEF Ready, States
    <3>2. "assert" \in Steps /\ "ESTABLISHED" \in Steps
      BY DEF Steps, States
    <3> QED
      BY <3>1, <3>2, FewSteps
  <2> HIDE DEF steps
  <2>3. TodoFits(Client, s)
    BY <1>0, <1>3, <2>2, EnterFits
  <2>4. RestTypeOK' /\ reader'[Peer(Client)] = reader[Peer(Client)]
    BY <1>0, <1>1, <1>2, <1>3, <2>3 DEF ConnectionTypeOK, RestTypeOK, TodoFits
  <2>5. s.fins = {} => s.stream = <<>>
    BY <1>1, <1>2 DEF Phases
  <2>6. Fits(Client, s)
    BY <1>0, <1>1, <1>3, <2>1, <2>3, <2>4, <2>5 DEF Fits
  <2> QED
    BY <1>0, <1>1, <2>4, <2>6, CallStep
<1>4. CASE sf' = "failed" /\ UNCHANGED <<todo, reader>>
  <2>1. RestTypeOK'
    BY <1>1, <1>2, <1>4 DEF ConnectionTypeOK, RestTypeOK
  <2> QED
    BY <1>1, <1>4, <2>1, IdleStep
<1> QED
  BY <1>3, <1>4 DEF ConnectReturns

LEMMA GetAckSynReceivedKeeps ==
    ASSUME ConnectionInv, ~reset, UNCHANGED plan, NEW m \in net, NEW w \in Workers,
           GetAckSynReceived(w, m)
    PROVE  ConnectionInv'
<1> DEFINE s == sock[Server]
           t == OnAck(s, m.ack)
           steps == IF AllAcked(t) THEN <<"ESTABLISHED", "accept">> ELSE <<>>
<1>0. Server \in Ends /\ Client # Server /\ Peer(Server) \in Ends /\ Peer(Server) # Server
  BY DEF Ends, Client, Server, Peer
<1>1. /\ m.to = Server /\ s.state = "SYN_RECEIVED" /\ Enter(Server, w, steps)
      /\ sock' = [sock EXCEPT ![Server] = t] /\ sane' \in BOOLEAN
      /\ UNCHANGED <<net, result, sf, reader, reset>>
  BY DEF GetAckSynReceived, Become, Sane
<1>2. ConnectionTypeOK /\ Phases /\ Counters /\ Good(Server, s) /\ s \in Socket
  BY <1>0, Before DEF Whole
<1>3. s.rnxt >= 1
  BY <1>0, <1>1, <1>2 DEF Phases
<1>4. m.ack \in Nat /\ m.ack <= sock[Peer(Server)].rnxt
  BY <1>0, <1>1, Arrived DEF Honest
<1> HIDE DEF s
<1>5. /\ Good(Server, t) /\ t.state = s.state /\ t.fins = s.fins /\ t.stream = s.stream
      /\ t.rnxt = s.rnxt
  BY <1>0, <1>2, <1>4, OnAckGood, OnAckFields
<1> HIDE DEF t
<1>6. Begins(steps, t, sock[Peer(Server)])
  <2>1. Ready("ESTABLISHED", t, sock[Peer(Server)]) /\ Ready("accept", t, sock[Peer(Server)])
    BY <1>1, <1>3, <1>5 DEF Ready, States
  <2>2. "ESTABLISHED" \in Steps /\ "accept" \in Steps
    BY DEF Steps, States
  <2> QED
    BY <2>1, <2>2, FewSteps
<1> HIDE DEF steps
<1>7. TodoFits(Server, t)
  BY <1>0, <1>1, <1>6, EnterFits DEF Threads
<1>8. RestTypeOK'
  BY <1>1, <1>2, <1>7 DEF ConnectionTypeOK, RestTypeOK, TodoFits
<1>9. Promised(t, sock[Peer(Server)])
  BY <1>1, <1>5, PromiseNone
<1>10. Fits(Server, t)
  BY <1>0, <1>1, <1>3, <1>5, <1>7 DEF Fits
<1> QED
  BY <1>0, <1>1, <1>5, <1>8, <1>9, <1>10, QuietStep

\* vSend(): what is written before any FIN is the application's next bytes;
\* what is written after one lies behind it.
Wrote(s, w) == [s EXCEPT !.stream = s.stream \o w]

LEMMA WriteGood ==
    ASSUME Counters, NEW e \in Ends, NEW s, Good(e, s), NEW w \in Seq(Nat),
           s.fins = {} => \A i \in 1 .. Len(w) : /\ w[i] = Len(s.stream) + i
                                                 /\ Len(s.stream) + i <= Length(e)
    PROVE  LET t == Wrote(s, w)
           IN /\ Good(e, t) /\ t.state = s.state /\ t.fins = s.fins /\ t.rnxt = s.rnxt
              /\ t.nxt = s.nxt
<1> DEFINE t == Wrote(s, w)
           len == Len(s.stream)
           g == s.stream \o w
<1>1. /\ Whole(s) /\ Written(s, Length(e)) /\ s \in Socket /\ s.nxt \in Nat
      /\ s.stream \in Seq(Nat) /\ len \in Nat /\ s.nxt <= len + 1
      /\ s.fins \subseteq 1 .. s.nxt - 1
  <2>1. Whole(s) /\ Written(s, Length(e))
    BY DEF Good
  <2>2. s \in Socket /\ s.nxt <= len + 1 /\ s.fins \subseteq 1 .. s.nxt - 1
    BY <2>1 DEF Whole
  <2>3. s.nxt \in Nat /\ s.stream \in Seq(Nat)
    BY <2>2 DEF Socket
  <2> QED
    BY <2>1, <2>2, <2>3
<1>2. /\ g \in Seq(Nat) /\ Len(g) = len + Len(w) /\ Len(w) \in Nat
      /\ \A n \in 1 .. len + Len(w) : g[n] = IF n <= len THEN s.stream[n] ELSE w[n - len]
  <2> DEFINE a == s.stream
  <2>1. a \in Seq(Nat)
    BY <1>1
  <2> HIDE DEF a
  <2>2. /\ a \o w \in Seq(Nat) /\ Len(a \o w) = Len(a) + Len(w)
        /\ \A n \in 1 .. Len(a) + Len(w) : (a \o w)[n] = IF n <= Len(a) THEN a[n] ELSE w[n - Len(a)]
    BY <2>1, ConcatProperties
  <2>3. Len(w) \in Nat
    OBVIOUS
  <2> QED
    BY <2>2, <2>3 DEF a
<1>3. t = [s EXCEPT !.stream = g]
  BY DEF Wrote
<1> HIDE DEF t, g, len
<1>4. /\ t \in Socket /\ t.stream = g /\ t.state = s.state /\ t.una = s.una /\ t.nxt = s.nxt
      /\ t.fins = s.fins /\ t.rnxt = s.rnxt /\ t.nbr = s.nbr /\ t.have = s.have
      /\ t.early = s.early /\ t.got = s.got
  <2> DEFINE S == Seq(Nat)
             R == [state : States,
                   una : Nat, nxt : Nat, stream : S, fins : SUBSET Nat, sstop : BOOLEAN,
                   rnxt : Nat, nbr : Nat, have : SUBSET Nat, early : SUBSET Nat, rstop : BOOLEAN,
                   got : S]
  <2>1. s \in R /\ g \in S
    BY <1>1, <1>2 DEF Socket
  <2> HIDE DEF S
  <2>2. /\ t \in R /\ t.stream = g /\ t.state = s.state /\ t.una = s.una /\ t.nxt = s.nxt
        /\ t.fins = s.fins /\ t.rnxt = s.rnxt /\ t.nbr = s.nbr /\ t.have = s.have
        /\ t.early = s.early /\ t.got = s.got
    BY <1>3, <2>1
  <2> QED
    BY <2>2 DEF Socket, S
<1>5. Whole(t)
  BY <1>1, <1>2, <1>4, SMTT(30) DEF Whole, len
<1>6. ASSUME NEW n \in 1 .. len + Len(w), \A f \in s.fins : f > n
      PROVE  g[n] = n /\ n <= Length(e)
  <2>1. CASE n <= len
    <3>1. n \in 1 .. len
      BY <1>1, <1>2, <2>1
    <3>2. g[n] = s.stream[n]
      BY <1>2, <2>1
    <3> QED
      BY <1>1, <1>6, <3>1, <3>2 DEF Written, len
  <2>2. CASE ~(n <= len)
    <3>1. s.fins = {}
      <4>1. SUFFICES ASSUME NEW f \in s.fins PROVE FALSE
        OBVIOUS
      <4>2. f \in 1 .. s.nxt - 1 /\ f > n /\ n \in Nat
        BY <1>1, <1>6, <4>1
      <4> QED
        BY <1>1, <2>2, <4>2
    <3>2. n - len \in 1 .. Len(w) /\ g[n] = w[n - len] /\ len + (n - len) = n
      BY <1>1, <1>2, <1>6, <2>2
    <3> QED
      BY <3>1, <3>2 DEF len
  <2> QED
    BY <2>1, <2>2
<1>7. Written(t, Length(e))
  BY <1>2, <1>4, <1>6 DEF Written
<1>8. Good(e, t)
  BY <1>4, <1>5, <1>7 DEF Good, Grows, Linked, ReadUpTo, GotRight
<1> QED
  BY <1>4, <1>8 DEF t

LEMMA SendFileKeeps ==
    ASSUME ConnectionInv, ~reset, UNCHANGED plan, SendFile
    PROVE  ConnectionInv'
<1> DEFINE s == sock[Client]
           w == Text(Client)
           t == Wrote(s, w)
<1>0. Client \in Ends /\ Client # Server
  BY DEF Ends, Client, Server
<1>1. sf = "send" /\ UNCHANGED <<net, todo, result, reader, sane, reset>>
  BY DEF SendFile
<1>2. ConnectionTypeOK /\ Phases /\ Counters /\ Good(Client, s)
  BY <1>0, Before
<1>3. CASE Writable(s)
  <2>1. sock' = [sock EXCEPT ![Client] = t] /\ sf' = "close"
    BY <1>3 DEF SendFile, Become, Wrote
  <2>2. s.state # "NONE" /\ (s.state \notin {"SYN_SENT", "CLOSED"} => s.rnxt >= 1)
    BY <1>0, <1>2, <1>3 DEF Writable, Phases
  <2>3. plan.file \in Nat
    BY <1>2, ConnectionAssumption DEF ConnectionTypeOK, Plan
  <2>4. w \in Seq(Nat) /\ Len(w) = plan.file /\ \A i \in 1 .. plan.file : w[i] = i
    BY <2>3 DEF Text
  <2>5. s.fins = {} => s.stream = <<>>
    BY <1>1, <1>2 DEF Phases
  <2> HIDE DEF w, s
  <2>6. s.fins = {} => \A i \in 1 .. Len(w) : /\ w[i] = Len(s.stream) + i
                                             /\ Len(s.stream) + i <= Length(Client)
    BY <2>3, <2>4, <2>5 DEF Length
  <2>7. Good(Client, t) /\ t.state = s.state /\ t.rnxt = s.rnxt /\ t.fins = s.fins
    BY <1>0, <1>2, <2>4, <2>6, WriteGood
  <2> HIDE DEF t
  <2>8. Promised(t, sock[Peer(Client)])
    BY <1>0, <2>7, SameState DEF s
  <2>9. RestTypeOK'
    BY <1>1, <1>2, <2>1 DEF ConnectionTypeOK, RestTypeOK
  <2>10. Fits(Client, t)
    BY <1>0, <1>1, <2>1, <2>2, <2>7, TodoSame DEF Fits, s
  <2> QED
    BY <1>0, <1>1, <2>1, <2>7, <2>8, <2>9, <2>10, QuietStep
<1>4. CASE ~Writable(s)
  <2>1. sf' = "failed" /\ UNCHANGED sock
    BY <1>4 DEF SendFile
  <2>2. RestTypeOK'
    BY <1>1, <1>2, <2>1 DEF ConnectionTypeOK, RestTypeOK
  <2> QED
    BY <1>1, <2>1, <2>2, IdleStep
<1> QED
  BY <1>3, <1>4

LEMMA SayKeeps ==
    ASSUME ConnectionInv, ~reset, UNCHANGED plan, Say
    PROVE  ConnectionInv'
<1> DEFINE s == sock[Server]
           spoken == {i \in 1 .. Len(s.stream) : s.stream[i] # Junk}
           said == Cardinality(spoken)
           w == <<said + 1>>
           t == Wrote(s, w)
<1>0. Server \in Ends /\ Client # Server
  BY DEF Ends, Client, Server
<1>1. /\ Writable(s) /\ said < plan.say
      /\ sock' = [sock EXCEPT ![Server] = [s EXCEPT !.stream = Append(s.stream, said + 1)]]
      /\ UNCHANGED <<net, todo, result, sf, reader, sane, reset>>
  BY DEF Say, Become
<1>2. ConnectionTypeOK /\ Phases /\ Counters /\ Good(Server, s) /\ Whole(s)
  BY <1>0, Before
<1>3. s.stream \in Seq(Nat) /\ Len(s.stream) \in Nat /\ s.fins \subseteq 1 .. s.nxt - 1
      /\ s.state # "NONE" /\ s.state # "CLOSED"
      /\ (s.state \notin {"SYN_SENT", "CLOSED"} => s.rnxt >= 1)
  <2>1. s.stream \in Seq(Nat) /\ s.fins \subseteq 1 .. s.nxt - 1
    BY <1>2 DEF Whole, Socket
  <2> QED
    BY <1>0, <1>1, <1>2, <2>1 DEF Writable, Phases
<1>4. plan.say \in Nat
  BY <1>2, ConnectionAssumption DEF ConnectionTypeOK, Plan
<1> HIDE DEF s
<1>5. said \in Nat
  <2>1. IsFiniteSet(1 .. Len(s.stream)) /\ spoken \subseteq 1 .. Len(s.stream)
    BY <1>3, FS_Interval
  <2> HIDE DEF spoken
  <2> QED
    BY <2>1, FS_Subset, FS_CardinalityType
<1>6. s.fins = {} => said = Len(s.stream)
  <2>1. SUFFICES ASSUME s.fins = {} PROVE said = Len(s.stream)
    OBVIOUS
  <2>2. \A n \in 1 .. Len(s.stream) : s.stream[n] = n
    BY <1>2, <2>1 DEF Good, Written
  <2>3. spoken = 1 .. Len(s.stream)
    BY <1>3, <2>2 DEF Junk
  <2> HIDE DEF spoken
  <2>4. Cardinality(1 .. Len(s.stream)) = Len(s.stream)
    BY <1>3, FS_Interval
  <2> QED
    BY <2>3, <2>4
<1> HIDE DEF said
<1>7. t = [s EXCEPT !.stream = Append(s.stream, said + 1)]
  <2>1. Append(s.stream, said + 1) = s.stream \o w
    <3> DEFINE y == said + 1
               z == s.stream
    <3>1. y \in Nat /\ z \in Seq(Nat)
      BY <1>3, <1>5
    <3> HIDE DEF y, z
    <3>2. Append(z, y) = z \o <<y>>
      BY <3>1, AppendIsConcat
    <3> QED
      BY <3>2, Zenon DEF y, z
  <2> QED
    BY <2>1, Zenon DEF Wrote
<1>8. w \in Seq(Nat) /\ Len(w) = 1 /\ w[1] = said + 1
  BY <1>5
<1> HIDE DEF w
<1>9. s.fins = {} => \A i \in 1 .. Len(w) : /\ w[i] = Len(s.stream) + i
                                           /\ Len(s.stream) + i <= Length(Server)
  BY <1>0, <1>1, <1>3, <1>4, <1>5, <1>6, <1>8 DEF Length
<1>10. Good(Server, t) /\ t.state = s.state /\ t.rnxt = s.rnxt /\ t.fins = s.fins
  BY <1>0, <1>2, <1>8, <1>9, WriteGood
<1>11. sock' = [sock EXCEPT ![Server] = t]
  BY <1>1, <1>7
<1> HIDE DEF t
<1>12. Promised(t, sock[Peer(Server)])
  BY <1>0, <1>10, SameState DEF s
<1>13. RestTypeOK'
  BY <1>1, <1>2 DEF ConnectionTypeOK, RestTypeOK
<1>14. Fits(Server, t)
  <2>1. s.state # "SYN_SENT"
    BY <1>2 DEF Phases, s
  <2> QED
    BY <1>0, <1>1, <1>3, <1>10, <2>1, TodoSame DEF Fits, s
<1> QED
  BY <1>0, <1>1, <1>10, <1>11, <1>12, <1>13, <1>14, QuietStep

---------------------------------------------------------------------------
(* The theorems.                                                           *)

LEMMA InitInv == Init => ConnectionInv
<1> SUFFICES ASSUME Init PROVE ConnectionInv
  OBVIOUS
<1>1. \A e \in Ends : /\ sock[e] = NoSocket /\ reader[e] = "off"
                     /\ \A t \in Threads : todo[e][t] = <<>>
  BY DEF Init
<1>2. /\ Peer(Client) \in Ends /\ Client \in Ends /\ Server \in Ends
      /\ \A e \in Ends : Peer(e) \in Ends
  BY DEF Peer, Ends
<1>3. ConnectionTypeOK
  <2>1. todo \in [Ends -> [Threads -> Seq(Steps)]]
    <3>1. <<>> \in Seq(Steps)
      OBVIOUS
    <3> QED
      BY <3>1 DEF Init
  <2>2. sock \in [Ends -> Socket] /\ \A e \in Ends : sock[e].state = "NONE"
    BY <1>1, NoSocketFields DEF Init
  <2> QED
    BY <2>1, <2>2 DEF Init, ConnectionTypeOK
<1>4. Whole(NoSocket)
  <2>1. IsFiniteSet({})
    BY FS_EmptySet
  <2> QED
    BY <2>1, NoSocketFields DEF Whole
<1>5. Phases
  BY <1>1, <1>2, NoSocketFields DEF Init, Phases
<1>6. Paused
  BY <1>1 DEF Paused, FinFirst
<1>7. Pairs
  <2>1. /\ Linked(NoSocket, NoSocket) /\ Promised(NoSocket, NoSocket) /\ ReadUpTo(NoSocket)
        /\ \A len : Written(NoSocket, len) /\ GotRight(NoSocket, NoSocket, len)
    BY NoSocketFields DEF Linked, Promised, ReadUpTo, Written, GotRight
  <2> QED
    BY <1>1, <1>2, <2>1 DEF Pairs
<1>8. Told
  BY DEF Told, Init
<1> QED
  BY <1>1, <1>3, <1>4, <1>5, <1>6, <1>7, <1>8 DEF ConnectionInv, Agreed

LEMMA ReceiveKeeps ==
    ASSUME ConnectionInv, ~reset, UNCHANGED plan, NEW m \in net, NEW w \in Workers, Receive(w, m)
    PROVE  ConnectionInv'
BY GetSynKeeps, GetSynAckKeeps, GetSynAckAgainKeeps, GetAckSynReceivedKeeps, GetAckKeeps,
   GetAckFinWait1Keeps, GetAckLastAckKeeps, GetFinKeeps, GetFinLateKeeps DEF Receive

LEMMA ContinueKeeps ==
    ASSUME ConnectionInv, ~reset, UNCHANGED plan, NEW e \in Ends, NEW t \in Threads, Continue(e, t)
    PROVE  ConnectionInv'
BY WriteStateKeeps, CloseFinKeeps, StopKeeps, SynAckEndKeeps, AssertConnectedKeeps, AcceptKeeps
   DEF Continue

LEMMA NextInv == ConnectionInv /\ [Next]_vars => ConnectionInv'
<1> SUFFICES ASSUME ConnectionInv, [Next]_vars PROVE ConnectionInv'
  OBVIOUS
<1>1. CASE UNCHANGED vars
  <2>1. ConnectionTypeOK' /\ \A e \in Ends : Whole(sock'[e])
    BY <1>1 DEF vars, ConnectionInv, ConnectionTypeOK
  <2>2. Agreed => Agreed'
    BY <1>1 DEF vars, Agreed, Phases, Paused, Pairs, Told, Length
  <2>3. reset' = reset
    BY <1>1 DEF vars
  <2> QED
    BY <2>1, <2>2, <2>3 DEF ConnectionInv
<1>2. CASE Next
  <2>1. ~reset /\ UNCHANGED plan
    BY <1>2 DEF Next
  <2>2. CASE Connect
    BY <2>1, <2>2, ConnectKeeps
  <2>3. CASE ConnectReturns
    BY <2>1, <2>3, ConnectReturnsKeeps
  <2>4. CASE \E w \in Workers, m \in net : Receive(w, m)
    BY <2>1, <2>4, ReceiveKeeps
  <2>5. CASE \E e \in Ends, t \in Threads : Continue(e, t)
    BY <2>1, <2>5, ContinueKeeps
  <2>7. CASE SendFile
    BY <2>1, <2>7, SendFileKeeps
  <2>8. CASE Say
    BY <2>1, <2>8, SayKeeps
  <2>9. CASE SendFileClose
    BY <2>1, <2>9, SendFileCloseKeeps
  <2>10. CASE RecvFileClose
    BY <2>1, <2>10, RecvFileCloseKeeps
  <2>11. CASE \E e \in Ends : SendByte(e)
    BY <2>1, <2>11, SendByteKeeps
  <2>12. CASE \E e \in Ends : RecvCall(e)
    BY <2>1, <2>12, RecvCallKeeps
  <2>13. CASE \E e \in Ends : RecvReturn(e)
    BY <2>1, <2>13, RecvReturnKeeps
  <2>14. CASE \E e \in Ends : CloseCommand(e)
    BY <2>1, <2>14, CloseCommandKeeps
  <2>15. CASE \E e \in Ends : \E t \in {User, Timer} : Abort(e, t)
    BY <2>1, <2>15, AbortKeeps DEF Threads
  <2> QED
    BY <1>2, <2>2, <2>3, <2>4, <2>5, <2>7, <2>8, <2>9, <2>10, <2>11, <2>12, <2>13,
       <2>14, <2>15 DEF Next
<1> QED
  BY <1>1, <1>2

\* The invariant holds for any plans, any workers and any threads overtaken.
THEOREM ConnectionInvariant == Spec => []ConnectionInv
BY InitInv, NextInv, PTL DEF Spec

\* Every variable of a connection keeps its type, and each send buffer the
\* order of its pointers.
THEOREM TypeCorrect == Spec => []ConnectionTypeOK
<1>1. ConnectionInv => ConnectionTypeOK
  BY DEF ConnectionInv
<1> QED
  BY <1>1, ConnectionInvariant, PTL

\* No end takes for acknowledged what the other has not counted.
THEOREM AcksCounted == Spec => []AcknowledgedCounted
<1>1. ConnectionInv => AcknowledgedCounted
  BY DEF ConnectionInv, Agreed, Pairs, Linked, AcknowledgedCounted
<1> QED
  BY <1>1, ConnectionInvariant, PTL

\* In FIN_WAIT_2 and TIME_WAIT a FIN of ours was counted at the other end, and in
\* TIME_WAIT one of its here, however the assignments of the state and the
\* checks they rest on (tcp_stack.cpp:244, 258) are overtaken by other threads.
THEOREM ClosesPromised == Spec => []HalfClosed
<1>1. ConnectionInv => HalfClosed
  BY DEF ConnectionInv, Agreed, Pairs, Promised, Counted, HalfClosed
<1> QED
  BY <1>1, ConnectionInvariant, PTL

\* The first of a set of numbers below a bound, if there is one.
LEMMA LastBefore ==
    ASSUME NEW fins, NEW len \in Nat, fins \subseteq Nat \ {0}
    PROVE  \E n \in 0 .. len : fins \cap 1 .. n = {} /\ (n = len \/ n + 1 \in fins)
<1> DEFINE T == {k \in 1 .. len : k \in fins}
<1>1. CASE T = {}
  BY <1>1
<1>2. CASE T # {}
  <2>1. T \subseteq Nat
    OBVIOUS
  <2>2. PICK n \in T : \A y \in T : ~(<<y, n>> \in OpToRel(<, Nat))
    BY <1>2, <2>1, NatLessThanWellFounded, WFMin, Zenon
  <2>3. \A y \in T : ~(y < n)
    <3>1. TAKE y \in T
    <3>2. y \in Nat /\ n \in Nat /\ ~(<<y, n>> \in OpToRel(<, Nat))
      BY <2>1, <2>2
    <3> HIDE DEF T
    <3> QED
      BY <3>2, SMT DEF OpToRel
  <2>4. n - 1 \in 0 .. len /\ (n - 1) + 1 \in fins
    OBVIOUS
  <2>5. fins \cap 1 .. n - 1 = {}
    BY <2>3
  <2> QED
    BY <2>4, <2>5
<1> QED
  BY <1>1, <1>2

\* What a reader has got before the first FIN is a beginning of what the other
\* application sends.
LEMMA WordsAreText ==
    ASSUME ConnectionInv, ~reset, NEW e \in Ends
    PROVE  IsPrefix(Words(sock[e].got, sock[Peer(e)].fins), Text(Peer(e)))
<1> DEFINE q    == Peer(e)
           got  == sock[e].got
           fins == sock[q].fins
           last == CHOOSE n \in 0 .. Len(got) :
                       fins \cap 1 .. n = {} /\ (n = Len(got) \/ n + 1 \in fins)
           len  == Length(q)
           w    == SubSeq(got, 1, last)
           x    == Text(q)
<1>1. q \in Ends /\ sock[e] \in Socket /\ Whole(sock[q]) /\ Pairs /\ plan \in Plans
  BY Before DEF Whole, Peer, Ends, ConnectionTypeOK
<1>2. got \in Seq(Nat) /\ Len(got) \in Nat /\ fins \subseteq Nat \ {0}
  <2>1. got \in Seq(Nat)
    BY <1>1 DEF Socket
  <2>2. fins \subseteq Nat \ {0}
    BY <1>1 DEF Whole, Socket
  <2> QED
    BY <2>1, <2>2
<1>3. \A n \in 1 .. Len(got) : (\A f \in fins : f > n) => got[n] = n /\ n <= len
  BY <1>1 DEF Pairs, GotRight
<1>4. len \in Nat
  BY <1>1, ConnectionAssumption DEF Length, Plan
<1>5. x = [i \in 1 .. len |-> i]
  BY DEF Text, Length
<1>6. Words(got, fins) = w
  BY DEF Words
<1> HIDE DEF q, got, fins, len, x
<1>7. last \in 0 .. Len(got) /\ fins \cap 1 .. last = {}
  <2>1. \E n \in 0 .. Len(got) : fins \cap 1 .. n = {} /\ (n = Len(got) \/ n + 1 \in fins)
    BY <1>2, LastBefore
  <2> QED
    BY <2>1
<1> HIDE DEF last
<1>8. \A i \in 1 .. last : got[i] = i /\ i <= len
  <2>1. TAKE i \in 1 .. last
  <2>2. i \in 1 .. Len(got) /\ \A f \in fins : f > i
    BY <1>2, <1>7
  <2> QED
    BY <1>3, <2>2
<1>9. last \in Nat /\ last <= len
  BY <1>4, <1>7, <1>8
<1>10. w \in Seq(Nat) /\ Len(w) = last /\ \A i \in 1 .. last : w[i] = i
  BY <1>2, <1>7, <1>8, <1>9, SubSeqProperties
<1>11. /\ x \in Seq(Nat) /\ Len(x) = len
       /\ SubSeq(x, 1, last) \in Seq(Nat) /\ Len(SubSeq(x, 1, last)) = last
       /\ \A i \in 1 .. last : SubSeq(x, 1, last)[i] = i
  <2>1. x \in Seq(Nat) /\ Len(x) = len /\ \A i \in 1 .. len : x[i] = i
    BY <1>4, <1>5
  <2> QED
    BY <1>4, <1>9, <2>1, SubSeqProperties
<1>12. SubSeq(w, 1, last) = w
  BY <1>10, SubSeqFull
<1> HIDE DEF w
<1>13. w = SubSeq(x, 1, last)
  BY <1>9, <1>10, <1>11, SeqEqual
<1>14. IsPrefix(w, x)
  BY <1>9, <1>10, <1>11, <1>12, <1>13 DEF IsPrefix
<1> QED
  BY <1>6, <1>14 DEF got, fins, x, q

\* What an application reads up to the first FIN is what the other one wrote,
\* in order and without a gap.
THEOREM BytesInOrder == Spec => []ReadInOrder
<1>1. ConnectionInv => ReadInOrder
  BY WordsAreText DEF ReadInOrder
<1> QED
  BY <1>1, ConnectionInvariant, PTL
=============================================================================
