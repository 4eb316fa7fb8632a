--------------------------- MODULE TcpStack_proofs ---------------------------
(***************************************************************************)
(* Proofs about TcpStack, for any number of sessions, workers, objects and *)
(* ids, and every interleaving of their steps: types, the agreement of the *)
(* socket table, the sessions and the ids, no lost wake-up of vAccept, and *)
(* no established connection that nobody knows of.                         *)
(*                                                                         *)
(* The inductive invariant StackInv says beyond them what a thread in the  *)
(* middle of an operation holds (OpsSound, DialsOwn), which sockets have   *)
(* ids (SocksSound, ListenerSound), and that an object which the reaper is *)
(* about to destroy is out of the session map already (ReaperSound).       *)
(***************************************************************************)
EXTENDS TcpStack, TLAPS, FiniteSetTheorems, SequenceTheorems, WellFoundedInduction

Pcs == {"idle", "takeId", "emplace", "reply", "setState", "establish", "unpend",
        "push", "notify", "onSynAck", "wait", "check"}
Ops == [pc : Pcs, sess : Sessions \cup {"none"}, sock : Objects \cup {NoSock},
        id : Ids \cup {NoId}, to : States]
Socks == [sess : Sessions \cup {"none"}, state : States, id : Ids \cup {NoId}]
Dead  == {"UNBORN", "GONE"}
Results   == [alive : BOOLEAN, notified : BOOLEAN, error : BOOLEAN]
Listeners == [state : {"NONE", "LISTEN", "CLOSED", "GONE"}, id : Ids \cup {NoId},
              pending : Seq(Objects), queue : Seq(Objects), closed : BOOLEAN]

\* What thread t holds when it is in the middle of operation r.
OpSound(t, r) ==
    /\ r \in Ops
    /\ r.pc \in {"takeId", "emplace"} => r.sess \in Sessions
    /\ r.pc = "emplace" => r.id \in Ids
    /\ r.pc \notin {"idle", "takeId", "emplace"} => r.sock \in Objects
    /\ r.pc \in {"setState", "establish"} => r.to \notin Dead
    /\ r.pc = "setState" /\ r.to = "ESTABLISHED" => t = Connector
    /\ r.pc \in {"establish", "unpend", "push", "notify"} => t \in Workers

OpsSound == \A t \in Threads : OpSound(t, op[t])

\* vConnect is busy with a session of its own, and with a socket of one.
DialSound(r) ==
    /\ r.pc \in {"takeId", "emplace"} => r.sess \in Dials
    /\ r.pc \notin {"idle", "takeId", "emplace"} =>
          sock[r.sock].sess \in Dials /\ sock[r.sock].state # "UNBORN"

DialsOwn == DialSound(op[Connector])

\* A socket has a session and an id from its constructor to its destructor.
SockSound(r) ==
    /\ r \in Socks
    /\ r.state \notin Dead => r.sess \in Sessions /\ r.id \in Ids
    /\ r.state \in Dead => r.id = NoId

SocksSound == \A o \in Objects : SockSound(sock[o])

ListenerSound ==
    IF listener.state \in {"LISTEN", "CLOSED"} THEN listener.id \in Ids
                                               ELSE listener.id = NoId

ReaperSound ==
    /\ reaper.todo # {} => reaper.locked
    /\ reaper.erase # NoSock =>
          /\ reaper.locked /\ reaper.erase \in reaper.todo
          /\ \A s \in Sessions : table[s] # reaper.erase

ClosingSound ==
    /\ closing.phase = "none" => closing.todo = <<>>
    /\ closing.phase # "none" => listener.state = "LISTEN"

\* Who has id i: socket o, thread t, the listener, or nobody.
SockHas(i, o)   == sock[o].id = i /\ reaper.erase # o
ThreadHas(i, t) == op[t].pc = "emplace" /\ op[t].id = i

\* Exactly one has it: IdHolders(i) as a first-order formula.
Unique(i) ==
    /\ \/ \E o \in Objects : SockHas(i, o)
       \/ \E t \in Threads : ThreadHas(i, t)
       \/ listener.id = i
       \/ i \in freeIds
    /\ \A o, p \in Objects : SockHas(i, o) /\ SockHas(i, p) => o = p
    /\ \A t, u \in Threads : ThreadHas(i, t) /\ ThreadHas(i, u) => t = u
    /\ \A o \in Objects : SockHas(i, o) =>
          /\ \A t \in Threads : ~ThreadHas(i, t)
          /\ listener.id # i /\ i \notin freeIds
    /\ \A t \in Threads : ThreadHas(i, t) => listener.id # i /\ i \notin freeIds
    /\ listener.id = i => i \notin freeIds

IdsUnique == \A i \in Ids : Unique(i)

\* The session map and the sockets agree.
SessionsAgree ==
    /\ \A s \in Sessions : table[s] # NoSock =>
          Live(table[s]) /\ sock[table[s]].sess = s
    /\ \A o \in Objects : Live(o) /\ reaper.erase # o =>
          table[sock[o].sess] = o

Holding == OpsSound /\ DialsOwn /\ SocksSound /\ ListenerSound /\ ReaperSound /\ ClosingSound

StackInv ==
    TypeOK /\ Holding /\ IdsUnique /\ SessionsAgree /\ NoOrphan /\ NoLostAccept

---------------------------------------------------------------------------
(* Numbers, sets and sequences.                                            *)

\* Min finds an element of every set of numbers that has one.
LEMMA MinIn ==
    ASSUME NEW S \in SUBSET Nat, S # {}
    PROVE  Min(S) \in S /\ \A y \in S : Min(S) <= y
<1>1. PICK m \in S : \A y \in S : ~(<<y, m>> \in OpToRel(<, Nat))
  BY NatLessThanWellFounded, WFMin, Zenon
<1>2. ASSUME NEW y \in S PROVE m <= y
  <2>1. y \in Nat /\ m \in Nat /\ ~(<<y, m>> \in OpToRel(<, Nat))
    BY <1>1
  <2> QED
    BY <2>1, SMT DEF OpToRel
<1> QED
  BY <1>1, <1>2 DEF Min

\* The elements of a sequence.
LEMMA ToSetOf ==
    ASSUME NEW T, NEW q \in Seq(T)
    PROVE  ToSet(q) \subseteq T /\ ToSet(q) = {q[k] : k \in 1 .. Len(q)}
BY DEF ToSet

LEMMA ToSetEmpty == ToSet(<<>>) = {}
BY DEF ToSet

LEMMA ToSetAppend ==
    ASSUME NEW T, NEW q \in Seq(T), NEW x \in T
    PROVE  ToSet(Append(q, x)) = ToSet(q) \cup {x}
<1> DEFINE a == Append(q, x)
<1>1. a \in Seq(T) /\ Len(a) = Len(q) + 1 /\ Len(q) \in Nat
      /\ a[Len(q) + 1] = x /\ \A k \in 1 .. Len(q) : a[k] = q[k]
  BY AppendProperties
<1>2. ToSet(q) = {q[k] : k \in 1 .. Len(q)} /\ ToSet(a) = {a[k] : k \in 1 .. Len(a)}
  BY <1>1, ToSetOf
<1>3. 1 .. Len(a) = (1 .. Len(q)) \cup {Len(q) + 1}
  BY <1>1
<1> HIDE DEF a
<1>4. {a[k] : k \in 1 .. Len(a)} = {a[k] : k \in 1 .. Len(q)} \cup {a[Len(q) + 1]}
  BY <1>3
<1>5. {a[k] : k \in 1 .. Len(q)} = {q[k] : k \in 1 .. Len(q)}
  BY <1>1
<1> QED
  BY <1>1, <1>2, <1>4, <1>5 DEF a

LEMMA ToSetTail ==
    ASSUME NEW T, NEW q \in Seq(T), q # <<>>
    PROVE  /\ Head(q) \in T /\ Tail(q) \in Seq(T)
           /\ ToSet(q) = ToSet(Tail(q)) \cup {Head(q)}
<1> DEFINE t == Tail(q)
<1>1. t \in Seq(T) /\ Len(t) = Len(q) - 1 /\ Len(q) \in Nat /\ Len(q) > 0
      /\ Head(q) = q[1] /\ Head(q) \in T
  BY HeadTailProperties, EmptySeq
<1>2. \A k \in 1 .. Len(t) : t[k] = q[k + 1]
  BY HeadTailProperties, <1>1
<1>3. ToSet(q) = {q[k] : k \in 1 .. Len(q)} /\ ToSet(t) = {t[k] : k \in 1 .. Len(t)}
  BY <1>1, ToSetOf
<1> HIDE DEF t
<1>4. ASSUME NEW x \in ToSet(q) PROVE x \in ToSet(t) \cup {Head(q)}
  <2>1. PICK k \in 1 .. Len(q) : x = q[k]
    BY <1>3
  <2>2. CASE k = 1
    BY <1>1, <2>1, <2>2
  <2>3. CASE k # 1
    <3>1. k - 1 \in 1 .. Len(t) /\ x = t[k - 1]
      BY <1>1, <1>2, <2>1, <2>3
    <3> QED
      BY <1>3, <3>1
  <2> QED
    BY <2>2, <2>3
<1>5. ASSUME NEW x \in ToSet(t) \cup {Head(q)} PROVE x \in ToSet(q)
  <2>1. CASE x = Head(q)
    BY <1>1, <1>3, <2>1
  <2>2. CASE x \in ToSet(t)
    <3>1. PICK k \in 1 .. Len(t) : x = t[k]
      BY <1>3, <2>2
    <3>2. k + 1 \in 1 .. Len(q) /\ x = q[k + 1]
      BY <1>1, <1>2, <3>1
    <3> QED
      BY <1>3, <3>2
  <2> QED
    BY <1>5, <2>1, <2>2
<1> QED
  BY <1>1, <1>4, <1>5 DEF t

\* remove() of the pending list gives a list that is no longer.
LEMMA UnlistedType ==
    ASSUME TypeOK, NEW o
    PROVE  Unlisted(o) \in Seq(Objects) /\ Len(Unlisted(o)) <= MaxPending
<1> DEFINE q == listener.pending
           I == {k \in 1 .. Len(q) : sock[q[k]].sess = sock[o].sess}
<1>1. q \in Seq(Objects) /\ Len(q) \in Nat /\ Len(q) <= MaxPending /\ MaxPending \in Nat
  BY StackAssumption DEF TypeOK
<1>2. Position(o) = IF I # {} THEN Min(I) ELSE 0
  BY DEF Position, SelectInSeq
<1>3. Position(o) = 0 \/ Position(o) \in 1 .. Len(q)
  <2>1. I \in SUBSET Nat
    BY <1>1
  <2> QED
    BY <1>2, <2>1, MinIn
<1> DEFINE p == Position(o)
<1> HIDE DEF p, q, I
<1>4. CASE p = 0
  BY <1>1, <1>4 DEF Unlisted, p, q
<1>5. CASE p \in 1 .. Len(q)
  <2> DEFINE a == SubSeq(q, 1, p - 1)
             b == SubSeq(q, p + 1, Len(q))
  <2>1. a \in Seq(Objects) /\ Len(a) = p - 1
    BY <1>1, <1>5, SubSeqProperties
  <2>2. b \in Seq(Objects) /\ Len(b) = Len(q) - p
    BY <1>1, <1>5, SubSeqProperties
  <2>3. Unlisted(o) = a \o b
    <3>1. p # 0
      BY <1>1, <1>5
    <3>2. Unlisted(o) = RemoveAt(q, p)
      BY <3>1 DEF Unlisted, p, q
    <3> QED
      BY <3>2 DEF RemoveAt
  <2> HIDE DEF a, b
  <2> QED
    BY <1>1, <1>5, <2>1, <2>2, <2>3, ConcatProperties
<1> QED
  BY <1>3, <1>4, <1>5 DEF p

\* Where vClose and the handlers lead.
LEMMA CloseToStates ==
    /\ DOMAIN CloseTo = {"SYN_SENT", "SYN_RECEIVED", "ESTABLISHED", "CLOSE_WAIT"}
    /\ \A st \in DOMAIN CloseTo : CloseTo[st] \in {"CLOSED", "FIN_WAIT_1", "LAST_ACK"}
BY DEF CloseTo

LEMMA HandlerStates ==
    ASSUME NEW st, NEW ev, Handler(st, ev)[1] # "idle"
    PROVE  LET h == Handler(st, ev)
           IN \/ h[1] = "establish" /\ h[2] = "ESTABLISHED"
              \/ h[1] = "onSynAck" /\ h[2] = "CLOSED"
              \/ /\ h[1] = "setState"
                 /\ h[2] \in {"CLOSE_WAIT", "FIN_WAIT_2", "TIME_WAIT", "CLOSED"}
<1>1. /\ DOMAIN Teardown = {"ESTABLISHED", "FIN_WAIT_1", "FIN_WAIT_2", "LAST_ACK"}
      /\ \A x \in DOMAIN Teardown :
            Teardown[x].to \in {"CLOSE_WAIT", "FIN_WAIT_2", "TIME_WAIT", "CLOSED"}
  BY DEF Teardown
<1>2. CASE st = "SYN_RECEIVED" /\ ev = "ACK"
  BY <1>2 DEF Handler
<1>3. CASE st = "SYN_SENT" /\ ev = "SYNACK"
  BY <1>3 DEF Handler
<1>4. CASE /\ ~(st = "SYN_RECEIVED" /\ ev = "ACK") /\ ~(st = "SYN_SENT" /\ ev = "SYNACK")
           /\ st \in DOMAIN Teardown /\ Teardown[st].ev = ev
  <2>1. Handler(st, ev) = <<"setState", Teardown[st].to>>
    BY <1>4 DEF Handler
  <2> QED
    BY <1>1, <1>4, <2>1
<1>5. CASE /\ ~(st = "SYN_RECEIVED" /\ ev = "ACK") /\ ~(st = "SYN_SENT" /\ ev = "SYNACK")
           /\ ~(st \in DOMAIN Teardown /\ Teardown[st].ev = ev)
  <2>1. Handler(st, ev) = <<"idle", "CLOSED">>
    BY <1>5 DEF Handler
  <2> QED
    BY <2>1
<1> QED
  BY <1>2, <1>3, <1>4, <1>5

\* An id that exactly one has: IdHolders is a singleton.
LEMMA OneHolder ==
    ASSUME NEW i \in Ids, Unique(i)
    PROVE  Cardinality(IdHolders(i)) = 1
<1>1. \A x : x \in IdHolders(i) <=>
          \/ \E o \in Objects : SockHas(i, o) /\ x = <<"sock", o>>
          \/ \E t \in Threads : ThreadHas(i, t) /\ x = <<"thread", t>>
          \/ listener.id = i /\ x = <<"listener", Lsn>>
          \/ i \in freeIds /\ x = <<"free", i>>
  BY Zenon DEF IdHolders, SockHas, ThreadHas
<1>2. ASSUME NEW h, h \in IdHolders(i), \A x \in IdHolders(i) : x = h
      PROVE  Cardinality(IdHolders(i)) = 1
  <2>1. IdHolders(i) = {h}
    BY <1>2
  <2> QED
    BY <2>1, FS_Singleton
<1>3. CASE \E o \in Objects : SockHas(i, o)
  <2>1. PICK o \in Objects : SockHas(i, o)
    BY <1>3
  <2>2. <<"sock", o>> \in IdHolders(i) /\ \A x \in IdHolders(i) : x = <<"sock", o>>
    BY <1>1, <2>1 DEF Unique
  <2> QED
    BY <1>2, <2>2
<1>4. CASE \E t \in Threads : ThreadHas(i, t)
  <2>1. PICK t \in Threads : ThreadHas(i, t)
    BY <1>4
  <2>2. <<"thread", t>> \in IdHolders(i) /\ \A x \in IdHolders(i) : x = <<"thread", t>>
    BY <1>1, <2>1 DEF Unique
  <2> QED
    BY <1>2, <2>2
<1>5. CASE listener.id = i
  <2>1. <<"listener", Lsn>> \in IdHolders(i) /\ \A x \in IdHolders(i) : x = <<"listener", Lsn>>
    BY <1>1, <1>5 DEF Unique
  <2> QED
    BY <1>2, <2>1
<1>6. CASE i \in freeIds
  <2>1. <<"free", i>> \in IdHolders(i) /\ \A x \in IdHolders(i) : x = <<"free", i>>
    BY <1>1, <1>6 DEF Unique
  <2> QED
    BY <1>2, <2>1
<1> QED
  BY <1>3, <1>4, <1>5, <1>6 DEF Unique

---------------------------------------------------------------------------
(* Steps of a kind.                                                        *)

\* The types that TypeOK gives, by name.
LEMMA Types ==
    ASSUME TypeOK
    PROVE  /\ sock \in [Objects -> Socks] /\ table \in [Sessions -> Objects \cup {NoSock}]
           /\ listener \in Listeners /\ result \in Results
           /\ freeIds \subseteq Ids /\ op \in [Threads -> Ops]
           /\ listener.pending \in Seq(Objects) /\ listener.queue \in Seq(Objects)
           /\ closing.todo \in Seq(Objects)
           /\ Len(listener.pending) <= MaxPending
           /\ reaper.todo \subseteq Objects \cup {Lsn} /\ reaper.erase \in Objects \cup {NoSock}
BY DEF TypeOK, Socks, Ops, Pcs, Listeners, Results

\* Sets of names do not meet.
LEMMA Names ==
    /\ NoSock \notin Objects /\ NoId \notin Ids /\ Lsn \notin Objects /\ Lsn # NoSock
    /\ Connector \in Threads /\ User \in Threads /\ Connector # User
    /\ Connector \notin Workers /\ User \notin Workers /\ Workers \subseteq Threads
    /\ Objects \subseteq Nat /\ Ids \subseteq Nat /\ Peers \cap Dials = {}
    /\ Peers \subseteq Sessions /\ Dials \subseteq Sessions
BY StackAssumption DEF NoSock, NoId, Objects, Ids, Lsn, Threads, Sessions

\* A step that stops the process and does nothing else.
LEMMA FailStep ==
    ASSUME StackInv, failed' \in Asserts \ {"no"},
           UNCHANGED <<sock, table, freeIds, listener, op, result, closing, accepter, reaper>>
    PROVE  StackInv'
<1>1. TypeOK'
  BY DEF StackInv, TypeOK
<1>2. Holding'
  BY DEF StackInv, Holding, OpsSound, DialsOwn, DialSound, SocksSound, ListenerSound,
         ReaperSound, ClosingSound
<1>3. IdsUnique'
  BY DEF StackInv, IdsUnique, Unique, SockHas, ThreadHas
<1>4. SessionsAgree'
  BY DEF StackInv, SessionsAgree, Live
<1>5. NoOrphan' /\ NoLostAccept'
  BY DEF NoOrphan, NoLostAccept, Running
<1> QED
  BY <1>1, <1>2, <1>3, <1>4, <1>5 DEF StackInv

LEMMA DangleStep ==
    ASSUME StackInv, Dangle("dangling")
    PROVE  StackInv'
<1>1. "dangling" \in Asserts \ {"no"}
  BY DEF Asserts
<1> QED
  BY <1>1, FailStep DEF Dangle

\* One thread goes on to r.
LEMMA OpMoved ==
    ASSUME TypeOK, OpsSound, NEW t \in Threads, NEW r, OpSound(t, r), Go(t, r)
    PROVE  /\ op' \in [Threads -> Ops] /\ OpsSound' /\ op'[t] = r
           /\ \A u \in Threads : u # t => op'[u] = op[u]
<1>1. op \in [Threads -> Ops] /\ r \in Ops
  BY Types DEF OpSound
<1>2. op' = [op EXCEPT ![t] = r]
  BY DEF Go
<1>3. op' \in [Threads -> Ops] /\ op'[t] = r /\ \A u \in Threads : u # t => op'[u] = op[u]
  BY <1>1, <1>2
<1> QED
  BY <1>3 DEF OpsSound

\* The ids stay where they are.
LEMMA IdsStay ==
    ASSUME IdsUnique,
           freeIds' = freeIds, listener'.id = listener.id, reaper'.erase = reaper.erase,
           \A o \in Objects : sock'[o].id = sock[o].id,
           \A t \in Threads : op[t].pc = "emplace" \/ op'[t].pc = "emplace" => op'[t] = op[t]
    PROVE  IdsUnique'
<1>1. ASSUME NEW i \in Ids PROVE Unique(i)'
  <2>1. \A o \in Objects : SockHas(i, o)' <=> SockHas(i, o)
    BY DEF SockHas
  <2>2. \A t \in Threads : ThreadHas(i, t)' <=> ThreadHas(i, t)
    BY DEF ThreadHas
  <2>3. Unique(i)
    BY DEF IdsUnique
  <2> QED
    BY <2>1, <2>2, <2>3 DEF Unique
<1> QED
  BY <1>1 DEF IdsUnique

\* The sessions stay as they are.
LEMMA SessionsStay ==
    ASSUME SessionsAgree, TypeOK, table' = table, reaper'.erase = reaper.erase,
           \A o \in Objects : sock'[o].sess = sock[o].sess /\ (Live(o)' <=> Live(o))
    PROVE  SessionsAgree'
<1>1. \A s \in Sessions : table[s] # NoSock => table[s] \in Objects
  BY Types
<1> QED
  BY <1>1 DEF SessionsAgree

\* The listener changes in its pending list only.
PendingOnly ==
    /\ listener' \in Listeners /\ Len(listener'.pending) <= MaxPending
    /\ listener'.state = listener.state /\ listener'.id = listener.id
    /\ listener'.queue = listener.queue /\ listener'.closed = listener.closed

LEMMA PendingSame == TypeOK /\ UNCHANGED listener => PendingOnly
BY Types DEF PendingOnly

LEMMA PendingTo ==
    ASSUME TypeOK, NEW q \in Seq(Objects), Len(q) <= MaxPending,
           listener' = [listener EXCEPT !.pending = q]
    PROVE  PendingOnly
<1>1. listener \in Listeners
  BY Types
<1> QED
  BY <1>1 DEF PendingOnly, Listeners

\* One thread goes on, with at most a change in the pending list and in what
\* vConnect waits for.
LEMMA OpStep ==
    ASSUME StackInv, Running, NEW t \in Threads, NEW r, OpSound(t, r), Go(t, r),
           op[t].pc \notin {"emplace", "notify"}, r.pc # "emplace",
           op[t].pc \in {"unpend", "push"} => r.pc \in {"unpend", "push"} /\ r.sock = op[t].sock,
           t = User => op[t].pc # "setState",
           t = Connector => DialSound(r),
           PendingOnly, result' \in Results, failed' \in Asserts,
           UNCHANGED <<sock, table, freeIds, closing, accepter, reaper>>
    PROVE  StackInv'
<1>1. TypeOK /\ OpsSound /\ DialsOwn /\ IdsUnique /\ SessionsAgree /\ NoOrphan /\ NoLostAccept
  BY DEF StackInv, Holding
<1>2. /\ op' \in [Threads -> Ops] /\ OpsSound' /\ op'[t] = r
      /\ \A u \in Threads : u # t => op'[u] = op[u]
  BY <1>1, OpMoved
<1>3. TypeOK'
  BY <1>1, <1>2 DEF TypeOK, Ops, Pcs, PendingOnly, Listeners, Results
<1>4. DialsOwn'
  <2>1. CASE t = Connector
    BY <1>2, <2>1 DEF DialsOwn, DialSound
  <2>2. CASE t # Connector
    BY <1>1, <1>2, <2>2, Names DEF DialsOwn, DialSound
  <2> QED
    BY <2>1, <2>2
<1>5. Holding'
  <2>1. SocksSound' /\ ReaperSound' /\ ClosingSound'
    BY DEF StackInv, Holding, SocksSound, ReaperSound, ClosingSound, PendingOnly
  <2>2. ListenerSound'
    BY DEF StackInv, Holding, ListenerSound, PendingOnly
  <2> QED
    BY <1>2, <1>4, <2>1, <2>2 DEF Holding
<1>6. IdsUnique'
  <2>1. \A u \in Threads : op[u].pc = "emplace" \/ op'[u].pc = "emplace" => op'[u] = op[u]
    BY <1>2
  <2> QED
    BY <1>1, <2>1, IdsStay DEF PendingOnly
<1>7. SessionsAgree'
  BY <1>1, SessionsStay DEF Live
<1>8. NoOrphan'
  <2> SUFFICES ASSUME NEW o \in Objects, sock[o].state = "ESTABLISHED", sock[o].sess \in Peers
               PROVE  \/ o \in ToSet(listener'.queue) \cup accepter'.got \cup ToSet(closing'.todo)
                      \/ \E w \in Workers : op'[w].sock = o /\ op'[w].pc \in {"unpend", "push"}
                      \/ op'[User].sock = o /\ op'[User].pc = "setState"
    BY DEF NoOrphan
  <2>1. CASE o \in ToSet(listener.queue) \cup accepter.got \cup ToSet(closing.todo)
    BY <2>1 DEF PendingOnly
  <2>2. ASSUME NEW w \in Workers, op[w].sock = o, op[w].pc \in {"unpend", "push"}
        PROVE  op'[w].sock = o /\ op'[w].pc \in {"unpend", "push"}
    BY <1>2, <2>2, Names
  <2>3. CASE op[User].sock = o /\ op[User].pc = "setState"
    BY <1>2, <2>3, Names
  <2> QED
    BY <1>1, <2>1, <2>2, <2>3 DEF NoOrphan
<1>9. NoLostAccept'
  <2>1. \A w \in Workers : op[w].pc = "notify" => op'[w].pc = "notify"
    BY <1>2, Names
  <2> QED
    BY <1>1, <2>1 DEF NoLostAccept, PendingOnly
<1> QED
  BY <1>3, <1>5, <1>6, <1>7, <1>8, <1>9 DEF StackInv

---------------------------------------------------------------------------
(* The steps of OpStep's kind, one lemma each.                             *)

\* What the invariant says of one thread.
LEMMA OpOf ==
    ASSUME StackInv, NEW t \in Threads
    PROVE  OpSound(t, op[t]) /\ op[t] \in Ops /\ (t = Connector => DialSound(op[t]))
BY DEF StackInv, Holding, OpsSound, OpSound, DialsOwn

\* A thread that is done holds nothing.
LEMMA IdleSound == \A t \in Threads : OpSound(t, IdleOp) /\ DialSound(IdleOp)
<1>1. IdleOp \in Ops
  BY DEF IdleOp, Ops, Pcs, States
<1> QED
  BY <1>1 DEF OpSound, DialSound, IdleOp

LEMMA GetSynStep ==
    ASSUME StackInv, NEW w \in Workers, NEW s \in Peers, GetSyn(w, s)
    PROVE  StackInv'
<1> DEFINE r == [op[w] EXCEPT !.pc = "takeId", !.sess = s]
<1>1. w \in Threads /\ w # User /\ w # Connector /\ s \in Sessions /\ op[w] \in Ops
  BY Names, OpOf
<1>2. r \in Ops /\ r.pc = "takeId" /\ r.sess = s
  BY <1>1 DEF Ops, Pcs
<1>3. Running /\ op[w].pc = "idle" /\ Go(w, r)
      /\ UNCHANGED <<sock, table, freeIds, listener, result, closing, accepter, reaper, failed>>
  BY DEF GetSyn
<1>4. PendingOnly /\ result' \in Results /\ failed' \in Asserts
  BY <1>3, PendingSame, Types DEF StackInv, Running, Asserts
<1> HIDE DEF r
<1>5. OpSound(w, r)
  BY <1>1, <1>2 DEF OpSound
<1> QED
  BY <1>1, <1>2, <1>3, <1>4, <1>5, OpStep

LEMMA DialStep ==
    ASSUME StackInv, NEW s \in Dials, Dial(s)
    PROVE  StackInv'
<1> DEFINE w == Connector
           r == [op[w] EXCEPT !.pc = "takeId", !.sess = s]
<1>1. w \in Threads /\ w # User /\ s \in Sessions /\ op[w] \in Ops
  BY Names, OpOf
<1>2. r \in Ops /\ r.pc = "takeId" /\ r.sess = s
  BY <1>1 DEF Ops, Pcs
<1>3. Running /\ op[w].pc = "idle" /\ Go(w, r)
      /\ UNCHANGED <<sock, table, freeIds, listener, result, closing, accepter, reaper, failed>>
  BY DEF Dial
<1>4. PendingOnly /\ result' \in Results /\ failed' \in Asserts
  BY <1>3, PendingSame, Types DEF StackInv, Running, Asserts
<1> HIDE DEF r
<1>5. OpSound(w, r) /\ DialSound(r)
  BY <1>1, <1>2 DEF OpSound, DialSound
<1> QED
  BY <1>1, <1>2, <1>3, <1>4, <1>5, OpStep

LEMMA SendSynAckStep ==
    ASSUME StackInv, NEW w \in Workers, SendSynAck(w)
    PROVE  StackInv'
<1>1. w \in Threads /\ w # User /\ w # Connector /\ OpSound(w, op[w]) /\ op[w] \in Ops
      /\ TypeOK
  BY Names, OpOf DEF StackInv
<1>2. Running /\ op[w].pc = "reply" /\ op[w].sock \in Objects
  BY <1>1 DEF SendSynAck, OpSound
<1>3. CASE ~Live(op[w].sock) \/ listener.state = "GONE"
  BY <1>3, DangleStep DEF SendSynAck
<1>4. CASE ~(~Live(op[w].sock) \/ listener.state = "GONE")
  <2>0. UNCHANGED <<sock, table, freeIds, result, closing, accepter, reaper, failed>>
    BY <1>4 DEF SendSynAck
  <2>1. result' \in Results /\ failed' \in Asserts
    BY <1>1, <1>2, <2>0, Types DEF Running, Asserts
  <2>2. CASE Len(listener.pending) < MaxPending
    <3> DEFINE r == [op[w] EXCEPT !.pc = "setState", !.to = "SYN_RECEIVED"]
               x == op[w].sock
               q == Append(listener.pending, x)
    <3>1. Go(w, r) /\ listener' = [listener EXCEPT !.pending = q]
      BY <1>4, <2>2 DEF SendSynAck
    <3>2. r \in Ops /\ r.pc = "setState" /\ r.to = "SYN_RECEIVED" /\ r.sock \in Objects
      BY <1>1, <1>2 DEF Ops, Pcs, States
    <3>3. q \in Seq(Objects) /\ Len(q) <= MaxPending
      <4>1. listener.pending \in Seq(Objects) /\ Len(listener.pending) \in Nat
        BY <1>1, Types
      <4>2. q \in Seq(Objects) /\ Len(q) = Len(listener.pending) + 1
        BY <1>2, <4>1, AppendProperties
      <4> QED
        BY <2>2, <4>1, <4>2, StackAssumption
    <3> HIDE DEF r, q
    <3>4. PendingOnly
      BY <1>1, <3>1, <3>3, PendingTo
    <3>5. OpSound(w, r)
      BY <1>1, <3>2 DEF OpSound, Dead
    <3> QED
      BY <1>1, <1>2, <2>0, <2>1, <3>1, <3>2, <3>4, <3>5, OpStep
  <2>3. CASE ~(Len(listener.pending) < MaxPending)
    <3>1. Go(w, IdleOp) /\ UNCHANGED listener
      BY <1>4, <2>3 DEF SendSynAck, Done
    <3>2. PendingOnly /\ IdleOp.pc = "idle"
      BY <1>1, <3>1, PendingSame DEF IdleOp
    <3> QED
      BY <1>1, <1>2, <2>0, <2>1, <3>1, <3>2, IdleSound, OpStep
  <2> QED
    BY <2>2, <2>3
<1> QED
  BY <1>3, <1>4

LEMMA SendSynStep ==
    ASSUME StackInv, SendSyn
    PROVE  StackInv'
<1> DEFINE w == Connector
           r == [op[w] EXCEPT !.pc = "setState", !.to = "SYN_SENT"]
<1>1. w \in Threads /\ w # User /\ op[w] \in Ops /\ OpSound(w, op[w]) /\ DialSound(op[w])
      /\ TypeOK
  BY Names, OpOf DEF StackInv
<1>2. Running /\ op[w].pc = "reply" /\ op[w].sock \in Objects
  BY <1>1 DEF SendSyn, OpSound
<1>3. CASE ~Live(op[w].sock)
  BY <1>3, DangleStep DEF SendSyn
<1>4. CASE Live(op[w].sock)
  <2>1. /\ result' = [alive |-> TRUE, notified |-> FALSE, error |-> FALSE] /\ Go(w, r)
        /\ UNCHANGED <<sock, table, freeIds, listener, closing, accepter, reaper, failed>>
    BY <1>4 DEF SendSyn
  <2>2. /\ r \in Ops /\ r.pc = "setState" /\ r.to = "SYN_SENT"
        /\ r.sock = op[w].sock /\ r.sock \in Objects
    BY <1>1, <1>2 DEF Ops, Pcs, States
  <2>3. PendingOnly /\ result' \in Results /\ failed' \in Asserts
    BY <1>1, <1>2, <2>1, PendingSame DEF Results, Running, Asserts
  <2> HIDE DEF r
  <2>4. OpSound(w, r)
    BY <2>2 DEF OpSound, Dead
  <2>5. DialSound(r)
    BY <1>1, <1>2, <2>2 DEF DialSound
  <2> QED
    BY <1>1, <1>2, <2>1, <2>2, <2>3, <2>4, <2>5, OpStep
<1> QED
  BY <1>3, <1>4

LEMMA GetPacketStep ==
    ASSUME StackInv, NEW w \in Workers, NEW s \in Sessions, NEW ev, GetPacket(w, s, ev)
    PROVE  StackInv'
<1> DEFINE o == table[s]
           h == Handler(sock[o].state, ev)
           r == [op[w] EXCEPT !.pc = h[1], !.to = h[2], !.sess = s, !.sock = o]
<1>1. w \in Threads /\ w # User /\ w # Connector /\ op[w] \in Ops /\ TypeOK
  BY Names, OpOf DEF StackInv
<1>2. /\ Running /\ op[w].pc = "idle" /\ o # NoSock /\ h[1] # "idle" /\ Go(w, r)
      /\ UNCHANGED <<sock, table, freeIds, listener, result, closing, accepter, reaper, failed>>
  BY DEF GetPacket
<1>3. o \in Objects
  BY <1>1, <1>2, Types
<1>4. PendingOnly /\ result' \in Results /\ failed' \in Asserts
  BY <1>1, <1>2, PendingSame, Types DEF Running, Asserts
<1>5. \/ h[1] = "establish" /\ h[2] = "ESTABLISHED"
      \/ h[1] = "onSynAck" /\ h[2] = "CLOSED"
      \/ h[1] = "setState" /\ h[2] \in {"CLOSE_WAIT", "FIN_WAIT_2", "TIME_WAIT", "CLOSED"}
  BY <1>2, HandlerStates
<1> HIDE DEF h, o
<1>6. r \in Ops /\ r.pc = h[1] /\ r.to = h[2] /\ r.sock = o
  BY <1>1, <1>3, <1>5 DEF Ops, Pcs, States
<1> HIDE DEF r
<1>7. OpSound(w, r) /\ r.pc # "emplace"
  BY <1>3, <1>5, <1>6 DEF OpSound, Dead
<1> QED
  BY <1>1, <1>2, <1>4, <1>7, OpStep

LEMMA UnpendStep ==
    ASSUME StackInv, NEW w \in Workers, Unpend(w)
    PROVE  StackInv'
<1> DEFINE x == op[w].sock
           q == Unlisted(x)
           r == [op[w] EXCEPT !.pc = "push"]
<1>1. w \in Threads /\ w # User /\ w # Connector /\ OpSound(w, op[w]) /\ op[w] \in Ops
      /\ TypeOK
  BY Names, OpOf DEF StackInv
<1>2. Running /\ op[w].pc = "unpend" /\ x \in Objects
  BY <1>1 DEF Unpend, OpSound
<1>3. CASE ~Live(x) \/ listener.state = "GONE"
  BY <1>3, DangleStep DEF Unpend
<1>4. CASE ~(~Live(x) \/ listener.state = "GONE") /\ Position(x) = 0
  BY <1>4, FailStep DEF Unpend, Asserts
<1>5. CASE ~(~Live(x) \/ listener.state = "GONE") /\ Position(x) # 0
  <2>1. /\ Go(w, r) /\ listener' = [listener EXCEPT !.pending = q]
        /\ UNCHANGED <<sock, table, freeIds, result, closing, accepter, reaper, failed>>
    BY <1>5 DEF Unpend
  <2>2. r \in Ops /\ r.pc = "push" /\ r.sock = x
    BY <1>1 DEF Ops, Pcs
  <2>3. q \in Seq(Objects) /\ Len(q) <= MaxPending
    BY <1>1, UnlistedType
  <2> HIDE DEF r, q
  <2>4. PendingOnly /\ result' \in Results /\ failed' \in Asserts
    BY <1>1, <1>2, <2>1, <2>3, PendingTo, Types DEF Running, Asserts
  <2>5. OpSound(w, r)
    BY <1>2, <2>2 DEF OpSound
  <2> QED
    BY <1>1, <1>2, <2>1, <2>2, <2>4, <2>5, OpStep
<1> QED
  BY <1>3, <1>4, <1>5

LEMMA OnSynAckStep ==
    ASSUME StackInv, NEW w \in Workers, OnSynAck(w)
    PROVE  StackInv'
<1>1. w \in Threads /\ w # User /\ w # Connector /\ TypeOK
  BY Names DEF StackInv
<1>2. /\ Running /\ op[w].pc = "onSynAck" /\ Go(w, IdleOp)
      /\ UNCHANGED <<sock, table, freeIds, listener, closing, accepter, reaper>>
      /\ result' \in {result, [result EXCEPT !.notified = TRUE]}
      /\ failed' \in {failed, "no", "dangling"}
  BY DEF OnSynAck, Done
<1>3. result' \in Results
  BY <1>1, <1>2, Types DEF Results
<1>4. PendingOnly /\ failed' \in Asserts /\ IdleOp.pc = "idle"
  BY <1>1, <1>2, PendingSame DEF Running, Asserts, IdleOp
<1> QED
  BY <1>1, <1>2, <1>3, <1>4, IdleSound, OpStep

LEMMA ConnectedStep ==
    ASSUME StackInv, Connected
    PROVE  StackInv'
<1> DEFINE w == Connector
           r == [op[w] EXCEPT !.pc = "check"]
<1>1. w \in Threads /\ w # User /\ op[w] \in Ops /\ OpSound(w, op[w]) /\ DialSound(op[w])
      /\ TypeOK
  BY Names, OpOf DEF StackInv
<1>2. /\ Running /\ op[w].pc = "wait"
      /\ UNCHANGED <<sock, table, freeIds, listener, closing, accepter, reaper, failed>>
  BY DEF Connected
<1>3. PendingOnly /\ failed' \in Asserts
  BY <1>1, <1>2, PendingSame DEF Running, Asserts
<1>4. CASE result.error
  <2>1. Go(w, IdleOp) /\ result' = [result EXCEPT !.alive = FALSE]
    BY <1>4 DEF Connected, Done
  <2>2. result' \in Results /\ IdleOp.pc = "idle"
    BY <1>1, <2>1, Types DEF Results, IdleOp
  <2> QED
    BY <1>1, <1>2, <1>3, <2>1, <2>2, IdleSound, OpStep
<1>5. CASE ~result.error
  <2>1. Go(w, r) /\ result' = result
    BY <1>5 DEF Connected
  <2>2. r \in Ops /\ r.pc = "check" /\ r.sock = op[w].sock
    BY <1>1 DEF Ops, Pcs
  <2>3. result' \in Results
    BY <1>1, <2>1, Types
  <2> HIDE DEF r
  <2>4. OpSound(w, r) /\ DialSound(r)
    BY <1>1, <1>2, <2>2 DEF OpSound, DialSound
  <2> QED
    BY <1>1, <1>2, <1>3, <2>1, <2>2, <2>3, <2>4, OpStep
<1> QED
  BY <1>4, <1>5

LEMMA CheckSynSentStep ==
    ASSUME StackInv, CheckSynSent
    PROVE  StackInv'
<1> DEFINE w == Connector
           r == [op[w] EXCEPT !.pc = "setState", !.to = "ESTABLISHED"]
<1>1. w \in Threads /\ w # User /\ op[w] \in Ops /\ OpSound(w, op[w]) /\ DialSound(op[w])
      /\ TypeOK
  BY Names, OpOf DEF StackInv
<1>2. /\ Running /\ op[w].pc = "check"
      /\ UNCHANGED <<sock, table, freeIds, listener, result, closing, accepter, reaper>>
  BY DEF CheckSynSent
<1>3. CASE sock[op[w].sock].state = "SYN_SENT"
  <2>1. Go(w, r) /\ failed' = failed
    BY <1>3 DEF CheckSynSent
  <2>2. r \in Ops /\ r.pc = "setState" /\ r.to = "ESTABLISHED" /\ r.sock = op[w].sock
    BY <1>1 DEF Ops, Pcs, States
  <2>3. PendingOnly /\ result' \in Results /\ failed' \in Asserts
    BY <1>1, <1>2, <2>1, PendingSame, Types DEF Running, Asserts
  <2> HIDE DEF r
  <2>4. OpSound(w, r) /\ DialSound(r)
    BY <1>1, <1>2, <2>2 DEF OpSound, DialSound, Dead
  <2> QED
    BY <1>1, <1>2, <2>1, <2>2, <2>3, <2>4, OpStep
<1>4. CASE sock[op[w].sock].state # "SYN_SENT"
  BY <1>2, <1>4, FailStep DEF CheckSynSent, Asserts
<1> QED
  BY <1>3, <1>4

\* What vClose tells the others: types, and nothing but the pending list.
LEMMA TellKeeps ==
    ASSUME TypeOK, NEW o, Tell(o)
    PROVE  PendingOnly /\ result' \in Results
<1>1. result \in Results /\ listener \in Listeners
  BY Types
<1>2. result' \in Results
  BY <1>1 DEF Tell, Results
<1> DEFINE q == Unlisted(o)
<1>3. q \in Seq(Objects) /\ Len(q) <= MaxPending
  BY UnlistedType
<1>4. listener' = listener \/ listener' = [listener EXCEPT !.pending = q]
  BY DEF Tell
<1> HIDE DEF q
<1> QED
  BY <1>2, <1>3, <1>4, PendingSame, PendingTo

LEMMA VisitStep ==
    ASSUME StackInv, Running, UserIdle, NEW o \in Objects, NEW to, Visit(o, to),
           to \in {"CLOSED", "FIN_WAIT_1", "LAST_ACK"}
    PROVE  StackInv'
<1> DEFINE r == [op[User] EXCEPT !.pc = "setState", !.sock = o, !.to = to]
<1>1. User \in Threads /\ User # Connector /\ op[User] \in Ops /\ TypeOK
      /\ op[User].pc = "idle"
  BY Names, OpOf DEF StackInv, UserIdle
<1>2. CASE LostListener(o)
  BY <1>2, DangleStep DEF Visit
<1>3. CASE ~LostListener(o)
  <2>1. Tell(o) /\ Go(User, r) /\ UNCHANGED <<sock, table, freeIds, closing, accepter, reaper, failed>>
    BY <1>3 DEF Visit
  <2>2. r \in Ops /\ r.pc = "setState" /\ r.to = to /\ r.sock = o
    BY <1>1 DEF Ops, Pcs, States
  <2>3. PendingOnly /\ result' \in Results /\ failed' \in Asserts
    BY <1>1, <2>1, TellKeeps DEF Running, Asserts
  <2> HIDE DEF r
  <2>4. OpSound(User, r)
    BY <2>2 DEF OpSound, Dead
  <2> QED
    BY <1>1, <2>1, <2>2, <2>3, <2>4, OpStep
<1> QED
  BY <1>2, <1>3

LEMMA CloseStep ==
    ASSUME StackInv, NEW o \in Objects, VClose(o) \/ VAbort(o)
    PROVE  StackInv'
<1>1. CASE VClose(o)
  <2>1. Running /\ UserIdle /\ sock[o].state \in DOMAIN CloseTo
        /\ Visit(o, CloseTo[sock[o].state])
    BY <1>1 DEF VClose
  <2>2. CloseTo[sock[o].state] \in {"CLOSED", "FIN_WAIT_1", "LAST_ACK"}
    BY <2>1, CloseToStates
  <2> QED
    BY <2>1, <2>2, VisitStep
<1>2. CASE VAbort(o)
  BY <1>2, VisitStep DEF VAbort
<1> QED
  BY <1>1, <1>2

---------------------------------------------------------------------------
(* The other steps.                                                        *)

\* Nobody forgets a socket.
LEMMA OrphanStay ==
    ASSUME NoOrphan, Running,
           \A o \in Objects : sock'[o].state = "ESTABLISHED" =>
               sock[o].state = "ESTABLISHED" /\ sock'[o].sess = sock[o].sess,
           ToSet(listener.queue) \cup accepter.got \cup ToSet(closing.todo) \subseteq
               ToSet(listener'.queue) \cup accepter'.got \cup ToSet(closing'.todo),
           \A w \in Workers : op[w].pc \in {"unpend", "push"} => op'[w] = op[w],
           op[User].pc = "setState" => op'[User] = op[User]
    PROVE  NoOrphan'
<1> SUFFICES ASSUME NEW o \in Objects, sock'[o].state = "ESTABLISHED", sock'[o].sess \in Peers
             PROVE  \/ o \in ToSet(listener'.queue) \cup accepter'.got \cup ToSet(closing'.todo)
                    \/ \E w \in Workers : op'[w].sock = o /\ op'[w].pc \in {"unpend", "push"}
                    \/ op'[User].sock = o /\ op'[User].pc = "setState"
  BY DEF NoOrphan
<1>1. CASE o \in ToSet(listener.queue) \cup accepter.got \cup ToSet(closing.todo)
  BY <1>1
<1>2. CASE \E w \in Workers : op[w].sock = o /\ op[w].pc \in {"unpend", "push"}
  <2>1. PICK w \in Workers : op[w].sock = o /\ op[w].pc \in {"unpend", "push"}
    BY <1>2
  <2>2. op'[w] = op[w]
    BY <2>1
  <2> QED
    BY <2>1, <2>2
<1>3. CASE op[User].sock = o /\ op[User].pc = "setState"
  BY <1>3
<1> QED
  BY <1>1, <1>2, <1>3 DEF NoOrphan

\* No wake-up gets lost.
LEMMA AcceptStay ==
    ASSUME NoLostAccept, Running,
           accepter'.pc = "asleep" => accepter.pc = "asleep",
           listener'.queue # <<>> \/ listener'.closed => listener.queue # <<>> \/ listener.closed,
           \A w \in Workers : op[w].pc = "notify" => op'[w].pc = "notify",
           closing.phase = "queue" => closing'.phase = "queue"
    PROVE  NoLostAccept'
BY DEF NoLostAccept

LEMMA VListenStep ==
    ASSUME StackInv, VListen
    PROVE  StackInv'
<1> DEFINE m == Min(freeIds)
<1>0. TypeOK /\ Holding /\ IdsUnique /\ SessionsAgree /\ NoOrphan /\ NoLostAccept
  BY DEF StackInv
<1>1. /\ Running /\ listener.state = "NONE" /\ freeIds # {}
      /\ listener' = [listener EXCEPT !.state = "LISTEN", !.id = m] /\ freeIds' = freeIds \ {m}
      /\ UNCHANGED <<sock, table, op, result, closing, accepter, reaper, failed>>
  BY DEF VListen
<1>2. m \in freeIds /\ m \in Ids
  BY <1>0, <1>1, MinIn, Types, Names
<1> HIDE DEF m
<1>3. /\ listener' \in Listeners /\ listener'.state = "LISTEN" /\ listener'.id = m
      /\ listener'.pending = listener.pending /\ listener'.queue = listener.queue
      /\ listener'.closed = listener.closed
  BY <1>0, <1>1, <1>2, Types DEF Listeners
<1>4. TypeOK'
  BY <1>0, <1>1, <1>2, <1>3 DEF TypeOK, Listeners
<1>5. Holding'
  <2>1. OpsSound' /\ DialsOwn' /\ SocksSound' /\ ReaperSound' /\ ClosingSound'
    BY <1>0, <1>1 DEF Holding, OpsSound, DialsOwn, DialSound, SocksSound, ReaperSound, ClosingSound
  <2> QED
    BY <1>2, <1>3, <2>1 DEF Holding, ListenerSound
<1>6. IdsUnique'
  <2>1. ASSUME NEW i \in Ids PROVE Unique(i)'
    <3>1. /\ \A o \in Objects : SockHas(i, o)' <=> SockHas(i, o)
          /\ \A t \in Threads : ThreadHas(i, t)' <=> ThreadHas(i, t)
      BY <1>1 DEF SockHas, ThreadHas
    <3>2. Unique(i) /\ Unique(m) /\ listener.id = NoId /\ i # NoId
      BY <1>0, <1>1, <1>2, Names DEF IdsUnique, Holding, ListenerSound
    <3>3. CASE i = m
      BY <1>1, <1>2, <1>3, <3>1, <3>2, <3>3 DEF Unique
    <3>4. CASE i # m
      BY <1>1, <1>2, <1>3, <3>1, <3>2, <3>4 DEF Unique
    <3> QED
      BY <3>3, <3>4
  <2> QED
    BY <2>1 DEF IdsUnique
<1>7. SessionsAgree'
  BY <1>0, <1>1, SessionsStay DEF Live
<1>8. NoOrphan' /\ NoLostAccept'
  BY <1>0, <1>1, <1>3, OrphanStay, AcceptStay
<1> QED
  BY <1>4, <1>5, <1>6, <1>7, <1>8 DEF StackInv

LEMMA TakeIdStep ==
    ASSUME StackInv, NEW t \in Threads, TakeId(t)
    PROVE  StackInv'
<1> DEFINE m == Min(freeIds)
           r == [op[t] EXCEPT !.pc = "emplace", !.id = m]
<1>0. TypeOK /\ Holding /\ OpsSound /\ IdsUnique /\ SessionsAgree /\ NoOrphan /\ NoLostAccept
  BY DEF StackInv, Holding
<1>1. /\ Running /\ op[t].pc = "takeId"
      /\ UNCHANGED <<sock, table, listener, result, closing, accepter, reaper, failed>>
  BY DEF TakeId
<1>2. OpSound(t, op[t]) /\ op[t] \in Ops /\ (t = Connector => DialSound(op[t]))
  BY OpOf
<1>3. CASE freeIds = {}
  <2>1. Go(t, IdleOp) /\ UNCHANGED freeIds
    BY <1>3 DEF TakeId, Done
  <2>2. PendingOnly /\ IdleOp.pc = "idle" /\ result' \in Results /\ failed' \in Asserts
    BY <1>0, <1>1, PendingSame, Types DEF IdleOp, Running, Asserts
  <2> QED
    BY <1>1, <2>1, <2>2, IdleSound, OpStep
<1>4. CASE freeIds # {}
  <2>1. Go(t, r) /\ freeIds' = freeIds \ {m}
    BY <1>4 DEF TakeId
  <2>2. m \in freeIds /\ m \in Ids
    BY <1>0, <1>4, MinIn, Types, Names
  <2> HIDE DEF m
  <2>3. r \in Ops /\ r.pc = "emplace" /\ r.id = m /\ r.sess = op[t].sess
    BY <1>2, <2>2 DEF Ops, Pcs
  <2> HIDE DEF r
  <2>4. OpSound(t, r) /\ (t = Connector => DialSound(r))
    BY <1>1, <1>2, <2>2, <2>3 DEF OpSound, DialSound
  <2>5. /\ op' \in [Threads -> Ops] /\ OpsSound' /\ op'[t] = r
        /\ \A u \in Threads : u # t => op'[u] = op[u]
    BY <1>0, <2>1, <2>4, OpMoved
  <2>6. TypeOK'
    BY <1>0, <1>1, <2>1, <2>5 DEF TypeOK, Ops, Pcs
  <2>7. Holding'
    <3>1. DialsOwn'
      <4>1. CASE t = Connector
        BY <1>1, <2>4, <2>5, <4>1 DEF DialsOwn, DialSound
      <4>2. CASE t # Connector
        BY <1>0, <1>1, <2>5, <4>2, Names DEF Holding, DialsOwn, DialSound
      <4> QED
        BY <4>1, <4>2
    <3>2. SocksSound' /\ ListenerSound' /\ ReaperSound' /\ ClosingSound'
      BY <1>0, <1>1 DEF Holding, SocksSound, ListenerSound, ReaperSound, ClosingSound
    <3> QED
      BY <2>5, <3>1, <3>2 DEF Holding
  <2>8. IdsUnique'
    <3>1. ASSUME NEW i \in Ids PROVE Unique(i)'
      <4>1. \A o \in Objects : SockHas(i, o)' <=> SockHas(i, o)
        BY <1>1 DEF SockHas
      <4>2. \A u \in Threads : ThreadHas(i, u)' <=> ThreadHas(i, u) \/ (u = t /\ i = m)
        BY <1>1, <2>3, <2>5 DEF ThreadHas
      <4>3. Unique(i) /\ listener'.id = listener.id
        BY <1>0, <1>1 DEF IdsUnique
      <4>4. CASE i = m
        BY <2>1, <2>2, <4>1, <4>2, <4>3, <4>4 DEF Unique
      <4>5. CASE i # m
        BY <2>1, <4>1, <4>2, <4>3, <4>5 DEF Unique
      <4> QED
        BY <4>4, <4>5
    <3> QED
      BY <3>1 DEF IdsUnique
  <2>9. SessionsAgree'
    BY <1>0, <1>1, SessionsStay DEF Live
  <2>10. NoOrphan' /\ NoLostAccept'
    BY <1>0, <1>1, <2>5, OrphanStay, AcceptStay, Names
  <2> QED
    BY <2>6, <2>7, <2>8, <2>9, <2>10 DEF StackInv
<1> QED
  BY <1>3, <1>4

LEMMA EmplaceStep ==
    ASSUME StackInv, NEW t \in Threads, Emplace(t)
    PROVE  StackInv'
<1> DEFINE S == {o \in Objects : sock[o].state = "UNBORN"}
           f == Min(S)
           x == op[t].sess
           k == op[t].id
           n == [sess |-> x, state |-> "CLOSED", id |-> k]
           r == [op[t] EXCEPT !.pc = "reply", !.sock = f]
           dup == \/ table[x] # NoSock
                  \/ \E o \in Objects : Live(o) /\ sock[o].id = k
<1>0. TypeOK /\ Holding /\ OpsSound /\ SocksSound /\ ReaperSound /\ IdsUnique /\ SessionsAgree
      /\ NoOrphan /\ NoLostAccept
  BY DEF StackInv, Holding
<1>1. /\ Running /\ Unlocked /\ op[t].pc = "emplace" /\ S # {}
      /\ UNCHANGED <<freeIds, listener, result, closing, accepter, reaper>>
  BY DEF Emplace
<1>2. CASE dup
  BY <1>1, <1>2, FailStep DEF Emplace, Asserts
<1>3. CASE ~dup
  <2>1. Enter(t, f)
    BY <1>3 DEF Emplace
  <2>2. /\ sock' = [sock EXCEPT ![f] = n] /\ table' = [table EXCEPT ![x] = f]
        /\ Go(t, r) /\ UNCHANGED failed
    BY <2>1 DEF Enter
  <2>3. f \in Objects /\ sock[f].state = "UNBORN"
    BY <1>1, MinIn, Names
  <2>4. /\ OpSound(t, op[t]) /\ op[t] \in Ops /\ x \in Sessions /\ k \in Ids
        /\ (t = Connector => DialSound(op[t]))
    BY <1>1, OpOf DEF OpSound
  <2>5. table[x] = NoSock
    BY <1>3
  <2> HIDE DEF f, x, k, S, dup
  <2>6. r \in Ops /\ r.pc = "reply" /\ r.sock = f
    BY <2>3, <2>4 DEF Ops, Pcs
  <2> HIDE DEF r
  <2>7. OpSound(t, r)
    BY <2>3, <2>6 DEF OpSound
  <2>8. /\ op' \in [Threads -> Ops] /\ OpsSound' /\ op'[t] = r
        /\ \A u \in Threads : u # t => op'[u] = op[u]
    BY <1>0, <2>2, <2>7, OpMoved
  <2>9. n \in Socks /\ n.sess = x /\ n.state = "CLOSED" /\ n.id = k
    BY <2>4 DEF Socks, States
  <2> HIDE DEF n
  <2>10. /\ sock' \in [Objects -> Socks] /\ sock'[f] = n
         /\ \A o \in Objects : o # f => sock'[o] = sock[o]
    BY <1>0, <2>2, <2>3, <2>9, Types
  <2>11. /\ table' \in [Sessions -> Objects \cup {NoSock}] /\ table'[x] = f
         /\ \A s \in Sessions : s # x => table'[s] = table[s]
    BY <1>0, <2>2, <2>3, <2>4, Types
  <2>12. reaper.erase = NoSock
    BY <1>0, <1>1 DEF ReaperSound, Unlocked
  <2>13. TypeOK'
    BY <1>0, <1>1, <2>2, <2>8, <2>10, <2>11 DEF TypeOK, Ops, Pcs, Socks
  <2>14. Holding'
    <3>1. DialsOwn'
      <4>1. CASE t = Connector
        <5>1. x \in Dials
          BY <1>1, <2>4, <4>1 DEF DialSound, x
        <5> QED
          BY <2>3, <2>6, <2>8, <2>9, <2>10, <4>1, <5>1 DEF DialsOwn, DialSound
      <4>2. CASE t # Connector
        <5> DEFINE c == op[Connector]
        <5>1. OpSound(Connector, c) /\ DialSound(c) /\ op'[Connector] = c
          BY <2>8, <4>2, OpOf, Names
        <5> HIDE DEF c
        <5>2. c.pc \notin {"idle", "takeId", "emplace"} => sock'[c.sock] = sock[c.sock]
          BY <2>3, <2>10, <5>1 DEF OpSound, DialSound
        <5> QED
          BY <5>1, <5>2 DEF DialsOwn, DialSound
      <4> QED
        BY <4>1, <4>2
    <3>2. SocksSound'
      <4>1. SockSound(n)
        BY <2>4, <2>9 DEF SockSound, Dead
      <4> QED
        BY <1>0, <2>10, <4>1 DEF SocksSound
    <3>3. ListenerSound' /\ ClosingSound'
      BY <1>0, <1>1 DEF Holding, ListenerSound, ClosingSound
    <3>4. ReaperSound'
      BY <1>0, <1>1, <2>12 DEF ReaperSound
    <3> QED
      BY <2>8, <3>1, <3>2, <3>3, <3>4 DEF Holding
  <2>15. IdsUnique'
    <3>1. ASSUME NEW i \in Ids PROVE Unique(i)'
      <4>1. sock[f].id = NoId /\ i # NoId
        BY <1>0, <2>3, Names DEF SocksSound, SockSound, Dead
      <4>2. \A o \in Objects : SockHas(i, o)' <=> SockHas(i, o) \/ (o = f /\ i = k)
        BY <1>1, <2>3, <2>9, <2>10, <2>12, <4>1, Names DEF SockHas
      <4>3. \A u \in Threads : ThreadHas(i, u)' <=> ThreadHas(i, u) /\ u # t
        BY <2>6, <2>8 DEF ThreadHas
      <4>4. ThreadHas(k, t) /\ (ThreadHas(i, t) => i = k)
        BY <1>1 DEF ThreadHas, k
      <4>5. Unique(i) /\ listener'.id = listener.id /\ freeIds' = freeIds
        BY <1>0, <1>1 DEF IdsUnique
      <4>6. CASE i = k
        BY <2>3, <4>2, <4>3, <4>4, <4>5, <4>6 DEF Unique
      <4>7. CASE i # k
        BY <4>2, <4>3, <4>4, <4>5, <4>7 DEF Unique
      <4> QED
        BY <4>6, <4>7
    <3> QED
      BY <3>1 DEF IdsUnique
  <2>16. SessionsAgree'
    <3>1. ASSUME NEW s \in Sessions, table'[s] # NoSock
          PROVE  Live(table[s])' /\ sock'[table'[s]].sess = s
      <4>1. CASE s = x
        BY <2>9, <2>10, <2>11, <4>1 DEF Live
      <4>2. CASE s # x
        <5>1. table'[s] = table[s] /\ table[s] \in Objects
          BY <1>0, <2>11, <3>1, <4>2, Types
        <5>2. Live(table[s]) /\ sock[table[s]].sess = s
          BY <1>0, <3>1, <5>1 DEF SessionsAgree
        <5>3. sock'[table[s]] = sock[table[s]]
          BY <2>3, <2>10, <5>1, <5>2 DEF Live
        <5> QED
          BY <5>1, <5>2, <5>3 DEF Live
      <4> QED
        BY <4>1, <4>2
    <3>2. ASSUME NEW o \in Objects, Live(o)'
          PROVE  table'[sock'[o].sess] = o
      <4>1. CASE o = f
        BY <2>9, <2>10, <2>11, <4>1
      <4>2. CASE o # f
        <5>1. sock'[o] = sock[o] /\ Live(o) /\ reaper.erase # o
          BY <2>10, <2>12, <3>2, <4>2, Names DEF Live
        <5>2. table[sock[o].sess] = o /\ sock[o].sess \in Sessions
          BY <1>0, <5>1 DEF SessionsAgree, SocksSound, SockSound, Live, Dead
        <5>3. sock[o].sess # x
          BY <2>5, <5>2, Names
        <5> QED
          BY <2>11, <5>1, <5>2, <5>3
      <4> QED
        BY <4>1, <4>2
    <3> QED
      BY <3>1, <3>2 DEF SessionsAgree
  <2>17. NoOrphan'
    <3>1. \A o \in Objects : sock'[o].state = "ESTABLISHED" => sock'[o] = sock[o]
      BY <2>9, <2>10
    <3> QED
      BY <1>0, <1>1, <2>8, <3>1, OrphanStay, Names
  <2>18. NoLostAccept'
    BY <1>0, <1>1, <2>8, AcceptStay, Names
  <2> QED
    BY <2>13, <2>14, <2>15, <2>16, <2>17, <2>18 DEF StackInv
<1> QED
  BY <1>2, <1>3

\* What a thread holds after it has written the state.
LEMMA AfterSound ==
    ASSUME NEW t \in Threads, OpSound(t, op[t]), op[t].pc \in {"setState", "establish"}
    PROVE  /\ OpSound(t, After(t)) /\ After(t).pc \in {"unpend", "wait", "idle"}
           /\ After(t).pc # "idle" => After(t).sock = op[t].sock
           /\ op[t].pc = "establish" => After(t).pc = "unpend"
<1>0. op[t] \in Ops
  BY DEF OpSound
<1>1. CASE op[t].pc = "establish"
  <2> DEFINE r == [op[t] EXCEPT !.pc = "unpend"]
  <2>1. After(t) = r
    BY <1>1 DEF After
  <2>2. r \in Ops /\ r.pc = "unpend" /\ r.sock = op[t].sock
    BY <1>0 DEF Ops, Pcs
  <2> HIDE DEF r
  <2> QED
    BY <1>1, <2>1, <2>2 DEF OpSound
<1>2. CASE op[t].pc = "setState" /\ op[t].to = "SYN_SENT"
  <2> DEFINE r == [op[t] EXCEPT !.pc = "wait"]
  <2>1. After(t) = r
    BY <1>2 DEF After
  <2>2. r \in Ops /\ r.pc = "wait" /\ r.sock = op[t].sock
    BY <1>0 DEF Ops, Pcs
  <2> HIDE DEF r
  <2> QED
    BY <1>2, <2>1, <2>2 DEF OpSound
<1>3. CASE op[t].pc = "setState" /\ op[t].to # "SYN_SENT"
  <2>1. After(t) = IdleOp /\ IdleOp.pc = "idle"
    BY <1>3 DEF After, IdleOp
  <2> QED
    BY <1>3, <2>1, IdleSound
<1> QED
  BY <1>1, <1>2, <1>3

LEMMA SetStateStep ==
    ASSUME StackInv, NEW t \in Threads, SetState(t)
    PROVE  StackInv'
<1> DEFINE o  == op[t].sock
           to == op[t].to
           r  == After(t)
<1>0. TypeOK /\ Holding /\ OpsSound /\ SocksSound /\ IdsUnique /\ SessionsAgree
      /\ NoOrphan /\ NoLostAccept
  BY DEF StackInv, Holding
<1>1. Running /\ op[t].pc \in {"setState", "establish"}
  BY DEF SetState
<1>2. /\ OpSound(t, op[t]) /\ op[t] \in Ops /\ o \in Objects /\ to \in States \ Dead
      /\ (t = Connector => DialSound(op[t]))
  BY <1>1, OpOf DEF OpSound, Ops
<1>3. CASE ~Live(o)
  BY <1>3, DangleStep DEF SetState
<1>4. CASE Live(o)
  <2>1. /\ sock' = [sock EXCEPT ![o].state = to] /\ Go(t, r)
        /\ failed' \in {"no", "dangling"}
        /\ UNCHANGED <<table, freeIds, listener, closing, accepter, reaper>>
    BY <1>4 DEF SetState, Go
  <2>2. result' \in Results
    <3>1. \E a, b \in BOOLEAN : result' = [result EXCEPT !.notified = a, !.alive = b]
      <4> DEFINE a == result.notified \/ (sock[o].state = "SYN_SENT" /\ result.alive)
                 b == result.alive /\ ~(t = Connector /\ to = "ESTABLISHED")
      <4>1. result' = [result EXCEPT !.notified = a, !.alive = b]
        BY <1>4 DEF SetState
      <4>2. a \in BOOLEAN /\ b \in BOOLEAN
        BY <1>0, Types DEF Results
      <4> HIDE DEF a, b
      <4> QED
        BY <4>1, <4>2
    <3> QED
      BY <1>0, <3>1, Types DEF Results
  <2>3. /\ OpSound(t, r) /\ r.pc \in {"unpend", "wait", "idle"} /\ (r.pc # "idle" => r.sock = o)
        /\ (op[t].pc = "establish" => r.pc = "unpend")
    BY <1>1, <1>2, AfterSound
  <2> HIDE DEF r
  <2>4. /\ op' \in [Threads -> Ops] /\ OpsSound' /\ op'[t] = r
        /\ \A u \in Threads : u # t => op'[u] = op[u]
    BY <1>0, <2>1, <2>3, OpMoved
  <2> HIDE DEF o, to
  <2>5. /\ sock' \in [Objects -> Socks] /\ sock'[o].state = to
        /\ \A p \in Objects : sock'[p].sess = sock[p].sess /\ sock'[p].id = sock[p].id
        /\ \A p \in Objects : p # o => sock'[p] = sock[p]
    BY <1>0, <1>2, <2>1, Types DEF Socks
  <2>6. TypeOK'
    BY <1>0, <2>1, <2>2, <2>4, <2>5 DEF TypeOK, Ops, Pcs, Socks, Results, Asserts
  <2>7. \A p \in Objects : Live(p)' <=> Live(p)
    BY <1>2, <1>4, <2>5 DEF Live, Dead
  <2>8. Holding'
    <3>1. DialsOwn'
      <4>1. CASE t = Connector
        <5>1. r.pc # "idle" => sock[o].sess \in Dials /\ r.sock = o
          BY <1>1, <1>2, <2>3, <4>1 DEF DialSound, o
        <5> QED
          BY <1>2, <2>3, <2>4, <2>5, <4>1, <5>1 DEF DialsOwn, DialSound, Dead
      <4>2. CASE t # Connector
        <5> DEFINE c == op[Connector]
        <5>1. OpSound(Connector, c) /\ DialSound(c) /\ op'[Connector] = c
          BY <2>4, <4>2, OpOf, Names
        <5> HIDE DEF c
        <5>2. c.pc \notin {"idle", "takeId", "emplace"} =>
                  sock'[c.sock].sess \in Dials /\ sock'[c.sock].state # "UNBORN"
          BY <1>2, <2>5, <5>1 DEF OpSound, DialSound, Dead
        <5> QED
          BY <5>1, <5>2 DEF DialsOwn, DialSound
      <4> QED
        BY <4>1, <4>2
    <3>2. SocksSound'
      BY <1>0, <1>2, <1>4, <2>5 DEF SocksSound, SockSound, Live, Dead
    <3>3. ListenerSound' /\ ClosingSound' /\ ReaperSound'
      BY <1>0, <2>1 DEF Holding, ListenerSound, ClosingSound, ReaperSound
    <3> QED
      BY <2>4, <3>1, <3>2, <3>3 DEF Holding
  <2>9. IdsUnique'
    <3>1. \A u \in Threads : op[u].pc = "emplace" \/ op'[u].pc = "emplace" => op'[u] = op[u]
      BY <1>1, <2>3, <2>4
    <3> QED
      BY <1>0, <2>1, <2>5, <3>1, IdsStay
  <2>10. SessionsAgree'
    BY <1>0, <2>1, <2>5, <2>7, SessionsStay
  <2>11. NoOrphan'
    <3> SUFFICES ASSUME NEW p \in Objects, sock'[p].state = "ESTABLISHED", sock'[p].sess \in Peers
                 PROVE  \/ p \in ToSet(listener.queue) \cup accepter.got \cup ToSet(closing.todo)
                        \/ \E w \in Workers : op'[w].sock = p /\ op'[w].pc \in {"unpend", "push"}
                        \/ op'[User].sock = p /\ op'[User].pc = "setState"
      BY <2>1 DEF NoOrphan
    <3>1. CASE p = o
      <4>1. to = "ESTABLISHED" /\ sock[o].sess \notin Dials
        BY <2>5, <3>1, Names
      <4>2. t # Connector
        BY <1>1, <1>2, <4>1 DEF DialSound, o
      <4>3. op[t].pc = "establish" /\ t \in Workers
        BY <1>1, <1>2, <4>1, <4>2 DEF OpSound, to
      <4> QED
        BY <2>3, <2>4, <3>1, <4>3
    <3>2. CASE p # o
      <4>1. sock[p].state = "ESTABLISHED" /\ sock[p].sess \in Peers
        BY <2>5, <3>2
      <4>2. ASSUME NEW w \in Workers, op[w].sock = p, op[w].pc \in {"unpend", "push"}
            PROVE  op'[w] = op[w]
        BY <1>1, <2>4, <4>2, Names
      <4>3. op[User].sock = p => op'[User] = op[User]
        BY <2>4, <3>2, Names DEF o
      <4> QED
        BY <1>0, <1>1, <4>1, <4>2, <4>3 DEF NoOrphan
    <3> QED
      BY <3>1, <3>2
  <2>12. NoLostAccept'
    BY <1>0, <1>1, <2>1, <2>4, AcceptStay, Names
  <2> QED
    BY <2>6, <2>8, <2>9, <2>10, <2>11, <2>12 DEF StackInv
<1> QED
  BY <1>3, <1>4

\* A step about the listener, its queue and who waits on it: what is left to
\* show is that no socket is forgotten and no wake-up lost.
LEMMA QueueStep ==
    ASSUME StackInv, Running,
           UNCHANGED <<sock, table, freeIds, reaper, failed>>,
           listener' \in Listeners, Len(listener'.pending) <= MaxPending,
           listener'.id = listener.id, ListenerSound',
           closing' \in [phase : {"none", "pending", "queue"}, todo : Seq(Objects)],
           ClosingSound',
           accepter' \in [pc : {"idle", "asleep", "awake", "stopped"}, got : SUBSET Objects],
           result' \in Results,
           op' \in [Threads -> Ops], OpsSound', op'[Connector] = op[Connector],
           \A u \in Threads : op[u].pc = "emplace" \/ op'[u].pc = "emplace" => op'[u] = op[u],
           NoOrphan', NoLostAccept'
    PROVE  StackInv'
<1>0. TypeOK /\ Holding /\ IdsUnique /\ SessionsAgree
  BY DEF StackInv
<1>1. TypeOK'
  BY <1>0 DEF TypeOK, Listeners, Ops, Pcs, Results
<1>2. Holding'
  <2>1. DialsOwn' /\ SocksSound' /\ ReaperSound'
    BY <1>0 DEF Holding, DialsOwn, DialSound, SocksSound, ReaperSound
  <2> QED
    BY <2>1 DEF Holding
<1>3. IdsUnique'
  BY <1>0, IdsStay
<1>4. SessionsAgree'
  BY <1>0, SessionsStay DEF Live
<1> QED
  BY <1>1, <1>2, <1>3, <1>4 DEF StackInv

LEMMA PushStep ==
    ASSUME StackInv, NEW w \in Workers, Push(w)
    PROVE  StackInv'
<1> DEFINE x == op[w].sock
           q == Append(listener.queue, x)
           r == [op[w] EXCEPT !.pc = "notify"]
<1>0. TypeOK /\ Holding /\ OpsSound /\ NoOrphan /\ NoLostAccept
  BY DEF StackInv, Holding
<1>1. w \in Threads /\ w # User /\ w # Connector /\ OpSound(w, op[w]) /\ op[w] \in Ops
  BY Names, OpOf
<1>2. Running /\ op[w].pc = "push" /\ x \in Objects
  BY <1>1 DEF Push, OpSound
<1>3. CASE listener.state = "GONE"
  BY <1>3, DangleStep DEF Push
<1>4. CASE listener.state # "GONE"
  <2>1. /\ Go(w, r) /\ listener' = [listener EXCEPT !.queue = q]
        /\ UNCHANGED <<sock, table, freeIds, result, closing, accepter, reaper, failed>>
    BY <1>4 DEF Push
  <2>2. r \in Ops /\ r.pc = "notify" /\ r.sock = x
    BY <1>1 DEF Ops, Pcs
  <2>3. q \in Seq(Objects) /\ ToSet(q) = ToSet(listener.queue) \cup {x}
    BY <1>0, <1>2, Types, ToSetAppend, AppendProperties
  <2> HIDE DEF r, q, x
  <2>4. OpSound(w, r)
    BY <1>2, <2>2 DEF OpSound
  <2>5. /\ op' \in [Threads -> Ops] /\ OpsSound' /\ op'[w] = r
        /\ \A u \in Threads : u # w => op'[u] = op[u]
    BY <1>0, <1>1, <2>1, <2>4, OpMoved
  <2>6. /\ listener' \in Listeners /\ listener'.queue = q /\ listener'.id = listener.id
        /\ listener'.pending = listener.pending /\ listener'.state = listener.state
    BY <1>0, <2>1, <2>3, Types DEF Listeners
  <2>7. NoOrphan'
    <3> SUFFICES ASSUME NEW o \in Objects, sock[o].state = "ESTABLISHED", sock[o].sess \in Peers
                 PROVE  \/ o \in ToSet(q) \cup accepter.got \cup ToSet(closing.todo)
                        \/ \E v \in Workers : op'[v].sock = o /\ op'[v].pc \in {"unpend", "push"}
                        \/ op'[User].sock = o /\ op'[User].pc = "setState"
      BY <2>1, <2>6 DEF NoOrphan
    <3>1. CASE o = x
      BY <2>3, <3>1
    <3>2. CASE o # x
      <4>1. \A v \in Workers : op[v].sock = o => op'[v] = op[v]
        BY <2>5, <3>2, Names DEF x
      <4>2. op'[User] = op[User]
        BY <1>1, <2>5, Names
      <4> QED
        BY <1>0, <1>2, <2>3, <4>1, <4>2 DEF NoOrphan
    <3> QED
      BY <3>1, <3>2
  <2>8. NoLostAccept'
    BY <2>2, <2>5 DEF NoLostAccept
  <2>9. ListenerSound' /\ ClosingSound' /\ Len(listener'.pending) <= MaxPending
    BY <1>0, <2>1, <2>6, Types DEF Holding, ListenerSound, ClosingSound
  <2>10. /\ closing' \in [phase : {"none", "pending", "queue"}, todo : Seq(Objects)]
         /\ accepter' \in [pc : {"idle", "asleep", "awake", "stopped"}, got : SUBSET Objects]
         /\ result' \in Results
    BY <1>0, <2>1 DEF TypeOK, Results
  <2>11. /\ op'[Connector] = op[Connector]
         /\ \A u \in Threads : op[u].pc = "emplace" \/ op'[u].pc = "emplace" => op'[u] = op[u]
    BY <1>1, <1>2, <2>2, <2>5, Names
  <2> QED
    BY <1>2, <2>1, <2>5, <2>6, <2>7, <2>8, <2>9, <2>10, <2>11, QueueStep
<1> QED
  BY <1>3, <1>4

LEMMA NotifyStep ==
    ASSUME StackInv, NEW w \in Workers, Notify(w)
    PROVE  StackInv'
<1>0. TypeOK /\ Holding /\ OpsSound /\ NoOrphan /\ NoLostAccept
  BY DEF StackInv, Holding
<1>1. w \in Threads /\ w # User /\ w # Connector /\ Running /\ op[w].pc = "notify"
  BY Names DEF Notify
<1>2. CASE listener.state = "GONE"
  BY <1>2, DangleStep DEF Notify
<1>3. CASE listener.state # "GONE"
  <2>1. /\ Go(w, IdleOp) /\ Wake
        /\ UNCHANGED <<sock, table, freeIds, listener, result, closing, reaper, failed>>
    BY <1>3 DEF Notify, Done
  <2>2. /\ op' \in [Threads -> Ops] /\ OpsSound' /\ op'[w] = IdleOp
        /\ \A u \in Threads : u # w => op'[u] = op[u]
    BY <1>0, <1>1, <2>1, IdleSound, OpMoved
  <2>3. /\ accepter' \in [pc : {"idle", "asleep", "awake", "stopped"}, got : SUBSET Objects]
        /\ accepter'.pc # "asleep" /\ accepter'.got = accepter.got
    BY <1>0, <2>1 DEF TypeOK, Wake
  <2>4. NoOrphan'
    BY <1>0, <1>1, <2>1, <2>2, <2>3, OrphanStay, Names
  <2>5. NoLostAccept'
    BY <2>3 DEF NoLostAccept
  <2>6. ListenerSound' /\ ClosingSound' /\ Len(listener'.pending) <= MaxPending
        /\ listener' \in Listeners /\ result' \in Results /\ listener'.id = listener.id
        /\ closing' \in [phase : {"none", "pending", "queue"}, todo : Seq(Objects)]
    BY <1>0, <2>1 DEF Holding, ListenerSound, ClosingSound, TypeOK, Listeners, Results
  <2>7. /\ op'[Connector] = op[Connector]
        /\ \A u \in Threads : op[u].pc = "emplace" \/ op'[u].pc = "emplace" => op'[u] = op[u]
    BY <1>1, <2>2, Names DEF IdleOp
  <2> QED
    BY <1>1, <2>1, <2>2, <2>3, <2>4, <2>5, <2>6, <2>7, QueueStep
<1> QED
  BY <1>2, <1>3

LEMMA ListenerCloseStep ==
    ASSUME StackInv, ListenerClose
    PROVE  StackInv'
<1>0. TypeOK /\ Holding /\ OpsSound /\ ClosingSound /\ NoOrphan /\ NoLostAccept
  BY DEF StackInv, Holding
<1>1. /\ Running /\ closing.phase = "none" /\ listener.state = "LISTEN"
      /\ closing' = [phase |-> "pending", todo |-> listener.pending]
      /\ listener' = [listener EXCEPT !.pending = <<>>]
      /\ UNCHANGED <<sock, table, freeIds, op, result, accepter, reaper, failed>>
  BY DEF ListenerClose, UserIdle
<1>2. listener.pending \in Seq(Objects)
  BY <1>0, Types
<1>3. PendingOnly
  <2> DEFINE e == <<>>
  <2>1. e \in Seq(Objects) /\ Len(e) <= MaxPending
    BY StackAssumption
  <2>2. listener' = [listener EXCEPT !.pending = e]
    BY <1>1
  <2> HIDE DEF e
  <2> QED
    BY <1>0, <2>1, <2>2, PendingTo
<1>4. /\ closing' \in [phase : {"none", "pending", "queue"}, todo : Seq(Objects)]
      /\ closing'.phase = "pending"
  BY <1>1, <1>2
<1>5. ToSet(closing.todo) = {}
  BY <1>0, <1>1, ToSetEmpty DEF ClosingSound
<1>6. NoOrphan'
  BY <1>0, <1>1, <1>3, <1>5, OrphanStay DEF PendingOnly
<1>7. NoLostAccept'
  BY <1>0, <1>1, <1>3, AcceptStay DEF PendingOnly
<1>8. ListenerSound' /\ ClosingSound' /\ OpsSound'
  BY <1>0, <1>1, <1>3, <1>4 DEF Holding, ListenerSound, ClosingSound, OpsSound, PendingOnly
<1>9. /\ accepter' \in [pc : {"idle", "asleep", "awake", "stopped"}, got : SUBSET Objects]
      /\ result' \in Results /\ op' \in [Threads -> Ops]
  BY <1>0, <1>1, Types DEF TypeOK
<1> QED
  BY <1>1, <1>3, <1>4, <1>6, <1>7, <1>8, <1>9, QueueStep DEF PendingOnly

LEMMA CloseNextStep ==
    ASSUME StackInv, CloseNext
    PROVE  StackInv'
<1> DEFINE q  == closing.todo
           h  == Head(q)
           st == sock[h].state
           to == CloseTo[st]
           r  == [op[User] EXCEPT !.pc = "setState", !.sock = h, !.to = to]
<1>0. TypeOK /\ Holding /\ OpsSound /\ ClosingSound /\ NoOrphan /\ NoLostAccept
  BY DEF StackInv, Holding
<1>1. Running /\ op[User].pc = "idle" /\ q # <<>>
  BY DEF CloseNext
<1>2. q \in Seq(Objects)
  BY <1>0, Types
<1>3. h \in Objects /\ Tail(q) \in Seq(Objects) /\ ToSet(q) = ToSet(Tail(q)) \cup {h}
  BY <1>1, <1>2, ToSetTail
<1>4. CASE ~Live(h) \/ LostListener(h)
  BY <1>4, DangleStep DEF CloseNext
<1>5. CASE ~(~Live(h) \/ LostListener(h))
  <2>1. /\ closing' = [closing EXCEPT !.todo = Tail(q)] /\ Tell(h)
        /\ UNCHANGED <<sock, table, freeIds, accepter, reaper, failed>>
        /\ st \in DOMAIN CloseTo => Go(User, r)
        /\ st \notin DOMAIN CloseTo => UNCHANGED op
    BY <1>5 DEF CloseNext
  <2>2. PendingOnly /\ result' \in Results
    BY <1>0, <2>1, TellKeeps
  <2>3. st \in DOMAIN CloseTo => to \in {"CLOSED", "FIN_WAIT_1", "LAST_ACK"}
    BY CloseToStates
  <2>4. User \in Threads /\ User \notin Workers /\ User # Connector /\ op[User] \in Ops
    BY Names, OpOf
  <2>5. st = "ESTABLISHED" => st \in DOMAIN CloseTo
    BY CloseToStates
  <2>6. closing' \in [phase : {"none", "pending", "queue"}, todo : Seq(Objects)]
        /\ closing'.phase = closing.phase /\ closing'.todo = Tail(q)
    <3> HIDE DEF q
    <3> QED
      BY <1>0, <1>3, <2>1 DEF TypeOK
  <2> HIDE DEF h, to, q
  <2>7. st \in DOMAIN CloseTo => r \in Ops /\ r.pc = "setState" /\ r.sock = h /\ r.to = to
    BY <1>3, <2>3, <2>4 DEF Ops, Pcs, States
  <2> HIDE DEF r, st
  <2>8. st \in DOMAIN CloseTo => OpSound(User, r)
    BY <1>3, <2>3, <2>7 DEF OpSound, Dead
  <2>9. /\ op' \in [Threads -> Ops] /\ OpsSound'
        /\ \A u \in Threads : u # User => op'[u] = op[u]
        /\ op'[User].pc # "emplace"
        /\ st \in DOMAIN CloseTo => op'[User] = r
    <3>1. CASE st \in DOMAIN CloseTo
      BY <1>0, <2>1, <2>4, <2>7, <2>8, <3>1, OpMoved
    <3>2. CASE st \notin DOMAIN CloseTo
      BY <1>0, <1>1, <2>1, <3>2, Types DEF OpsSound
    <3> QED
      BY <3>1, <3>2
  <2>10. NoOrphan'
    <3> SUFFICES ASSUME NEW o \in Objects, sock[o].state = "ESTABLISHED", sock[o].sess \in Peers
                 PROVE  \/ o \in ToSet(listener.queue) \cup accepter.got \cup ToSet(Tail(q))
                        \/ \E w \in Workers : op'[w].sock = o /\ op'[w].pc \in {"unpend", "push"}
                        \/ op'[User].sock = o /\ op'[User].pc = "setState"
      BY <2>1, <2>2, <2>6 DEF NoOrphan, PendingOnly
    <3>1. CASE o = h
      BY <2>5, <2>7, <2>9, <3>1 DEF st
    <3>2. CASE o # h
      <4>1. \A w \in Workers : op'[w] = op[w]
        BY <2>4, <2>9, Names
      <4>2. op[User].pc # "setState"
        BY <1>1
      <4> QED
        BY <1>0, <1>1, <1>3, <3>2, <4>1, <4>2 DEF NoOrphan, q
    <3> QED
      BY <3>1, <3>2
  <2>11. NoLostAccept'
    BY <1>0, <1>1, <2>1, <2>2, <2>4, <2>6, <2>9, AcceptStay, Names DEF PendingOnly
  <2>12. closing.phase # "none"
    BY <1>0, <1>1 DEF ClosingSound, q
  <2>13. ListenerSound' /\ ClosingSound'
    BY <1>0, <2>2, <2>6, <2>12 DEF Holding, ListenerSound, ClosingSound, PendingOnly
  <2>14. accepter' \in [pc : {"idle", "asleep", "awake", "stopped"}, got : SUBSET Objects]
    BY <1>0, <2>1 DEF TypeOK
  <2>15. /\ op'[Connector] = op[Connector]
         /\ \A u \in Threads : op[u].pc = "emplace" \/ op'[u].pc = "emplace" => op'[u] = op[u]
    BY <1>1, <2>4, <2>9, Names
  <2> QED
    BY <1>1, <2>1, <2>2, <2>6, <2>9, <2>10, <2>11, <2>13, <2>14, <2>15, QueueStep DEF PendingOnly
<1> QED
  BY <1>4, <1>5

LEMMA QueueCloseStep ==
    ASSUME StackInv, QueueClose
    PROVE  StackInv'
<1>0. TypeOK /\ Holding /\ OpsSound /\ ClosingSound /\ NoOrphan /\ NoLostAccept
  BY DEF StackInv, Holding
<1>1. /\ Running /\ closing.phase = "pending" /\ closing.todo = <<>>
      /\ closing' = [phase |-> "queue", todo |-> listener.queue]
      /\ listener' = [listener EXCEPT !.queue = <<>>, !.closed = TRUE]
      /\ UNCHANGED <<sock, table, freeIds, op, result, accepter, reaper, failed>>
  BY DEF QueueClose
<1>2. <<>> \in Seq(Objects) /\ listener.queue \in Seq(Objects)
  BY <1>0, Types
<1>3. /\ listener' \in Listeners /\ listener'.queue = <<>> /\ listener'.id = listener.id
      /\ listener'.pending = listener.pending /\ listener'.state = listener.state
  BY <1>0, <1>1, <1>2, Types DEF Listeners
<1>4. /\ closing' \in [phase : {"none", "pending", "queue"}, todo : Seq(Objects)]
      /\ closing'.phase = "queue" /\ closing'.todo = listener.queue
  BY <1>1, <1>2
<1>5. ToSet(closing.todo) = {}
  BY <1>1, ToSetEmpty
<1>6. NoOrphan'
  BY <1>0, <1>1, <1>4, <1>5, OrphanStay
<1>7. NoLostAccept'
  BY <1>4 DEF NoLostAccept
<1>8. ListenerSound' /\ ClosingSound' /\ OpsSound' /\ Len(listener'.pending) <= MaxPending
  BY <1>0, <1>1, <1>3, <1>4, Types DEF Holding, ListenerSound, ClosingSound, OpsSound
<1>9. /\ accepter' \in [pc : {"idle", "asleep", "awake", "stopped"}, got : SUBSET Objects]
      /\ result' \in Results /\ op' \in [Threads -> Ops]
  BY <1>0, <1>1, Types DEF TypeOK
<1> QED
  BY <1>1, <1>3, <1>4, <1>6, <1>7, <1>8, <1>9, QueueStep

LEMMA ListenerClosedStep ==
    ASSUME StackInv, ListenerClosed
    PROVE  StackInv'
<1>0. TypeOK /\ Holding /\ OpsSound /\ ClosingSound /\ NoOrphan /\ NoLostAccept
  BY DEF StackInv, Holding
<1>1. /\ Running /\ closing.phase = "queue" /\ closing.todo = <<>>
      /\ closing' = [closing EXCEPT !.phase = "none"]
      /\ listener' = [listener EXCEPT !.state = "CLOSED"] /\ Wake
      /\ UNCHANGED <<sock, table, freeIds, op, result, reaper, failed>>
  BY DEF ListenerClosed
<1>2. /\ listener' \in Listeners /\ listener'.queue = listener.queue
      /\ listener'.id = listener.id /\ listener'.state = "CLOSED"
      /\ listener'.pending = listener.pending
  BY <1>0, <1>1, Types DEF Listeners
<1>3. /\ closing' \in [phase : {"none", "pending", "queue"}, todo : Seq(Objects)]
      /\ closing'.phase = "none" /\ closing'.todo = closing.todo
  BY <1>0, <1>1 DEF TypeOK
<1>4. /\ accepter' \in [pc : {"idle", "asleep", "awake", "stopped"}, got : SUBSET Objects]
      /\ accepter'.pc # "asleep" /\ accepter'.got = accepter.got
  BY <1>0, <1>1 DEF TypeOK, Wake
<1>5. NoOrphan'
  BY <1>0, <1>1, <1>2, <1>3, <1>4, OrphanStay
<1>6. NoLostAccept'
  BY <1>4 DEF NoLostAccept
<1>7. ListenerSound' /\ ClosingSound' /\ OpsSound' /\ Len(listener'.pending) <= MaxPending
  BY <1>0, <1>1, <1>2, <1>3, Types DEF Holding, ListenerSound, ClosingSound, OpsSound
<1>8. result' \in Results /\ op' \in [Threads -> Ops]
  BY <1>0, <1>1, Types
<1> QED
  BY <1>1, <1>2, <1>3, <1>4, <1>5, <1>6, <1>7, <1>8, QueueStep

LEMMA AcceptStep ==
    ASSUME StackInv, Accept
    PROVE  StackInv'
<1> DEFINE q == listener.queue
           h == Head(q)
           empty == listener.closed \/ q = <<>>
<1>0. TypeOK /\ Holding /\ OpsSound /\ ClosingSound /\ NoOrphan /\ NoLostAccept
  BY DEF StackInv, Holding
<1>1. Running
  BY DEF Accept
<1>2. CASE listener.state = "GONE"
  BY <1>2, DangleStep DEF Accept
<1>3. CASE listener.state # "GONE"
  <2>1. UNCHANGED <<sock, table, freeIds, op, result, closing, reaper, failed>>
    BY <1>3 DEF Accept
  <2>2. q \in Seq(Objects) /\ accepter \in [pc : {"idle", "asleep", "awake", "stopped"},
                                            got : SUBSET Objects]
    BY <1>0 DEF TypeOK
  <2>3. OpsSound' /\ result' \in Results /\ op' \in [Threads -> Ops]
        /\ closing' \in [phase : {"none", "pending", "queue"}, todo : Seq(Objects)]
    BY <1>0, <2>1, Types DEF OpsSound, TypeOK
  <2>4. CASE empty
    <3>1. /\ listener' = listener
          /\ accepter' = [accepter EXCEPT !.pc = IF listener.closed THEN "stopped" ELSE "asleep"]
      BY <1>3, <2>4 DEF Accept
    <3>2. /\ accepter' \in [pc : {"idle", "asleep", "awake", "stopped"}, got : SUBSET Objects]
          /\ accepter'.got = accepter.got
          /\ accepter'.pc = "asleep" => ~listener.closed
      BY <2>2, <3>1
    <3>3. NoOrphan'
      BY <1>0, <1>1, <2>1, <3>1, <3>2, OrphanStay
    <3>4. NoLostAccept'
      BY <2>4, <3>1, <3>2 DEF NoLostAccept
    <3>5. ListenerSound' /\ ClosingSound' /\ Len(listener'.pending) <= MaxPending
          /\ listener' \in Listeners /\ listener'.id = listener.id
      BY <1>0, <2>1, <3>1, Types DEF Holding, ListenerSound, ClosingSound
    <3> QED
      BY <1>1, <2>1, <2>3, <3>2, <3>3, <3>4, <3>5, QueueStep
  <2>5. CASE ~empty
    <3>1. /\ listener' = [listener EXCEPT !.queue = Tail(q)]
          /\ accepter' = [pc |-> "idle", got |-> accepter.got \cup {h}]
      BY <1>3, <2>5 DEF Accept
    <3>2. h \in Objects /\ Tail(q) \in Seq(Objects) /\ ToSet(q) = ToSet(Tail(q)) \cup {h}
      BY <2>2, <2>5, ToSetTail
    <3>3. ~listener.closed
      BY <2>5
    <3> HIDE DEF h, q, empty
    <3>4. /\ accepter' \in [pc : {"idle", "asleep", "awake", "stopped"}, got : SUBSET Objects]
          /\ accepter'.got = accepter.got \cup {h} /\ accepter'.pc = "idle"
      BY <2>2, <3>1, <3>2
    <3>5. /\ listener' \in Listeners /\ listener'.queue = Tail(q)
          /\ listener'.id = listener.id /\ listener'.state = listener.state
          /\ listener'.pending = listener.pending
      BY <1>0, <3>1, <3>2, Types DEF Listeners
    <3>6. NoOrphan'
      BY <1>0, <1>1, <2>1, <3>2, <3>4, <3>5, OrphanStay DEF q
    <3>7. NoLostAccept'
      BY <3>4 DEF NoLostAccept
    <3>8. ListenerSound' /\ ClosingSound' /\ Len(listener'.pending) <= MaxPending
      BY <1>0, <2>1, <3>5, Types DEF Holding, ListenerSound, ClosingSound
    <3> QED
      BY <1>1, <2>1, <2>3, <3>4, <3>5, <3>6, <3>7, <3>8, QueueStep
  <2> QED
    BY <2>4, <2>5
<1> QED
  BY <1>2, <1>3

---------------------------------------------------------------------------
(* The reaper.                                                             *)

\* The reaper's next element is one of those it has left.
LEMMA NextOne ==
    ASSUME TypeOK, reaper.todo # {}
    PROVE  Next1 \in reaper.todo /\ (Next1 # Lsn => Next1 \in Objects)
<1> DEFINE D == {IdOf(x) : x \in reaper.todo}
<1>0. /\ reaper.todo \subseteq Objects \cup {Lsn} /\ sock \in [Objects -> Socks]
      /\ listener \in Listeners
  BY Types
<1>1. ASSUME NEW x \in reaper.todo PROVE IdOf(x) \in Nat
  <2>1. listener.id \in Ids \cup {NoId} /\ (x \in Objects => sock[x].id \in Ids \cup {NoId})
    BY <1>0 DEF Socks, Listeners
  <2>2. IdOf(x) \in Ids \cup {NoId}
    <3>1. CASE x = Lsn
      BY <2>1, <3>1 DEF IdOf
    <3>2. CASE x # Lsn
      <4>1. x \in Objects /\ IdOf(x) = sock[x].id
        BY <1>0, <3>2 DEF IdOf
      <4> QED
        BY <2>1, <4>1
    <3> QED
      BY <3>1, <3>2
  <2>3. Ids \subseteq Nat /\ NoId \in Nat
    BY Names DEF NoId
  <2> QED
    BY <2>2, <2>3
<1>2. D \in SUBSET Nat /\ D # {}
  BY <1>1
<1>3. PICK x \in reaper.todo : \A y \in reaper.todo : IdOf(x) <= IdOf(y)
  <2>1. Min(D) \in D /\ \A d \in D : Min(D) <= d
    BY <1>2, MinIn
  <2> QED
    BY <2>1
<1>4. Next1 \in reaper.todo
  BY <1>3 DEF Next1
<1> QED
  BY <1>0, <1>4

\* A step of the reaper that looks and leaves everything as it is.
LEMMA LookStep ==
    ASSUME StackInv, Running,
           UNCHANGED <<sock, table, freeIds, listener, op, result, closing, accepter, failed>>,
           reaper' \in [todo : SUBSET (Objects \cup {Lsn}), locked : BOOLEAN,
                        erase : Objects \cup {NoSock}],
           reaper'.erase = reaper.erase, ReaperSound'
    PROVE  StackInv'
<1>0. TypeOK /\ Holding /\ IdsUnique /\ SessionsAgree /\ NoOrphan /\ NoLostAccept
  BY DEF StackInv
<1>1. TypeOK'
  BY <1>0 DEF TypeOK
<1>2. Holding'
  BY <1>0 DEF Holding, OpsSound, DialsOwn, DialSound, SocksSound, ListenerSound, ClosingSound
<1>3. IdsUnique' /\ SessionsAgree'
  BY <1>0, IdsStay, SessionsStay DEF Live
<1>4. NoOrphan' /\ NoLostAccept'
  BY <1>0, OrphanStay, AcceptStay
<1> QED
  BY <1>1, <1>2, <1>3, <1>4 DEF StackInv

LEMMA ReapLookStep ==
    ASSUME StackInv, ReapStart \/ ReapSkip \/ ReapEnd
    PROVE  StackInv'
<1>0. TypeOK /\ ReaperSound /\ reaper \in [todo : SUBSET (Objects \cup {Lsn}), locked : BOOLEAN,
                                           erase : Objects \cup {NoSock}]
  BY DEF StackInv, Holding, TypeOK
<1>1. CASE ReapStart
  <2> DEFINE all == {o \in Objects : Live(o)} \cup
                    (IF listener.state \in {"LISTEN", "CLOSED"} THEN {Lsn} ELSE {})
  <2>1. /\ Running /\ ~reaper.locked /\ reaper' = [reaper EXCEPT !.todo = all, !.locked = TRUE]
        /\ UNCHANGED <<sock, table, freeIds, listener, op, result, closing, accepter, failed>>
    BY <1>1 DEF ReapStart, Unlocked
  <2>2. all \in SUBSET (Objects \cup {Lsn})
    OBVIOUS
  <2> HIDE DEF all
  <2>3. /\ reaper' \in [todo : SUBSET (Objects \cup {Lsn}), locked : BOOLEAN,
                        erase : Objects \cup {NoSock}]
        /\ reaper'.erase = reaper.erase /\ reaper'.locked = TRUE
    BY <1>0, <2>1, <2>2
  <2>4. ReaperSound'
    BY <1>0, <2>1, <2>3 DEF ReaperSound
  <2> QED
    BY <2>1, <2>3, <2>4, LookStep
<1>2. CASE ReapSkip
  <2> DEFINE all == reaper.todo \ {Next1}
  <2>1. /\ Running /\ reaper.todo # {} /\ reaper.erase = NoSock
        /\ reaper' = [reaper EXCEPT !.todo = all]
        /\ UNCHANGED <<sock, table, freeIds, listener, op, result, closing, accepter, failed>>
    BY <1>2 DEF ReapSkip
  <2>2. all \in SUBSET (Objects \cup {Lsn})
    BY <1>0
  <2> HIDE DEF all
  <2>3. /\ reaper' \in [todo : SUBSET (Objects \cup {Lsn}), locked : BOOLEAN,
                        erase : Objects \cup {NoSock}]
        /\ reaper'.erase = reaper.erase /\ reaper'.locked = reaper.locked
    BY <1>0, <2>1, <2>2
  <2>4. ReaperSound'
    BY <1>0, <2>1, <2>3 DEF ReaperSound
  <2> QED
    BY <2>1, <2>3, <2>4, LookStep
<1>3. CASE ReapEnd
  <2>1. /\ Running /\ reaper.todo = {} /\ reaper' = [reaper EXCEPT !.locked = FALSE]
        /\ UNCHANGED <<sock, table, freeIds, listener, op, result, closing, accepter, failed>>
    BY <1>3 DEF ReapEnd
  <2>2. /\ reaper' \in [todo : SUBSET (Objects \cup {Lsn}), locked : BOOLEAN,
                        erase : Objects \cup {NoSock}]
        /\ reaper'.erase = reaper.erase /\ reaper'.todo = reaper.todo
    BY <1>0, <2>1
  <2>3. ReaperSound'
    BY <1>0, <2>1, <2>2 DEF ReaperSound
  <2> QED
    BY <2>1, <2>2, <2>3, LookStep
<1> QED
  BY <1>1, <1>2, <1>3

LEMMA ReapFreeStep ==
    ASSUME StackInv, ReapFree
    PROVE  StackInv'
<1> DEFINE n == Next1
           x == sock[n].sess
           k == sock[n].id
<1>0. TypeOK /\ Holding /\ SocksSound /\ ReaperSound /\ IdsUnique /\ SessionsAgree
      /\ NoOrphan /\ NoLostAccept
  BY DEF StackInv, Holding
<1>1. /\ Running /\ reaper.todo # {} /\ reaper.erase = NoSock /\ n # Lsn
      /\ table' = [table EXCEPT ![x] = NoSock] /\ freeIds' = freeIds \cup {k}
      /\ reaper' = [reaper EXCEPT !.erase = n]
      /\ UNCHANGED <<sock, listener, op, result, closing, accepter, failed>>
      /\ \E expired \in BOOLEAN : Reapable(n, expired)
  BY DEF ReapFree
<1>2. n \in reaper.todo /\ n \in Objects
  BY <1>0, <1>1, NextOne
<1> HIDE DEF n
<1>3. Live(n) /\ x \in Sessions /\ k \in Ids
  <2>1. sock[n].state \in {"CLOSED", "TIME_WAIT"}
    BY <1>1 DEF Reapable
  <2> QED
    BY <1>0, <1>2, <2>1 DEF Live, SocksSound, SockSound, Dead
<1>4. table[x] = n
  BY <1>0, <1>1, <1>2, <1>3, Names DEF SessionsAgree
<1> HIDE DEF x, k
<1>5. /\ table' \in [Sessions -> Objects \cup {NoSock}] /\ table'[x] = NoSock
      /\ \A s \in Sessions : s # x => table'[s] = table[s]
  BY <1>0, <1>1, <1>3, Types
<1>6. /\ reaper' \in [todo : SUBSET (Objects \cup {Lsn}), locked : BOOLEAN,
                      erase : Objects \cup {NoSock}]
      /\ reaper'.erase = n /\ reaper'.todo = reaper.todo /\ reaper'.locked = reaper.locked
  BY <1>0, <1>1, <1>2 DEF TypeOK
<1>7. TypeOK'
  <2>1. freeIds' \subseteq Ids
    BY <1>0, <1>1, <1>3 DEF TypeOK
  <2> QED
    BY <1>0, <1>1, <1>5, <1>6, <2>1, ZenonT(40) DEF TypeOK
<1>8. ReaperSound'
  <2>1. ASSUME NEW s \in Sessions PROVE table'[s] # n
    <3>1. CASE s = x
      BY <1>2, <1>5, <3>1, Names
    <3>2. CASE s # x
      <4>1. table[s] = n => sock[n].sess = s
        BY <1>0, <1>2, Names DEF SessionsAgree
      <4> QED
        BY <1>5, <3>2, <4>1 DEF x
    <3> QED
      BY <3>1, <3>2
  <2> QED
    BY <1>0, <1>1, <1>2, <1>6, <2>1 DEF ReaperSound
<1>9. Holding'
  BY <1>0, <1>1, <1>8
     DEF Holding, OpsSound, DialsOwn, DialSound, SocksSound, ListenerSound, ClosingSound
<1>10. IdsUnique'
  <2>1. ASSUME NEW i \in Ids PROVE Unique(i)'
    <3>1. \A o \in Objects : SockHas(i, o)' <=> SockHas(i, o) /\ o # n
      BY <1>1, <1>6, Names DEF SockHas
    <3>2. \A t \in Threads : ThreadHas(i, t)' <=> ThreadHas(i, t)
      BY <1>1 DEF ThreadHas
    <3>3. SockHas(k, n) /\ (SockHas(i, n) => i = k)
      BY <1>1, <1>2, Names DEF SockHas, k
    <3>4. Unique(i) /\ listener' = listener /\ freeIds' = freeIds \cup {k}
      BY <1>0, <1>1 DEF IdsUnique
    <3>5. CASE i = k
      BY <1>2, <3>1, <3>2, <3>3, <3>4, <3>5 DEF Unique
    <3>6. CASE i # k
      BY <3>1, <3>2, <3>3, <3>4, <3>6 DEF Unique
    <3> QED
      BY <3>5, <3>6
  <2> QED
    BY <2>1 DEF IdsUnique
<1>11. SessionsAgree'
  <2>1. ASSUME NEW s \in Sessions, table'[s] # NoSock
        PROVE  Live(table[s])' /\ sock'[table'[s]].sess = s
    <3>1. table'[s] = table[s]
      BY <1>5, <2>1
    <3> QED
      BY <1>0, <1>1, <2>1, <3>1 DEF SessionsAgree, Live
  <2>2. ASSUME NEW o \in Objects, Live(o)', reaper'.erase # o
        PROVE  table'[sock'[o].sess] = o
    <3>1. sock'[o] = sock[o] /\ Live(o) /\ reaper.erase # o /\ o # n
      BY <1>1, <1>6, <2>2, Names DEF Live
    <3>2. table[sock[o].sess] = o /\ sock[o].sess \in Sessions
      BY <1>0, <3>1 DEF SessionsAgree, SocksSound, SockSound, Live, Dead
    <3> QED
      BY <1>4, <1>5, <3>1, <3>2
  <2> QED
    BY <2>1, <2>2 DEF SessionsAgree
<1>12. NoOrphan' /\ NoLostAccept'
  BY <1>0, <1>1, OrphanStay, AcceptStay
<1> QED
  BY <1>7, <1>9, <1>10, <1>11, <1>12 DEF StackInv

LEMMA ReapEraseStep ==
    ASSUME StackInv, ReapErase
    PROVE  StackInv'
<1> DEFINE e == reaper.erase
           n == [sock[e] EXCEPT !.state = "GONE", !.id = NoId]
<1>0. TypeOK /\ Holding /\ OpsSound /\ DialsOwn /\ SocksSound /\ ReaperSound /\ IdsUnique
      /\ SessionsAgree /\ NoOrphan /\ NoLostAccept
  BY DEF StackInv, Holding
<1>1. /\ Running /\ e # NoSock /\ sock' = [sock EXCEPT ![e] = n]
      /\ reaper' = [reaper EXCEPT !.todo = reaper.todo \ {e}, !.erase = NoSock]
      /\ UNCHANGED <<table, freeIds, listener, op, result, closing, accepter, failed>>
  BY DEF ReapErase
<1>2. e \in Objects /\ sock[e] \in Socks /\ \A s \in Sessions : table[s] # e
  BY <1>0, <1>1, Types DEF ReaperSound
<1>3. n \in Socks /\ n.state = "GONE" /\ n.id = NoId /\ n.sess = sock[e].sess
  BY <1>2 DEF Socks, States
<1> HIDE DEF n
<1>4. /\ sock' \in [Objects -> Socks] /\ sock'[e] = n
      /\ \A o \in Objects : o # e => sock'[o] = sock[o]
  BY <1>0, <1>1, <1>2, <1>3, Types
<1>5. /\ reaper' \in [todo : SUBSET (Objects \cup {Lsn}), locked : BOOLEAN,
                      erase : Objects \cup {NoSock}]
      /\ reaper'.erase = NoSock /\ reaper'.todo \subseteq reaper.todo
      /\ reaper'.locked = reaper.locked
  BY <1>0, <1>1 DEF TypeOK
<1>6. TypeOK'
  BY <1>0, <1>1, <1>4, <1>5 DEF TypeOK, Socks
<1>7. Holding'
  <2>1. DialsOwn'
    <3> DEFINE c == op[Connector]
    <3>1. OpSound(Connector, c) /\ DialSound(c) /\ op'[Connector] = c
      BY <1>1, OpOf, Names
    <3> HIDE DEF c
    <3>2. c.pc \notin {"idle", "takeId", "emplace"} =>
              sock'[c.sock].sess \in Dials /\ sock'[c.sock].state # "UNBORN"
      BY <1>3, <1>4, <3>1 DEF OpSound, DialSound
    <3> QED
      BY <3>1, <3>2 DEF DialsOwn, DialSound
  <2>2. SocksSound'
    <3>1. SockSound(n)
      BY <1>3 DEF SockSound, Dead
    <3> QED
      BY <1>0, <1>4, <3>1 DEF SocksSound
  <2>3. ReaperSound'
    BY <1>0, <1>1, <1>5 DEF ReaperSound
  <2>4. OpsSound' /\ ListenerSound' /\ ClosingSound'
    BY <1>0, <1>1 DEF Holding, OpsSound, ListenerSound, ClosingSound
  <2> QED
    BY <2>1, <2>2, <2>3, <2>4 DEF Holding
<1>8. IdsUnique'
  <2>1. ASSUME NEW i \in Ids PROVE Unique(i)'
    <3>1. i # NoId
      BY Names
    <3>2. \A o \in Objects : SockHas(i, o)' <=> SockHas(i, o)
      BY <1>3, <1>4, <1>5, <3>1, Names DEF SockHas
    <3>3. \A t \in Threads : ThreadHas(i, t)' <=> ThreadHas(i, t)
      BY <1>1 DEF ThreadHas
    <3>4. Unique(i)
      BY <1>0 DEF IdsUnique
    <3> QED
      BY <1>1, <3>2, <3>3, <3>4 DEF Unique
  <2> QED
    BY <2>1 DEF IdsUnique
<1>9. SessionsAgree'
  <2>1. ASSUME NEW s \in Sessions, table'[s] # NoSock
        PROVE  Live(table[s])' /\ sock'[table'[s]].sess = s
    <3>1. table'[s] = table[s] /\ table[s] \in Objects /\ table[s] # e
      BY <1>0, <1>1, <1>2, <2>1, Types
    <3>2. sock'[table[s]] = sock[table[s]]
      BY <1>4, <3>1
    <3> QED
      BY <1>0, <2>1, <3>1, <3>2 DEF SessionsAgree, Live
  <2>2. ASSUME NEW o \in Objects, Live(o)'
        PROVE  table'[sock'[o].sess] = o
    <3>1. o # e
      BY <1>3, <1>4, <2>2 DEF Live
    <3>2. sock'[o] = sock[o] /\ Live(o)
      BY <1>4, <2>2, <3>1 DEF Live
    <3> QED
      BY <1>0, <1>1, <3>1, <3>2 DEF SessionsAgree
  <2> QED
    BY <2>1, <2>2 DEF SessionsAgree
<1>10. NoOrphan'
  <2>1. \A o \in Objects : sock'[o].state = "ESTABLISHED" => sock'[o] = sock[o]
    BY <1>3, <1>4
  <2> QED
    BY <1>0, <1>1, <2>1, OrphanStay
<1>11. NoLostAccept'
  BY <1>0, <1>1, AcceptStay
<1> QED
  BY <1>6, <1>7, <1>8, <1>9, <1>10, <1>11 DEF StackInv

\* The listener's destructor closes what workers put into its lists late.
LEMMA ReapListenerStep ==
    ASSUME StackInv, ReapListener
    PROVE  StackInv'
<1> DEFINE left == ToSet(listener.queue) \cup ToSet(listener.pending)
           k == listener.id
<1>0. TypeOK /\ Holding /\ OpsSound /\ DialsOwn /\ SocksSound /\ ListenerSound /\ ReaperSound
      /\ ClosingSound /\ IdsUnique /\ SessionsAgree /\ NoOrphan /\ NoLostAccept
  BY DEF StackInv, Holding
<1>1. CASE \E o \in left : ~Live(o)
  BY <1>1, DangleStep DEF ReapListener
<1>2. CASE ~(\E o \in left : ~Live(o))
  <2>1. /\ Running /\ reaper.todo # {} /\ reaper.erase = NoSock /\ listener.state = "CLOSED"
        /\ sock' = [o \in Objects |->
                      IF o \in left /\ sock[o].state \in DOMAIN CloseTo
                        THEN [sock[o] EXCEPT !.state = CloseTo[sock[o].state]]
                        ELSE sock[o]]
        /\ freeIds' = freeIds \cup {k}
        /\ listener' = [listener EXCEPT !.state = "GONE", !.id = NoId, !.queue = <<>>,
                                        !.pending = <<>>]
        /\ reaper' = [reaper EXCEPT !.todo = reaper.todo \ {Lsn}]
        /\ UNCHANGED <<table, op, result, closing, accepter, failed>>
    BY <1>2 DEF ReapListener
  <2>2. k \in Ids /\ closing.phase = "none"
    BY <1>0, <2>1 DEF ListenerSound, ClosingSound
  <2> HIDE DEF left, k
  <2>3. ASSUME NEW o \in Objects
        PROVE  /\ sock'[o] \in Socks /\ sock'[o].sess = sock[o].sess /\ sock'[o].id = sock[o].id
               /\ sock'[o] = sock[o] \/ /\ sock[o].state \notin Dead
                                        /\ sock'[o].state \notin Dead \cup {"ESTABLISHED"}
               /\ sock'[o].state = "ESTABLISHED" => o \notin left
    <3>1. sock[o] \in Socks
      BY <1>0, Types
    <3>2. CASE o \in left /\ sock[o].state \in DOMAIN CloseTo
      <4> DEFINE st == CloseTo[sock[o].state]
      <4>1. /\ st \in {"CLOSED", "FIN_WAIT_1", "LAST_ACK"}
            /\ sock[o].state \in {"SYN_SENT", "SYN_RECEIVED", "ESTABLISHED", "CLOSE_WAIT"}
        BY <3>2, CloseToStates
      <4>2. sock'[o] = [sock[o] EXCEPT !.state = st]
        BY <2>1, <3>2
      <4> HIDE DEF st
      <4>3. sock'[o] \in Socks /\ sock'[o].sess = sock[o].sess /\ sock'[o].id = sock[o].id
            /\ sock'[o].state = st
        BY <3>1, <4>1, <4>2 DEF Socks, States
      <4> QED
        BY <4>1, <4>3 DEF Dead
    <3>3. CASE ~(o \in left /\ sock[o].state \in DOMAIN CloseTo)
      <4>1. sock'[o] = sock[o]
        BY <2>1, <3>3
      <4>2. sock[o].state = "ESTABLISHED" => o \notin left
        BY <3>3, CloseToStates
      <4> QED
        BY <3>1, <4>1, <4>2
    <3> QED
      BY <3>2, <3>3
  <2>4. sock' \in [Objects -> Socks]
    BY <2>1, <2>3
  <2>5. /\ listener' \in Listeners /\ listener'.state = "GONE" /\ listener'.id = NoId
        /\ listener'.queue = <<>> /\ listener'.pending = <<>>
        /\ listener'.closed = listener.closed /\ Len(listener'.pending) <= MaxPending
    <3>1. <<>> \in Seq(Objects) /\ Len(<<>>) = 0 /\ MaxPending \in Nat
      BY StackAssumption, EmptySeq
    <3>2. listener \in Listeners
      BY <1>0, Types
    <3>3. /\ listener' \in Listeners /\ listener'.state = "GONE" /\ listener'.id = NoId
          /\ listener'.queue = <<>> /\ listener'.pending = <<>>
          /\ listener'.closed = listener.closed
      BY <2>1, <3>1, <3>2 DEF Listeners
    <3> QED
      BY <3>1, <3>3
  <2>6. /\ reaper' \in [todo : SUBSET (Objects \cup {Lsn}), locked : BOOLEAN,
                        erase : Objects \cup {NoSock}]
        /\ reaper'.erase = reaper.erase /\ reaper'.todo \subseteq reaper.todo
        /\ reaper'.locked = reaper.locked
    BY <1>0, <2>1 DEF TypeOK
  <2>7. TypeOK'
    BY <1>0, <2>1, <2>2, <2>4, <2>5, <2>6 DEF TypeOK, Socks, Listeners
  <2>8. Holding'
    <3>1. DialsOwn'
      <4> DEFINE c == op[Connector]
      <4>1. OpSound(Connector, c) /\ DialSound(c) /\ op'[Connector] = c
        BY <2>1, OpOf, Names
      <4> HIDE DEF c
      <4>2. c.pc \notin {"idle", "takeId", "emplace"} =>
                sock'[c.sock].sess \in Dials /\ sock'[c.sock].state # "UNBORN"
        BY <2>3, <4>1 DEF OpSound, DialSound, Dead
      <4> QED
        BY <4>1, <4>2 DEF DialsOwn, DialSound
    <3>2. SocksSound'
      BY <1>0, <2>3 DEF SocksSound, SockSound
    <3>3. ReaperSound'
      BY <1>0, <2>1, <2>6 DEF ReaperSound
    <3>4. ListenerSound' /\ ClosingSound'
      BY <1>0, <2>1, <2>2, <2>5 DEF ListenerSound, ClosingSound
    <3>5. OpsSound'
      BY <1>0, <2>1 DEF OpsSound
    <3> QED
      BY <3>1, <3>2, <3>3, <3>4, <3>5 DEF Holding
  <2>9. IdsUnique'
    <3>1. ASSUME NEW i \in Ids PROVE Unique(i)'
      <4>1. /\ \A o \in Objects : SockHas(i, o)' <=> SockHas(i, o)
            /\ \A t \in Threads : ThreadHas(i, t)' <=> ThreadHas(i, t)
        BY <2>1, <2>3, <2>6 DEF SockHas, ThreadHas
      <4>2. Unique(i) /\ i # NoId
        BY <1>0, Names DEF IdsUnique
      <4>3. CASE i = k
        BY <2>1, <2>5, <4>1, <4>2, <4>3 DEF Unique, k
      <4>4. CASE i # k
        BY <2>1, <2>5, <4>1, <4>2, <4>4 DEF Unique, k
      <4> QED
        BY <4>3, <4>4
    <3> QED
      BY <3>1 DEF IdsUnique
  <2>10. SessionsAgree'
    <3>1. \A o \in Objects : sock'[o].sess = sock[o].sess /\ (Live(o)' <=> Live(o))
      BY <2>3 DEF Live, Dead
    <3> QED
      BY <1>0, <2>1, <2>6, <3>1, SessionsStay
  <2>11. NoOrphan'
    <3> SUFFICES ASSUME NEW o \in Objects, sock'[o].state = "ESTABLISHED", sock'[o].sess \in Peers
                 PROVE  \/ o \in ToSet(listener'.queue) \cup accepter'.got \cup ToSet(closing'.todo)
                        \/ \E w \in Workers : op'[w].sock = o /\ op'[w].pc \in {"unpend", "push"}
                        \/ op'[User].sock = o /\ op'[User].pc = "setState"
      BY DEF NoOrphan
    <3>1. sock[o].state = "ESTABLISHED" /\ sock[o].sess \in Peers /\ o \notin ToSet(listener.queue)
      BY <2>3 DEF left
    <3> QED
      BY <1>0, <2>1, <3>1 DEF NoOrphan
  <2>12. NoLostAccept'
    BY <1>0, <2>1, <2>5, AcceptStay
  <2> QED
    BY <2>7, <2>8, <2>9, <2>10, <2>11, <2>12 DEF StackInv
<1> QED
  BY <1>1, <1>2

---------------------------------------------------------------------------
(* The invariant of the specification.                                     *)

LEMMA StackInit == Init => StackInv
<1> SUFFICES ASSUME Init PROVE StackInv
  OBVIOUS
<1>0. IdleOp \in Ops /\ IdleOp.pc = "idle"
  BY DEF IdleOp, Ops, Pcs, States
<1>1. /\ \A o \in Objects : sock[o] = [sess |-> "none", state |-> "UNBORN", id |-> NoId]
      /\ \A o \in Objects : sock[o].sess = "none" /\ sock[o].state = "UNBORN" /\ sock[o].id = NoId
      /\ \A s \in Sessions : table[s] = NoSock
      /\ \A t \in Threads : op[t] = IdleOp
      /\ freeIds = Ids
  BY DEF Init
<1>2. /\ listener.state = "NONE" /\ listener.id = NoId /\ listener.pending = <<>>
      /\ listener.queue = <<>> /\ listener.closed = FALSE /\ closing.phase = "none"
      /\ closing.todo = <<>> /\ accepter.pc = "idle" /\ accepter.got = {}
      /\ reaper.todo = {} /\ reaper.locked = FALSE /\ reaper.erase = NoSock
  BY DEF Init
<1>3. <<>> \in Seq(Objects) /\ Len(<<>>) = 0 /\ MaxPending \in Nat
  BY StackAssumption, EmptySeq
<1>4. TypeOK
  <2>1. sock \in [Objects -> Socks] /\ table \in [Sessions -> Objects \cup {NoSock}]
    BY DEF Init, Socks, States
  <2>2. op \in [Threads -> Ops]
    BY <1>0 DEF Init
  <2>3. listener \in Listeners /\ Len(listener.pending) <= MaxPending
    BY <1>2, <1>3 DEF Init, Listeners
  <2>4. closing \in [phase : {"none", "pending", "queue"}, todo : Seq(Objects)]
    BY <1>3 DEF Init
  <2>5. /\ accepter \in [pc : {"idle", "asleep", "awake", "stopped"}, got : SUBSET Objects]
        /\ reaper \in [todo : SUBSET (Objects \cup {Lsn}), locked : BOOLEAN,
                       erase : Objects \cup {NoSock}]
        /\ result \in Results /\ failed \in Asserts /\ freeIds \subseteq Ids
    BY DEF Init, Results, Asserts
  <2> QED
    BY <2>1, <2>2, <2>3, <2>4, <2>5 DEF TypeOK, Socks, Ops, Pcs, Listeners, Results
<1>5. Holding
  <2>1. OpsSound
    BY <1>1, IdleSound DEF OpsSound
  <2>2. DialsOwn
    BY <1>1, IdleSound, Names DEF DialsOwn
  <2>3. SocksSound
    BY <1>1, <1>4, Types DEF SocksSound, SockSound, Dead
  <2>4. ListenerSound /\ ReaperSound /\ ClosingSound
    BY <1>2 DEF ListenerSound, ReaperSound, ClosingSound
  <2> QED
    BY <2>1, <2>2, <2>3, <2>4 DEF Holding
<1>6. IdsUnique
  <2>1. ASSUME NEW i \in Ids PROVE Unique(i)
    <3>1. /\ \A o \in Objects : ~SockHas(i, o)
          /\ \A t \in Threads : ~ThreadHas(i, t)
          /\ listener.id # i /\ i \in freeIds
      BY <1>0, <1>1, <1>2, Names DEF SockHas, ThreadHas
    <3> QED
      BY <3>1 DEF Unique
  <2> QED
    BY <2>1 DEF IdsUnique
<1>7. SessionsAgree /\ NoOrphan /\ NoLostAccept
  BY <1>1, <1>2 DEF SessionsAgree, Live, NoOrphan, NoLostAccept
<1> QED
  BY <1>4, <1>5, <1>6, <1>7 DEF StackInv

LEMMA StackNext == StackInv /\ [Next]_vars => StackInv'
<1> SUFFICES ASSUME StackInv, [Next]_vars PROVE StackInv'
  OBVIOUS
<1>1. CASE VListen
  BY <1>1, VListenStep
<1>2. ASSUME NEW w \in Workers, Worker(w) PROVE StackInv'
  <2>1. ASSUME NEW s \in Peers, GetSyn(w, s) PROVE StackInv'
    BY <2>1, GetSynStep
  <2>2. ASSUME NEW s \in Sessions, NEW ev \in {"ACK", "FIN", "SYNACK"}, GetPacket(w, s, ev)
        PROVE  StackInv'
    BY <2>2, GetPacketStep
  <2>3. CASE SendSynAck(w) \/ Unpend(w) \/ Push(w) \/ Notify(w) \/ OnSynAck(w)
    BY <2>3, SendSynAckStep, UnpendStep, PushStep, NotifyStep, OnSynAckStep
  <2> QED
    BY <1>2, <2>1, <2>2, <2>3 DEF Worker
<1>3. ASSUME NEW s \in Dials, Dial(s) PROVE StackInv'
  BY <1>3, DialStep
<1>4. ASSUME NEW t \in Threads, TakeId(t) \/ Emplace(t) \/ SetState(t) PROVE StackInv'
  BY <1>4, TakeIdStep, EmplaceStep, SetStateStep
<1>5. CASE SendSyn \/ Connected \/ CheckSynSent
  BY <1>5, SendSynStep, ConnectedStep, CheckSynSentStep
<1>6. ASSUME NEW o \in Objects, VClose(o) \/ VAbort(o) PROVE StackInv'
  BY <1>6, CloseStep
<1>7. CASE ListenerClose \/ CloseNext \/ QueueClose \/ ListenerClosed
  BY <1>7, ListenerCloseStep, CloseNextStep, QueueCloseStep, ListenerClosedStep
<1>8. CASE Accept
  BY <1>8, AcceptStep
<1>9. CASE Reaper
  <2>1. CASE ReapStart \/ ReapSkip \/ ReapEnd
    BY <2>1, ReapLookStep
  <2>2. CASE ReapFree \/ ReapErase \/ ReapListener
    BY <2>2, ReapFreeStep, ReapEraseStep, ReapListenerStep
  <2> QED
    BY <1>9, <2>1, <2>2 DEF Reaper
<1>10. CASE UNCHANGED vars
  <2>0. UNCHANGED <<sock, table, freeIds, listener, op, result, closing, accepter, reaper, failed>>
    BY <1>10 DEF vars
  <2>1. TypeOK' /\ Holding'
    BY <2>0 DEF StackInv, TypeOK, Holding, OpsSound, DialsOwn, DialSound, SocksSound,
                ListenerSound, ReaperSound, ClosingSound
  <2>2. IdsUnique' /\ SessionsAgree'
    BY <2>0, IdsStay, SessionsStay DEF StackInv, Live
  <2>3. NoOrphan' /\ NoLostAccept'
    BY <2>0 DEF StackInv, NoOrphan, NoLostAccept, Running
  <2> QED
    BY <2>1, <2>2, <2>3 DEF StackInv
<1> QED
  BY <1>1, <1>2, <1>3, <1>4, <1>5, <1>6, <1>7, <1>8, <1>9, <1>10 DEF Next

\* Every step of every thread keeps the inductive invariant of the stack.
THEOREM StackInvariant == Spec => []StackInv
<1> QED
  BY StackInit, StackNext, PTL DEF Spec

\* Types, and the pending list within MAX_PENDING_SOCKS, in every behaviour.
THEOREM StackTypeCorrect == Spec => []TypeOK
<1>1. StackInv => TypeOK
  BY DEF StackInv
<1> QED
  BY <1>1, StackInvariant, PTL

\* createNormalSocket_, getNextSocketId_, vListen and the reaper, interleaved in
\* any order and by any number of threads, leak no id and share none, and
\* sessionToSocket_ names exactly the sockets that live: for every
\* MAX_SOCKET_FD and every number of sessions.
THEOREM TablesConsistent == Spec => []TableConsistent
<1>1. StackInv => TableConsistent
  <2> SUFFICES ASSUME StackInv PROVE TableConsistent
    OBVIOUS
  <2>1. ASSUME NEW i \in Ids PROVE Cardinality(IdHolders(i)) = 1
    BY OneHolder DEF StackInv, IdsUnique
  <2> QED
    BY <2>1 DEF StackInv, SessionsAgree, TableConsistent
<1> QED
  BY <1>1, StackInvariant, PTL

\* An ESTABLISHED connection that a peer opened is always known to vAccept,
\* to the worker that pushes it or to the thread that closes it: closing the
\* listener while workers still establish connections forgets none.
THEOREM NoConnectionOrphaned == Spec => []NoOrphan
<1>1. StackInv => NoOrphan
  BY DEF StackInv
<1> QED
  BY <1>1, StackInvariant, PTL

\* A thread asleep in vAccept misses neither a push nor the close, although
\* both notify after they have released queueMutex.
THEOREM NoAcceptLost == Spec => []NoLostAccept
<1>1. StackInv => NoLostAccept
  BY DEF StackInv
<1> QED
  BY <1>1, StackInvariant, PTL
=============================================================================
