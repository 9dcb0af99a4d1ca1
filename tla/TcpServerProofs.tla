--------------------------- MODULE TcpServerProofs ---------------------------
(***************************************************************************)
(* Proofs about TcpServer, for any clients, requests, contexts and queues. *)
(*                                                                         *)
(* A request is followed by its number on the whole of its way: from the   *)
(* wire through the handler of a pool thread, NetLogic's queue, its        *)
(* thread, the session's queue and its write thread to the client.         *)
(***************************************************************************)
EXTENDS TcpServer, SequenceTheorems, TLAPS

-----------------------------------------------------------------------------
(* Types.                                                                  *)
Texts    == Seq(Units) \ {<<>>}
Requests == [session : Sessions, data : Texts]
Answers  == [size : Nat, data : Texts]
Handlers == [session : Sessions, in : {"parse", "push"}, data : Texts]

Reads0 == [what : {"nothing", "header", "data", "freed"}, count : Nat]
OneOrNone(S) == {q \in Seq(S) : Len(q) <= 1}

ServerTypes ==
    /\ server \in {"running", "stopped", "destroyed", "deadlocked"}
    /\ accept \in {"listen", "insert"}
    /\ pending \in Nat \ {0}
    /\ _sessions \subseteq Sessions
    /\ _is_closed \in [Sessions -> BOOLEAN]

ClientTypes ==
    /\ peer \in [Sessions -> {"none", "up", "gone"}]
    /\ sent \in [Sessions -> Nat]
    /\ \A s \in Sessions : sent[s] <= Len(Sizes[s])
    /\ written \in [Sessions -> Seq(Answers)]

ReaderTypes ==
    /\ wire \in [Sessions -> Seq(Units)]
    /\ reading \in [Sessions -> Reads0]
    /\ io \in [Contexts -> OneOrNone(Handlers)]
    /\ \A c \in Contexts : io[c] # <<>> => Context(io[c][1].session) = c
    /\ _header \in [Sessions -> [FileSize : Nat, Data : Nat]]
    /\ raced \subseteq Sessions

LogicTypes ==
    /\ logicQueue \in Seq(Requests) /\ Len(logicQueue) <= LogicCapacity
    /\ logic \in [at : {"pop", "find", "send", "join"}, msgs : OneOrNone(Requests)]
    /\ (logic.at = "pop") <=> (logic.msgs = <<>>)

WriterTypes ==
    /\ _queue_send \in [Sessions -> Seq(Requests)]
    /\ writer \in [Sessions -> [at : {"none", "pop", "header", "write", "end"},
                                msgs : OneOrNone(Requests)]]
    /\ \A s \in Sessions :
          /\ Len(_queue_send[s]) <= SendCapacity
          /\ (writer[s].at \in {"header", "write"}) <=> (writer[s].msgs # <<>>)

Types == ServerTypes /\ ClientTypes /\ ReaderTypes /\ LogicTypes /\ WriterTypes

-----------------------------------------------------------------------------
(* The life of the server and of its sessions.  A session that is not      *)
(* accepted yet is untouched; a handler that answers found its session.    *)
Found(m) == m.session \in _sessions \/ server = "destroyed"

ServerInv ==
    /\ server = "destroyed" => accept = "listen"
    /\ accept = "insert" => pending \in Sessions
    /\ \A s \in Sessions :
          s >= pending /\ ~(accept = "insert" /\ s = pending) => peer[s] = "none"
    /\ \A s \in Sessions :
          /\ peer[s] = "none" => sent[s] = 0 /\ (server = "destroyed" \/ reading[s] = NoRead)
          /\ reading[s].what = "freed" => server = "destroyed"
    /\ logic.at = "send" => Found(logic.msgs[1])
    /\ logic.at = "join" => server = "destroyed"

-----------------------------------------------------------------------------
(* The wire: from any unit on the rest of its request follows, and then    *)
(* the header of the next one.                                             *)
Left(s, u) == Sizes[s][u.n] - u.i

UnitOK(s, w, n, j) ==
    LET u    == w[j]
        last == j + Left(s, u)
    IN  /\ u.n \in 1..n /\ u.i \in 0..Sizes[s][u.n]
        /\ last <= Len(w)
        /\ \A k \in j..last : w[k] = Unit(u.n, u.i + (k - j))
        /\ last < Len(w) => w[last + 1] = Unit(u.n + 1, 0)
        /\ last = Len(w) => u.n = n

WireOK(s, w, n) ==
    /\ \A j \in DOMAIN w : UnitOK(s, w, n, j)
    /\ \A j, k \in DOMAIN w : j < k /\ w[k].i = 0 => w[j].n < w[k].n

WireInv(s) == WireOK(s, wire[s], sent[s])

-----------------------------------------------------------------------------
(* The reader.                                                             *)
Hand(s) == IF io[Context(s)] # <<>> /\ io[Context(s)][1].session = s
           THEN io[Context(s)] ELSE <<>>

Parsing(s) == Hand(s) # <<>> /\ Hand(s)[1].in = "parse"
Pushes(s)  == Hand(s) # <<>> /\ Hand(s)[1].in = "push"

(* The data of a request is in front, its header has been read.            *)
Body(s) == wire[s] # <<>> /\ wire[s][1].i = 1

(* The units of the request in front are read as one, as long as the       *)
(* session's _header was the reader's alone.                               *)
Framed(s) ==
    /\ Parsing(s) => _header[s].FileSize = Sizes[s][wire[s][1].n]
    /\ reading[s].what = "data" => reading[s].count = Sizes[s][wire[s][1].n]
    /\ reading[s].what = "header" \/ Pushes(s) => wire[s] = <<>> \/ wire[s][1].i = 0

ReaderInv(s) ==
    /\ Hand(s) # <<>> => reading[s].what \in {"nothing", "freed"}
    /\ Parsing(s) => /\ Body(s) /\ _header[s].FileSize > 0
                     /\ Hand(s)[1].data = <<Unit(wire[s][1].n, 0)>>
    /\ reading[s].what = "data" => Body(s) /\ reading[s].count > 0
    /\ reading[s].what = "header" => reading[s].count = 1
    /\ Parsing(s) /\ writer[s].at = "write" => s \in raced
    /\ s \notin raced => Framed(s)

-----------------------------------------------------------------------------
(* The way of the requests of s.                                           *)
Nums(s, q)   == {Number(q[k]) : k \in {j \in DOMAIN q : q[j].session = s}}
Rising(s, q) == \A j, k \in DOMAIN q :
                   j < k /\ q[j].session = s /\ q[k].session = s => Number(q[j]) < Number(q[k])
Intact(s, q) == \A k \in DOMAIN q :
                   q[k].session = s => q[k].data = Request(s, Number(q[k]))

Handed(s) == IF Pushes(s) THEN Hand(s) ELSE <<>>
Line(s)   == {writer[s].msgs, _queue_send[s], InLogic, logicQueue, Handed(s)}

(* The numbers of the requests whose header has not been read, or whose    *)
(* data is to be read.                                                     *)
Headers(w) == {w[j].n : j \in {j \in DOMAIN w : w[j].i = 0}}
Coming(s)  == Headers(wire[s]) \union
                 (IF Parsing(s) \/ reading[s].what = "data" THEN {wire[s][1].n} ELSE {})

Answered(s) == {Number(written[s][k]) : k \in DOMAIN written[s]}

Places(s) == <<Answered(s), Nums(s, writer[s].msgs), Nums(s, _queue_send[s]),
               Nums(s, InLogic), Nums(s, logicQueue), Nums(s, Handed(s)), Coming(s)>>

Ordered(P) == \A i, j \in 1..7 : i < j => \A a \in P[i], b \in P[j] : a < b

OrderInv(s) ==
    /\ \A i \in 1..7 : Places(s)[i] \subseteq 1..sent[s]
    /\ Ordered(Places(s))
    /\ \A q \in Line(s) : Rising(s, q)
    /\ \A j, k \in DOMAIN written[s] : j < k => Number(written[s][j]) < Number(written[s][k])
    /\ \A k \in DOMAIN written[s] : k <= Number(written[s][k])

(* Nothing is left out on the way back once a request was found.           *)
AllOf(P)    == UNION {P[i] : i \in 1..6}
Handling(s) == AllOf(Places(s))
Upcoming(s) == IF wire[s] = <<>> THEN sent[s] + 1 ELSE wire[s][1].n

GapInv(s) ==
    /\ s \notin raced /\ peer[s] = "up" /\ server # "destroyed" =>
          \A a \in Handling(s) : /\ a < Upcoming(s)
                                 /\ a..(Upcoming(s) - 1) \subseteq Handling(s)
    /\ s \notin _sessions /\ server # "destroyed" =>
          \A i \in 1..3 : Places(s)[i] = {}

ContentInv(s) ==
    /\ \A m \in ToSet(_queue_send[s]) : m.session = s
    /\ \A m \in ToSet(writer[s].msgs) : m.session = s
    /\ s \notin raced =>
          /\ \A q \in Line(s) : Intact(s, q)
          /\ \A frame \in ToSet(written[s]) :
                /\ frame.data = Request(s, Number(frame))
                /\ frame.size = ReplySize(frame)
          /\ writer[s].at = "write" => _header[s].Data = ReplySize(writer[s].msgs[1])

SessionInv(s) == WireInv(s) /\ ReaderInv(s) /\ OrderInv(s) /\ GapInv(s) /\ ContentInv(s)

IInv == Types /\ ServerInv /\ \A s \in Sessions : SessionInv(s)

-----------------------------------------------------------------------------
(* Sequences of messages.                                                  *)
LEMMA NoneOrOne ==
    ASSUME NEW S, NEW q \in OneOrNone(S), q # <<>>
    PROVE  /\ q[1] \in S /\ q = <<q[1]>> /\ Len(q) = 1 /\ DOMAIN q = {1}
           /\ Head(q) = q[1]
<1>1. q \in Seq(S) /\ Len(q) <= 1
  BY DEF OneOrNone
<1>2. Len(q) = 1 /\ q[1] \in S /\ DOMAIN q = 1..1
  <2>1. Len(q) \in Nat /\ Len(q) # 0 /\ DOMAIN q = 1..Len(q)
    BY <1>1, EmptySeq, LenProperties
  <2>2. Len(q) = 1
    BY <1>1, <2>1
  <2> QED  BY <1>1, <2>1, <2>2, ElementOfSeq
<1>3. Len(<<q[1]>>) = 1 /\ <<q[1]>>[1] = q[1]
  OBVIOUS
<1>4. q = <<q[1]>>
  BY <1>1, <1>2, <1>3, SeqEqual
<1> QED  BY <1>2, <1>4

LEMMA OneIs ==
    ASSUME NEW S
    PROVE  /\ <<>> \in OneOrNone(S)
           /\ \A x \in S : <<x>> \in OneOrNone(S) /\ <<x>> # <<>> /\ <<x>>[1] = x
  BY DEF OneOrNone

LEMMA ToSetOf ==
    ASSUME NEW S, NEW q \in Seq(S)
    PROVE  /\ ToSet(q) \subseteq S
           /\ \A x : x \in ToSet(q) <=> \E k \in 1..Len(q) : q[k] = x
  BY LenProperties, ElementOfSeq DEF ToSet

(* What a message put at the end, or taken from the front, changes.        *)
LEMMA Put ==
    ASSUME NEW S, NEW s, NEW q \in Seq(S), NEW m \in S, Rising(s, q),
           m.session = s => \A n \in Nums(s, q) : n < Number(m)
    PROVE  /\ Rising(s, Append(q, m))
           /\ Nums(s, Append(q, m)) = Nums(s, q) \union
                 (IF m.session = s THEN {Number(m)} ELSE {})
<1> DEFINE n == Len(q) + 1
           r == Append(q, m)
<1>1. /\ Len(q) \in Nat /\ DOMAIN q = 1..Len(q) /\ DOMAIN r = 1..n
      /\ r[n] = m /\ \A k \in 1..Len(q) : r[k] = q[k]
  BY LenProperties, AppendProperties
<1> HIDE DEF r
<1>2. Rising(s, r)
  <2> SUFFICES ASSUME NEW j \in DOMAIN r, NEW k \in DOMAIN r,
                      j < k, r[j].session = s, r[k].session = s
               PROVE  Number(r[j]) < Number(r[k])
    BY DEF Rising
  <2>1. j \in 1..Len(q) /\ r[j] = q[j]
    BY <1>1
  <2>2. CASE k = n
    <3>1. Number(q[j]) \in Nums(s, q)
      BY <1>1, <2>1 DEF Nums
    <3> QED  BY <1>1, <2>1, <2>2, <3>1
  <2>3. CASE k \in 1..Len(q)
    BY <1>1, <2>1, <2>3 DEF Rising
  <2> QED  BY <1>1, <2>2, <2>3
<1>3. \A k \in DOMAIN r : k = n \/ k \in DOMAIN q
  BY <1>1
<1>4. \A k \in DOMAIN q : k \in DOMAIN r
  BY <1>1
<1>5. n \in DOMAIN r
  BY <1>1
<1>6. Nums(s, r) = Nums(s, q) \union (IF m.session = s THEN {Number(m)} ELSE {})
  BY <1>1, <1>3, <1>4, <1>5 DEF Nums
<1> QED  BY <1>2, <1>6 DEF r

LEMMA PutIntact ==
    ASSUME NEW S, NEW s, NEW q \in Seq(S), NEW m \in S, Intact(s, q),
           m.session = s => m.data = Request(s, Number(m))
    PROVE  Intact(s, Append(q, m))
<1>1. /\ Len(q) \in Nat /\ DOMAIN q = 1..Len(q)
      /\ DOMAIN Append(q, m) = 1..(Len(q) + 1) /\ Append(q, m)[Len(q) + 1] = m
      /\ \A k \in 1..Len(q) : Append(q, m)[k] = q[k]
  BY LenProperties, AppendProperties
<1> QED  BY <1>1 DEF Intact

LEMMA Taken ==
    ASSUME NEW S, NEW s, NEW q \in Seq(S), q # <<>>, Rising(s, q),
           \A x \in S : Number(x) \in Nat
    PROVE  /\ Head(q) \in S /\ Tail(q) \in Seq(S) /\ Len(Tail(q)) = Len(q) - 1
           /\ Rising(s, Tail(q))
           /\ Nums(s, Tail(q)) = Nums(s, q) \
                 (IF Head(q).session = s THEN {Number(Head(q))} ELSE {})
           /\ Head(q).session = s => /\ Number(Head(q)) \in Nums(s, q)
                                     /\ \A n \in Nums(s, Tail(q)) : Number(Head(q)) < n
           /\ Intact(s, q) => /\ Intact(s, Tail(q))
                              /\ Head(q).session = s => Head(q).data = Request(s, Number(Head(q)))
<1> DEFINE r == Tail(q)
<1>1. /\ Len(q) \in Nat \ {0} /\ DOMAIN q = 1..Len(q) /\ q[1] = Head(q)
      /\ r \in Seq(S) /\ Len(r) = Len(q) - 1 /\ DOMAIN r = 1..(Len(q) - 1)
      /\ \A k \in 1..(Len(q) - 1) : r[k] = q[k + 1]
      /\ \A k \in 1..Len(q) : q[k] \in S
  BY LenProperties, HeadTailProperties, EmptySeq, ElementOfSeq
<1> HIDE DEF r
<1>2. \A k \in DOMAIN r : k + 1 \in DOMAIN q /\ r[k] = q[k + 1] /\ 1 < k + 1
  BY <1>1
<1>3. \A k \in DOMAIN q : k = 1 \/ (k - 1 \in DOMAIN r /\ r[k - 1] = q[k])
  BY <1>1
<1>4. Rising(s, r)
  <2> SUFFICES ASSUME NEW j \in DOMAIN r, NEW k \in DOMAIN r,
                      j < k, r[j].session = s, r[k].session = s
               PROVE  Number(r[j]) < Number(r[k])
    BY DEF Rising
  <2>1. j + 1 \in DOMAIN q /\ k + 1 \in DOMAIN q /\ j + 1 < k + 1
        /\ r[j] = q[j + 1] /\ r[k] = q[k + 1]
    BY <1>1, <1>2
  <2> QED  BY <2>1 DEF Rising
<1>5. Head(q).session = s => \A n \in Nums(s, r) : Number(Head(q)) < n
  <2> SUFFICES ASSUME Head(q).session = s, NEW k \in DOMAIN r, r[k].session = s
               PROVE  Number(Head(q)) < Number(r[k])
    BY DEF Nums
  <2>1. k + 1 \in DOMAIN q /\ 1 < k + 1 /\ 1 \in DOMAIN q /\ r[k] = q[k + 1]
    BY <1>1, <1>2
  <2> QED  BY <1>1, <2>1 DEF Rising
<1>6. 1 \in DOMAIN q
  BY <1>1
<1>7. Nums(s, q) = Nums(s, r) \union (IF Head(q).session = s THEN {Number(Head(q))} ELSE {})
  BY <1>1, <1>2, <1>3, <1>6 DEF Nums
<1>8. Number(Head(q)) \in Nat
  BY <1>1, <1>6
<1>9. Head(q).session = s => Number(Head(q)) \notin Nums(s, r)
  BY <1>5, <1>8
<1>10. Nums(s, r) = Nums(s, q) \ (IF Head(q).session = s THEN {Number(Head(q))} ELSE {})
  BY <1>7, <1>9
<1>11. Head(q).session = s => Number(Head(q)) \in Nums(s, q)
  BY <1>7
<1>12. Intact(s, q) => /\ Intact(s, r)
                       /\ Head(q).session = s => Head(q).data = Request(s, Number(Head(q)))
  BY <1>1, <1>2, <1>6 DEF Intact
<1>13. Head(q) \in S
  BY <1>1
<1> QED  BY <1>1, <1>4, <1>5, <1>10, <1>11, <1>12, <1>13 DEF r

LEMMA Joined ==
    ASSUME NEW S, NEW a \in Seq(S), NEW b \in Seq(S)
    PROVE  /\ a \o b \in Seq(S) /\ Len(a \o b) = Len(a) + Len(b)
           /\ DOMAIN (a \o b) = 1..(Len(a) + Len(b))
           /\ \A i \in 1..Len(a) : (a \o b)[i] = a[i]
           /\ \A i \in 1..Len(b) : (a \o b)[Len(a) + i] = b[i]
<1> DEFINE c == a \o b
<1>1. /\ c \in Seq(S) /\ Len(c) = Len(a) + Len(b)
      /\ \A i \in 1..(Len(a) + Len(b)) : c[i] = IF i <= Len(a) THEN a[i] ELSE b[i - Len(a)]
  BY ConcatProperties
<1>2. Len(a) \in Nat /\ Len(b) \in Nat /\ DOMAIN c = 1..Len(c)
  BY <1>1, LenProperties
<1> HIDE DEF c
<1>3. \A i \in 1..Len(a) : c[i] = a[i]
  BY <1>1, <1>2
<1>4. ASSUME NEW i \in 1..Len(b) PROVE c[Len(a) + i] = b[i]
  <2>1. /\ Len(a) + i \in 1..(Len(a) + Len(b)) /\ ~(Len(a) + i <= Len(a))
        /\ (Len(a) + i) - Len(a) = i
    BY <1>2
  <2> QED  BY <1>1, <2>1
<1> QED  BY <1>1, <1>2, <1>3, <1>4 DEF c

-----------------------------------------------------------------------------
(* Numbers that go from place to place.                                    *)
LEMMA OrderShrinks ==
    ASSUME NEW P, NEW Q, Ordered(P), \A i \in 1..7 : Q[i] \subseteq P[i]
    PROVE  Ordered(Q)
  BY DEF Ordered

(* The first of a place goes to the end of the place before it.            *)
LEMMA OrderMoves ==
    ASSUME NEW P, NEW Q, Ordered(P), \A i \in 1..7 : P[i] \subseteq Nat,
           NEW k \in 1..6, NEW x \in P[k + 1], \A y \in Q[k + 1] : x < y,
           Q[k] \subseteq P[k] \union {x},
           \A i \in 1..7 : i # k => Q[i] \subseteq P[i]
    PROVE  Ordered(Q)
<1> SUFFICES ASSUME NEW i \in 1..7, NEW j \in 1..7, i < j, NEW a \in Q[i], NEW b \in Q[j]
             PROVE  a < b
  BY DEF Ordered
<1>1. \A m \in 1..7 : Q[m] \subseteq P[m] \union {x}
  OBVIOUS
<1>2. CASE i = k /\ a = x
  <2>1. CASE j = k + 1
    BY <1>2, <2>1
  <2>2. CASE j # k + 1
    <3>1. k + 1 \in 1..7 /\ k + 1 < j /\ b \in P[j]
      BY <1>2, <2>2
    <3> QED  BY <1>2, <3>1 DEF Ordered
  <2> QED  BY <2>1, <2>2
<1>3. CASE j = k /\ b = x
  <2>1. k + 1 \in 1..7 /\ i < k + 1 /\ a \in P[i]
    BY <1>3
  <2> QED  BY <1>3, <2>1 DEF Ordered
<1>4. CASE a \in P[i] /\ b \in P[j]
  BY <1>4 DEF Ordered
<1> QED  BY <1>2, <1>3, <1>4

(* A number after all others comes to the last place.                      *)
LEMMA OrderJoins ==
    ASSUME NEW P, NEW Q, Ordered(P), NEW n, \A i \in 1..7 : \A a \in P[i] : a < n,
           Q[7] \subseteq P[7] \union {n}, \A i \in 1..6 : Q[i] \subseteq P[i]
    PROVE  Ordered(Q)
<1> SUFFICES ASSUME NEW i \in 1..7, NEW j \in 1..7, i < j, NEW a \in Q[i], NEW b \in Q[j]
             PROVE  a < b
  BY DEF Ordered
<1>1. i \in 1..6 /\ a \in P[i]
  OBVIOUS
<1>2. b \in P[j] \/ b = n
  <2>1. j \in 1..6 \/ j = 7
    OBVIOUS
  <2> QED  BY <2>1
<1> QED  BY <1>1, <1>2 DEF Ordered

-----------------------------------------------------------------------------
(* The wire.                                                               *)
LEMMA SizeOf ==
    ASSUME NEW s \in Sessions, NEW k \in 1..Len(Sizes[s])
    PROVE  Sizes[s][k] \in Nat \ {0} /\ Request(s, k) \in Seq(Units)
           /\ Len(Request(s, k)) = Sizes[s][k]
           /\ \A j \in 1..Sizes[s][k] : Request(s, k)[j] = Unit(k, j)
<1>1. Sizes[s] \in Seq(Nat \ {0}) /\ Len(Sizes[s]) \in Nat
  BY SizesAssumption, LenProperties
<1>2. Sizes[s][k] \in Nat \ {0} /\ k \in Nat
  BY <1>1, ElementOfSeq
<1>3. \A j \in 1..Sizes[s][k] : Unit(k, j) \in Units
  BY <1>2 DEF Unit, Units
<1>4. /\ Request(s, k) \in Seq(Units) /\ Len(Request(s, k)) = Sizes[s][k]
      /\ \A j \in 1..Sizes[s][k] : Request(s, k)[j] = Unit(k, j)
  BY <1>2, <1>3, IsASeq DEF Request
<1> QED  BY <1>2, <1>4

(* Any unit on the wire, and the ones after it.                            *)
LEMMA UnitOf ==
    ASSUME NEW s \in Sessions, NEW w \in Seq(Units), NEW n \in Nat, n <= Len(Sizes[s]),
           WireOK(s, w, n), NEW j \in 1..Len(w)
    PROVE  /\ w[j].n \in 1..n /\ w[j].n \in 1..Len(Sizes[s])
           /\ w[j].n \in Nat /\ w[j].i \in Nat
           /\ w[j] = Unit(w[j].n, w[j].i)
           /\ Sizes[s][w[j].n] \in Nat \ {0} /\ w[j].i <= Sizes[s][w[j].n]
<1>1. Len(w) \in Nat /\ DOMAIN w = 1..Len(w) /\ w[j] \in Units
  BY LenProperties, ElementOfSeq
<1>2. w[j].n \in 1..n /\ w[j].i \in 0..Sizes[s][w[j].n]
  BY <1>1 DEF WireOK, UnitOK
<1>3. Len(Sizes[s]) \in Nat
  BY SizesAssumption, LenProperties
<1>4. w[j].n \in 1..Len(Sizes[s])
  BY <1>2, <1>3
<1>5. Sizes[s][w[j].n] \in Nat \ {0}
  BY <1>4, SizeOf
<1>6. w[j] = Unit(w[j].n, w[j].i) /\ w[j].n \in Nat /\ w[j].i \in Nat
  BY <1>1 DEF Units, Unit
<1> QED  BY <1>2, <1>4, <1>5, <1>6

LEMMA Dropped ==
    ASSUME NEW w \in Seq(Units), NEW d \in 0..Len(w)
    PROVE  LET v == SubSeq(w, d + 1, Len(w))
           IN  /\ v \in Seq(Units) /\ Len(v) = Len(w) - d /\ DOMAIN v = 1..(Len(w) - d)
               /\ \A j \in 1..(Len(w) - d) : v[j] = w[j + d]
<1>1. Len(w) \in Nat
  BY LenProperties
<1>2. SubSeq(w, d + 1, Len(w)) \in Seq(Units)
  BY <1>1, SubSeqProperties
<1> QED  BY <1>1, <1>2, SubSeqProperties, LenProperties

LEMMA WireDrops ==
    ASSUME NEW s \in Sessions, NEW w \in Seq(Units), NEW n \in Nat, n <= Len(Sizes[s]),
           WireOK(s, w, n), NEW d \in 0..Len(w)
    PROVE  WireOK(s, SubSeq(w, d + 1, Len(w)), n)
<1> DEFINE v == SubSeq(w, d + 1, Len(w))
<1>1. /\ v \in Seq(Units) /\ Len(v) = Len(w) - d /\ DOMAIN v = 1..(Len(w) - d)
      /\ \A j \in 1..(Len(w) - d) : v[j] = w[j + d]
      /\ Len(w) \in Nat /\ DOMAIN w = 1..Len(w)
  BY Dropped, LenProperties
<1> HIDE DEF v
<1>2. ASSUME NEW j \in DOMAIN v
      PROVE  UnitOK(s, v, n, j)
  <2> DEFINE u == v[j]
             l == j + d
             left == Left(s, u)
  <2>1. l \in 1..Len(w) /\ w[l] = u /\ j \in 1..(Len(w) - d)
    BY <1>1
  <2>2. /\ u.n \in 1..n /\ u.i \in 0..Sizes[s][u.n] /\ l + left <= Len(w)
        /\ \A k \in l..(l + left) : w[k] = Unit(u.n, u.i + (k - l))
        /\ l + left < Len(w) => w[l + left + 1] = Unit(u.n + 1, 0)
        /\ l + left = Len(w) => u.n = n
    BY <1>1, <2>1 DEF WireOK, UnitOK
  <2>3. left \in Nat
    <3>1. /\ Sizes[s][w[l].n] \in Nat \ {0} /\ w[l].i <= Sizes[s][w[l].n]
          /\ w[l].i \in Nat
      BY <2>1, UnitOf
    <3>2. left = Sizes[s][w[l].n] - w[l].i
      BY <2>1 DEF Left
    <3> QED  BY <3>1, <3>2
  <2> HIDE DEF u, left
  <2>4. ASSUME NEW k \in j..(j + left)
        PROVE  /\ k + d \in l..(l + left) /\ v[k] = w[k + d]
               /\ (k + d) - l = k - j
    <3>1. j \in Int /\ d \in Int /\ k \in Int /\ j <= k /\ k <= j + left /\ 1 <= j
      BY <2>1, <2>3
    <3>2. k + d \in l..(l + left) /\ (k + d) - l = k - j
      BY <2>3, <3>1
    <3>3. (j + d) + left <= Len(w) /\ Len(w) \in Nat
      BY <1>1, <2>2
    <3>4. k \in 1..(Len(w) - d)
      BY <2>3, <3>1, <3>3
    <3> QED  BY <1>1, <3>2, <3>4
  <2>5. l + left < Len(w) => v[j + left + 1] = w[l + left + 1]
    <3> SUFFICES ASSUME l + left < Len(w)
                 PROVE  j + left + 1 \in 1..(Len(w) - d) /\ j + left + 1 + d = l + left + 1
      BY <1>1
    <3>1. j \in Nat /\ d \in Nat /\ Len(w) \in Nat /\ 1 <= j
      BY <1>1, <2>1
    <3> QED  BY <2>3, <3>1
  <2>6. j + left <= Len(v)
    BY <1>1, <2>1, <2>2, <2>3
  <2>7. ASSUME NEW k \in j..(j + left)
        PROVE  v[k] = Unit(u.n, u.i + (k - j))
    <3> HIDE DEF l
    <3>1. w[k + d] = Unit(u.n, u.i + ((k + d) - l))
      BY <2>2, <2>4
    <3> QED  BY <2>4, <3>1
  <2>8. j + left < Len(v) => v[j + left + 1] = Unit(u.n + 1, 0)
    BY <1>1, <2>1, <2>2, <2>3, <2>5
  <2>9. j + left = Len(v) => u.n = n
    BY <1>1, <2>1, <2>2, <2>3
  <2> QED  BY <2>2, <2>6, <2>7, <2>8, <2>9 DEF u, left, UnitOK
<1>3. ASSUME NEW j \in DOMAIN v, NEW k \in DOMAIN v, j < k, v[k].i = 0
      PROVE  v[j].n < v[k].n
  <2>1. /\ j + d \in DOMAIN w /\ k + d \in DOMAIN w /\ j + d < k + d
        /\ v[j] = w[j + d] /\ v[k] = w[k + d]
    BY <1>1, <1>3
  <2> QED  BY <1>3, <2>1 DEF WireOK, UnitOK
<1> QED  BY <1>2, <1>3 DEF WireOK, v

Longer(s, w, k) == w \o <<Unit(k, 0)>> \o Request(s, k)

LEMMA Sends ==
    ASSUME NEW s \in Sessions, NEW w \in Seq(Units), NEW k \in 1..Len(Sizes[s]), NEW v,
           v = Longer(s, w, k)
    PROVE  /\ v \in Seq(Units) /\ Len(v) = Len(w) + 1 + Sizes[s][k] /\ DOMAIN v = 1..Len(v)
           /\ \A j \in 1..Len(w) : v[j] = w[j]
           /\ \A i \in 0..Sizes[s][k] : v[Len(w) + 1 + i] = Unit(k, i)
<1> DEFINE z == Sizes[s][k]
<1>0. PICK h : h = w \o <<Unit(k, 0)>>
  OBVIOUS
<1>1. k \in Nat /\ Len(w) \in Nat /\ Len(Sizes[s]) \in Nat
  BY SizesAssumption, LenProperties
<1>2. /\ <<Unit(k, 0)>> \in Seq(Units) /\ Len(<<Unit(k, 0)>>) = 1
      /\ <<Unit(k, 0)>>[1] = Unit(k, 0)
  BY <1>1 DEF Unit, Units
<1>3. /\ Request(s, k) \in Seq(Units) /\ Len(Request(s, k)) = z /\ z \in Nat \ {0}
      /\ \A i \in 1..z : Request(s, k)[i] = Unit(k, i)
  BY SizeOf
<1>4. /\ h \in Seq(Units) /\ Len(h) = Len(w) + 1 /\ h[Len(w) + 1] = Unit(k, 0)
      /\ \A j \in 1..Len(w) : h[j] = w[j]
  BY <1>0, <1>2, Joined
<1>r. PICK q : q = Request(s, k)
  OBVIOUS
<1> HIDE DEF z
<1>5. /\ v \in Seq(Units) /\ Len(v) = Len(w) + 1 + z /\ DOMAIN v = 1..Len(v)
      /\ \A j \in 1..(Len(w) + 1) : v[j] = h[j]
      /\ \A i \in 1..z : v[Len(w) + 1 + i] = Unit(k, i)
  <2>1. v = h \o q
    BY <1>0, <1>r DEF Longer
  <2>2. Len(h) + Len(q) = Len(w) + 1 + z
    BY <1>1, <1>3, <1>4, <1>r
  <2>3. /\ h \o q \in Seq(Units)
        /\ Len(h \o q) = Len(h) + Len(q)
        /\ \A j \in 1..Len(h) : (h \o q)[j] = h[j]
        /\ \A i \in 1..Len(q) :
              (h \o q)[Len(h) + i] = q[i]
    <3>1. h \in Seq(Units)
      BY <1>4
    <3>2. q \in Seq(Units)
      BY <1>3, <1>r
    <3> QED  BY <3>1, <3>2, Joined
  <2>4. v \in Seq(Units) /\ Len(v) = Len(w) + 1 + z
    BY <2>1, <2>2, <2>3
  <2>5. \A j \in 1..(Len(w) + 1) : v[j] = h[j]
    BY <1>4, <2>1, <2>3
  <2>6. \A i \in 1..z : v[Len(w) + 1 + i] = Unit(k, i)
    BY <1>3, <1>4, <1>r, <2>1, <2>3
  <2> QED  BY <2>4, <2>5, <2>6, LenProperties
<1>6. \A j \in 1..Len(w) : v[j] = w[j]
  BY <1>1, <1>4, <1>5
<1>7. ASSUME NEW i \in 0..z PROVE v[Len(w) + 1 + i] = Unit(k, i)
  <2>1. CASE i = 0
    <3>1. Len(w) + 1 \in 1..(Len(w) + 1) /\ Len(w) + 1 + i = Len(w) + 1
      BY <1>1, <2>1
    <3> QED  BY <1>4, <1>5, <2>1, <3>1
  <2>2. CASE i # 0
    <3>1. i \in 1..z
      BY <1>3, <2>2
    <3> QED  BY <1>5, <3>1
  <2> QED  BY <2>1, <2>2
<1> QED  BY <1>5, <1>6, <1>7 DEF z

LEMMA WireGrows ==
    ASSUME NEW s \in Sessions, NEW w \in Seq(Units), NEW n \in Nat, n < Len(Sizes[s]),
           WireOK(s, w, n), NEW new, new = n + 1,
           NEW v, v = Longer(s, w, new)
    PROVE  WireOK(s, v, new)
<1> DEFINE z == Sizes[s][new]
           len == Len(w)
<1>1. new \in 1..Len(Sizes[s]) /\ n <= Len(Sizes[s]) /\ Len(Sizes[s]) \in Nat
  BY SizesAssumption, LenProperties
<1>2. z \in Nat \ {0} /\ len \in Nat /\ DOMAIN w = 1..len
  BY <1>1, SizeOf, LenProperties
<1>3. /\ Len(v) = len + 1 + z /\ DOMAIN v = 1..(len + 1 + z)
      /\ \A j \in 1..len : v[j] = w[j]
      /\ \A i \in 0..z : v[len + 1 + i] = Unit(new, i)
  <2>1. /\ Len(v) = Len(w) + 1 + Sizes[s][new] /\ DOMAIN v = 1..Len(v)
        /\ \A j \in 1..Len(w) : v[j] = w[j]
        /\ \A i \in 0..Sizes[s][new] : v[Len(w) + 1 + i] = Unit(new, i)
    <3> HIDE DEF z, len
    <3>1. new \in 1..Len(Sizes[s])
      BY <1>1
    <3> QED  BY <3>1, Sends
  <2> QED  BY <2>1
<1> HIDE DEF z, len
<1>4. \A j \in 1..(len + 1 + z) : j \in 1..len \/ \E i \in 0..z : j = len + 1 + i
  <2> SUFFICES ASSUME NEW j \in 1..(len + 1 + z), j \notin 1..len
               PROVE  j - (len + 1) \in 0..z /\ j = len + 1 + (j - (len + 1))
    OBVIOUS
  <2> QED  BY <1>2
<1>5. ASSUME NEW j \in 1..len
      PROVE  UnitOK(s, v, new, j)
  <2> DEFINE u == w[j]
             left == Left(s, u)
  <2>1. /\ u.n \in 1..n /\ u.i \in 0..Sizes[s][u.n] /\ j + left <= len
        /\ \A m \in j..(j + left) : w[m] = Unit(u.n, u.i + (m - j))
        /\ j + left < len => w[j + left + 1] = Unit(u.n + 1, 0)
        /\ j + left = len => u.n = n
    BY <1>2 DEF WireOK, UnitOK, len
  <2>2. left \in Nat
    BY <1>1, UnitOf DEF Left, len
  <2>3. v[j] = u
    BY <1>3
  <2> HIDE DEF u, left
  <2>4. \A m \in j..(j + left) : m \in 1..len
    BY <1>2, <2>1, <2>2
  <2>5. \A m \in j..(j + left) : v[m] = Unit(u.n, u.i + (m - j))
    BY <1>3, <2>1, <2>4
  <2>6. v[j + left + 1] = Unit(u.n + 1, 0)
    <3>1. CASE j + left < len
      <4>1. j + left + 1 \in 1..len
        BY <1>2, <2>2, <3>1
      <4> QED  BY <1>3, <2>1, <3>1, <4>1
    <3>2. CASE j + left = len
      <4>1. 0 \in 0..z /\ len + 1 + 0 = j + left + 1
        BY <1>2, <3>2
      <4>2. v[len + 1 + 0] = Unit(new, 0)
        BY <1>3, <4>1
      <4>3. u.n + 1 = new
        BY <2>1, <3>2
      <4> QED  BY <4>1, <4>2, <4>3
    <3> QED  BY <1>2, <2>1, <2>2, <3>1, <3>2
  <2>7. j + left < Len(v) /\ u.n \in 1..new
    BY <1>2, <1>3, <2>1, <2>2
  <2>8. Left(s, v[j]) = left
    BY <2>3 DEF left
  <2>9. j + left <= Len(v) /\ j + left # Len(v)
    BY <1>2, <1>3, <2>2, <2>7
  <2> QED  BY <2>1, <2>3, <2>5, <2>6, <2>7, <2>8, <2>9 DEF UnitOK
<1>6. ASSUME NEW i \in 0..z
      PROVE  UnitOK(s, v, new, len + 1 + i)
  <2> DEFINE j == len + 1 + i
             u == v[j]
  <2>0. v[len + 1 + i] = Unit(new, i)
    BY <1>3
  <2>a. u = Unit(new, i)
    BY <2>0
  <2>b. Unit(new, i).n = new /\ Unit(new, i).i = i
    BY DEF Unit
  <2>1. u = Unit(new, i) /\ u.n = new /\ u.i = i
    BY <2>a, <2>b
  <2>2. Left(s, u) = z - i
    BY <2>1 DEF Left, z
  <2>3. j + Left(s, u) = Len(v)
    <3>1. Len(v) = len + 1 + z /\ len \in Nat /\ z \in Nat /\ i \in Nat
      BY <1>2, <1>3
    <3> QED  BY <2>2, <3>1
  <2>4. ASSUME NEW m \in j..(len + 1 + z) PROVE v[m] = Unit(new, i + (m - j))
    <3>1. i + (m - j) \in 0..z /\ len + 1 + (i + (m - j)) = m
      BY <1>2
    <3>2. v[len + 1 + (i + (m - j))] = Unit(new, i + (m - j))
      BY <1>3, <3>1
    <3> QED  BY <3>1, <3>2
  <2>5. Len(v) = len + 1 + z /\ Len(v) \in Nat /\ u.n \in 1..new /\ u.i \in 0..Sizes[s][u.n]
    <3>1. new \in 1..new
      OBVIOUS
    <3>2. Len(v) = len + 1 + z /\ Len(v) \in Nat
      BY <1>2, <1>3
    <3> QED  BY <2>1, <3>1, <3>2 DEF z
  <2> HIDE DEF u, j, UnitOK
  <2>6. ~(j + Left(s, u) < Len(v)) /\ j + Left(s, u) <= Len(v)
    BY <2>3, <2>5
  <2> QED  BY <2>1, <2>3, <2>4, <2>5, <2>6 DEF u, j, UnitOK
<1>7. ASSUME NEW j \in DOMAIN v, NEW m \in DOMAIN v, j < m, v[m].i = 0
      PROVE  v[j].n < v[m].n
  <2>1. CASE m \in 1..len
    <3>1. j \in 1..len
      BY <1>2, <1>3, <1>7, <2>1
    <3>2. v[j] = w[j] /\ v[m] = w[m]
      BY <1>3, <2>1, <3>1
    <3> QED  BY <1>2, <1>7, <2>1, <3>1, <3>2 DEF WireOK, UnitOK
  <2>2. ASSUME NEW i \in 0..z, m = len + 1 + i PROVE v[j].n < v[m].n
    <3>1. v[m] = Unit(new, i) /\ v[m].n = new /\ i = 0
      BY <1>3, <1>7, <2>2 DEF Unit
    <3>2. j \in 1..len
      BY <1>2, <1>3, <1>7, <2>2, <3>1
    <3>3. v[j].n \in 1..n
      BY <1>2, <1>3, <3>2 DEF WireOK, UnitOK
    <3> QED  BY <3>1, <3>3
  <2> QED  BY <1>3, <1>4, <2>1, <2>2
<1>8. ASSUME NEW j \in DOMAIN v
      PROVE  UnitOK(s, v, new, j)
  <2>1. CASE j \in 1..len
    BY <1>5, <2>1
  <2>2. CASE j \notin 1..len
    <3>1. PICK i \in 0..z : j = len + 1 + i
      BY <1>3, <1>4, <2>2
    <3> QED  BY <1>6, <3>1
  <2> QED  BY <2>1, <2>2
<1> QED  BY <1>7, <1>8 DEF WireOK

(* The request in front of the wire.                                       *)
LEMMA HeaderInFront ==
    ASSUME NEW s \in Sessions, NEW w \in Seq(Units), NEW n \in Nat, n <= Len(Sizes[s]),
           WireOK(s, w, n), w # <<>>, w[1].i = 0
    PROVE  /\ Tail(w) # <<>> /\ Tail(w)[1] = Unit(w[1].n, 1)
           /\ Head(w) = w[1] /\ w[1] = Unit(w[1].n, 0)
<1>1. Len(w) \in Nat \ {0} /\ DOMAIN w = 1..Len(w) /\ Head(w) = w[1]
  BY LenProperties, EmptySeq, HeadTailProperties
<1>2. 1 \in 1..Len(w)
  BY <1>1
<1>3. w[1] = Unit(w[1].n, 0) /\ w[1].n \in Nat /\ Sizes[s][w[1].n] \in Nat \ {0}
  BY <1>2, UnitOf
<1>4. Left(s, w[1]) = Sizes[s][w[1].n]
  BY <1>3 DEF Left
<1>5. UnitOK(s, w, n, 1)
  BY <1>1, <1>2 DEF WireOK
<1>6. 1 + Left(s, w[1]) <= Len(w) /\ 2 \in 1..(1 + Left(s, w[1]))
  BY <1>3, <1>4, <1>5 DEF UnitOK
<1>7. w[2] = Unit(w[1].n, w[1].i + (2 - 1))
  BY <1>5, <1>6 DEF UnitOK
<1>8. w[1].i + (2 - 1) = 1
  OBVIOUS
<1>9. Tail(w) \in Seq(Units) /\ Len(Tail(w)) = Len(w) - 1 /\ Len(w) >= 2
      /\ \A i \in 1..Len(Tail(w)) : Tail(w)[i] = w[i + 1]
  BY <1>1, <1>3, <1>4, <1>6, HeadTailProperties
<1>10. Len(Tail(w)) # 0 /\ 1 \in 1..Len(Tail(w)) /\ Tail(w)[1] = w[2]
  BY <1>1, <1>9
<1> QED  BY <1>1, <1>3, <1>7, <1>8, <1>9, <1>10, EmptySeq

(* The data of the request in front, what follows it, and its size.        *)
Foremost(w, c) == SubSeq(w, 1, c)
Rest(w, c)     == SubSeq(w, c + 1, Len(w))
Room(s, w)     == Sizes[s][w[1].n]

LEMMA BodyInFront ==
    ASSUME NEW s \in Sessions, NEW w \in Seq(Units), NEW n \in Nat, n <= Len(Sizes[s]),
           WireOK(s, w, n), w # <<>>, w[1].i = 1, NEW c, c = Room(s, w),
           NEW v, v = Rest(w, c)
    PROVE  /\ c <= Len(w) /\ Foremost(w, c) = Request(s, w[1].n)
           /\ v # <<>> => v[1] = Unit(w[1].n + 1, 0)
           /\ v = <<>> => w[1].n = n
<1>0. c = Sizes[s][w[1].n] /\ v = SubSeq(w, c + 1, Len(w)) /\ Foremost(w, c) = SubSeq(w, 1, c)
  BY DEF Room, Rest, Foremost
<1>1. Len(w) \in Nat \ {0} /\ DOMAIN w = 1..Len(w)
  BY LenProperties, EmptySeq
<1>2. 1 \in 1..Len(w)
  BY <1>1
<1>3. w[1].n \in Nat /\ c \in Nat \ {0} /\ w[1].n \in 1..Len(Sizes[s])
  BY <1>0, <1>2, UnitOf
<1>4. Left(s, w[1]) = c - 1
  BY <1>0, <1>3 DEF Left
<1>5. UnitOK(s, w, n, 1)
  BY <1>1, <1>2 DEF WireOK
<1>6. 1 + Left(s, w[1]) = c
  BY <1>3, <1>4
<1>7. c <= Len(w) /\ \A k \in 1..c : w[k] = Unit(w[1].n, 1 + (k - 1))
  BY <1>5, <1>6 DEF UnitOK
<1>8. c < Len(w) => w[c + 1] = Unit(w[1].n + 1, 0)
  BY <1>5, <1>6 DEF UnitOK
<1>9. c = Len(w) => w[1].n = n
  BY <1>5, <1>6 DEF UnitOK
<1>10. SubSeq(w, 1, c) = Request(s, w[1].n)
  <2>1. /\ SubSeq(w, 1, c) \in Seq(Units) /\ Len(SubSeq(w, 1, c)) = c
        /\ \A i \in 1..c : SubSeq(w, 1, c)[i] = w[i]
    <3>1. \A i \in 1..Len(w) : w[i] \in Units
      BY ElementOfSeq
    <3> QED  BY <1>1, <1>3, <1>7, <3>1, SubSeqProperties
  <2>2. /\ Request(s, w[1].n) \in Seq(Units) /\ Len(Request(s, w[1].n)) = c
        /\ \A i \in 1..c : Request(s, w[1].n)[i] = Unit(w[1].n, i)
    BY <1>0, <1>3, SizeOf
  <2>3. ASSUME NEW i \in 1..c PROVE SubSeq(w, 1, c)[i] = Request(s, w[1].n)[i]
    <3>1. 1 + (i - 1) = i
      BY <1>3
    <3> QED  BY <1>7, <2>1, <2>2, <3>1
  <2> QED  BY <2>1, <2>2, <2>3, SeqEqual
<1>11. /\ v \in Seq(Units) /\ Len(v) = Len(w) - c
       /\ \A j \in 1..(Len(w) - c) : v[j] = w[j + c]
  <2>1. c \in 0..Len(w)
    BY <1>1, <1>3, <1>7
  <2> QED  BY <1>0, <2>1, Dropped
<1>12. v # <<>> => v[1] = Unit(w[1].n + 1, 0)
  <2> SUFFICES ASSUME v # <<>> PROVE v[1] = Unit(w[1].n + 1, 0)
    OBVIOUS
  <2>1. Len(v) # 0
    BY <1>11, EmptySeq
  <2>2. c < Len(w) /\ 1 \in 1..(Len(w) - c) /\ 1 + c = c + 1
    <3>1. Len(w) - c # 0
      BY <1>11, <2>1
    <3> QED  BY <1>1, <1>3, <1>7, <3>1
  <2>3. v[1] = w[c + 1]
    BY <1>11, <2>2
  <2> QED  BY <1>8, <2>2, <2>3
<1>13. v = <<>> => w[1].n = n
  <2> SUFFICES ASSUME v = <<>> PROVE c = Len(w)
    BY <1>9
  <2>1. Len(v) = 0
    BY <1>11, EmptySeq
  <2> QED  BY <1>1, <1>3, <1>11, <2>1
<1> QED  BY <1>0, <1>7, <1>10, <1>12, <1>13

LEMMA FrontStays ==
    ASSUME NEW s \in Sessions, NEW w \in Seq(Units), NEW k \in 1..Len(Sizes[s]), NEW v,
           v = Longer(s, w, k)
    PROVE  /\ v # <<>>
           /\ w # <<>> => v[1] = w[1]
           /\ w = <<>> => v[1] = Unit(k, 0)
<1>1. /\ v \in Seq(Units) /\ Len(v) = Len(w) + 1 + Sizes[s][k]
      /\ \A j \in 1..Len(w) : v[j] = w[j]
      /\ \A i \in 0..Sizes[s][k] : v[Len(w) + 1 + i] = Unit(k, i)
      /\ Len(w) \in Nat /\ Sizes[s][k] \in Nat \ {0}
  BY Sends, SizeOf, LenProperties
<1>2. v # <<>>
  <2>1. Len(v) # 0
    BY <1>1
  <2> QED  BY <1>1, <2>1, EmptySeq
<1>3. ASSUME w # <<>> PROVE v[1] = w[1]
  <2>1. Len(w) # 0
    BY <1>3, EmptySeq
  <2>2. 1 \in 1..Len(w)
    BY <1>1, <2>1
  <2> QED  BY <1>1, <2>2
<1>4. ASSUME w = <<>> PROVE v[1] = Unit(k, 0)
  <2>1. Len(w) = 0
    BY <1>4, EmptySeq
  <2>2. 0 \in 0..Sizes[s][k] /\ Len(w) + 1 + 0 = 1
    BY <1>1, <2>1
  <2>3. v[Len(w) + 1 + 0] = Unit(k, 0)
    BY <1>1, <2>2
  <2> QED  BY <2>2, <2>3
<1> QED  BY <1>2, <1>3, <1>4

(* The headers on the wire.                                                *)
LEMMA HeadersDrop ==
    ASSUME NEW s \in Sessions, NEW w \in Seq(Units), NEW n \in Nat, WireOK(s, w, n),
           NEW d \in 1..Len(w), NEW v, v = SubSeq(w, d + 1, Len(w))
    PROVE  Headers(v) \subseteq {m \in Headers(w) : w[1].n < m}
<1>1. /\ DOMAIN v = 1..(Len(w) - d) /\ \A j \in 1..(Len(w) - d) : v[j] = w[j + d]
      /\ Len(w) \in Nat /\ DOMAIN w = 1..Len(w)
  BY Dropped, LenProperties
<1> SUFFICES ASSUME NEW j \in DOMAIN v, v[j].i = 0
             PROVE  v[j].n \in Headers(w) /\ w[1].n < v[j].n
  BY DEF Headers
<1>2. j + d \in DOMAIN w /\ v[j] = w[j + d] /\ 1 < j + d /\ 1 \in DOMAIN w
  BY <1>1
<1> QED  BY <1>2 DEF WireOK, Headers

LEMMA HeadersGrow ==
    ASSUME NEW s \in Sessions, NEW w \in Seq(Units), NEW k \in 1..Len(Sizes[s]), NEW v,
           v = Longer(s, w, k)
    PROVE  Headers(v) \subseteq Headers(w) \union {k}
<1>1. /\ Len(v) = Len(w) + 1 + Sizes[s][k] /\ DOMAIN v = 1..Len(v)
      /\ \A j \in 1..Len(w) : v[j] = w[j]
      /\ \A i \in 0..Sizes[s][k] : v[Len(w) + 1 + i] = Unit(k, i)
      /\ Len(w) \in Nat /\ DOMAIN w = 1..Len(w) /\ Sizes[s][k] \in Nat \ {0}
  BY Sends, SizeOf, LenProperties
<1> SUFFICES ASSUME NEW j \in DOMAIN v, v[j].i = 0
             PROVE  v[j].n \in Headers(w) \union {k}
  BY DEF Headers
<1>2. CASE j \in 1..Len(w)
  BY <1>1, <1>2 DEF Headers
<1>3. CASE j \notin 1..Len(w)
  <2>1. j - (Len(w) + 1) \in 0..Sizes[s][k] /\ j = Len(w) + 1 + (j - (Len(w) + 1))
    BY <1>1, <1>3
  <2>2. v[j] = Unit(k, j - (Len(w) + 1))
    BY <1>1, <2>1
  <2>3. v[j].n = k
    BY <2>2 DEF Unit
  <2> QED  BY <2>3
<1> QED  BY <1>2, <1>3

-----------------------------------------------------------------------------
(* A pool thread's handler, seen from the sessions of its context.         *)
LEMMA ContextOf == ASSUME NEW s \in Sessions PROVE Context(s) \in Contexts
<1>1. s \in Nat \ {0} /\ SessionCount \in Nat /\ ContextCount \in Nat \ {0}
  BY CountAssumption DEF Sessions
<1>2. (s - 1) % ContextCount \in 0..(ContextCount - 1)
  BY <1>1
<1> QED  BY <1>2 DEF Context, Contexts

LEMMA HandIs ==
    ASSUME Types, NEW s \in Sessions
    PROVE  /\ Hand(s) \in OneOrNone(Handlers)
           /\ Hand(s) # <<>> => /\ Hand(s)[1] \in Handlers /\ Hand(s)[1].session = s
                                /\ Hand(s) = io[Context(s)] /\ Hand(s) = <<Hand(s)[1]>>
           /\ io[Context(s)] = <<>> => Hand(s) = <<>>
           /\ InHandler(Context(s), s, "parse") <=> Parsing(s)
           /\ InHandler(Context(s), s, "push") <=> Pushes(s)
<1> DEFINE h == io[Context(s)]
<1>1. h \in OneOrNone(Handlers) /\ <<>> \in OneOrNone(Handlers)
  BY ContextOf, OneIs DEF Types, ReaderTypes
<1>2. Hand(s) \in OneOrNone(Handlers)
  BY <1>1 DEF Hand
<1>3. Hand(s) # <<>> => Hand(s) = h /\ h # <<>> /\ h[1].session = s
  BY DEF Hand
<1>4. h # <<>> => h[1] \in Handlers /\ h = <<h[1]>> /\ DOMAIN h = {1}
  BY <1>1, NoneOrOne
<1>5. h = <<>> => DOMAIN h = {}
  <2>1. DOMAIN <<>> = {}
    OBVIOUS
  <2> QED  BY <2>1
<1>6. ASSUME NEW what
      PROVE  InHandler(Context(s), s, what) <=> Hand(s) # <<>> /\ Hand(s)[1].in = what
  <2>1. ToSet(h) = {h[k] : k \in DOMAIN h}
    BY DEF ToSet
  <2>2. InHandler(Context(s), s, what) <=> h # <<>> /\ h[1].session = s /\ h[1].in = what
    <3>1. CASE h = <<>>
      BY <1>5, <2>1, <3>1 DEF InHandler
    <3>2. CASE h # <<>>
      BY <1>4, <2>1, <3>2 DEF InHandler
    <3> QED  BY <3>1, <3>2
  <2> QED  BY <2>2 DEF Hand
<1>7. io[Context(s)] = <<>> => Hand(s) = <<>>
  BY DEF Hand
<1> QED  BY <1>2, <1>3, <1>4, <1>6, <1>7 DEF Parsing, Pushes

(* A handler begins in a context that is free, or ends.                    *)
LEMMA HandBecomes ==
    ASSUME Types, NEW s \in Sessions, NEW h \in OneOrNone(Handlers),
           h # <<>> => h[1].session = s,
           io[Context(s)] = <<>> \/ Hand(s) # <<>>,
           io' = [io EXCEPT ![Context(s)] = h]
    PROVE  /\ Hand(s)' = h
           /\ \A r \in Sessions : r # s => Hand(r)' = Hand(r)
<1>1. Context(s) \in Contexts /\ io \in [Contexts -> OneOrNone(Handlers)]
  BY ContextOf DEF Types, ReaderTypes
<1>2. io'[Context(s)] = h /\ \A c \in Contexts : c # Context(s) => io'[c] = io[c]
  BY <1>1
<1>3. Hand(s)' = h
  BY <1>2 DEF Hand
<1>4. ASSUME NEW r \in Sessions, r # s PROVE Hand(r)' = Hand(r)
  <2>1. CASE Context(r) = Context(s)
    <3>1. Hand(r)' = <<>>
      BY <1>2, <1>4, <2>1 DEF Hand
    <3>2. io[Context(s)] # <<>> => io[Context(s)][1].session = s
      BY HandIs DEF Hand
    <3>3. Hand(r) = <<>>
      BY <1>4, <2>1, <3>2 DEF Hand
    <3> QED  BY <3>1, <3>3
  <2>2. CASE Context(r) # Context(s)
    <3>1. io'[Context(r)] = io[Context(r)]
      BY <1>2, <2>2, ContextOf
    <3> QED  BY <3>1 DEF Hand
  <2> QED  BY <2>1, <2>2
<1> QED  BY <1>3, <1>4

LEMMA HandStays ==
    ASSUME NEW s \in Sessions, UNCHANGED io
    PROVE  Hand(s)' = Hand(s)
  BY DEF Hand

-----------------------------------------------------------------------------
(* Messages of one session, seen from another.                             *)
Alike(s, q, r) ==
    /\ Nums(s, r) = Nums(s, q)
    /\ Rising(s, q) => Rising(s, r)
    /\ Intact(s, q) => Intact(s, r)

LEMMA NumsOfOne ==
    ASSUME NEW s, NEW m
    PROVE  /\ Nums(s, <<>>) = {} /\ Rising(s, <<>>) /\ Intact(s, <<>>)
           /\ Nums(s, <<m>>) = IF m.session = s THEN {Number(m)} ELSE {}
           /\ Rising(s, <<m>>)
           /\ Intact(s, <<m>>) <=> (m.session = s => m.data = Request(s, Number(m)))
<1>1. DOMAIN <<>> = {}
  OBVIOUS
<1>2. DOMAIN <<m>> = {1} /\ <<m>>[1] = m
  OBVIOUS
<1>3. Nums(s, <<>>) = {} /\ Rising(s, <<>>) /\ Intact(s, <<>>)
  BY <1>1 DEF Nums, Rising, Intact
<1>4. \A r : DOMAIN r = {1} /\ r[1] = m =>
         /\ Nums(s, r) = IF m.session = s THEN {Number(m)} ELSE {}
         /\ Rising(s, r)
         /\ Intact(s, r) <=> (m.session = s => m.data = Request(s, Number(m)))
  BY DEF Nums, Rising, Intact
<1> QED  BY <1>2, <1>3, <1>4

LEMMA Others ==
    ASSUME NEW S, NEW s, NEW q \in Seq(S), NEW m \in S, m.session # s,
           \A x \in S : Number(x) \in Nat
    PROVE  /\ Alike(s, q, Append(q, m))
           /\ Alike(s, <<m>>, <<>>) /\ Alike(s, <<>>, <<m>>)
           /\ q # <<>> /\ Head(q) = m => Alike(s, q, Tail(q))
<1>1. Alike(s, q, Append(q, m))
  <2> DEFINE r == Append(q, m)
  <2>1. /\ Len(q) \in Nat /\ DOMAIN q = 1..Len(q) /\ DOMAIN r = 1..(Len(q) + 1)
        /\ r[Len(q) + 1] = m /\ \A k \in 1..Len(q) : r[k] = q[k]
    BY LenProperties, AppendProperties
  <2> HIDE DEF r
  <2>2. \A k \in DOMAIN r : r[k].session = s => k \in DOMAIN q
    BY <2>1
  <2>3. \A k \in DOMAIN q : k \in DOMAIN r /\ r[k] = q[k]
    BY <2>1
  <2>4. Nums(s, r) = Nums(s, q)
    BY <2>2, <2>3 DEF Nums
  <2>5. Rising(s, q) => Rising(s, r)
    BY <2>2, <2>3 DEF Rising
  <2>6. Intact(s, q) => Intact(s, r)
    BY <2>2, <2>3 DEF Intact
  <2> QED  BY <2>4, <2>5, <2>6 DEF Alike, r
<1>2. Alike(s, <<m>>, <<>>) /\ Alike(s, <<>>, <<m>>)
  BY NumsOfOne DEF Alike
<1>3. ASSUME q # <<>>, Head(q) = m PROVE Alike(s, q, Tail(q))
  <2> DEFINE r == Tail(q)
  <2>1. /\ Len(q) \in Nat \ {0} /\ DOMAIN q = 1..Len(q) /\ q[1] = m
        /\ DOMAIN r = 1..(Len(q) - 1) /\ \A k \in 1..(Len(q) - 1) : r[k] = q[k + 1]
    BY <1>3, LenProperties, HeadTailProperties, EmptySeq
  <2> HIDE DEF r
  <2>2. \A k \in DOMAIN q : q[k].session = s => k - 1 \in DOMAIN r /\ r[k - 1] = q[k]
    BY <2>1
  <2>3. \A k \in DOMAIN r : k + 1 \in DOMAIN q /\ r[k] = q[k + 1]
    BY <2>1
  <2>4. Nums(s, r) = Nums(s, q)
    BY <2>2, <2>3 DEF Nums
  <2>5. Rising(s, q) => Rising(s, r)
    <3> SUFFICES ASSUME Rising(s, q), NEW j \in DOMAIN r, NEW k \in DOMAIN r,
                        j < k, r[j].session = s, r[k].session = s
                 PROVE  Number(r[j]) < Number(r[k])
      BY DEF Rising
    <3>1. j + 1 \in DOMAIN q /\ k + 1 \in DOMAIN q /\ j + 1 < k + 1
          /\ r[j] = q[j + 1] /\ r[k] = q[k + 1]
      BY <2>1, <2>3
    <3> QED  BY <3>1 DEF Rising
  <2>6. Intact(s, q) => Intact(s, r)
    BY <2>2, <2>3 DEF Intact
  <2> QED  BY <2>4, <2>5, <2>6 DEF Alike, r
<1> QED  BY <1>1, <1>2, <1>3

-----------------------------------------------------------------------------
(* A session that a step does not touch.                                   *)
Untouched(s) ==
    /\ UNCHANGED <<sent[s], wire[s], reading[s], Hand(s), _header[s], written[s],
                   writer[s].msgs, _queue_send[s]>>
    /\ writer'[s].at = "write" => writer[s].at = "write"
    /\ raced \subseteq raced'
    /\ peer'[s] = "up" => peer[s] = "up"
    /\ server' # "destroyed" =>
          server # "destroyed" /\ (s \in _sessions => s \in _sessions')
    /\ Alike(s, InLogic, InLogic') /\ Alike(s, logicQueue, logicQueue')

LEMMA UntouchedStays ==
    ASSUME NEW s \in Sessions, SessionInv(s), Untouched(s)
    PROVE  SessionInv(s)'
<1>1. /\ sent'[s] = sent[s] /\ wire'[s] = wire[s] /\ reading'[s] = reading[s]
      /\ Hand(s)' = Hand(s) /\ _header'[s] = _header[s] /\ written'[s] = written[s]
      /\ writer'[s].msgs = writer[s].msgs /\ _queue_send'[s] = _queue_send[s]
  BY DEF Untouched
<1>2. WireInv(s)'
  BY <1>1 DEF SessionInv, WireInv
<1>3. /\ Parsing(s)' <=> Parsing(s)
      /\ Pushes(s)' <=> Pushes(s)
      /\ Body(s)' <=> Body(s)
      /\ Handed(s)' = Handed(s) /\ Coming(s)' = Coming(s) /\ Upcoming(s)' = Upcoming(s)
      /\ Answered(s)' = Answered(s)
  BY <1>1 DEF Parsing, Pushes, Body, Handed, Coming, Upcoming, Answered
<1>4. ReaderInv(s)'
  <2>1. s \notin raced' => s \notin raced
    BY DEF Untouched
  <2>2. writer'[s].at = "write" => writer[s].at = "write"
    BY DEF Untouched
  <2>3. ReaderInv(s)
    BY DEF SessionInv
  <2>4. s \notin raced' => Framed(s)'
    BY <1>1, <1>3, <2>1, <2>3 DEF ReaderInv, Framed
  <2> QED  BY <1>1, <1>3, <2>1, <2>2, <2>3, <2>4 DEF ReaderInv
<1>5. Places(s)' = Places(s)
  BY <1>1, <1>3 DEF Places, Untouched, Alike
<1>6. OrderInv(s)'
  <2>1. \A q \in Line(s)' : Rising(s, q)
    BY <1>1, <1>3 DEF Line, Untouched, Alike, SessionInv, OrderInv
  <2> QED  BY <1>1, <1>5, <2>1 DEF SessionInv, OrderInv
<1>7. GapInv(s)'
  BY <1>1, <1>3, <1>5 DEF SessionInv, GapInv, Untouched, Handling
<1>8. ContentInv(s)'
  <2>1. ContentInv(s)
    BY DEF SessionInv
  <2>2. s \notin raced => \A q \in Line(s)' : Intact(s, q)
    BY <1>1, <1>3, <2>1 DEF Line, Untouched, Alike, ContentInv
  <2>3. s \notin raced' => s \notin raced
    BY DEF Untouched
  <2>4. writer'[s].at = "write" => writer[s].at = "write"
    BY DEF Untouched
  <2> QED  BY <1>1, <2>1, <2>2, <2>3, <2>4 DEF ContentInv
<1> QED  BY <1>2, <1>4, <1>6, <1>7, <1>8 DEF SessionInv

LEMMA LogicStays ==
    ASSUME NEW s, UNCHANGED <<logic, logicQueue>>
    PROVE  Alike(s, InLogic, InLogic') /\ Alike(s, logicQueue, logicQueue')
  BY DEF Alike, InLogic

LEMMA WireOf ==
    ASSUME Types, NEW s \in Sessions, WireInv(s)
    PROVE  /\ wire[s] \in Seq(Units) /\ sent[s] \in Nat /\ Len(Sizes[s]) \in Nat
           /\ sent[s] <= Len(Sizes[s]) /\ WireOK(s, wire[s], sent[s])
           /\ wire[s] # <<>> =>
                 /\ Len(wire[s]) \in Nat \ {0} /\ 1 \in 1..Len(wire[s])
                 /\ wire[s][1].n \in 1..sent[s] /\ wire[s][1].n \in 1..Len(Sizes[s])
                 /\ wire[s][1].i \in Nat /\ Sizes[s][wire[s][1].n] \in Nat \ {0}
<1>1. /\ wire[s] \in Seq(Units) /\ sent[s] \in Nat /\ sent[s] <= Len(Sizes[s])
      /\ WireOK(s, wire[s], sent[s])
  BY DEF Types, ReaderTypes, ClientTypes, WireInv
<1>2. Len(Sizes[s]) \in Nat
  BY SizesAssumption, LenProperties
<1>3. ASSUME wire[s] # <<>>
      PROVE  Len(wire[s]) \in Nat \ {0} /\ 1 \in 1..Len(wire[s])
  BY <1>1, <1>3, LenProperties, EmptySeq
<1>4. ASSUME wire[s] # <<>>
      PROVE  /\ wire[s][1].n \in 1..sent[s] /\ wire[s][1].n \in 1..Len(Sizes[s])
             /\ wire[s][1].i \in Nat /\ Sizes[s][wire[s][1].n] \in Nat \ {0}
  BY <1>1, <1>3, <1>4, UnitOf
<1> QED  BY <1>1, <1>2, <1>3, <1>4

(* Steps that change nothing on any way.                                   *)
Quiet ==
    \/ AcceptInsert \/ AcceptFails \/ Stop \/ Destroy \/ UNCHANGED vars
    \/ \E s \in Sessions : ClientGoes(s) \/ WriterEnds(s)

LEMMA StepQuiet ==
    ASSUME IInv, Quiet, NEW r \in Sessions
    PROVE  SessionInv(r)'
<1>1. UNCHANGED <<sent, wire, reading, io, _header, written, _queue_send, raced,
                  logic, logicQueue>>
  BY DEF Quiet, AcceptInsert, AcceptFails, Stop, Destroy, vars, ClientGoes, WriterEnds,
         serverVars, clientVars, readerVars, headerVars, logicVars, sessionVars
<1>2. /\ writer'[r].msgs = writer[r].msgs
      /\ writer'[r].at = "write" => writer[r].at = "write"
  <2>1. CASE writer' = writer
    BY <2>1
  <2>2. ASSUME NEW s \in Sessions, WriterEnds(s)
        PROVE  /\ writer'[r].msgs = writer[r].msgs
               /\ writer'[r].at = "write" => writer[r].at = "write"
    <3>1. writer[s].msgs = <<>> /\ writer' = [writer EXCEPT ![s] = At("end", <<>>)]
          /\ writer \in [Sessions -> [at : {"none", "pop", "header", "write", "end"},
                                      msgs : OneOrNone(Requests)]]
      BY <2>2 DEF WriterEnds, IInv, Types, WriterTypes
    <3>2. CASE r = s
      BY <3>1, <3>2 DEF At
    <3>3. CASE r # s
      BY <3>1, <3>3
    <3> QED  BY <3>2, <3>3
  <2> QED
    BY <2>1, <2>2 DEF Quiet, AcceptInsert, AcceptFails, Stop, Destroy, vars, ClientGoes,
                      sessionVars
<1>3. peer'[r] = "up" => peer[r] = "up"
  <2>1. CASE peer' = peer
    BY <2>1
  <2>2. ASSUME NEW s \in Sessions, ClientGoes(s)
        PROVE  peer'[r] = "up" => peer[r] = "up"
    BY <2>2 DEF ClientGoes, IInv, Types, ClientTypes
  <2> QED
    BY <2>1, <2>2 DEF Quiet, AcceptInsert, AcceptFails, Stop, Destroy, vars, WriterEnds,
                      clientVars
<1>4. server' # "destroyed" =>
         server # "destroyed" /\ (r \in _sessions => r \in _sessions')
  BY DEF Quiet, AcceptInsert, AcceptFails, Stop, Destroy, vars, ClientGoes, WriterEnds,
         serverVars
<1>5. Hand(r)' = Hand(r)
  BY <1>1, HandStays
<1>6. Untouched(r)
  BY <1>1, <1>2, <1>3, <1>4, <1>5, LogicStays DEF Untouched
<1> QED  BY <1>6, UntouchedStays DEF IInv

(* A session that was not accepted yet, or whose client sent nothing.      *)
LEMMA NothingSent ==
    ASSUME Types, NEW s \in Sessions, SessionInv(s), sent[s] = 0
    PROVE  /\ wire[s] = <<>> /\ Hand(s) = <<>> /\ writer[s].msgs = <<>>
           /\ \A i \in 1..7 : Places(s)[i] = {}
<1>1. wire[s] = <<>>
  BY WireOf DEF SessionInv
<1>2. \A i \in 1..7 : Places(s)[i] = {}
  BY DEF SessionInv, OrderInv
<1>3. Nums(s, writer[s].msgs) = {} /\ Nums(s, Handed(s)) = {}
  BY <1>2 DEF Places
<1>4. Hand(s) = <<>>
  <2>1. ~Parsing(s)
    BY <1>1 DEF SessionInv, ReaderInv, Body
  <2>2. ~Pushes(s)
    <3> SUFFICES ASSUME Pushes(s) PROVE FALSE
      OBVIOUS
    <3>1. PICK h : Hand(s) = <<h>> /\ h.session = s
      BY HandIs DEF Pushes
    <3>2. Nums(s, <<h>>) = {Number(h)}
      BY <3>1, NumsOfOne
    <3>3. Handed(s) = <<h>>
      BY <3>1 DEF Handed
    <3> QED  BY <1>3, <3>2, <3>3
  <2> QED  BY <2>1, <2>2, HandIs DEF Parsing, Pushes, Handlers
<1>5. writer[s].msgs = <<>>
  <2> SUFFICES ASSUME writer[s].msgs # <<>> PROVE FALSE
    OBVIOUS
  <2>1. /\ writer[s].msgs[1] \in Requests /\ writer[s].msgs = <<writer[s].msgs[1]>>
        /\ DOMAIN writer[s].msgs = {1}
    BY NoneOrOne DEF Types, WriterTypes
  <2>2. writer[s].msgs[1].session = s
    BY <2>1 DEF SessionInv, ContentInv, ToSet
  <2> QED  BY <1>3, <2>1, <2>2, NumsOfOne
<1> QED  BY <1>1, <1>2, <1>4, <1>5

-----------------------------------------------------------------------------
(* The steps that bring a request to NetLogic's queue.                     *)
LEMMA StepAcceptStart ==
    ASSUME IInv, AcceptStart, NEW r \in Sessions
    PROVE  SessionInv(r)'
<1> DEFINE s == pending
<1>1. /\ s \in Sessions /\ Types /\ SessionInv(s) /\ SessionInv(r) /\ accept = "listen"
      /\ server = "running"
      /\ UNCHANGED <<server, _sessions, sent, written, wire, io, _header, raced, logicQueue,
                     logic, _queue_send>>
      /\ peer' = [peer EXCEPT ![s] = "up"]
      /\ reading' = [reading EXCEPT ![s] = HeaderRead]
      /\ writer' = [writer EXCEPT ![s] = At("pop", <<>>)]
  BY DEF IInv, AcceptStart, Accepts, headerVars, logicVars
<1>2. /\ peer \in [Sessions -> {"none", "up", "gone"}] /\ reading \in [Sessions -> Reads0]
      /\ writer \in [Sessions -> [at : {"none", "pop", "header", "write", "end"},
                                  msgs : OneOrNone(Requests)]]
  BY <1>1 DEF Types, ClientTypes, ReaderTypes, WriterTypes
<1>3. CASE r # s
  <2>1. Hand(r)' = Hand(r)
    BY <1>1, HandStays
  <2>2. writer'[r] = writer[r] /\ reading'[r] = reading[r] /\ peer'[r] = peer[r]
    BY <1>1, <1>2, <1>3
  <2>3. Untouched(r)
    BY <1>1, <2>1, <2>2, LogicStays DEF Untouched
  <2> QED  BY <1>1, <2>3, UntouchedStays
<1>4. CASE r = s
  <2>0. r \in Sessions /\ SessionInv(r) /\ r = pending
    BY <1>1, <1>4
  <2>1. peer[r] = "none" /\ sent[r] = 0 /\ reading[r] = NoRead
    <3>1. pending \in Nat /\ r >= pending
      BY <1>1, <2>0 DEF Types, ServerTypes
    <3> QED  BY <1>1, <2>0, <3>1 DEF IInv, ServerInv
  <2>2. /\ wire[r] = <<>> /\ Hand(r) = <<>> /\ writer[r].msgs = <<>>
        /\ \A i \in 1..7 : Places(r)[i] = {}
    BY <1>1, <2>0, <2>1, NothingSent
  <2>3. /\ Hand(r)' = Hand(r) /\ writer'[r].msgs = <<>> /\ writer'[r].at = "pop"
        /\ reading'[r].what = "header" /\ reading'[r].count = 1
    BY <1>1, <1>2, <2>0, HandStays DEF At, HeaderRead, Read
  <2>4. reading[r].what = "nothing"
    BY <2>1 DEF NoRead, Read
  <2>5. /\ Parsing(r)' <=> Parsing(r)
        /\ Pushes(r)' <=> Pushes(r)
        /\ ~Parsing(r) /\ ~Pushes(r)
    BY <2>2, <2>3 DEF Parsing, Pushes
  <2>6. Places(r)' = Places(r)
    BY <1>1, <2>2, <2>3, <2>4, <2>5 DEF Places, Answered, Coming, Handed, InLogic
  <2>7. WireInv(r)'
    BY <1>1 DEF SessionInv, WireInv
  <2>8. ReaderInv(r)'
    BY <1>1, <2>2, <2>3, <2>5 DEF ReaderInv, Framed
  <2>9. OrderInv(r)'
    <3>1. Line(r)' = Line(r)
      BY <1>1, <2>2, <2>3, <2>5 DEF Line, InLogic, Handed
    <3> QED  BY <1>1, <2>6, <3>1 DEF SessionInv, OrderInv
  <2>10. GapInv(r)'
    <3>1. \A i \in 1..6 : Places(r)'[i] = {}
      BY <2>2, <2>6
    <3>2. Handling(r)' = {}
      BY <3>1 DEF Handling, AllOf
    <3>3. \A i \in 1..3 : Places(r)'[i] = {}
      BY <3>1
    <3> QED  BY <3>2, <3>3 DEF GapInv
  <2>11. ContentInv(r)'
    <3>1. Line(r)' = Line(r)
      BY <1>1, <2>2, <2>3, <2>5 DEF Line, InLogic, Handed
    <3> QED  BY <1>1, <2>2, <2>3, <3>1 DEF SessionInv, ContentInv
  <2> QED  BY <2>7, <2>8, <2>9, <2>10, <2>11 DEF SessionInv
<1> QED  BY <1>3, <1>4

LEMMA StepClientSends ==
    ASSUME IInv, NEW s \in Sessions, ClientSends(s), NEW r \in Sessions
    PROVE  SessionInv(r)'
<1> DEFINE n == sent[s] + 1
           w == wire[s]
           v == Longer(s, w, n)
<1>1. /\ Types /\ SessionInv(s) /\ SessionInv(r) /\ sent[s] < Len(Sizes[s])
      /\ UNCHANGED <<server, _sessions, peer, written, reading, io, _header, raced,
                     logicQueue, logic, _queue_send, writer>>
      /\ sent' = [sent EXCEPT ![s] = n] /\ wire' = [wire EXCEPT ![s] = v]
  BY DEF IInv, ClientSends, headerVars, logicVars, serverVars, sessionVars, Longer
<1>2. /\ sent \in [Sessions -> Nat] /\ wire \in [Sessions -> Seq(Units)]
  BY <1>1 DEF Types, ClientTypes, ReaderTypes
<1>3. Hand(r)' = Hand(r)
  BY <1>1, HandStays
<1>4. CASE r # s
  <2>1. sent'[r] = sent[r] /\ wire'[r] = wire[r]
    BY <1>1, <1>2, <1>4
  <2>2. Untouched(r)
    BY <1>1, <1>3, <2>1, LogicStays DEF Untouched
  <2> QED  BY <1>1, <2>2, UntouchedStays
<1>5. CASE r = s
  <2>1. /\ w \in Seq(Units) /\ sent[s] \in Nat /\ Len(Sizes[s]) \in Nat
        /\ WireOK(s, w, sent[s]) /\ n \in 1..Len(Sizes[s]) /\ n \in Nat
        /\ w # <<>> => 1 \in 1..Len(w) /\ Len(w) \in Nat
    BY <1>1, WireOf DEF SessionInv
  <2>2. sent'[s] = n /\ wire'[s] = v
    BY <1>1, <1>2
  <2>3. /\ v \in Seq(Units) /\ WireOK(s, v, n) /\ Headers(v) \subseteq Headers(w) \union {n}
    BY <1>1, <2>1, Sends, WireGrows, HeadersGrow
  <2>4. /\ w # <<>> => v[1] = w[1]
        /\ w = <<>> => v[1] = Unit(n, 0)
        /\ v # <<>>
    BY <2>1, FrontStays
  <2> HIDE DEF v, w
  <2>5. /\ Parsing(s)' <=> Parsing(s)
        /\ Pushes(s)' <=> Pushes(s)
        /\ Handed(s)' = Handed(s) /\ Answered(s)' = Answered(s) /\ Line(s)' = Line(s)
    BY <1>1, <1>3, <1>5 DEF Parsing, Pushes, Handed, Answered, Line, InLogic
  <2>6. Parsing(s) \/ reading[s].what = "data" => w # <<>>
    BY <1>1 DEF SessionInv, ReaderInv, Body, w
  <2>7. Coming(s)' \subseteq Coming(s) \union {n}
    BY <1>1, <2>2, <2>3, <2>4, <2>5, <2>6 DEF Coming, w
  <2>8. /\ \A i \in 1..6 : Places(s)'[i] = Places(s)[i]
        /\ Places(s)'[7] \subseteq Places(s)[7] \union {n}
    BY <1>1, <2>5, <2>7 DEF Places, InLogic
  <2>9. WireInv(s)'
    BY <2>2, <2>3 DEF WireInv
  <2>10. ReaderInv(s)'
    <3>1. ReaderInv(s)
      BY <1>1 DEF SessionInv
    <3>2. Body(s) => Body(s)' /\ wire'[s][1] = wire[s][1]
      BY <2>2, <2>4 DEF Body, w
    <3>3. wire[s] = <<>> \/ wire[s][1].i = 0 => wire'[s][1].i = 0
      BY <2>2, <2>4 DEF Unit, w
    <3>4. Framed(s) /\ (Parsing(s) \/ reading[s].what = "data" => Body(s)) => Framed(s)'
      BY <1>1, <2>5, <3>2, <3>3 DEF Framed
    <3> QED  BY <1>1, <1>3, <1>5, <2>5, <3>1, <3>2, <3>4 DEF ReaderInv
  <2>11. OrderInv(s)'
    <3>1. \A i \in 1..7 : Places(s)[i] \subseteq 1..sent[s]
      BY <1>1 DEF SessionInv, OrderInv
    <3>2. \A i \in 1..7 : Places(s)'[i] \subseteq 1..sent'[s]
      <4> SUFFICES ASSUME NEW i \in 1..7, NEW a \in Places(s)'[i] PROVE a \in 1..n
        BY <2>2
      <4>1. a \in Places(s)[i] \/ a = n
        <5>1. i \in 1..6 \/ i = 7
          OBVIOUS
        <5> QED  BY <2>8, <5>1
      <4> QED  BY <2>1, <3>1, <4>1
    <3>3. \A i \in 1..7 : \A a \in Places(s)[i] : a < n
      BY <2>1, <3>1
    <3>4. Ordered(Places(s)')
      <4>1. Ordered(Places(s))
        BY <1>1 DEF SessionInv, OrderInv
      <4>2. \A i \in 1..6 : Places(s)'[i] \subseteq Places(s)[i]
        BY <2>8
      <4> QED  BY <2>8, <3>3, <4>1, <4>2, OrderJoins
    <3> QED  BY <1>1, <2>5, <3>2, <3>4 DEF SessionInv, OrderInv
  <2>12. Upcoming(s)' = Upcoming(s)
    BY <2>2, <2>4 DEF Upcoming, Unit, w
  <2>13. Handling(s)' = Handling(s)
    BY <2>8 DEF Handling, AllOf
  <2>14. GapInv(s)'
    <3>1. \A i \in 1..3 : Places(s)'[i] = Places(s)[i]
      BY <2>8
    <3> QED  BY <1>1, <2>12, <2>13, <3>1 DEF SessionInv, GapInv
  <2>15. ContentInv(s)'
    BY <1>1, <2>5 DEF SessionInv, ContentInv
  <2> QED  BY <1>5, <2>9, <2>10, <2>11, <2>14, <2>15 DEF SessionInv
<1> QED  BY <1>4, <1>5

(* The reader goes on, and nothing comes or leaves on the way back.        *)
LEMMA ReaderMoves ==
    ASSUME NEW s \in Sessions, SessionInv(s),
           UNCHANGED <<sent[s], written[s], writer[s], _queue_send[s], InLogic, logicQueue,
                       Handed(s), server, _sessions, peer[s]>>,
           Coming(s)' \subseteq Coming(s),
           raced \subseteq raced',
           s \notin raced' => Upcoming(s)' = Upcoming(s),
           s \notin raced' /\ writer[s].at = "write" => _header'[s].Data = _header[s].Data
    PROVE  OrderInv(s)' /\ GapInv(s)' /\ ContentInv(s)'
<1>1. /\ OrderInv(s) /\ GapInv(s) /\ ContentInv(s)
      /\ sent'[s] = sent[s] /\ written'[s] = written[s] /\ writer'[s] = writer[s]
      /\ _queue_send'[s] = _queue_send[s] /\ peer'[s] = peer[s]
  BY DEF SessionInv
<1>2. Answered(s)' = Answered(s) /\ Line(s)' = Line(s)
  BY <1>1 DEF Answered, Line
<1>3. /\ \A i \in 1..6 : Places(s)'[i] = Places(s)[i]
      /\ Places(s)'[7] \subseteq Places(s)[7]
  BY <1>1, <1>2 DEF Places
<1>4. \A i \in 1..7 : Places(s)'[i] \subseteq Places(s)[i]
  <2> SUFFICES ASSUME NEW i \in 1..7 PROVE Places(s)'[i] \subseteq Places(s)[i]
    OBVIOUS
  <2>1. i \in 1..6 \/ i = 7
    OBVIOUS
  <2> QED  BY <1>3, <2>1
<1>5. OrderInv(s)'
  <2>1. Ordered(Places(s)')
    BY <1>1, <1>4, OrderShrinks DEF OrderInv
  <2>2. \A i \in 1..7 : Places(s)'[i] \subseteq 1..sent'[s]
    BY <1>1, <1>4 DEF OrderInv
  <2> QED  BY <1>1, <1>2, <2>1, <2>2 DEF OrderInv
<1>6. GapInv(s)'
  <2>1. Handling(s)' = Handling(s)
    BY <1>3 DEF Handling, AllOf
  <2>2. \A i \in 1..3 : Places(s)'[i] = Places(s)[i]
    BY <1>3
  <2> QED  BY <1>1, <2>1, <2>2 DEF GapInv
<1>7. ContentInv(s)'
  BY <1>1, <1>2 DEF ContentInv
<1> QED  BY <1>5, <1>6, <1>7

LEMMA StepReadHeader ==
    ASSUME IInv, NEW s \in Sessions, ReadHeader(s), NEW r \in Sessions
    PROVE  SessionInv(r)'
<1> DEFINE w == wire[s]
           u == Head(w)
           h == <<[session |-> s, in |-> "parse", data |-> <<u>>]>>
<1>1. /\ Types /\ SessionInv(s) /\ SessionInv(r) /\ io[Context(s)] = <<>> /\ u.i = 0
      /\ reading[s].what = "header" /\ Len(w) >= reading[s].count
      /\ UNCHANGED <<server, _sessions, peer, sent, written, logicQueue, logic, _queue_send,
                     writer>>
      /\ io' = [io EXCEPT ![Context(s)] = h]
      /\ _header' = [_header EXCEPT ![s].FileSize = Sizes[s][u.n]]
      /\ wire' = [wire EXCEPT ![s] = Tail(w)]
      /\ reading' = [reading EXCEPT ![s] = NoRead]
      /\ raced' = IF writer[s].at = "write" THEN raced \union {s} ELSE raced
  BY DEF IInv, ReadHeader, Completes, Begin, serverVars, clientVars, logicVars, sessionVars
<1>2. /\ wire \in [Sessions -> Seq(Units)] /\ reading \in [Sessions -> Reads0]
      /\ _header \in [Sessions -> [FileSize : Nat, Data : Nat]]
  BY <1>1 DEF Types, ReaderTypes
<1>3. /\ w \in Seq(Units) /\ sent[s] \in Nat /\ WireOK(s, w, sent[s])
      /\ sent[s] <= Len(Sizes[s])
      /\ w # <<>> => /\ Len(w) \in Nat \ {0} /\ 1 \in 1..Len(w) /\ w[1].n \in Nat
                     /\ Sizes[s][w[1].n] \in Nat \ {0}
  BY <1>1, WireOf DEF SessionInv
<1>4. w # <<>>
  <2>1. Len(w) # 0
    BY <1>1, <1>3, LenProperties DEF SessionInv, ReaderInv
  <2> QED  BY <1>3, <2>1, EmptySeq
<1> HIDE DEF w
<1>5. u = w[1] /\ u \in Units
  BY <1>3, <1>4, HeadTailProperties
<1>6. h \in OneOrNone(Handlers) /\ h # <<>> /\ h[1].session = s
      /\ h[1].in = "parse" /\ h[1].data = <<u>>
  <2>1. <<u>> \in Seq(Units) /\ <<u>> # <<>>
    BY <1>5
  <2> HIDE DEF u
  <2>2. [session |-> s, in |-> "parse", data |-> <<u>>] \in Handlers
    BY <2>1 DEF Handlers, Texts
  <2> QED  BY <2>2, OneIs
<1> HIDE DEF h, u
<1>7. Hand(s)' = h /\ (r # s => Hand(r)' = Hand(r)) /\ Hand(s) = <<>>
  BY <1>1, <1>6, HandBecomes, HandIs
<1>8. raced \subseteq raced' /\ (writer[s].at = "write" => s \in raced')
  BY <1>1
<1>9. CASE r # s
  <2>1. wire'[r] = wire[r] /\ reading'[r] = reading[r] /\ _header'[r] = _header[r]
    BY <1>1, <1>2, <1>9
  <2>2. Untouched(r)
    BY <1>1, <1>7, <1>8, <1>9, <2>1, LogicStays DEF Untouched
  <2> QED  BY <1>1, <2>2, UntouchedStays
<1>10. CASE r = s
  <2>1. /\ wire'[s] = Tail(w) /\ reading'[s].what = "nothing"
        /\ _header'[s].FileSize = Sizes[s][u.n] /\ _header'[s].Data = _header[s].Data
    BY <1>1, <1>2 DEF NoRead, Read
  <2>2. /\ Tail(w) # <<>> /\ Tail(w)[1] = Unit(u.n, 1) /\ u = Unit(u.n, 0)
    BY <1>1, <1>3, <1>4, <1>5, HeaderInFront
  <2>3. Tail(w) = SubSeq(w, 1 + 1, Len(w))
    BY <1>3, <1>4, TailIsSubSeq
  <2>4. WireOK(s, Tail(w), sent[s])
    <3>1. 1 \in 0..Len(w)
      BY <1>3, <1>4
    <3> QED  BY <1>3, <2>3, <3>1, WireDrops
  <2>5. Headers(Tail(w)) \subseteq Headers(w)
    BY <1>3, <1>4, <2>3, HeadersDrop
  <2>6. Parsing(s)' /\ ~Pushes(s)' /\ ~Parsing(s) /\ ~Pushes(s)
    BY <1>6, <1>7 DEF Parsing, Pushes
  <2>7. Tail(w)[1].n = u.n /\ Tail(w)[1].i = 1
    BY <2>2 DEF Unit
  <2>8. u.n \in Headers(w)
    BY <1>1, <1>3, <1>4, <1>5, LenProperties DEF Headers
  <2>9. Coming(s)' \subseteq Coming(s)
    BY <2>1, <2>5, <2>6, <2>7, <2>8 DEF Coming, w
  <2>10. Upcoming(s)' = Upcoming(s)
    BY <1>4, <1>5, <2>1, <2>2, <2>7 DEF Upcoming, w
  <2>11. Handed(s)' = Handed(s)
    BY <2>6 DEF Handed
  <2>12. InLogic' = InLogic
    BY <1>1 DEF InLogic
  <2>13. WireInv(s)'
    BY <1>1, <2>1, <2>4 DEF WireInv
  <2>14. ReaderInv(s)'
    <3>1. Body(s)'
      BY <2>1, <2>2, <2>7 DEF Body
    <3>2. _header'[s].FileSize > 0 /\ _header'[s].FileSize = Sizes[s][wire'[s][1].n]
      <4>1. Sizes[s][u.n] \in Nat \ {0}
        BY <1>3, <1>4, <1>5
      <4>2. wire'[s][1].n = u.n
        BY <2>1, <2>7
      <4>3. Sizes[s][u.n] > 0
        BY <4>1
      <4>4. _header'[s].FileSize = Sizes[s][u.n]
        BY <2>1
      <4> QED  BY <4>2, <4>3, <4>4
    <3>3. Framed(s)'
      BY <2>1, <2>6, <3>2 DEF Framed
    <3>4. Hand(s)'[1].data = <<Unit(wire'[s][1].n, 0)>>
      BY <1>6, <1>7, <2>1, <2>2, <2>7
    <3> QED  BY <1>1, <1>8, <2>1, <2>6, <3>1, <3>2, <3>3, <3>4 DEF ReaderInv
  <2>15. OrderInv(s)' /\ GapInv(s)' /\ ContentInv(s)'
    BY <1>1, <1>8, <2>1, <2>9, <2>10, <2>11, <2>12, ReaderMoves
  <2> QED  BY <1>10, <2>13, <2>14, <2>15 DEF SessionInv
<1> QED  BY <1>9, <1>10

LEMMA StepAskForData ==
    ASSUME IInv, NEW s \in Sessions, AskForData(s), NEW r \in Sessions
    PROVE  SessionInv(r)'
<1> DEFINE u == Head(io[Context(s)][1].data)
<1>1. /\ Types /\ SessionInv(s) /\ SessionInv(r) /\ InHandler(Context(s), s, "parse")
      /\ UNCHANGED <<server, _sessions, peer, sent, written, logicQueue, logic, _queue_send,
                     writer, wire, raced>>
      /\ io' = [io EXCEPT ![Context(s)] = <<>>]
      /\ _header' = [_header EXCEPT ![s].Data = Sizes[s][u.n]]
      /\ reading' = [reading EXCEPT ![s] = IF @.what = "freed" THEN @
                                           ELSE Read("data", _header[s].FileSize)]
  BY DEF IInv, AskForData, serverVars, clientVars, logicVars, sessionVars
<1>2. /\ reading \in [Sessions -> Reads0]
      /\ _header \in [Sessions -> [FileSize : Nat, Data : Nat]]
  BY <1>1 DEF Types, ReaderTypes
<1>3. Parsing(s) /\ ~Pushes(s) /\ ReaderInv(s)
  BY <1>1, HandIs DEF Parsing, Pushes, SessionInv
<1>4. Hand(s)' = <<>> /\ (r # s => Hand(r)' = Hand(r))
  BY <1>1, <1>3, OneIs, HandBecomes DEF Parsing
<1>5. CASE r # s
  <2>1. reading'[r] = reading[r] /\ _header'[r] = _header[r]
    BY <1>1, <1>2, <1>5
  <2>2. Untouched(r)
    BY <1>1, <1>4, <1>5, <2>1, LogicStays DEF Untouched
  <2> QED  BY <1>1, <2>2, UntouchedStays
<1>6. CASE r = s
  <2>1. /\ _header'[s].FileSize = _header[s].FileSize
        /\ \/ reading'[s].what = "freed"
           \/ reading'[s].what = "data" /\ reading'[s].count = _header[s].FileSize
    BY <1>1, <1>2 DEF Read
  <2>2. ~Parsing(s)' /\ ~Pushes(s)'
    BY <1>4 DEF Parsing, Pushes
  <2>3. Coming(s)' \subseteq Coming(s)
    BY <1>1, <1>3, <2>2 DEF Coming
  <2>4. Upcoming(s)' = Upcoming(s) /\ Handed(s)' = Handed(s) /\ InLogic' = InLogic
    BY <1>1, <1>3, <2>2 DEF Upcoming, Handed, InLogic
  <2>5. s \in raced' \/ writer[s].at # "write"
    BY <1>1, <1>3 DEF ReaderInv
  <2>6. WireInv(s)'
    BY <1>1 DEF SessionInv, WireInv
  <2>7. ReaderInv(s)'
    <3>1. Body(s)' /\ _header[s].FileSize > 0
      BY <1>1, <1>3 DEF ReaderInv, Body
    <3>2. s \notin raced' => Framed(s)'
      BY <1>1, <1>3, <2>1, <2>2 DEF ReaderInv, Framed
    <3> QED  BY <1>4, <2>1, <2>2, <3>1, <3>2 DEF ReaderInv
  <2>8. OrderInv(s)' /\ GapInv(s)' /\ ContentInv(s)'
    BY <1>1, <2>3, <2>4, <2>5, ReaderMoves
  <2> QED  BY <1>6, <2>6, <2>7, <2>8 DEF SessionInv
<1> QED  BY <1>5, <1>6

LEMMA StepReadNoHeader ==
    ASSUME IInv, NEW s \in Sessions, ReadNoHeader(s), NEW r \in Sessions
    PROVE  SessionInv(r)'
<1> DEFINE w == wire[s]
<1>1. /\ Types /\ SessionInv(s) /\ SessionInv(r) /\ io[Context(s)] = <<>>
      /\ Head(w).i # 0 /\ reading[s].what = "header" /\ Len(w) >= reading[s].count
      /\ UNCHANGED <<server, _sessions, peer, sent, written, logicQueue, logic, _queue_send,
                     writer, io, _header, raced>>
      /\ wire' = [wire EXCEPT ![s] = Tail(w)]
      /\ reading' = [reading EXCEPT ![s] = NoRead]
  BY DEF IInv, ReadNoHeader, Completes, serverVars, clientVars, logicVars, sessionVars,
         headerVars
<1>2. wire \in [Sessions -> Seq(Units)] /\ reading \in [Sessions -> Reads0]
  BY <1>1 DEF Types, ReaderTypes
<1>3. Hand(r)' = Hand(r) /\ Hand(s)' = Hand(s) /\ Hand(s) = <<>>
  BY <1>1, HandStays, HandIs
<1>4. CASE r # s
  <2>1. wire'[r] = wire[r] /\ reading'[r] = reading[r]
    BY <1>1, <1>2, <1>4
  <2>2. Untouched(r)
    BY <1>1, <1>3, <2>1, LogicStays DEF Untouched
  <2> QED  BY <1>1, <2>2, UntouchedStays
<1>5. CASE r = s
  <2>1. /\ w \in Seq(Units) /\ sent[s] \in Nat /\ WireOK(s, w, sent[s])
        /\ sent[s] <= Len(Sizes[s])
        /\ w # <<>> => Len(w) \in Nat \ {0} /\ 1 \in 1..Len(w)
    BY <1>1, WireOf DEF SessionInv
  <2>2. w # <<>>
    <3>1. Len(w) # 0
      BY <1>1, <2>1, LenProperties DEF SessionInv, ReaderInv
    <3> QED  BY <2>1, <3>1, EmptySeq
  <2> HIDE DEF w
  <2>3. Tail(w) = SubSeq(w, 1 + 1, Len(w)) /\ Head(w) = w[1]
    BY <2>1, <2>2, TailIsSubSeq, HeadTailProperties
  <2>4. WireOK(s, Tail(w), sent[s])
    <3>1. 1 \in 0..Len(w)
      BY <2>1, <2>2
    <3> QED  BY <2>1, <2>3, <3>1, WireDrops
  <2>5. Headers(Tail(w)) \subseteq Headers(w)
    BY <2>1, <2>2, <2>3, HeadersDrop
  <2>6. wire'[s] = Tail(w) /\ reading'[s].what = "nothing"
    BY <1>1, <1>2 DEF NoRead, Read
  <2>7. s \in raced'
    BY <1>1, <2>2, <2>3 DEF SessionInv, ReaderInv, Framed, w
  <2>8. ~Parsing(s)' /\ ~Pushes(s)' /\ ~Parsing(s) /\ ~Pushes(s)
    BY <1>3 DEF Parsing, Pushes
  <2>9. Coming(s)' \subseteq Coming(s)
    BY <2>5, <2>6, <2>8 DEF Coming, w
  <2>10. Handed(s)' = Handed(s) /\ InLogic' = InLogic
    BY <1>1, <2>8 DEF Handed, InLogic
  <2>11. WireInv(s)'
    BY <1>1, <2>4, <2>6 DEF WireInv
  <2>12. ReaderInv(s)'
    BY <1>3, <2>6, <2>7, <2>8 DEF ReaderInv
  <2>13. OrderInv(s)' /\ GapInv(s)' /\ ContentInv(s)'
    BY <1>1, <2>7, <2>9, <2>10, ReaderMoves
  <2> QED  BY <1>5, <2>11, <2>12, <2>13 DEF SessionInv
<1> QED  BY <1>4, <1>5

LEMMA StepReadFails ==
    ASSUME IInv, NEW s \in Sessions, ReadFails(s), NEW r \in Sessions
    PROVE  SessionInv(r)'
<1>1. /\ Types /\ SessionInv(s) /\ SessionInv(r) /\ io[Context(s)] = <<>>
      /\ UNCHANGED <<server, _sessions, peer, sent, written, logicQueue, logic, _queue_send,
                     writer, io, _header, raced, wire>>
      /\ reading' = [reading EXCEPT ![s] = NoRead]
  BY DEF IInv, ReadFails, serverVars, clientVars, logicVars, headerVars
<1>2. reading \in [Sessions -> Reads0]
  BY <1>1 DEF Types, ReaderTypes
<1>3. Hand(r)' = Hand(r) /\ Hand(s)' = Hand(s) /\ Hand(s) = <<>>
  BY <1>1, HandStays, HandIs
<1>4. CASE r # s
  <2>1. reading'[r] = reading[r]
    BY <1>1, <1>2, <1>4
  <2>2. Untouched(r)
    BY <1>1, <1>3, <2>1, LogicStays DEF Untouched
  <2> QED  BY <1>1, <2>2, UntouchedStays
<1>5. CASE r = s
  <2>1. reading'[s].what = "nothing"
    BY <1>1, <1>2 DEF NoRead, Read
  <2>2. ~Parsing(s)' /\ ~Pushes(s)' /\ ~Parsing(s) /\ ~Pushes(s)
    BY <1>3 DEF Parsing, Pushes
  <2>3. Coming(s)' \subseteq Coming(s)
    BY <1>1, <2>1, <2>2 DEF Coming
  <2>4. Handed(s)' = Handed(s) /\ InLogic' = InLogic /\ Upcoming(s)' = Upcoming(s)
    BY <1>1, <2>2 DEF Handed, InLogic, Upcoming
  <2>5. WireInv(s)'
    BY <1>1 DEF SessionInv, WireInv
  <2>6. ReaderInv(s)'
    BY <1>1, <1>3, <2>1, <2>2 DEF SessionInv, ReaderInv, Framed
  <2>7. OrderInv(s)' /\ GapInv(s)' /\ ContentInv(s)'
    BY <1>1, <2>3, <2>4, ReaderMoves
  <2> QED  BY <1>5, <2>5, <2>6, <2>7 DEF SessionInv
<1> QED  BY <1>4, <1>5

LEMMA StepReadData ==
    ASSUME IInv, NEW s \in Sessions, ReadData(s), NEW r \in Sessions
    PROVE  SessionInv(r)'
<1> DEFINE w == wire[s]
           c == reading[s].count
           t == SubSeq(w, 1, c)
           v == SubSeq(w, c + 1, Len(w))
           m == [session |-> s, in |-> "push", data |-> t]
<1>1. /\ Types /\ SessionInv(s) /\ SessionInv(r) /\ io[Context(s)] = <<>>
      /\ reading[s].what = "data" /\ Len(w) >= c
      /\ UNCHANGED <<server, _sessions, peer, sent, written, logicQueue, logic, _queue_send,
                     writer, _header, raced>>
      /\ io' = [io EXCEPT ![Context(s)] = <<m>>]
      /\ wire' = [wire EXCEPT ![s] = v]
      /\ reading' = [reading EXCEPT ![s] = NoRead]
  BY DEF IInv, ReadData, Completes, Begin, serverVars, clientVars, logicVars, sessionVars,
         headerVars
<1>2. wire \in [Sessions -> Seq(Units)] /\ reading \in [Sessions -> Reads0]
  BY <1>1 DEF Types, ReaderTypes
<1>3. /\ w \in Seq(Units) /\ sent[s] \in Nat /\ WireOK(s, w, sent[s])
      /\ sent[s] <= Len(Sizes[s]) /\ w # <<>> /\ w[1].i = 1 /\ c > 0 /\ c \in Nat
  BY <1>1, <1>2, WireOf DEF SessionInv, ReaderInv, Body, Reads0
<1>4. /\ Len(w) \in Nat \ {0} /\ 1 \in 1..Len(w) /\ w[1].n \in Nat /\ w[1].n \in 1..sent[s]
      /\ c \in 1..Len(w)
  BY <1>1, <1>3, WireOf DEF SessionInv
<1>5. s \notin raced => c = Sizes[s][w[1].n]
  BY <1>1 DEF SessionInv, ReaderInv, Framed
<1>v. v = SubSeq(w, c + 1, Len(w)) /\ t = SubSeq(w, 1, c)
  OBVIOUS
<1> HIDE DEF w, c, v
<1>6. t \in Texts /\ t[1] = w[1]
  <2>1. \A i \in 1..Len(w) : w[i] \in Units
    BY <1>3, ElementOfSeq
  <2>2. t \in Seq(Units) /\ Len(t) = c /\ \A i \in 1..c : t[i] = w[i]
    BY <1>3, <1>4, <2>1, SubSeqProperties
  <2>3. Len(t) # 0 /\ 1 \in 1..c
    BY <1>3, <2>2
  <2> HIDE DEF t
  <2> QED  BY <2>2, <2>3, EmptySeq DEF Texts
<1> HIDE DEF t
<1>7. m \in Handlers /\ m.session = s /\ m.in = "push" /\ m.data = t /\ Number(m) = w[1].n
  BY <1>6 DEF Handlers, Number
<1> HIDE DEF m
<1>8. <<m>> \in OneOrNone(Handlers) /\ <<m>> # <<>> /\ <<m>>[1] = m
  BY <1>7, OneIs
<1>9. Hand(s)' = <<m>> /\ (r # s => Hand(r)' = Hand(r)) /\ Hand(s) = <<>>
  BY <1>1, <1>7, <1>8, HandBecomes, HandIs
<1>10. CASE r # s
  <2>1. wire'[r] = wire[r] /\ reading'[r] = reading[r]
    BY <1>1, <1>2, <1>10
  <2>2. Untouched(r)
    BY <1>1, <1>9, <1>10, <2>1, LogicStays DEF Untouched
  <2> QED  BY <1>1, <2>2, UntouchedStays
<1>11. CASE r = s
  <2> DEFINE n == w[1].n
  <2>0. OrderInv(s) /\ GapInv(s) /\ ContentInv(s) /\ ReaderInv(s)
    BY <1>1 DEF SessionInv
  <2>1. wire'[s] = v /\ reading'[s].what = "nothing"
    BY <1>1, <1>2 DEF NoRead, Read
  <2>2. ~Parsing(s)' /\ Pushes(s)' /\ ~Parsing(s) /\ ~Pushes(s)
    BY <1>7, <1>8, <1>9 DEF Parsing, Pushes
  <2>3. Handed(s)' = <<m>> /\ Handed(s) = <<>> /\ InLogic' = InLogic
    BY <1>1, <1>9, <2>2 DEF Handed, InLogic
  <2>4. \A a \in Headers(v) : a \in Headers(w) /\ w[1].n < a
    <3>1. \A d \in 1..Len(w) : v = SubSeq(w, d + 1, Len(w)) =>
             Headers(v) \subseteq {a \in Headers(w) : w[1].n < a}
      BY <1>3, HeadersDrop
    <3> QED  BY <1>4, <1>v, <3>1
  <2>5. WireOK(s, v, sent[s])
    <3>1. c \in 0..Len(w)
      BY <1>3, <1>4
    <3> QED  BY <1>3, <1>v, <3>1, WireDrops
  <2>6. s \notin raced =>
           /\ t = Request(s, n)
           /\ v # <<>> => v[1] = Unit(n + 1, 0)
           /\ v = <<>> => n = sent[s]
    <3>1. ASSUME s \notin raced
          PROVE  /\ Foremost(w, c) = Request(s, w[1].n)
                 /\ v # <<>> => v[1] = Unit(w[1].n + 1, 0)
                 /\ v = <<>> => w[1].n = sent[s]
      <4>1. c = Room(s, w)
        BY <1>5, <3>1 DEF Room
      <4>2. v = Rest(w, c)
        BY <1>v DEF Rest
      <4> HIDE DEF n
      <4> QED  BY <1>3, <4>1, <4>2, BodyInFront
    <3> QED  BY <1>v, <3>1 DEF Foremost
  <2>7. WireInv(s)'
    BY <1>1, <2>1, <2>5 DEF WireInv
  <2>8. ReaderInv(s)'
    <3>1. s \notin raced => Framed(s)'
      BY <2>1, <2>2, <2>6 DEF Framed, Unit
    <3> QED  BY <1>1, <2>1, <2>2, <3>1 DEF ReaderInv
  <2>9. /\ Nums(s, Handed(s)') = {n} /\ Nums(s, Handed(s)) = {} /\ Rising(s, Handed(s)')
        /\ s \notin raced => Intact(s, Handed(s)')
    <3>1. /\ Nums(s, <<m>>) = {n} /\ Nums(s, <<>>) = {} /\ Rising(s, <<m>>)
          /\ m.data = Request(s, n) => Intact(s, <<m>>)
      BY <1>7, NumsOfOne
    <3> QED  BY <1>7, <2>3, <2>6, <3>1
  <2>10. n \in Coming(s) /\ Coming(s)' \subseteq {a \in Coming(s) : n < a}
    BY <1>1, <2>1, <2>2, <2>4 DEF Coming, w
  <2>11. Answered(s)' = Answered(s)
    BY <1>1 DEF Answered
  <2>12. /\ \A i \in 1..5 : Places(s)'[i] = Places(s)[i]
         /\ Places(s)'[6] = {n} /\ Places(s)[6] = {}
         /\ Places(s)'[7] = Coming(s)' /\ Places(s)[7] = Coming(s)
    BY <1>1, <2>3, <2>9, <2>11 DEF Places
  <2>13. \A i \in 1..7 : Places(s)[i] \subseteq 1..sent[s]
    BY <2>0 DEF OrderInv
  <2>14. \A i \in 1..7 : i = 6 \/ Places(s)'[i] \subseteq Places(s)[i]
    <3> SUFFICES ASSUME NEW i \in 1..7, i # 6 PROVE Places(s)'[i] \subseteq Places(s)[i]
      OBVIOUS
    <3>1. i \in 1..5 \/ i = 7
      OBVIOUS
    <3> QED  BY <2>10, <2>12, <3>1
  <2>15. \A q \in Line(s)' : q \in Line(s) \/ q = Handed(s)'
    BY <1>1, <2>3 DEF Line
  <2>16. OrderInv(s)'
    <3>1. \A i \in 1..7 : Places(s)'[i] \subseteq 1..sent'[s]
      <4> SUFFICES ASSUME NEW i \in 1..7 PROVE Places(s)'[i] \subseteq 1..sent[s]
        BY <1>1
      <4>1. CASE i = 6
        BY <1>4, <2>12, <4>1
      <4>2. CASE i # 6
        BY <2>13, <2>14, <4>2
      <4> QED  BY <4>1, <4>2
    <3>2. Ordered(Places(s)')
      <4>1. /\ Ordered(Places(s)) /\ 6 \in 1..6 /\ 6 + 1 = 7
            /\ \A i \in 1..7 : Places(s)[i] \subseteq Nat
        BY <2>0, <2>13 DEF OrderInv
      <4>2. /\ n \in Places(s)[7] /\ \A y \in Places(s)'[7] : n < y
            /\ Places(s)'[6] \subseteq Places(s)[6] \union {n}
        BY <2>10, <2>12
      <4> HIDE DEF n
      <4> QED  BY <2>14, <4>1, <4>2, OrderMoves
    <3>3. \A q \in Line(s)' : Rising(s, q)
      BY <2>0, <2>9, <2>15 DEF OrderInv
    <3> QED  BY <1>1, <2>0, <3>1, <3>2, <3>3 DEF OrderInv
  <2>17. GapInv(s)'
    <3>1. Handling(s)' = Handling(s) \union {n}
      <4>1. \A i \in 1..6 : i = 6 \/ i \in 1..5
        OBVIOUS
      <4>2. \A i \in 1..6 : i # 6 => Places(s)'[i] = Places(s)[i]
        BY <2>12, <4>1
      <4>3. 6 \in 1..6
        OBVIOUS
      <4> QED  BY <2>12, <4>2, <4>3 DEF Handling, AllOf
    <3>2. Upcoming(s) = n
      BY <1>3 DEF Upcoming, w
    <3>3. s \notin raced => Upcoming(s)' = n + 1
      <4>1. Unit(n + 1, 0).n = n + 1
        BY DEF Unit
      <4> QED  BY <1>1, <2>1, <2>6, <4>1 DEF Upcoming
    <3>4. \A i \in 1..3 : Places(s)'[i] = Places(s)[i]
      BY <2>12
    <3>5. \A a \in Handling(s) : a \in Nat
      BY <2>13 DEF Handling, AllOf
    <3>6. ASSUME s \notin raced, peer[s] = "up", server # "destroyed", NEW a \in Handling(s)'
          PROVE  a < n + 1 /\ a..n \subseteq Handling(s)'
      <4>1. CASE a = n
        BY <1>4, <3>1, <4>1
      <4>2. CASE a # n
        <5>1. a \in Handling(s) /\ a \in Nat
          BY <3>1, <3>5, <4>2
        <5>2. a < n /\ a..(n - 1) \subseteq Handling(s)
          BY <2>0, <3>2, <3>6, <5>1 DEF GapInv
        <5> HIDE DEF n
        <5>3. n \in Nat
          BY <1>4 DEF n
        <5>4. a < n + 1 /\ \A b \in a..n : b \in a..(n - 1) \/ b = n
          BY <5>1, <5>2, <5>3
        <5> QED  BY <3>1, <5>2, <5>4
      <4> QED  BY <4>1, <4>2
    <3>7. n + 1 - 1 = n
      BY <1>4
    <3>8. /\ s \notin raced' => s \notin raced
          /\ peer'[s] = peer[s] /\ server' = server /\ _sessions' = _sessions
      BY <1>1
    <3>9. s \notin raced' /\ peer'[s] = "up" /\ server' # "destroyed" =>
             \A a \in Handling(s)' : /\ a < Upcoming(s)'
                                     /\ a..(Upcoming(s)' - 1) \subseteq Handling(s)'
      <4>1. s \notin raced' => Upcoming(s)' = n + 1 /\ Upcoming(s)' - 1 = n
        BY <1>4, <3>3, <3>8
      <4> QED  BY <3>6, <3>8, <4>1
    <3>10. s \notin _sessions' /\ server' # "destroyed" =>
              \A i \in 1..3 : Places(s)'[i] = {}
      BY <2>0, <3>4, <3>8 DEF GapInv
    <3> QED  BY <3>9, <3>10 DEF GapInv
  <2>18. ContentInv(s)'
    BY <1>1, <2>0, <2>9, <2>15 DEF ContentInv
  <2> QED  BY <1>11, <2>7, <2>8, <2>16, <2>17, <2>18 DEF SessionInv
<1> QED  BY <1>10, <1>11

LEMMA Numbers ==
    \A m : m \in Requests \/ m \in Handlers \/ m \in Answers => Number(m) \in Nat
<1> SUFFICES ASSUME NEW m, m.data \in Texts PROVE Number(m) \in Nat
  BY DEF Requests, Handlers, Answers
<1>1. m.data \in Seq(Units) /\ m.data # <<>>
  BY DEF Texts
<1>2. m.data[1] \in Units
  BY <1>1, EmptySeq, LenProperties, ElementOfSeq
<1> QED  BY <1>2 DEF Number, Units

(* The way back of a session, one place at a time.                         *)
LEMMA PlacesAre ==
    ASSUME NEW s
    PROVE  /\ Places(s)[1] = Answered(s) /\ Places(s)[2] = Nums(s, writer[s].msgs)
           /\ Places(s)[3] = Nums(s, _queue_send[s]) /\ Places(s)[4] = Nums(s, InLogic)
           /\ Places(s)[5] = Nums(s, logicQueue) /\ Places(s)[6] = Nums(s, Handed(s))
           /\ Places(s)[7] = Coming(s)
  BY DEF Places

(* A number goes from a place to the one before it: nothing is lost.       *)
Within(P, N) == \A i \in 1..7 : P[i] \subseteq 1..N

Advances(P, Q, k, x) ==
    /\ x \in P[k + 1]
    /\ P[k + 1] \subseteq Q[k + 1] \union {x} /\ Q[k + 1] \subseteq P[k + 1]
    /\ \A y \in Q[k + 1] : x < y
    /\ Q[k] = P[k] \union {x}
    /\ \A i \in 1..7 : i # k /\ i # k + 1 => Q[i] = P[i]

LEMMA Moves ==
    ASSUME NEW N \in Nat, NEW P, NEW Q, Ordered(P), Within(P, N),
           NEW k \in 1..5, NEW x, Advances(P, Q, k, x)
    PROVE  Ordered(Q) /\ Within(Q, N) /\ AllOf(Q) = AllOf(P)
<1>0. /\ \A i \in 1..7 : P[i] \subseteq 1..N
      /\ x \in P[k + 1]
      /\ P[k + 1] \subseteq Q[k + 1] \union {x} /\ Q[k + 1] \subseteq P[k + 1]
      /\ \A y \in Q[k + 1] : x < y
      /\ Q[k] = P[k] \union {x}
      /\ \A i \in 1..7 : i # k /\ i # k + 1 => Q[i] = P[i]
  BY DEF Within, Advances
<1>1. k \in 1..6 /\ k + 1 \in 1..6 /\ k # k + 1 /\ k \in 1..7
  OBVIOUS
<1>2. \A i \in 1..7 : i # k => Q[i] \subseteq P[i]
  <2> SUFFICES ASSUME NEW i \in 1..7, i # k PROVE Q[i] \subseteq P[i]
    OBVIOUS
  <2>1. i = k + 1 \/ i # k + 1
    OBVIOUS
  <2> QED  BY <1>0, <2>1
<1>3. \A i \in 1..7 : P[i] \subseteq Nat
  BY <1>0
<1>4. Ordered(Q)
  <2>1. Q[k] \subseteq P[k] \union {x}
    BY <1>0
  <2> QED  BY <1>0, <1>1, <1>2, <1>3, <2>1, OrderMoves
<1>5. x \in 1..N
  BY <1>0, <1>1
<1>6. \A i \in 1..7 : Q[i] \subseteq 1..N
  <2> SUFFICES ASSUME NEW i \in 1..7 PROVE Q[i] \subseteq 1..N
    OBVIOUS
  <2>1. CASE i = k
    BY <1>0, <1>1, <1>5, <2>1
  <2>2. CASE i # k
    BY <1>0, <1>2, <2>2
  <2> QED  BY <2>1, <2>2
<1>7. \A y : y \in AllOf(Q) <=> \E i \in 1..6 : y \in Q[i]
  BY DEF AllOf
<1>8. \A y : y \in AllOf(P) <=> \E i \in 1..6 : y \in P[i]
  BY DEF AllOf
<1>9. ASSUME NEW i \in 1..6, NEW y \in P[i] PROVE \E j \in 1..6 : y \in Q[j]
  <2>1. CASE y = x
    BY <1>0, <1>1, <2>1
  <2>2. CASE y # x /\ i = k + 1
    BY <1>0, <1>9, <2>2
  <2>3. CASE i # k + 1
    <3>1. y \in Q[i]
      BY <1>0, <1>9, <2>3
    <3> QED  BY <3>1
  <2> QED  BY <2>1, <2>2, <2>3
<1>10. ASSUME NEW i \in 1..6, NEW y \in Q[i] PROVE \E j \in 1..6 : y \in P[j]
  <2>1. CASE i = k /\ y = x
    BY <1>0, <1>1, <2>1
  <2>2. CASE i = k /\ y # x
    BY <1>0, <1>10, <2>2
  <2>3. CASE i # k
    BY <1>2, <1>10, <2>3
  <2> QED  BY <2>1, <2>2, <2>3
<1>11. AllOf(Q) = AllOf(P)
  BY <1>7, <1>8, <1>9, <1>10
<1> QED  BY <1>4, <1>6, <1>11 DEF Within

LEMMA OnTheWay ==
    ASSUME NEW s \in Sessions, SessionInv(s), sent[s] \in Nat,
           UNCHANGED <<sent[s], wire[s], peer[s], server, _sessions, raced>>,
           NEW k \in 1..5, NEW x, Advances(Places(s), Places(s)', k, x),
           k = 3 => s \in _sessions \/ server = "destroyed"
    PROVE  /\ \A i \in 1..7 : Places(s)'[i] \subseteq 1..sent'[s]
           /\ Ordered(Places(s)')
           /\ GapInv(s)'
<1>1. OrderInv(s) /\ GapInv(s)
  BY DEF SessionInv
<1>2. Ordered(Places(s)) /\ \A i \in 1..7 : Places(s)[i] \subseteq 1..sent[s]
  BY <1>1 DEF OrderInv
<1>3. /\ Ordered(Places(s)') /\ AllOf(Places(s)') = AllOf(Places(s))
      /\ \A i \in 1..7 : Places(s)'[i] \subseteq 1..sent[s]
  <2>1. Within(Places(s), sent[s])
    BY <1>2 DEF Within
  <2>2. /\ Ordered(Places(s)') /\ Within(Places(s)', sent[s])
        /\ AllOf(Places(s)') = AllOf(Places(s))
    BY <1>2, <2>1, Moves
  <2> QED  BY <2>2 DEF Within
<1>4. Handling(s)' = Handling(s) /\ Upcoming(s)' = Upcoming(s)
  BY <1>3 DEF Handling, Upcoming
<1>5. s \notin _sessions /\ server # "destroyed" => \A i \in 1..3 : Places(s)'[i] = {}
  <2> SUFFICES ASSUME s \notin _sessions, server # "destroyed"
               PROVE  \A i \in 1..3 : Places(s)'[i] = {}
    OBVIOUS
  <2>1. \A i \in 1..3 : Places(s)[i] = {}
    BY <1>1 DEF GapInv
  <2>2. /\ x \in Places(s)[k + 1]
        /\ \A i \in 1..7 : i # k /\ i # k + 1 => Places(s)'[i] = Places(s)[i]
    BY DEF Advances
  <2>3. k # 1 /\ k # 2 /\ k # 3
    BY <2>1, <2>2
  <2>4. \A i \in 1..3 : i \in 1..7 /\ i # k /\ i # k + 1
    BY <2>3
  <2> QED  BY <2>1, <2>2, <2>4
<1>6. GapInv(s)'
  BY <1>1, <1>4, <1>5 DEF GapInv
<1> QED  BY <1>3, <1>6

LEMMA StepPushToLogic ==
    ASSUME IInv, NEW s \in Sessions, PushToLogic(s), NEW r \in Sessions
    PROVE  SessionInv(r)'
<1> DEFINE h == Hand(s)[1]
           m == [session |-> s, data |-> io[Context(s)][1].data]
<1>1. /\ Types /\ SessionInv(s) /\ SessionInv(r) /\ InHandler(Context(s), s, "push")
      /\ UNCHANGED <<server, _sessions, peer, sent, written, logic, _queue_send,
                     writer, _header, raced, wire>>
      /\ io' = [io EXCEPT ![Context(s)] = <<>>]
      /\ logicQueue' = Append(logicQueue, m)
      /\ reading' = [reading EXCEPT ![s] = IF @.what = "freed" THEN @ ELSE HeaderRead]
  BY DEF IInv, PushToLogic, serverVars, clientVars, sessionVars, headerVars
<1>2. /\ reading \in [Sessions -> Reads0] /\ logicQueue \in Seq(Requests)
      /\ sent[s] \in Nat
  BY <1>1 DEF Types, ReaderTypes, LogicTypes, ClientTypes
<1>3. /\ Pushes(s) /\ ~Parsing(s) /\ Hand(s) = <<h>> /\ h \in Handlers /\ h.session = s
      /\ h = io[Context(s)][1] /\ Hand(s) # <<>>
  BY <1>1, HandIs DEF Parsing, Pushes
<1>4. m \in Requests /\ m.session = s /\ Number(m) = Number(h) /\ m.data = h.data
      /\ Number(m) \in Nat
  <2>1. m \in Requests /\ m.session = s /\ m.data = h.data
    BY <1>3 DEF Requests, Handlers
  <2> HIDE DEF m, h
  <2> QED  BY <2>1, Numbers DEF Number
<1> HIDE DEF m, h
<1>5. Hand(s)' = <<>> /\ (r # s => Hand(r)' = Hand(r))
  BY <1>1, <1>3, OneIs, HandBecomes
<1>6. \A x \in Requests : Number(x) \in Nat
  BY Numbers
<1>7. CASE r # s
  <2>1. reading'[r] = reading[r]
    BY <1>1, <1>2, <1>7
  <2>2. Alike(r, logicQueue, logicQueue')
    BY <1>1, <1>2, <1>4, <1>6, <1>7, Others
  <2>3. Alike(r, InLogic, InLogic')
    BY <1>1 DEF Alike, InLogic
  <2>4. Untouched(r)
    BY <1>1, <1>5, <1>7, <2>1, <2>2, <2>3 DEF Untouched
  <2> QED  BY <1>1, <2>4, UntouchedStays
<1>8. CASE r = s
  <2> DEFINE n == Number(m)
  <2>0. OrderInv(s) /\ GapInv(s) /\ ContentInv(s) /\ ReaderInv(s)
    BY <1>1 DEF SessionInv
  <2>1. \/ reading'[s].what = "freed"
        \/ reading'[s].what = "header" /\ reading'[s].count = 1
    BY <1>1, <1>2 DEF HeaderRead, Read
  <2>2. ~Parsing(s)' /\ ~Pushes(s)'
    BY <1>5 DEF Parsing, Pushes
  <2>3. reading[s].what # "data"
    BY <1>3, <2>0 DEF ReaderInv
  <2>4. Handed(s)' = <<>> /\ Handed(s) = <<h>> /\ InLogic' = InLogic
    BY <1>1, <1>3, <2>2 DEF Handed, InLogic
  <2>5. Coming(s)' = Coming(s) /\ Answered(s)' = Answered(s)
    BY <1>1, <1>3, <2>1, <2>2, <2>3 DEF Coming, Answered
  <2>6. Nums(s, <<h>>) = {n} /\ Nums(s, <<>>) = {} /\ Rising(s, <<>>) /\ Intact(s, <<>>)
    BY <1>3, <1>4, NumsOfOne
  <2>7. /\ Rising(s, logicQueue)
        /\ s \notin raced => /\ Intact(s, logicQueue) /\ h.data = Request(s, n)
    <3>1. Rising(s, logicQueue) /\ (s \notin raced => Intact(s, logicQueue))
      BY <2>0 DEF OrderInv, ContentInv, Line
    <3>2. s \notin raced => Intact(s, <<h>>)
      BY <2>0, <2>4 DEF ContentInv, Line
    <3>3. s \notin raced => h.data = Request(s, Number(h))
      BY <1>3, <3>2, NumsOfOne
    <3> QED  BY <1>4, <3>1, <3>3
  <2>8. /\ Places(s)[6] = {n} /\ Places(s)'[6] = {}
        /\ Places(s)[5] = Nums(s, logicQueue) /\ Places(s)'[5] = Nums(s, logicQueue)'
        /\ \A i \in {1, 2, 3, 4, 7} : Places(s)'[i] = Places(s)[i]
    BY <1>1, <2>4, <2>5, <2>6 DEF Places
  <2>9. \A a \in Places(s)[5] : a < n
    <3>1. 5 \in 1..7 /\ 6 \in 1..7 /\ 5 < 6
      OBVIOUS
    <3> QED  BY <2>0, <2>8, <3>1 DEF OrderInv, Ordered
  <2>10. /\ Rising(s, logicQueue') /\ Nums(s, logicQueue') = Nums(s, logicQueue) \union {n}
         /\ s \notin raced => Intact(s, logicQueue')
    <3>1. \A a \in Nums(s, logicQueue) : a < n
      BY <2>8, <2>9
    <3>2. /\ Rising(s, Append(logicQueue, m))
          /\ Nums(s, Append(logicQueue, m)) = Nums(s, logicQueue) \union {n}
      BY <1>2, <1>4, <2>7, <3>1, Put
    <3>3. s \notin raced => Intact(s, Append(logicQueue, m))
      BY <1>2, <1>4, <2>7, PutIntact
    <3> QED  BY <1>1, <3>2, <3>3
  <2>11. Places(s)'[5] = Places(s)[5] \union {n}
    BY <2>8, <2>10
  <2>12. \A q \in Line(s)' : q \in Line(s) \/ q = <<>> \/ q = logicQueue'
    BY <1>1, <2>4 DEF Line
  <2>13. /\ \A i \in 1..7 : Places(s)'[i] \subseteq 1..sent'[s]
         /\ Ordered(Places(s)')
         /\ GapInv(s)'
    <3>1. \A i \in 1..7 : i # 5 /\ i # 5 + 1 => i \in {1, 2, 3, 4, 7}
      OBVIOUS
    <3>2. \A i \in 1..7 : i # 5 /\ i # 5 + 1 => Places(s)'[i] = Places(s)[i]
      BY <2>8, <3>1
    <3>3. 5 \in 1..5 /\ 5 + 1 = 6 /\ 5 # 3
      OBVIOUS
    <3>4. /\ n \in Places(s)[5 + 1] /\ Places(s)[5 + 1] \subseteq Places(s)'[5 + 1] \union {n}
          /\ Places(s)'[5 + 1] \subseteq Places(s)[5 + 1] /\ \A y \in Places(s)'[5 + 1] : n < y
      BY <2>8, <3>3
    <3>5. Places(s)'[5] = Places(s)[5] \union {n}
      BY <2>11
    <3> HIDE DEF n
    <3>6. Advances(Places(s), Places(s)', 5, n)
      BY <3>2, <3>4, <3>5 DEF Advances
    <3> QED  BY <1>1, <1>2, <3>3, <3>6, OnTheWay
  <2>14. WireInv(s)'
    BY <1>1 DEF SessionInv, WireInv
  <2>15. ReaderInv(s)'
    <3>1. s \notin raced => Framed(s)'
      BY <1>1, <1>3, <2>0, <2>1, <2>2 DEF ReaderInv, Framed
    <3> QED  BY <1>1, <1>5, <2>1, <2>2, <3>1 DEF ReaderInv
  <2>16. OrderInv(s)'
    <3>1. \A q \in Line(s)' : Rising(s, q)
      BY <2>0, <2>6, <2>10, <2>12 DEF OrderInv
    <3> QED  BY <1>1, <2>0, <2>13, <3>1 DEF OrderInv
  <2>17. ContentInv(s)'
    BY <1>1, <2>0, <2>6, <2>10, <2>12 DEF ContentInv
  <2> QED  BY <1>8, <2>13, <2>14, <2>15, <2>16, <2>17 DEF SessionInv
<1> QED  BY <1>7, <1>8

-----------------------------------------------------------------------------
(* The steps of NetLogic's thread.                                         *)
LEMMA LogicHas ==
    ASSUME Types, logic.at # "pop"
    PROVE  /\ Head(logic.msgs) \in Requests /\ logic.msgs = <<Head(logic.msgs)>>
           /\ logic.msgs[1] = Head(logic.msgs)
           /\ logic.at # "join" => InLogic = <<Head(logic.msgs)>>
<1>1. logic.msgs \in OneOrNone(Requests) /\ logic.msgs # <<>>
  BY DEF Types, LogicTypes
<1> QED  BY <1>1, NoneOrOne DEF InLogic

LEMMA StepLogicPop ==
    ASSUME IInv, LogicPop, NEW r \in Sessions
    PROVE  SessionInv(r)'
<1> DEFINE m == Head(logicQueue)
           n == Number(m)
<1>1. /\ Types /\ SessionInv(r) /\ logic.at = "pop" /\ logicQueue # <<>>
      /\ UNCHANGED <<server, _sessions, peer, sent, written, _queue_send, writer, _header,
                     raced, wire, io, reading>>
      /\ logic' = At("find", <<m>>) /\ logicQueue' = Tail(logicQueue)
  BY DEF IInv, LogicPop, serverVars, clientVars, sessionVars, headerVars, readerVars
<1>2. /\ logicQueue \in Seq(Requests) /\ logic.msgs = <<>> /\ sent[r] \in Nat
  BY <1>1 DEF Types, LogicTypes, ClientTypes
<1>3. m \in Requests /\ \A x \in Requests : Number(x) \in Nat
  BY <1>1, <1>2, HeadTailProperties, Numbers
<1>4. InLogic = <<>> /\ InLogic' = <<m>> /\ Hand(r)' = Hand(r)
  BY <1>1, <1>2, HandStays DEF InLogic, At
<1>m. m = Head(logicQueue)
  OBVIOUS
<1> HIDE DEF m
<1>5. CASE m.session # r
  <2>1. Alike(r, logicQueue, Tail(logicQueue)) /\ Alike(r, <<>>, <<m>>)
    BY <1>1, <1>2, <1>3, <1>5, <1>m, Others
  <2>2. Untouched(r)
    BY <1>1, <1>4, <2>1 DEF Untouched
  <2> QED  BY <1>1, <2>2, UntouchedStays
<1>6. CASE m.session = r
  <2>0. OrderInv(r) /\ GapInv(r) /\ ContentInv(r) /\ ReaderInv(r)
    BY <1>1 DEF SessionInv
  <2>1. /\ Parsing(r)' <=> Parsing(r)
        /\ Pushes(r)' <=> Pushes(r)
        /\ Handed(r)' = Handed(r) /\ Coming(r)' = Coming(r) /\ Answered(r)' = Answered(r)
    BY <1>1, <1>4 DEF Parsing, Pushes, Handed, Coming, Answered
  <2>2. Rising(r, logicQueue) /\ (r \notin raced => Intact(r, logicQueue))
    BY <2>0 DEF OrderInv, ContentInv, Line
  <2>3. /\ Rising(r, Tail(logicQueue))
        /\ Nums(r, Tail(logicQueue)) = Nums(r, logicQueue) \ {n}
        /\ n \in Nums(r, logicQueue) /\ \A a \in Nums(r, Tail(logicQueue)) : n < a
        /\ r \notin raced => Intact(r, Tail(logicQueue)) /\ m.data = Request(r, n)
    <3>1. /\ Rising(r, Tail(logicQueue))
          /\ Nums(r, Tail(logicQueue)) = Nums(r, logicQueue) \
                (IF Head(logicQueue).session = r THEN {Number(Head(logicQueue))} ELSE {})
          /\ Head(logicQueue).session = r =>
                /\ Number(Head(logicQueue)) \in Nums(r, logicQueue)
                /\ \A a \in Nums(r, Tail(logicQueue)) : Number(Head(logicQueue)) < a
          /\ Intact(r, logicQueue) =>
                /\ Intact(r, Tail(logicQueue))
                /\ Head(logicQueue).session = r =>
                      Head(logicQueue).data = Request(r, Number(Head(logicQueue)))
      BY <1>1, <1>2, <1>3, <2>2, Taken
    <3> QED  BY <1>6, <1>m, <2>2, <3>1
  <2>4. /\ Nums(r, <<m>>) = {n} /\ Nums(r, <<>>) = {} /\ Rising(r, <<m>>)
        /\ r \notin raced => Intact(r, <<m>>)
    BY <1>6, <2>3, NumsOfOne
  <2>5. /\ Places(r)[5] = Nums(r, logicQueue) /\ Places(r)'[5] = Nums(r, Tail(logicQueue))
        /\ Places(r)[4] = {} /\ Places(r)'[4] = {n}
        /\ \A i \in {1, 2, 3, 6, 7} : Places(r)'[i] = Places(r)[i]
    BY <1>1, <1>4, <2>1, <2>4 DEF Places
  <2>6. /\ \A i \in 1..7 : Places(r)'[i] \subseteq 1..sent'[r]
        /\ Ordered(Places(r)')
        /\ GapInv(r)'
    <3>1. \A i \in 1..7 : i # 4 /\ i # 4 + 1 => i \in {1, 2, 3, 6, 7}
      OBVIOUS
    <3>2. 4 \in 1..5 /\ 4 + 1 = 5 /\ 4 # 3
      OBVIOUS
    <3> HIDE DEF n
    <3>3. Advances(Places(r), Places(r)', 4, n)
      BY <2>3, <2>5, <3>1, <3>2 DEF Advances
    <3> QED  BY <1>1, <1>2, <3>2, <3>3, OnTheWay
  <2>7. \A q \in Line(r)' : q \in Line(r) \/ q = <<m>> \/ q = Tail(logicQueue)
    BY <1>1, <1>4, <2>1 DEF Line
  <2>8. OrderInv(r)'
    <3>1. \A q \in Line(r)' : Rising(r, q)
      BY <2>0, <2>3, <2>4, <2>7 DEF OrderInv
    <3> QED  BY <1>1, <2>0, <2>6, <3>1 DEF OrderInv
  <2>9. ContentInv(r)'
    BY <1>1, <2>0, <2>3, <2>4, <2>7 DEF ContentInv
  <2>10. WireInv(r)' /\ ReaderInv(r)'
    BY <1>1, <1>4, <2>0, <2>1 DEF SessionInv, WireInv, ReaderInv, Framed, Body
  <2> QED  BY <2>6, <2>8, <2>9, <2>10 DEF SessionInv
<1> QED  BY <1>5, <1>6

LEMMA StepLogicFind ==
    ASSUME IInv, LogicFind, NEW r \in Sessions
    PROVE  SessionInv(r)'
<1> DEFINE m == Head(logic.msgs)
           n == Number(m)
<1>1. /\ Types /\ SessionInv(r) /\ logic.at = "find"
      /\ UNCHANGED <<server, _sessions, peer, sent, written, _queue_send, writer, _header,
                     raced, wire, io, reading, logicQueue>>
      /\ \/ m.session \in _sessions /\ logic' = At("send", <<m>>)
         \/ m.session \notin _sessions /\ logic' = At("pop", <<>>)
  BY DEF IInv, LogicFind, serverVars, clientVars, sessionVars, headerVars, readerVars
<1>2. m \in Requests /\ InLogic = <<m>> /\ Hand(r)' = Hand(r)
  BY <1>1, LogicHas, HandStays
<1>3. Number(m) \in Nat /\ \A x \in Requests : Number(x) \in Nat
  BY <1>2, Numbers
<1> HIDE DEF m
<1>4. CASE m.session \in _sessions
  <2>1. InLogic' = InLogic
    BY <1>1, <1>2, <1>4 DEF InLogic, At
  <2>2. Untouched(r)
    BY <1>1, <1>2, <2>1 DEF Untouched, Alike
  <2> QED  BY <1>1, <2>2, UntouchedStays
<1>5. CASE m.session \notin _sessions /\ m.session # r
  <2>1. InLogic' = <<>>
    BY <1>1, <1>5 DEF InLogic, At
  <2>2. Alike(r, <<m>>, <<>>) /\ Alike(r, logicQueue, logicQueue')
    <3>1. <<>> \in Seq(Requests)
      OBVIOUS
    <3> QED  BY <1>1, <1>2, <1>3, <1>5, <3>1, Others DEF Alike
  <2>3. Untouched(r)
    BY <1>1, <1>2, <2>1, <2>2 DEF Untouched
  <2> QED  BY <1>1, <2>3, UntouchedStays
<1>6. CASE m.session \notin _sessions /\ m.session = r
  <2>0. OrderInv(r) /\ GapInv(r) /\ ContentInv(r) /\ ReaderInv(r)
    BY <1>1 DEF SessionInv
  <2>1. /\ Parsing(r)' <=> Parsing(r)
        /\ Pushes(r)' <=> Pushes(r)
        /\ Handed(r)' = Handed(r) /\ Coming(r)' = Coming(r) /\ Answered(r)' = Answered(r)
    BY <1>1, <1>2 DEF Parsing, Pushes, Handed, Coming, Answered
  <2>2. InLogic' = <<>>
    BY <1>1, <1>6 DEF InLogic, At
  <2>3. /\ Nums(r, <<m>>) = {n} /\ Nums(r, <<>>) = {} /\ Rising(r, <<>>) /\ Intact(r, <<>>)
    BY <1>6, NumsOfOne
  <2>4. /\ Places(r)[4] = {n} /\ Places(r)'[4] = {}
        /\ \A i \in {1, 2, 3, 5, 6, 7} : Places(r)'[i] = Places(r)[i]
    BY <1>1, <1>2, <2>1, <2>2, <2>3 DEF Places
  <2>5. \A i \in 1..7 : i = 4 \/ Places(r)'[i] = Places(r)[i]
    <3>1. \A i \in 1..7 : i = 4 \/ i \in {1, 2, 3, 5, 6, 7}
      OBVIOUS
    <3> QED  BY <2>4, <3>1
  <2>6. \A i \in 1..7 : Places(r)'[i] \subseteq Places(r)[i]
    BY <2>4, <2>5
  <2>7. Ordered(Places(r)') /\ \A i \in 1..7 : Places(r)'[i] \subseteq 1..sent'[r]
    BY <1>1, <2>0, <2>6, OrderShrinks DEF OrderInv
  <2>8. \A q \in Line(r)' : q \in Line(r) \/ q = <<>>
    BY <1>1, <2>1, <2>2 DEF Line
  <2>9. OrderInv(r)'
    <3>1. \A q \in Line(r)' : Rising(r, q)
      BY <2>0, <2>3, <2>8 DEF OrderInv
    <3> QED  BY <1>1, <2>0, <2>7, <3>1 DEF OrderInv
  <2>10. ContentInv(r)'
    BY <1>1, <2>0, <2>3, <2>8 DEF ContentInv
  <2>11. WireInv(r)' /\ ReaderInv(r)'
    BY <1>1, <1>2, <2>0, <2>1 DEF SessionInv, WireInv, ReaderInv, Framed, Body
  <2>12. GapInv(r)'
    <3>1. \A i \in 1..3 : Places(r)'[i] = Places(r)[i]
      BY <2>5
    <3>2. Upcoming(r)' = Upcoming(r)
      BY <1>1 DEF Upcoming
    <3>3. ASSUME r \notin raced, peer[r] = "up", server # "destroyed",
                 NEW a \in Handling(r)'
          PROVE  a < Upcoming(r) /\ a..(Upcoming(r) - 1) \subseteq Handling(r)'
      <4>1. PICK i \in 1..6 : a \in Places(r)'[i]
        BY DEF Handling, AllOf
      <4>2. \A j \in 1..3 : Places(r)[j] = {}
        BY <1>6, <2>0, <3>3 DEF GapInv
      <4>3. i \in {5, 6} /\ a \in Places(r)[i]
        <5>1. i \in 1..3 \/ i = 4 \/ i \in {5, 6}
          OBVIOUS
        <5>2. i \notin 1..3
          BY <2>6, <4>1, <4>2
        <5>3. i # 4
          BY <2>4, <4>1
        <5> QED  BY <2>6, <4>1, <5>1, <5>2, <5>3
      <4>4. n < a
        <5>1. 4 \in 1..7 /\ i \in 1..7 /\ 4 < i /\ n \in Places(r)[4]
          BY <2>4, <4>3
        <5> QED  BY <2>0, <4>3, <5>1 DEF OrderInv, Ordered
      <4>5. a \in Handling(r) /\ a \in Nat
        <5>1. \A j \in 1..7 : Places(r)[j] \subseteq 1..sent[r]
          BY <2>0 DEF OrderInv
        <5>2. i \in 1..6 /\ i \in 1..7
          BY <4>3
        <5> QED  BY <4>3, <5>1, <5>2 DEF Handling, AllOf
      <4>6. a < Upcoming(r) /\ a..(Upcoming(r) - 1) \subseteq Handling(r)
        BY <2>0, <3>3, <4>5 DEF GapInv
      <4>7. ASSUME NEW b \in a..(Upcoming(r) - 1) PROVE b \in Handling(r)'
        <5>1. PICK j \in 1..6 : b \in Places(r)[j]
          BY <4>6 DEF Handling, AllOf
        <5>2. b # n
          <6>1. a <= b
            BY <4>5, <4>7
          <6> HIDE DEF n
          <6>2. n \in Nat
            BY <1>3 DEF n
          <6> QED  BY <4>4, <4>5, <6>1, <6>2
        <5>3. j # 4
          BY <2>4, <5>1, <5>2
        <5>4. b \in Places(r)'[j]
          BY <2>5, <5>1, <5>3
        <5> QED  BY <5>4 DEF Handling, AllOf
      <4> QED  BY <4>6, <4>7
    <3> QED  BY <1>1, <2>0, <3>1, <3>2, <3>3 DEF GapInv
  <2> QED  BY <2>9, <2>10, <2>11, <2>12 DEF SessionInv
<1> QED  BY <1>4, <1>5, <1>6

LEMMA StepLogicSend ==
    ASSUME IInv, LogicSend, NEW r \in Sessions
    PROVE  SessionInv(r)'
<1> DEFINE m == Head(logic.msgs)
           n == Number(m)
           q == _queue_send[r]
<1>1. /\ Types /\ SessionInv(r) /\ logic.at = "send" /\ logic' = AfterSend(m)
      /\ UNCHANGED <<server, _sessions, peer, sent, written, writer, _header,
                     raced, wire, io, reading, logicQueue>>
      /\ _queue_send' = [_queue_send EXCEPT ![m.session] = Append(@, m)]
  BY DEF IInv, LogicSend, serverVars, clientVars, headerVars, readerVars
<1>2. /\ m \in Requests /\ InLogic = <<m>> /\ Hand(r)' = Hand(r) /\ logic.msgs[1] = m
  BY <1>1, LogicHas, HandStays
<1>3. /\ Number(m) \in Nat /\ \A x \in Requests : Number(x) \in Nat
      /\ _queue_send \in [Sessions -> Seq(Requests)] /\ sent[r] \in Nat
      /\ q \in Seq(Requests)
  BY <1>1, <1>2, Numbers DEF Types, WriterTypes, ClientTypes
<1>4. InLogic' = <<>>
  BY <1>1 DEF InLogic, AfterSend, At
<1>5. m.session \in _sessions \/ server = "destroyed"
  BY <1>1, <1>2 DEF IInv, ServerInv, Found
<1> HIDE DEF m
<1>6. CASE m.session # r
  <2>1. _queue_send'[r] = _queue_send[r]
    BY <1>1, <1>3, <1>6
  <2>2. Alike(r, <<m>>, <<>>) /\ Alike(r, logicQueue, logicQueue')
    <3>1. <<>> \in Seq(Requests)
      OBVIOUS
    <3>2. Alike(r, <<m>>, <<>>)
      BY <1>2, <1>3, <1>6, <3>1, Others
    <3>3. logicQueue' = logicQueue
      BY <1>1
    <3> QED  BY <3>2, <3>3 DEF Alike
  <2>3. Untouched(r)
    BY <1>1, <1>2, <1>4, <2>1, <2>2 DEF Untouched
  <2> QED  BY <1>1, <2>3, UntouchedStays
<1>7. CASE m.session = r
  <2>0. OrderInv(r) /\ GapInv(r) /\ ContentInv(r) /\ ReaderInv(r)
    BY <1>1 DEF SessionInv
  <2>1. /\ Parsing(r)' <=> Parsing(r)
        /\ Pushes(r)' <=> Pushes(r)
        /\ Handed(r)' = Handed(r) /\ Coming(r)' = Coming(r) /\ Answered(r)' = Answered(r)
    BY <1>1, <1>2 DEF Parsing, Pushes, Handed, Coming, Answered
  <2>2. _queue_send'[r] = Append(q, m)
    BY <1>1, <1>3, <1>7
  <2> HIDE DEF q
  <2>3. /\ Nums(r, <<m>>) = {n} /\ Nums(r, <<>>) = {} /\ Rising(r, <<>>) /\ Intact(r, <<>>)
        /\ Intact(r, <<m>>) <=> m.data = Request(r, n)
    BY <1>7, NumsOfOne
  <2>4. /\ Places(r)[4] = {n} /\ Places(r)'[4] = {}
        /\ Places(r)[3] = Nums(r, q) /\ Places(r)'[3] = Nums(r, Append(q, m))
        /\ \A i \in {1, 2, 5, 6, 7} : Places(r)'[i] = Places(r)[i]
    BY <1>1, <1>2, <1>4, <2>1, <2>2, <2>3 DEF Places, q
  <2>5. \A a \in Nums(r, q) : a < n
    <3>1. 3 \in 1..7 /\ 4 \in 1..7 /\ 3 < 4
      OBVIOUS
    <3> QED  BY <2>0, <2>4, <3>1 DEF OrderInv, Ordered
  <2>6. /\ Rising(r, Append(q, m)) /\ Nums(r, Append(q, m)) = Nums(r, q) \union {n}
        /\ r \notin raced => Intact(r, Append(q, m))
    <3>1. Rising(r, q) /\ (r \notin raced => Intact(r, q) /\ Intact(r, <<m>>))
      BY <1>2, <2>0 DEF OrderInv, ContentInv, Line, q
    <3>2. /\ Rising(r, Append(q, m))
          /\ Nums(r, Append(q, m)) = Nums(r, q) \union {n}
      BY <1>2, <1>3, <1>7, <2>5, <3>1, Put
    <3>3. r \notin raced => Intact(r, Append(q, m))
      BY <1>2, <1>3, <2>3, <3>1, PutIntact
    <3> QED  BY <3>2, <3>3
  <2>7. /\ \A i \in 1..7 : Places(r)'[i] \subseteq 1..sent'[r]
        /\ Ordered(Places(r)')
        /\ GapInv(r)'
    <3>1. \A i \in 1..7 : i # 3 /\ i # 3 + 1 => i \in {1, 2, 5, 6, 7}
      OBVIOUS
    <3>2. 3 \in 1..5 /\ 3 + 1 = 4
      OBVIOUS
    <3> HIDE DEF n
    <3>3. Advances(Places(r), Places(r)', 3, n)
      BY <2>4, <2>6, <3>1, <3>2 DEF Advances
    <3> QED  BY <1>1, <1>3, <1>5, <1>7, <3>2, <3>3, OnTheWay
  <2>8. \A x \in Line(r)' : x \in Line(r) \/ x = <<>> \/ x = Append(q, m)
    BY <1>1, <1>4, <2>1, <2>2 DEF Line
  <2>9. OrderInv(r)'
    <3>1. \A x \in Line(r)' : Rising(r, x)
      BY <2>0, <2>3, <2>6, <2>8 DEF OrderInv
    <3> QED  BY <1>1, <2>0, <2>7, <3>1 DEF OrderInv
  <2>10. ContentInv(r)'
    <3>1. \A x \in ToSet(Append(q, m)) : x.session = r
      <4>1. /\ Len(q) \in Nat /\ Append(q, m) \in Seq(Requests)
            /\ Len(Append(q, m)) = Len(q) + 1
            /\ Append(q, m)[Len(q) + 1] = m
            /\ \A k \in 1..Len(q) : Append(q, m)[k] = q[k]
        BY <1>2, <1>3, LenProperties, AppendProperties
      <4>2. \A k \in 1..(Len(q) + 1) : k \in 1..Len(q) \/ k = Len(q) + 1
        BY <4>1
      <4>3. \A k \in 1..Len(q) : q[k].session = r
        BY <1>3, <2>0, ToSetOf DEF ContentInv, q
      <4>4. \A k \in 1..(Len(q) + 1) : Append(q, m)[k].session = r
        BY <1>7, <4>1, <4>2, <4>3
      <4>5. \A x : x \in ToSet(Append(q, m)) <=>
                     \E k \in 1..Len(Append(q, m)) : Append(q, m)[k] = x
        BY <4>1, ToSetOf
      <4> QED  BY <4>1, <4>4, <4>5
    <3>2. r \notin raced => \A x \in Line(r)' : Intact(r, x)
      BY <2>0, <2>3, <2>6, <2>8 DEF ContentInv
    <3> QED  BY <1>1, <2>0, <2>2, <3>1, <3>2 DEF ContentInv
  <2>11. WireInv(r)' /\ ReaderInv(r)'
    BY <1>1, <1>2, <2>0, <2>1 DEF SessionInv, WireInv, ReaderInv, Framed, Body
  <2> QED  BY <2>7, <2>9, <2>10, <2>11 DEF SessionInv
<1> QED  BY <1>6, <1>7

LEMMA StepLogicJoin ==
    ASSUME IInv, LogicJoin, NEW r \in Sessions
    PROVE  SessionInv(r)'
<1> DEFINE s == Head(logic.msgs).session
<1>1. /\ Types /\ SessionInv(r) /\ logic.at = "join" /\ logic' = At("pop", <<>>)
      /\ UNCHANGED <<server, _sessions, peer, sent, written, writer, _header,
                     raced, wire, io, _queue_send, logicQueue>>
      /\ reading' = [reading EXCEPT ![s] = Read("freed", 0)]
  BY DEF IInv, LogicJoin, serverVars, clientVars, headerVars, sessionVars
<1>2. reading \in [Sessions -> Reads0] /\ Hand(r)' = Hand(r)
  BY <1>1, HandStays DEF Types, ReaderTypes
<1>3. InLogic' = InLogic
  BY <1>1 DEF InLogic, At
<1> HIDE DEF s
<1>4. CASE r # s
  <2>1. reading'[r] = reading[r]
    BY <1>1, <1>2, <1>4
  <2>2. Untouched(r)
    BY <1>1, <1>2, <1>3, <2>1 DEF Untouched, Alike
  <2> QED  BY <1>1, <2>2, UntouchedStays
<1>5. CASE r = s
  <2>1. reading'[r].what = "freed"
    BY <1>1, <1>2, <1>5 DEF Read
  <2>2. /\ Parsing(r)' <=> Parsing(r)
        /\ Pushes(r)' <=> Pushes(r)
        /\ Handed(r)' = Handed(r) /\ Upcoming(r)' = Upcoming(r)
    BY <1>1, <1>2 DEF Parsing, Pushes, Handed, Upcoming
  <2>3. Coming(r)' \subseteq Coming(r)
    BY <1>1, <2>1, <2>2 DEF Coming
  <2>4. WireInv(r)'
    BY <1>1 DEF SessionInv, WireInv
  <2>5. ReaderInv(r)'
    BY <1>1, <1>2, <2>1, <2>2 DEF SessionInv, ReaderInv, Framed, Body
  <2>6. OrderInv(r)' /\ GapInv(r)' /\ ContentInv(r)'
    BY <1>1, <1>3, <2>2, <2>3, ReaderMoves
  <2> QED  BY <2>4, <2>5, <2>6 DEF SessionInv
<1> QED  BY <1>4, <1>5

-----------------------------------------------------------------------------
(* The steps of a write thread.                                            *)
LEMMA WriterHas ==
    ASSUME Types, NEW s \in Sessions, SessionInv(s), writer[s].msgs # <<>>
    PROVE  LET m == Head(writer[s].msgs)
           IN  /\ m \in Requests /\ writer[s].msgs = <<m>> /\ writer[s].msgs[1] = m
               /\ m.session = s
<1> DEFINE q == writer[s].msgs
<1>1. q[1] \in Requests /\ q = <<q[1]>> /\ Head(q) = q[1] /\ DOMAIN q = {1}
  BY NoneOrOne DEF Types, WriterTypes
<1>2. q[1] \in ToSet(q)
  BY <1>1 DEF ToSet
<1>3. q[1].session = s
  BY <1>2 DEF SessionInv, ContentInv
<1> QED  BY <1>1, <1>3

LEMMA WriterStays ==
    ASSUME NEW s \in Sessions, NEW r \in Sessions, SessionInv(r), r # s,
           NEW x, writer \in [Sessions -> [at : {"none", "pop", "header", "write", "end"},
                                           msgs : OneOrNone(Requests)]],
           writer' = [writer EXCEPT ![s] = x],
           UNCHANGED <<server, _sessions, peer[r], sent, written[r], _header[r], wire, io,
                       reading, logic, logicQueue, _queue_send[r]>>,
           raced \subseteq raced'
    PROVE  SessionInv(r)'
<1>1. writer'[r] = writer[r]
  OBVIOUS
<1>2. Hand(r)' = Hand(r)
  BY HandStays
<1>3. Untouched(r)
  BY <1>1, <1>2, LogicStays DEF Untouched
<1> QED  BY <1>3, UntouchedStays

LEMMA StepWriterPop ==
    ASSUME IInv, NEW s \in Sessions, WriterPop(s), NEW r \in Sessions
    PROVE  SessionInv(r)'
<1> DEFINE q == _queue_send[s]
           m == Head(q)
           n == Number(m)
<1>1. /\ Types /\ SessionInv(s) /\ SessionInv(r) /\ writer[s].at = "pop" /\ q # <<>>
      /\ UNCHANGED <<server, _sessions, peer, sent, written, _header, raced, wire, io,
                     reading, logic, logicQueue>>
      /\ writer' = [writer EXCEPT ![s] = At("header", <<m>>)]
      /\ _queue_send' = [_queue_send EXCEPT ![s] = Tail(q)]
  BY DEF IInv, WriterPop, serverVars, clientVars, headerVars, readerVars, logicVars
<1>2. /\ writer \in [Sessions -> [at : {"none", "pop", "header", "write", "end"},
                                  msgs : OneOrNone(Requests)]]
      /\ _queue_send \in [Sessions -> Seq(Requests)] /\ sent[s] \in Nat
      /\ q \in Seq(Requests) /\ writer[s].msgs = <<>>
  BY <1>1 DEF Types, WriterTypes, ClientTypes
<1>3. m \in Requests /\ \A x \in Requests : Number(x) \in Nat
  BY <1>1, <1>2, HeadTailProperties, Numbers
<1>4. CASE r # s
  <2>1. _queue_send'[r] = _queue_send[r]
    BY <1>1, <1>2, <1>4
  <2> QED  BY <1>1, <1>2, <1>4, <2>1, WriterStays
<1>5. CASE r = s
  <2>0. OrderInv(s) /\ GapInv(s) /\ ContentInv(s) /\ ReaderInv(s) /\ Hand(s)' = Hand(s)
    BY <1>1, HandStays DEF SessionInv
  <2>m. m = Head(q) /\ \A x \in ToSet(q) : x.session = s
    BY <2>0 DEF ContentInv
  <2>1. /\ Parsing(s)' <=> Parsing(s)
        /\ Pushes(s)' <=> Pushes(s)
        /\ Handed(s)' = Handed(s) /\ Coming(s)' = Coming(s) /\ Answered(s)' = Answered(s)
    BY <1>1, <2>0 DEF Parsing, Pushes, Handed, Coming, Answered
  <2>2. /\ _queue_send'[s] = Tail(q) /\ writer'[s].msgs = <<m>> /\ writer'[s].at = "header"
        /\ InLogic' = InLogic
    BY <1>1, <1>2 DEF At, InLogic
  <2>3. Rising(s, q) /\ (s \notin raced => Intact(s, q))
    BY <2>0 DEF OrderInv, ContentInv, Line
  <2> HIDE DEF q, m
  <2>4. /\ Len(q) \in Nat /\ Len(q) # 0 /\ DOMAIN q = 1..Len(q) /\ m = q[1]
        /\ Tail(q) \in Seq(Requests) /\ Len(Tail(q)) = Len(q) - 1
        /\ \A k \in 1..Len(Tail(q)) : Tail(q)[k] = q[k + 1]
    BY <1>1, <1>2, <2>m, LenProperties, HeadTailProperties, EmptySeq
  <2>5. \A k \in 1..Len(q) : q[k].session = s
    BY <1>2, <2>m, ToSetOf
  <2>6. m.session = s /\ \A x \in ToSet(Tail(q)) : x.session = s
    <3>1. 1 \in 1..Len(q) /\ \A k \in 1..(Len(q) - 1) : k + 1 \in 1..Len(q)
      BY <2>4
    <3>2. \A k \in 1..Len(Tail(q)) : Tail(q)[k].session = s
      BY <2>4, <2>5, <3>1
    <3>3. \A x : x \in ToSet(Tail(q)) <=> \E k \in 1..Len(Tail(q)) : Tail(q)[k] = x
      BY <2>4, ToSetOf
    <3> QED  BY <2>4, <2>5, <3>1, <3>2, <3>3
  <2>7. /\ Rising(s, Tail(q)) /\ Nums(s, Tail(q)) = Nums(s, q) \ {n}
        /\ n \in Nums(s, q) /\ \A a \in Nums(s, Tail(q)) : n < a
        /\ s \notin raced => Intact(s, Tail(q)) /\ m.data = Request(s, n)
    <3>1. /\ Rising(s, Tail(q))
          /\ Nums(s, Tail(q)) = Nums(s, q) \
                (IF Head(q).session = s THEN {Number(Head(q))} ELSE {})
          /\ Head(q).session = s => /\ Number(Head(q)) \in Nums(s, q)
                                    /\ \A a \in Nums(s, Tail(q)) : Number(Head(q)) < a
          /\ Intact(s, q) => /\ Intact(s, Tail(q))
                             /\ Head(q).session = s => Head(q).data = Request(s, Number(Head(q)))
      BY <1>1, <1>2, <1>3, <2>3, Taken
    <3> QED  BY <2>m, <2>3, <2>6, <3>1
  <2>8. /\ Nums(s, <<m>>) = {n} /\ Nums(s, <<>>) = {} /\ Rising(s, <<m>>)
        /\ s \notin raced => Intact(s, <<m>>)
    BY <2>6, <2>7, NumsOfOne
  <2>9. /\ Places(s)[3] = Nums(s, q) /\ Places(s)'[3] = Nums(s, Tail(q))
        /\ Places(s)[2] = {} /\ Places(s)'[2] = {n}
        /\ \A i \in {1, 4, 5, 6, 7} : Places(s)'[i] = Places(s)[i]
    <3>1. Nums(s, writer[s].msgs) = {} /\ Nums(s, writer[s].msgs)' = {n}
      BY <1>2, <2>2, <2>8
    <3>2. Nums(s, _queue_send[s]) = Nums(s, q) /\ Nums(s, _queue_send[s])' = Nums(s, Tail(q))
      BY <2>2 DEF q
    <3>3. Nums(s, InLogic)' = Nums(s, InLogic) /\ Nums(s, logicQueue)' = Nums(s, logicQueue)
          /\ Nums(s, Handed(s))' = Nums(s, Handed(s))
      BY <1>1, <2>1, <2>2
    <3> QED  BY <2>1, <3>1, <3>2, <3>3 DEF Places
  <2>10. /\ \A i \in 1..7 : Places(s)'[i] \subseteq 1..sent'[s]
         /\ Ordered(Places(s)')
         /\ GapInv(s)'
    <3>1. \A i \in 1..7 : i # 2 /\ i # 2 + 1 => i \in {1, 4, 5, 6, 7}
      OBVIOUS
    <3>2. 2 \in 1..5 /\ 2 + 1 = 3 /\ 2 # 3
      OBVIOUS
    <3> HIDE DEF n
    <3>3. Advances(Places(s), Places(s)', 2, n)
      BY <2>7, <2>9, <3>1, <3>2 DEF Advances
    <3> QED  BY <1>1, <1>2, <3>2, <3>3, OnTheWay
  <2>11. \A x \in Line(s)' : x \in Line(s) \/ x = <<m>> \/ x = Tail(q)
    BY <1>1, <2>1, <2>2 DEF Line
  <2>12. OrderInv(s)'
    <3>1. \A x \in Line(s)' : Rising(s, x)
      BY <2>0, <2>7, <2>8, <2>11 DEF OrderInv
    <3> QED  BY <1>1, <2>0, <2>10, <3>1 DEF OrderInv
  <2>13. ContentInv(s)'
    <3>1. s \notin raced => \A x \in Line(s)' : Intact(s, x)
      BY <2>0, <2>7, <2>8, <2>11 DEF ContentInv
    <3>2. \A x \in ToSet(<<m>>) : x.session = s
      <4>1. DOMAIN <<m>> = {1} /\ <<m>>[1] = m
        OBVIOUS
      <4> QED  BY <2>6, <4>1 DEF ToSet
    <3> QED  BY <1>1, <2>0, <2>2, <2>6, <3>1, <3>2 DEF ContentInv
  <2>14. WireInv(s)' /\ ReaderInv(s)'
    BY <1>1, <2>0, <2>1, <2>2 DEF SessionInv, WireInv, ReaderInv, Framed, Body
  <2> QED  BY <1>5, <2>10, <2>12, <2>13, <2>14 DEF SessionInv
<1> QED  BY <1>4, <1>5

LEMMA StepWriterHeader ==
    ASSUME IInv, NEW s \in Sessions, WriterHeader(s), NEW r \in Sessions
    PROVE  SessionInv(r)'
<1> DEFINE m == Head(writer[s].msgs)
           z == ReplySize(m)
<1>1. /\ Types /\ SessionInv(s) /\ SessionInv(r) /\ writer[s].at = "header"
      /\ UNCHANGED <<server, _sessions, peer, sent, written, wire, io,
                     reading, logic, logicQueue, _queue_send>>
      /\ writer' = [writer EXCEPT ![s] = [writer[s] EXCEPT !.at = "write"]]
      /\ _header' = [_header EXCEPT ![s] = [FileSize |-> z, Data |-> z]]
      /\ raced' = IF InHandler(Context(s), s, "parse") THEN raced \union {s} ELSE raced
  BY DEF IInv, WriterHeader, serverVars, clientVars, readerVars, logicVars
<1>2. /\ writer \in [Sessions -> [at : {"none", "pop", "header", "write", "end"},
                                  msgs : OneOrNone(Requests)]]
      /\ _header \in [Sessions -> [FileSize : Nat, Data : Nat]]
      /\ writer[s].msgs # <<>>
  BY <1>1 DEF Types, WriterTypes, ReaderTypes
<1>3. m \in Requests /\ writer[s].msgs[1] = m
  BY <1>1, <1>2, WriterHas
<1>4. z > 0
  <2>1. m.data \in Seq(Units) /\ m.data # <<>>
    BY <1>3 DEF Requests, Texts
  <2>2. Len(m.data) \in Nat /\ Len(m.data) # 0
    BY <2>1, LenProperties, EmptySeq
  <2>3. PrefixSize \in Nat
    BY SizesAssumption
  <2> HIDE DEF m
  <2> QED  BY <2>2, <2>3 DEF ReplySize
<1>5. raced \subseteq raced' /\ (Parsing(s) => s \in raced')
  BY <1>1, HandIs
<1>z. z = ReplySize(m)
  OBVIOUS
<1> HIDE DEF m, z
<1>6. CASE r # s
  <2>1. _header'[r] = _header[r]
    BY <1>1, <1>2, <1>6
  <2> QED  BY <1>1, <1>2, <1>5, <1>6, <2>1, WriterStays
<1>7. CASE r = s
  <2>1. /\ writer'[s].at = "write" /\ writer'[s].msgs = writer[s].msgs
        /\ _header'[s].FileSize = z /\ _header'[s].Data = z
    BY <1>1, <1>2
  <2>2. OrderInv(s) /\ GapInv(s) /\ ContentInv(s) /\ ReaderInv(s) /\ Hand(s)' = Hand(s)
    BY <1>1, HandStays DEF SessionInv
  <2>3. /\ Parsing(s)' <=> Parsing(s)
        /\ Pushes(s)' <=> Pushes(s)
        /\ Handed(s)' = Handed(s) /\ Coming(s)' = Coming(s) /\ Answered(s)' = Answered(s)
        /\ InLogic' = InLogic
    BY <1>1, <2>2 DEF Parsing, Pushes, Handed, Coming, Answered, InLogic
  <2>4. Places(s)' = Places(s) /\ Line(s)' = Line(s)
    BY <1>1, <2>1, <2>3 DEF Places, Line
  <2>5. OrderInv(s)' /\ GapInv(s)'
    BY <1>1, <1>5, <2>2, <2>4 DEF OrderInv, GapInv, Handling, Upcoming
  <2>6. ContentInv(s)'
    BY <1>1, <1>3, <1>5, <1>z, <2>1, <2>2, <2>4 DEF ContentInv
  <2>7. WireInv(s)'
    BY <1>1 DEF SessionInv, WireInv
  <2>8. ReaderInv(s)'
    <3>1. s \notin raced' => Framed(s)'
      BY <1>1, <1>5, <2>2, <2>3 DEF ReaderInv, Framed
    <3> QED  BY <1>1, <1>4, <1>5, <2>1, <2>2, <2>3, <3>1 DEF ReaderInv, Body
  <2> QED  BY <1>7, <2>5, <2>6, <2>7, <2>8 DEF SessionInv
<1> QED  BY <1>6, <1>7

LEMMA StepWriterWrite ==
    ASSUME IInv, NEW s \in Sessions, WriterWrite(s), NEW r \in Sessions
    PROVE  SessionInv(r)'
<1> DEFINE m == Head(writer[s].msgs)
           n == Number(m)
           f == [size |-> _header[s].Data, data |-> m.data]
           q == written[s]
<1>1. /\ Types /\ SessionInv(s) /\ SessionInv(r) /\ writer[s].at = "write"
      /\ UNCHANGED <<server, _sessions, peer, sent, _header, raced, wire, io,
                     reading, logic, logicQueue, _queue_send>>
      /\ writer' = [writer EXCEPT ![s] = AfterWrite(s)]
      /\ \/ peer[s] = "up" /\ written' = [written EXCEPT ![s] = Append(@, f)]
         \/ peer[s] = "gone" /\ written' = written
  BY DEF IInv, WriterWrite, serverVars, headerVars, readerVars, logicVars
<1>2. /\ writer \in [Sessions -> [at : {"none", "pop", "header", "write", "end"},
                                  msgs : OneOrNone(Requests)]]
      /\ written \in [Sessions -> Seq(Answers)] /\ sent[s] \in Nat
      /\ _header \in [Sessions -> [FileSize : Nat, Data : Nat]]
      /\ writer[s].msgs # <<>> /\ q \in Seq(Answers)
  BY <1>1 DEF Types, WriterTypes, ReaderTypes, ClientTypes
<1>3. m \in Requests /\ writer[s].msgs[1] = m /\ writer[s].msgs = <<m>> /\ m.session = s
  BY <1>1, <1>2, WriterHas
<1>4. f \in Answers /\ f.data = m.data /\ f.size = _header[s].Data /\ Number(f) = n
  <2> HIDE DEF m
  <2> QED  BY <1>2, <1>3 DEF Requests, Answers, Number
<1> HIDE DEF f, m
<1>5. CASE r # s
  <2>1. written'[r] = written[r]
    BY <1>1, <1>2, <1>5
  <2> QED  BY <1>1, <1>2, <1>5, <2>1, WriterStays
<1>6. CASE r = s
  <2>1. writer'[s].at \in {"pop", "end"} /\ writer'[s].msgs = <<>>
    BY <1>1, <1>2 DEF AfterWrite, At
  <2>2. OrderInv(s) /\ GapInv(s) /\ ContentInv(s) /\ ReaderInv(s) /\ Hand(s)' = Hand(s)
    BY <1>1, HandStays DEF SessionInv
  <2>3. /\ Parsing(s)' <=> Parsing(s)
        /\ Pushes(s)' <=> Pushes(s)
        /\ Handed(s)' = Handed(s) /\ Coming(s)' = Coming(s) /\ InLogic' = InLogic
    BY <1>1, <2>2 DEF Parsing, Pushes, Handed, Coming, InLogic
  <2>4. WireInv(s)' /\ ReaderInv(s)'
    BY <1>1, <2>1, <2>2, <2>3 DEF SessionInv, WireInv, ReaderInv, Framed, Body
  <2>5. \A x \in Line(s)' : x \in Line(s) \/ x = <<>>
    BY <1>1, <2>1, <2>3 DEF Line
  <2>6. /\ Nums(s, <<m>>) = {n} /\ Nums(s, <<>>) = {} /\ Rising(s, <<>>) /\ Intact(s, <<>>)
        /\ Intact(s, <<m>>) <=> m.data = Request(s, n)
    BY <1>3, NumsOfOne
  <2>7. /\ Places(s)[2] = {n} /\ Places(s)'[2] = {}
        /\ \A i \in {3, 4, 5, 6, 7} : Places(s)'[i] = Places(s)[i]
    <3>1. Nums(s, writer[s].msgs) = {n} /\ Nums(s, writer[s].msgs)' = {}
      BY <1>3, <2>1, <2>6
    <3> QED  BY <1>1, <2>3, <3>1 DEF Places
  <2>8. /\ \A x \in Line(s)' : Rising(s, x)
        /\ s \notin raced => \A x \in Line(s)' : Intact(s, x)
    BY <2>2, <2>5, <2>6 DEF OrderInv, ContentInv
  <2>9. \A x \in ToSet(writer'[s].msgs) : x.session = s
    <3>1. DOMAIN <<>> = {}
      OBVIOUS
    <3> QED  BY <2>1, <3>1 DEF ToSet
  <2>10. CASE peer[s] = "gone" /\ written' = written
    <3>1. Places(s)'[1] = Places(s)[1]
      BY <2>10 DEF Places, Answered
    <3>2. \A i \in 1..7 : Places(s)'[i] \subseteq Places(s)[i]
      <4>1. \A i \in 1..7 : i = 1 \/ i = 2 \/ i \in {3, 4, 5, 6, 7}
        OBVIOUS
      <4> QED  BY <2>7, <3>1, <4>1
    <3>3. Ordered(Places(s)') /\ \A i \in 1..7 : Places(s)'[i] \subseteq 1..sent'[s]
      BY <1>1, <2>2, <3>2, OrderShrinks DEF OrderInv
    <3>4. OrderInv(s)'
      BY <2>2, <2>8, <2>10, <3>3 DEF OrderInv
    <3>5. GapInv(s)'
      <4>1. \A i \in 1..3 : Places(s)'[i] \subseteq Places(s)[i]
        BY <3>2
      <4> QED  BY <1>1, <2>2, <2>10, <4>1 DEF GapInv
    <3>6. ContentInv(s)'
      BY <1>1, <2>1, <2>2, <2>8, <2>9, <2>10 DEF ContentInv
    <3> QED  BY <1>6, <2>4, <3>4, <3>5, <3>6 DEF SessionInv
  <2>11. CASE written' = [written EXCEPT ![s] = Append(@, f)]
    <3> DEFINE v == Append(q, f)
    <3>1. written'[s] = v
      BY <1>2, <2>11
    <3>2. Answered(s) = {Number(q[k]) : k \in DOMAIN q}
          /\ Answered(s)' = {Number(v[k]) : k \in DOMAIN v}
      BY <3>1 DEF Answered
    <3>3. \A j, k \in DOMAIN q : j < k => Number(q[j]) < Number(q[k])
      BY <2>2 DEF OrderInv
    <3>4. \A k \in DOMAIN q : k <= Number(q[k])
      BY <2>2 DEF OrderInv
    <3>5. s \notin raced => \A frame \in ToSet(q) : /\ frame.data = Request(s, Number(frame))
                                                    /\ frame.size = ReplySize(frame)
      BY <2>2 DEF ContentInv
    <3> HIDE DEF q
    <3>6. /\ Len(q) \in Nat /\ DOMAIN q = 1..Len(q) /\ DOMAIN v = 1..(Len(q) + 1)
          /\ v \in Seq(Answers) /\ Len(v) = Len(q) + 1
          /\ v[Len(q) + 1] = f /\ \A k \in 1..Len(q) : v[k] = q[k]
      BY <1>2, <1>4, LenProperties, AppendProperties
    <3> HIDE DEF v
    <3>7. \A k \in DOMAIN v : k = Len(q) + 1 \/ k \in DOMAIN q
      BY <3>6
    <3>8. \A k \in DOMAIN q : k \in DOMAIN v /\ v[k] = q[k]
      BY <3>6
    <3>9. Answered(s)' = Answered(s) \union {n}
      <4>1. Len(q) + 1 \in DOMAIN v /\ Number(v[Len(q) + 1]) = n
        BY <1>4, <3>6
      <4> QED  BY <3>2, <3>6, <3>7, <3>8, <4>1, <1>4
    <3>10. \A a \in Answered(s) : a < n
      <4>1. 1 \in 1..7 /\ 2 \in 1..7 /\ 1 < 2 /\ Places(s)[1] = Answered(s)
        BY DEF Places
      <4> QED  BY <2>2, <2>7, <4>1 DEF OrderInv, Ordered
    <3>11. n \in 1..sent[s]
      <4>1. 2 \in 1..7
        OBVIOUS
      <4> QED  BY <2>2, <2>7, <4>1 DEF OrderInv
    <3>12. \A k \in DOMAIN q : Number(q[k]) < n
      BY <3>2, <3>10
    <3>13. ASSUME NEW j \in DOMAIN v, NEW k \in DOMAIN v, j < k
           PROVE  Number(v[j]) < Number(v[k])
      <4>1. j \in DOMAIN q /\ v[j] = q[j]
        BY <3>6, <3>13
      <4>2. CASE k = Len(q) + 1
        BY <1>4, <3>6, <3>12, <4>1, <4>2
      <4>3. CASE k \in DOMAIN q
        BY <3>3, <3>8, <3>13, <4>1, <4>3
      <4> QED  BY <3>7, <4>2, <4>3
    <3>14. ASSUME NEW k \in DOMAIN v PROVE k <= Number(v[k])
      <4>1. CASE k \in DOMAIN q
        BY <3>4, <3>8, <4>1
      <4>2. CASE k = Len(q) + 1
        <5>1. Number(v[k]) = n
          BY <1>4, <3>6, <4>2
        <5> HIDE DEF n
        <5>2. CASE Len(q) = 0
          BY <3>11, <4>2, <5>1, <5>2
        <5>3. CASE Len(q) # 0
          <6>1. Len(q) \in DOMAIN q
            BY <3>6, <5>3
          <6>2. Len(q) <= Number(q[Len(q)]) /\ Number(q[Len(q)]) < n
            BY <3>4, <3>12, <6>1
          <6>3. Number(q[Len(q)]) \in Nat
            BY <1>2, <3>6, <6>1, Numbers, ElementOfSeq
          <6> QED  BY <3>6, <3>11, <4>2, <5>1, <6>2, <6>3
        <5> QED  BY <5>2, <5>3
      <4> QED  BY <3>7, <4>1, <4>2
    <3>15. Places(s)'[1] = Places(s)[1] \union {n}
      BY <3>9 DEF Places
    <3>16. /\ \A i \in 1..7 : Places(s)'[i] \subseteq 1..sent'[s]
           /\ Ordered(Places(s)')
           /\ GapInv(s)'
      <4>1. \A i \in 1..7 : i # 1 /\ i # 1 + 1 => i \in {3, 4, 5, 6, 7}
        OBVIOUS
      <4>2. 1 \in 1..5 /\ 1 + 1 = 2 /\ 1 # 3
        OBVIOUS
      <4> HIDE DEF n
      <4>3. Advances(Places(s), Places(s)', 1, n)
        BY <2>7, <3>15, <4>1, <4>2 DEF Advances
      <4> QED  BY <1>1, <1>2, <4>2, <4>3, OnTheWay
    <3>17. OrderInv(s)'
      BY <2>8, <3>1, <3>13, <3>14, <3>16 DEF OrderInv
    <3>18. ContentInv(s)'
      <4>1. s \notin raced => f.data = Request(s, Number(f)) /\ f.size = ReplySize(f)
        <5>1. s \notin raced => Intact(s, <<m>>) /\ _header[s].Data = ReplySize(m)
          BY <1>1, <1>3, <2>2 DEF ContentInv, Line
        <5>2. ReplySize(f) = ReplySize(m)
          BY <1>4 DEF ReplySize
        <5> QED  BY <1>4, <2>6, <5>1, <5>2
      <4>2. s \notin raced => \A frame \in ToSet(v) : /\ frame.data = Request(s, Number(frame))
                                                      /\ frame.size = ReplySize(frame)
        <5>1. \A x : x \in ToSet(v) => \E k \in 1..Len(v) : v[k] = x
          BY <3>6, ToSetOf
        <5>2. \A k \in 1..Len(q) : q[k] \in ToSet(q)
          BY <1>2, ToSetOf
        <5>3. \A x \in ToSet(v) : x = f \/ x \in ToSet(q)
          BY <3>6, <3>7, <5>1, <5>2
        <5> QED  BY <3>5, <4>1, <5>3
      <4> QED  BY <1>1, <2>1, <2>2, <2>8, <2>9, <3>1, <4>2 DEF ContentInv
    <3> QED  BY <1>6, <2>4, <3>16, <3>17, <3>18 DEF SessionInv
  <2> QED  BY <1>1, <2>10, <2>11
<1> QED  BY <1>5, <1>6

-----------------------------------------------------------------------------
(* The types are kept.                                                     *)
LEMMA ReadsAre ==
    /\ NoRead \in Reads0 /\ HeaderRead \in Reads0 /\ Read("freed", 0) \in Reads0
    /\ \A n \in Nat : Read("data", n) \in Reads0
  BY DEF NoRead, HeaderRead, Read, Reads0

LEMMA PlacesOfLogic ==
    /\ At("pop", <<>>) \in [at : {"pop", "find", "send", "join"}, msgs : OneOrNone(Requests)]
    /\ \A m \in Requests, where \in {"find", "send", "join"} :
          /\ At(where, <<m>>) \in [at : {"pop", "find", "send", "join"},
                                   msgs : OneOrNone(Requests)]
          /\ At(where, <<m>>).at # "pop" /\ At(where, <<m>>).msgs # <<>>
    /\ At("pop", <<>>).at = "pop" /\ At("pop", <<>>).msgs = <<>>
<1>1. /\ <<>> \in OneOrNone(Requests)
      /\ \A m \in Requests : <<m>> \in OneOrNone(Requests) /\ <<m>> # <<>>
  BY OneIs
<1> QED  BY <1>1 DEF At

LEMMA IoTypes ==
    ASSUME Types, NEW s \in Sessions, NEW h \in OneOrNone(Handlers),
           h # <<>> => h[1].session = s, io' = [io EXCEPT ![Context(s)] = h]
    PROVE  /\ io' \in [Contexts -> OneOrNone(Handlers)]
           /\ \A c \in Contexts : io'[c] # <<>> => Context(io'[c][1].session) = c
<1>1. Context(s) \in Contexts
  BY ContextOf
<1>2. /\ io \in [Contexts -> OneOrNone(Handlers)]
      /\ \A c \in Contexts : io[c] # <<>> => Context(io[c][1].session) = c
  BY DEF Types, ReaderTypes
<1>3. io'[Context(s)] = h /\ \A c \in Contexts : c # Context(s) => io'[c] = io[c]
  BY <1>1, <1>2
<1>4. io' \in [Contexts -> OneOrNone(Handlers)]
  BY <1>1, <1>2
<1>5. ASSUME NEW c \in Contexts, io'[c] # <<>> PROVE Context(io'[c][1].session) = c
  <2>1. CASE c = Context(s)
    BY <1>3, <1>5, <2>1
  <2>2. CASE c # Context(s)
    BY <1>2, <1>3, <1>5, <2>2
  <2> QED  BY <2>1, <2>2
<1> QED  BY <1>4, <1>5

LEMMA ServerTypesKept ==
    ASSUME IInv, [Next]_vars
    PROVE  ServerTypes'
<1>1. Types /\ ServerTypes
  BY DEF IInv, Types
<1>2. CASE AcceptInsert
  <2>1. pending \in Sessions /\ pending + 1 \in Nat \ {0}
    BY <1>1, <1>2 DEF AcceptInsert, IInv, ServerInv, ServerTypes
  <2> QED  BY <1>1, <1>2, <2>1 DEF AcceptInsert, ServerTypes, sessionVars
<1>3. CASE AcceptStart \/ AcceptFails
  BY <1>1, <1>3 DEF ServerTypes, AcceptStart, AcceptFails, sessionVars
<1>9. CASE Stop \/ Destroy
  BY <1>1, <1>9 DEF ServerTypes, Stop, Destroy, StopSessions
<1>4. ASSUME NEW s \in Sessions, ReadFails(s) PROVE ServerTypes'
  BY <1>1, <1>4 DEF ServerTypes, ReadFails, serverVars
<1>5. CASE UNCHANGED <<server, accept, pending, _sessions, _is_closed>>
  BY <1>1, <1>5 DEF ServerTypes
<1>6. CASE Logic \/ UNCHANGED vars
  BY <1>5, <1>6 DEF Logic, LogicPop, LogicFind, LogicSend, LogicJoin, vars, serverVars,
                    sessionVars
<1>7. ASSUME NEW s \in Sessions, Client(s) \/ Writer(s) PROVE ServerTypes'
  BY <1>5, <1>7 DEF Client, Writer, ClientSends, ClientGoes, WriterPop, WriterEnds,
                    WriterHeader, WriterWrite, serverVars, sessionVars
<1>8. ASSUME NEW s \in Sessions, Reads(s) \/ AskForData(s) \/ PushToLogic(s)
      PROVE  ServerTypes'
  BY <1>5, <1>8 DEF Reads, ReadHeader, ReadNoHeader, ReadData, AskForData, PushToLogic,
                    serverVars, sessionVars
<1> QED  BY <1>2, <1>3, <1>4, <1>6, <1>7, <1>8, <1>9 DEF Next, Run

LEMMA ClientTypesKept ==
    ASSUME IInv, [Next]_vars
    PROVE  ClientTypes'
<1>1. Types /\ ClientTypes
  BY DEF IInv, Types
<1>2. CASE Run \/ Stop \/ Destroy \/ Logic \/ UNCHANGED vars
  BY <1>1, <1>2 DEF ClientTypes, Run, AcceptStart, AcceptInsert, AcceptFails, Stop, Destroy,
                    Logic, LogicPop, LogicFind, LogicSend, LogicJoin, vars, clientVars
<1>3. ASSUME NEW s \in Sessions, Client(s) PROVE ClientTypes'
  <2>1. \A r \in Sessions : Len(Sizes[r]) \in Nat
    BY SizesAssumption, LenProperties
  <2>2. CASE ClientSends(s)
    <3>1. /\ UNCHANGED <<peer, written>> /\ sent[s] < Len(Sizes[s])
          /\ sent' = [sent EXCEPT ![s] = @ + 1]
      BY <2>2 DEF ClientSends
    <3>2. sent \in [Sessions -> Nat] /\ \A r \in Sessions : sent[r] <= Len(Sizes[r])
      BY <1>1 DEF ClientTypes
    <3>3. /\ sent' \in [Sessions -> Nat] /\ sent'[s] = sent[s] + 1
          /\ \A r \in Sessions : r # s => sent'[r] = sent[r]
      BY <3>1, <3>2
    <3>4. ASSUME NEW r \in Sessions PROVE sent'[r] <= Len(Sizes[r])
      <4>1. sent[s] + 1 <= Len(Sizes[s])
        BY <2>1, <3>1, <3>2
      <4> QED  BY <3>2, <3>3, <4>1
    <3> QED  BY <1>1, <3>1, <3>3, <3>4 DEF ClientTypes
  <2>3. CASE ClientGoes(s)
    BY <1>1, <2>3 DEF ClientTypes, ClientGoes
  <2> QED  BY <1>3, <2>2, <2>3 DEF Client
<1>4. ASSUME NEW s \in Sessions, WriterWrite(s) PROVE ClientTypes'
  <2> DEFINE f == [size |-> _header[s].Data, data |-> Head(writer[s].msgs).data]
  <2>1. f \in Answers
    <3>1. writer[s].msgs # <<>> /\ SessionInv(s)
      BY <1>1, <1>4 DEF WriterWrite, Types, WriterTypes, IInv
    <3>2. Head(writer[s].msgs).data \in Texts
      BY <1>1, <3>1, WriterHas DEF Requests
    <3> QED  BY <1>1, <3>2 DEF Types, ReaderTypes, Answers
  <2> HIDE DEF f
  <2>2. \/ written' = [written EXCEPT ![s] = Append(@, f)]
        \/ written' = written
    BY <1>4 DEF WriterWrite, f
  <2>3. written' \in [Sessions -> Seq(Answers)]
    <3>1. written \in [Sessions -> Seq(Answers)] /\ Append(written[s], f) \in Seq(Answers)
      BY <1>1, <2>1, AppendProperties DEF ClientTypes
    <3> QED  BY <2>2, <3>1
  <2> QED  BY <1>1, <1>4, <2>3 DEF ClientTypes, WriterWrite
<1>5. ASSUME NEW s \in Sessions,
             \/ Reads(s) \/ AskForData(s) \/ PushToLogic(s) \/ ReadFails(s)
             \/ WriterPop(s) \/ WriterEnds(s) \/ WriterHeader(s)
      PROVE  ClientTypes'
  BY <1>1, <1>5 DEF ClientTypes, Reads, ReadHeader, ReadNoHeader, ReadData, AskForData,
                    PushToLogic, ReadFails, WriterPop, WriterEnds, WriterHeader, clientVars
<1> QED  BY <1>2, <1>3, <1>4, <1>5 DEF Next, Writer

LEMMA ReaderTypesKept ==
    ASSUME IInv, [Next]_vars
    PROVE  ReaderTypes'
<1> DEFINE HeadersAre == [Sessions -> [FileSize : Nat, Data : Nat]]
<1>1. Types /\ ReaderTypes /\ <<>> \in OneOrNone(Handlers)
  BY OneIs DEF IInv, Types
<1>2. /\ wire \in [Sessions -> Seq(Units)] /\ reading \in [Sessions -> Reads0]
      /\ _header \in HeadersAre /\ raced \subseteq Sessions
  BY <1>1 DEF ReaderTypes
<1>3. CASE UNCHANGED io
  <2> DEFINE Rest4 == /\ wire' \in [Sessions -> Seq(Units)]
                      /\ reading' \in [Sessions -> Reads0]
                      /\ _header' \in HeadersAre /\ raced' \subseteq Sessions
  <2> SUFFICES Rest4
    BY <1>1, <1>3 DEF ReaderTypes
  <2>1. CASE UNCHANGED <<wire, reading, _header, raced>>
    BY <1>2, <2>1
  <2>2. CASE AcceptStart
    BY <1>2, <2>2, ReadsAre DEF AcceptStart, headerVars
  <2>3. ASSUME NEW s \in Sessions, ClientSends(s) PROVE Rest4
    <3>1. SessionInv(s) /\ sent[s] \in Nat /\ sent[s] < Len(Sizes[s]) /\ Len(Sizes[s]) \in Nat
      BY <1>1, <2>3, WireOf DEF ClientSends, IInv, SessionInv
    <3>2. sent[s] + 1 \in 1..Len(Sizes[s]) /\ wire[s] \in Seq(Units)
      BY <1>2, <3>1
    <3>3. Longer(s, wire[s], sent[s] + 1) \in Seq(Units)
      <4>1. PICK v : v = Longer(s, wire[s], sent[s] + 1)
        OBVIOUS
      <4> QED  BY <3>2, <4>1, Sends
    <3>4. wire' = [wire EXCEPT ![s] = Longer(s, wire[s], sent[s] + 1)]
      BY <2>3 DEF ClientSends, Longer
    <3>5. wire' \in [Sessions -> Seq(Units)]
      BY <1>2, <3>3, <3>4
    <3> QED  BY <1>2, <2>3, <3>5 DEF ClientSends, headerVars
  <2>4. ASSUME NEW s \in Sessions, ReadNoHeader(s) PROVE Rest4
    <3>1. wire[s] # <<>> /\ wire[s] \in Seq(Units)
      <4>1. Len(wire[s]) >= 1 /\ wire[s] \in Seq(Units)
        BY <1>2, <2>4 DEF ReadNoHeader, Completes, IInv, SessionInv, ReaderInv
      <4> QED  BY <4>1, EmptySeq
    <3>2. Tail(wire[s]) \in Seq(Units)
      BY <3>1, HeadTailProperties
    <3> QED  BY <1>2, <2>4, <3>2, ReadsAre DEF ReadNoHeader, headerVars
  <2>5. ASSUME NEW s \in Sessions, ReadFails(s) PROVE Rest4
    BY <1>2, <2>5, ReadsAre DEF ReadFails, headerVars
  <2>6. CASE LogicJoin
    BY <1>2, <2>6, ReadsAre DEF LogicJoin, headerVars
  <2>7. ASSUME NEW s \in Sessions, WriterHeader(s) PROVE Rest4
    <3>1. SessionInv(s) /\ writer[s].msgs # <<>>
      BY <1>1, <2>7 DEF WriterHeader, Types, WriterTypes, IInv
    <3>2. Head(writer[s].msgs) \in Requests
      BY <1>1, <3>1, WriterHas
    <3>3. ReplySize(Head(writer[s].msgs)) \in Nat
      BY <3>2, SizesAssumption, LenProperties DEF ReplySize, Requests, Texts
    <3> QED  BY <1>2, <2>7, <3>3 DEF WriterHeader, readerVars
  <2>8. CASE AcceptInsert \/ AcceptFails \/ Stop \/ Destroy \/ UNCHANGED vars
    BY <2>1, <2>8 DEF AcceptInsert, AcceptFails, Stop, Destroy, vars, readerVars, headerVars
  <2>9. CASE LogicPop \/ LogicFind \/ LogicSend
    BY <2>1, <2>9 DEF LogicPop, LogicFind, LogicSend, readerVars, headerVars
  <2>10. ASSUME NEW s \in Sessions,
                ClientGoes(s) \/ WriterPop(s) \/ WriterEnds(s) \/ WriterWrite(s)
         PROVE  Rest4
    BY <2>1, <2>10 DEF ClientGoes, WriterPop, WriterEnds, WriterWrite, readerVars, headerVars
  <2>11. ASSUME NEW s \in Sessions, ReadHeader(s) \/ ReadData(s)
         PROVE  FALSE
    <3>1. PICK x : io' = [io EXCEPT ![Context(s)] = <<x>>]
      BY <2>11 DEF ReadHeader, ReadData, Begin
    <3>2. io[Context(s)] = <<>> /\ Context(s) \in Contexts /\ DOMAIN io = Contexts
      BY <1>1, <2>11, ContextOf DEF ReadHeader, ReadData, Completes, ReaderTypes
    <3> QED  BY <1>3, <3>1, <3>2
  <2>12. ASSUME NEW s \in Sessions, AskForData(s) \/ PushToLogic(s)
         PROVE  FALSE
    <3>1. io' = [io EXCEPT ![Context(s)] = <<>>]
      BY <2>12 DEF AskForData, PushToLogic
    <3>2. io[Context(s)] # <<>> /\ Context(s) \in Contexts /\ DOMAIN io = Contexts
      BY <1>1, <2>12, ContextOf, HandIs
         DEF AskForData, PushToLogic, ReaderTypes, Parsing, Pushes
    <3> QED  BY <1>3, <3>1, <3>2
  <2> QED
    BY <2>2, <2>3, <2>4, <2>5, <2>6, <2>7, <2>8, <2>9, <2>10, <2>11,
       <2>12
       DEF Next, Run, Logic, Client, Writer, Reads
<1>4. ASSUME NEW s \in Sessions, ReadHeader(s) PROVE ReaderTypes'
  <2> DEFINE u == Head(wire[s])
             h == <<[session |-> s, in |-> "parse", data |-> <<u>>]>>
  <2>1. wire[s] # <<>> /\ wire[s] \in Seq(Units)
    <3>1. Len(wire[s]) >= 1 /\ wire[s] \in Seq(Units)
      BY <1>2, <1>4 DEF ReadHeader, Completes, IInv, SessionInv, ReaderInv
    <3> QED  BY <3>1, EmptySeq
  <2>2. u \in Units /\ Tail(wire[s]) \in Seq(Units) /\ u = wire[s][1]
    BY <2>1, HeadTailProperties
  <2>3. Sizes[s][u.n] \in Nat
    BY <1>1, <2>1, <2>2, WireOf DEF IInv, SessionInv
  <2>4. /\ UNCHANGED <<writer>> /\ io' = [io EXCEPT ![Context(s)] = h]
        /\ _header' = [_header EXCEPT ![s].FileSize = Sizes[s][u.n]]
        /\ wire' = [wire EXCEPT ![s] = Tail(@)]
        /\ reading' = [reading EXCEPT ![s] = NoRead]
        /\ raced' \subseteq raced \union {s}
    BY <1>4 DEF ReadHeader, Begin, sessionVars
  <2> HIDE DEF u
  <2>5. h \in OneOrNone(Handlers) /\ h[1].session = s
    <3>1. <<u>> \in Texts
      BY <2>2 DEF Texts
    <3>2. [session |-> s, in |-> "parse", data |-> <<u>>] \in Handlers
      BY <3>1 DEF Handlers
    <3> QED  BY <3>2, OneIs
  <2> HIDE DEF h
  <2>6. /\ io' \in [Contexts -> OneOrNone(Handlers)]
        /\ \A c \in Contexts : io'[c] # <<>> => Context(io'[c][1].session) = c
    BY <1>1, <2>4, <2>5, IoTypes
  <2>7. _header' \in HeadersAre
    BY <1>2, <2>3, <2>4
  <2> QED  BY <1>2, <2>2, <2>4, <2>6, <2>7, ReadsAre DEF ReaderTypes
<1>5. ASSUME NEW s \in Sessions, AskForData(s) PROVE ReaderTypes'
  <2> DEFINE u == Head(io[Context(s)][1].data)
  <2>1. SessionInv(s) /\ Parsing(s)
    BY <1>1, <1>5, HandIs DEF AskForData, IInv
  <2>2. wire[s] # <<>> /\ io[Context(s)][1].data = <<Unit(wire[s][1].n, 0)>>
    BY <1>1, <2>1, HandIs DEF SessionInv, ReaderInv, Body, Parsing
  <2>3. u.n = wire[s][1].n
    BY <2>2 DEF Unit
  <2>4. Sizes[s][u.n] \in Nat
    BY <1>1, <2>1, <2>2, <2>3, WireOf DEF SessionInv
  <2>5. /\ UNCHANGED <<wire, raced>> /\ io' = [io EXCEPT ![Context(s)] = <<>>]
        /\ _header' = [_header EXCEPT ![s].Data = Sizes[s][u.n]]
        /\ reading' = [reading EXCEPT ![s] = IF @.what = "freed" THEN @
                                             ELSE Read("data", _header[s].FileSize)]
    BY <1>5 DEF AskForData
  <2> HIDE DEF u
  <2>6. /\ io' \in [Contexts -> OneOrNone(Handlers)]
        /\ \A c \in Contexts : io'[c] # <<>> => Context(io'[c][1].session) = c
    BY <1>1, <2>5, IoTypes
  <2>7. _header' \in HeadersAre
    BY <1>2, <2>4, <2>5
  <2>8. reading' \in [Sessions -> Reads0]
    <3>1. _header[s].FileSize \in Nat /\ reading[s] \in Reads0
      BY <1>2
    <3>2. Read("data", _header[s].FileSize) \in Reads0
      BY <3>1, ReadsAre
    <3> QED  BY <1>2, <2>5, <3>1, <3>2
  <2> QED  BY <1>2, <2>5, <2>6, <2>7, <2>8 DEF ReaderTypes
<1>6. ASSUME NEW s \in Sessions, ReadData(s) PROVE ReaderTypes'
  <2> DEFINE c == reading[s].count
             w == wire[s]
             t == SubSeq(w, 1, c)
             v == SubSeq(w, c + 1, Len(w))
             h == <<[session |-> s, in |-> "push", data |-> t]>>
  <2>1. w \in Seq(Units) /\ c \in Nat /\ c > 0 /\ Len(w) >= c /\ Len(w) \in Nat
    BY <1>2, <1>6, LenProperties
       DEF ReadData, Completes, IInv, SessionInv, ReaderInv, Reads0
  <2>2. /\ UNCHANGED <<_header, raced>> /\ io' = [io EXCEPT ![Context(s)] = h]
        /\ wire' = [wire EXCEPT ![s] = v]
        /\ reading' = [reading EXCEPT ![s] = NoRead]
    BY <1>6 DEF ReadData, Begin, headerVars
  <2> HIDE DEF w, c
  <2>3. v \in Seq(Units)
    <3>1. c \in 0..Len(w)
      BY <2>1
    <3> QED  BY <2>1, <3>1, Dropped
  <2>4. t \in Texts
    <3>1. \A i \in 1..Len(w) : w[i] \in Units
      BY <2>1, ElementOfSeq
    <3>2. t \in Seq(Units) /\ Len(t) = c
      BY <2>1, <3>1, SubSeqProperties
    <3> HIDE DEF t
    <3> QED  BY <2>1, <3>2, EmptySeq DEF Texts
  <2> HIDE DEF t, v
  <2>5. h \in OneOrNone(Handlers) /\ h[1].session = s
    <3>1. [session |-> s, in |-> "push", data |-> t] \in Handlers
      BY <2>4 DEF Handlers
    <3> QED  BY <3>1, OneIs
  <2> HIDE DEF h
  <2>6. /\ io' \in [Contexts -> OneOrNone(Handlers)]
        /\ \A x \in Contexts : io'[x] # <<>> => Context(io'[x][1].session) = x
    BY <1>1, <2>2, <2>5, IoTypes
  <2> QED  BY <1>2, <2>2, <2>3, <2>6, ReadsAre DEF ReaderTypes
<1>7. ASSUME NEW s \in Sessions, PushToLogic(s) PROVE ReaderTypes'
  <2>1. /\ UNCHANGED <<wire, _header, raced>> /\ io' = [io EXCEPT ![Context(s)] = <<>>]
        /\ reading' = [reading EXCEPT ![s] = IF @.what = "freed" THEN @ ELSE HeaderRead]
    BY <1>7 DEF PushToLogic, headerVars
  <2>2. /\ io' \in [Contexts -> OneOrNone(Handlers)]
        /\ \A c \in Contexts : io'[c] # <<>> => Context(io'[c][1].session) = c
    BY <1>1, <2>1, IoTypes
  <2>3. reading' \in [Sessions -> Reads0]
    BY <1>2, <2>1, ReadsAre
  <2> QED  BY <1>2, <2>1, <2>2, <2>3 DEF ReaderTypes
<1>8. CASE Run \/ Stop \/ Destroy \/ Logic \/ UNCHANGED vars
  BY <1>3, <1>8 DEF Run, AcceptStart, AcceptInsert, AcceptFails, Stop, Destroy, Logic,
                    LogicPop, LogicFind, LogicSend, LogicJoin, vars, readerVars
<1>9. ASSUME NEW s \in Sessions, Client(s) \/ Writer(s) \/ ReadNoHeader(s) \/ ReadFails(s)
      PROVE  ReaderTypes'
  BY <1>3, <1>9 DEF Client, ClientSends, ClientGoes, Writer, WriterPop, WriterEnds,
                    WriterHeader, WriterWrite, ReadNoHeader, ReadFails, readerVars
<1> QED  BY <1>4, <1>5, <1>6, <1>7, <1>8, <1>9 DEF Next, Reads

LEMMA LogicTypesKept ==
    ASSUME IInv, [Next]_vars
    PROVE  LogicTypes'
<1>1. Types /\ LogicTypes
  BY DEF IInv, Types
<1>2. CASE UNCHANGED <<logicQueue, logic>>
  BY <1>1, <1>2 DEF LogicTypes
<1>3. ASSUME NEW s \in Sessions, PushToLogic(s) PROVE LogicTypes'
  <2> DEFINE m == [session |-> s, data |-> io[Context(s)][1].data]
  <2>1. m \in Requests
    BY <1>1, <1>3, HandIs DEF PushToLogic, Pushes, Handlers, Requests
  <2>2. /\ UNCHANGED logic /\ Len(logicQueue) < LogicCapacity
        /\ logicQueue' = Append(logicQueue, m)
    BY <1>3 DEF PushToLogic
  <2> HIDE DEF m
  <2>3. logicQueue \in Seq(Requests) /\ LogicCapacity \in Nat
    BY <1>1, QueueAssumption DEF LogicTypes
  <2>4. /\ Append(logicQueue, m) \in Seq(Requests)
        /\ Len(Append(logicQueue, m)) = Len(logicQueue) + 1 /\ Len(logicQueue) \in Nat
    BY <2>1, <2>3, AppendProperties, LenProperties
  <2> QED  BY <1>1, <2>2, <2>3, <2>4 DEF LogicTypes
<1>4. CASE LogicPop
  <2>1. /\ logicQueue # <<>> /\ logicQueue \in Seq(Requests)
        /\ Len(logicQueue) <= LogicCapacity
        /\ logic' = At("find", <<Head(logicQueue)>>) /\ logicQueue' = Tail(logicQueue)
    BY <1>1, <1>4 DEF LogicPop, LogicTypes
  <2>2. /\ Head(logicQueue) \in Requests /\ Tail(logicQueue) \in Seq(Requests)
        /\ Len(Tail(logicQueue)) = Len(logicQueue) - 1 /\ Len(logicQueue) \in Nat
    BY <2>1, HeadTailProperties, LenProperties
  <2>3. Len(Tail(logicQueue)) <= LogicCapacity
    BY <2>1, <2>2, QueueAssumption
  <2> QED  BY <2>1, <2>2, <2>3, PlacesOfLogic DEF LogicTypes
<1>5. CASE LogicFind \/ LogicSend \/ LogicJoin
  <2>1. Head(logic.msgs) \in Requests
    BY <1>1, <1>5, LogicHas DEF LogicFind, LogicSend, LogicJoin
  <2>2. /\ UNCHANGED logicQueue
        /\ \/ logic' = At("pop", <<>>)
           \/ \E where \in {"find", "send", "join"} : logic' = At(where, <<Head(logic.msgs)>>)
    BY <1>5 DEF LogicFind, LogicSend, LogicJoin, AfterSend
  <2> QED  BY <1>1, <2>1, <2>2, PlacesOfLogic DEF LogicTypes
<1>6. CASE Run \/ Stop \/ Destroy \/ UNCHANGED vars
  BY <1>2, <1>6 DEF Run, AcceptStart, AcceptInsert, AcceptFails, Stop, Destroy, vars, logicVars
<1>7. ASSUME NEW s \in Sessions, Client(s) \/ Writer(s)
      PROVE  LogicTypes'
  BY <1>2, <1>7 DEF Client, ClientSends, ClientGoes, Writer, WriterPop, WriterEnds,
                    WriterHeader, WriterWrite, logicVars
<1>8. ASSUME NEW s \in Sessions, Reads(s) \/ AskForData(s) \/ ReadFails(s)
      PROVE  LogicTypes'
  BY <1>2, <1>8 DEF Reads, ReadHeader, ReadNoHeader, ReadData, AskForData, ReadFails, logicVars
<1> QED  BY <1>3, <1>4, <1>5, <1>6, <1>7, <1>8 DEF Next, Logic

LEMMA WriterTypesKept ==
    ASSUME IInv, [Next]_vars
    PROVE  WriterTypes'
<1> DEFINE Wheres == [at : {"none", "pop", "header", "write", "end"},
                      msgs : OneOrNone(Requests)]
<1>1. Types /\ WriterTypes /\ SendCapacity \in Nat
  BY QueueAssumption DEF IInv, Types
<1>2. /\ _queue_send \in [Sessions -> Seq(Requests)] /\ writer \in [Sessions -> Wheres]
      /\ \A s \in Sessions :
            /\ Len(_queue_send[s]) <= SendCapacity
            /\ (writer[s].at \in {"header", "write"}) <=> (writer[s].msgs # <<>>)
  BY <1>1 DEF WriterTypes
<1>3. CASE UNCHANGED <<_queue_send, writer>>
  BY <1>1, <1>3 DEF WriterTypes
<1>4. ASSUME NEW s \in Sessions, UNCHANGED _queue_send, NEW x \in Wheres,
             writer' = [writer EXCEPT ![s] = x],
             (x.at \in {"header", "write"}) <=> (x.msgs # <<>>)
      PROVE  WriterTypes'
  BY <1>2, <1>4 DEF WriterTypes
<1>5. ASSUME NEW where \in {"pop", "end"}
      PROVE  /\ At(where, <<>>) \in Wheres /\ At(where, <<>>).at = where
             /\ At(where, <<>>).msgs = <<>>
  BY OneIs DEF At
<1>6. CASE AcceptStart
  BY <1>4, <1>5, <1>6 DEF AcceptStart, Accepts
<1>7. ASSUME NEW s \in Sessions, WriterEnds(s) \/ WriterWrite(s) PROVE WriterTypes'
  BY <1>4, <1>5, <1>7 DEF WriterEnds, WriterWrite, AfterWrite
<1>8. ASSUME NEW s \in Sessions, WriterHeader(s) PROVE WriterTypes'
  <2> DEFINE x == [writer[s] EXCEPT !.at = "write"]
  <2>1. writer[s] \in Wheres /\ writer[s].at = "header" /\ writer[s].msgs # <<>>
        /\ UNCHANGED _queue_send /\ writer' = [writer EXCEPT ![s] = x]
    BY <1>2, <1>8 DEF WriterHeader
  <2>2. x \in Wheres /\ x.at = "write" /\ x.msgs # <<>>
    BY <2>1
  <2> HIDE DEF x
  <2> QED  BY <1>4, <2>1, <2>2
<1>9. ASSUME NEW s \in Sessions, WriterPop(s) PROVE WriterTypes'
  <2> DEFINE q == _queue_send[s]
  <2>1. /\ q # <<>> /\ q \in Seq(Requests) /\ Len(q) <= SendCapacity
        /\ writer' = [writer EXCEPT ![s] = At("header", <<Head(q)>>)]
        /\ _queue_send' = [_queue_send EXCEPT ![s] = Tail(q)]
    BY <1>2, <1>9 DEF WriterPop
  <2> HIDE DEF q
  <2>2. /\ Head(q) \in Requests /\ Tail(q) \in Seq(Requests)
        /\ Len(Tail(q)) = Len(q) - 1 /\ Len(q) \in Nat
    BY <2>1, HeadTailProperties, LenProperties
  <2>3. Len(Tail(q)) <= SendCapacity
    BY <1>1, <2>1, <2>2
  <2>4. /\ At("header", <<Head(q)>>) \in Wheres /\ At("header", <<Head(q)>>).at = "header"
        /\ At("header", <<Head(q)>>).msgs # <<>>
    BY <2>2, OneIs DEF At
  <2> QED  BY <1>2, <2>1, <2>2, <2>3, <2>4 DEF WriterTypes
<1>10. CASE LogicSend
  <2> DEFINE m == Head(logic.msgs)
             q == _queue_send[m.session]
  <2>1. m \in Requests
    BY <1>1, <1>10, LogicHas DEF LogicSend
  <2>2. m.session \in Sessions
    BY <2>1 DEF Requests
  <2>3. /\ Len(q) < SendCapacity /\ UNCHANGED writer
        /\ _queue_send' = [_queue_send EXCEPT ![m.session] = Append(q, m)]
    BY <1>10 DEF LogicSend, sessionVars
  <2>4. q \in Seq(Requests)
    BY <1>2, <2>2
  <2> HIDE DEF q, m
  <2>5. /\ Append(q, m) \in Seq(Requests)
        /\ Len(Append(q, m)) = Len(q) + 1 /\ Len(q) \in Nat
    BY <2>1, <2>4, AppendProperties, LenProperties
  <2>6. Len(Append(q, m)) <= SendCapacity
    BY <1>1, <2>3, <2>5
  <2> QED  BY <1>2, <2>2, <2>3, <2>5, <2>6 DEF WriterTypes
<1>11. CASE AcceptInsert \/ AcceptFails \/ Stop \/ Destroy \/ UNCHANGED vars
  BY <1>3, <1>11 DEF AcceptInsert, AcceptFails, Stop, Destroy, vars, sessionVars
<1>12. CASE LogicPop \/ LogicFind \/ LogicJoin
  BY <1>3, <1>12 DEF LogicPop, LogicFind, LogicJoin, sessionVars
<1>13. ASSUME NEW s \in Sessions,
              Client(s) \/ Reads(s) \/ AskForData(s) \/ PushToLogic(s) \/ ReadFails(s)
       PROVE  WriterTypes'
  BY <1>3, <1>13 DEF Client, ClientSends, ClientGoes, Reads, ReadHeader, ReadNoHeader,
                     ReadData, AskForData, PushToLogic, ReadFails, sessionVars
<1> QED
  BY <1>6, <1>7, <1>8, <1>9, <1>10, <1>11, <1>12, <1>13 DEF Next, Run, Logic, Writer

-----------------------------------------------------------------------------
(* The life of the server and of its sessions.                             *)
LEMMA HandedOver ==
    ASSUME IInv, NEW s \in Sessions, Hand(s) # <<>>
    PROVE  peer[s] # "none"
<1>1. Types /\ SessionInv(s)
  BY DEF IInv
<1>2. sent[s] # 0
  BY <1>1, NothingSent
<1> QED  BY <1>2 DEF IInv, ServerInv

LEMMA ServerInvKept ==
    ASSUME IInv, [Next]_vars
    PROVE  ServerInv'
<1> USE DEF ServerInv
<1>1. /\ ServerInv /\ Types /\ pending \in Nat /\ \A s \in Sessions : s \in Nat
      /\ peer \in [Sessions -> {"none", "up", "gone"}] /\ sent \in [Sessions -> Nat]
      /\ reading \in [Sessions -> Reads0]
  <2>1. \A s \in Sessions : s \in Nat
    BY CountAssumption DEF Sessions
  <2> QED  BY <2>1 DEF IInv, Types, ServerTypes, ClientTypes, ReaderTypes
<1>2. CASE AcceptStart
  <2>1. /\ pending \in Sessions /\ server = "running" /\ accept = "listen"
        /\ peer' = [peer EXCEPT ![pending] = "up"]
        /\ reading' = [reading EXCEPT ![pending] = HeaderRead]
        /\ accept' = "insert"
        /\ UNCHANGED <<server, pending, _sessions, sent, logicQueue, logic>>
    BY <1>2 DEF AcceptStart, Accepts, logicVars
  <2>2. /\ peer'[pending] = "up" /\ reading'[pending].what # "freed"
        /\ \A s \in Sessions : s # pending => peer'[s] = peer[s] /\ reading'[s] = reading[s]
    BY <1>1, <2>1 DEF HeaderRead, Read
  <2> QED  BY <1>1, <2>1, <2>2 DEF Found
<1>3. CASE AcceptInsert \/ AcceptFails
  <2>1. /\ pending' = pending + 1 /\ accept' = "listen" /\ _sessions \subseteq _sessions'
        /\ UNCHANGED <<server, peer, sent, reading, logicQueue, logic>>
        /\ server # "destroyed"
    BY <1>1, <1>3 DEF AcceptInsert, AcceptFails, Accepts, clientVars, readerVars, logicVars,
                      serverVars
  <2>2. \A s \in Sessions : s >= pending + 1 => s >= pending /\ s # pending
    BY <1>1
  <2> QED  BY <1>1, <2>1, <2>2 DEF Found
<1>4. CASE Stop \/ Destroy
  BY <1>1, <1>4 DEF Stop, Destroy, clientVars, readerVars, logicVars, Found
<1>5. ASSUME NEW s \in Sessions, peer[s] = "up", NEW x \in {"up", "gone"},
             peer' = [peer EXCEPT ![s] = x],
             NEW n, sent' = [sent EXCEPT ![s] = n],
             UNCHANGED <<server, accept, pending, _sessions, reading, logic>>
      PROVE  ServerInv'
  <2>1. /\ peer'[s] = x
        /\ \A r \in Sessions : r # s => peer'[r] = peer[r] /\ sent'[r] = sent[r]
    BY <1>1, <1>5
  <2> QED  BY <1>1, <1>5, <2>1 DEF Found
<1>6. ASSUME NEW s \in Sessions, Client(s) PROVE ServerInv'
  <2>1. CASE ClientSends(s)
    <3>1. peer' = [peer EXCEPT ![s] = "up"] /\ sent' = [sent EXCEPT ![s] = sent[s] + 1]
      BY <1>1, <2>1 DEF ClientSends
    <3> QED  BY <1>5, <2>1, <3>1 DEF ClientSends, serverVars, logicVars
  <2>2. CASE ClientGoes(s)
    <3>1. peer' = [peer EXCEPT ![s] = "gone"] /\ sent' = [sent EXCEPT ![s] = sent[s]]
      BY <1>1, <2>2 DEF ClientGoes
    <3> QED  BY <1>5, <2>2, <3>1 DEF ClientGoes, serverVars, readerVars, logicVars
  <2> QED  BY <1>6, <2>1, <2>2 DEF Client
<1>7. ASSUME NEW s \in Sessions, UNCHANGED <<server, accept, pending, _sessions, peer, sent>>,
             NEW x, reading' = [reading EXCEPT ![s] = x],
             peer[s] = "none" => x = NoRead \/ server = "destroyed",
             x.what = "freed" => server = "destroyed",
             logic'.at = "send" => Found(logic'.msgs[1]),
             logic'.at = "join" => server = "destroyed"
      PROVE  ServerInv'
  <2>1. reading'[s] = x /\ \A r \in Sessions : r # s => reading'[r] = reading[r]
    BY <1>1, <1>7
  <2> QED  BY <1>1, <1>7, <2>1 DEF Found
<1>8. ASSUME NEW s \in Sessions, Reads(s) \/ ReadFails(s) PROVE ServerInv'
  <2>1. /\ UNCHANGED <<server, accept, pending, _sessions, peer, sent, logic>>
        /\ reading' = [reading EXCEPT ![s] = NoRead]
    BY <1>8 DEF Reads, ReadHeader, ReadNoHeader, ReadData, ReadFails, serverVars, clientVars,
                logicVars
  <2>2. NoRead.what # "freed"
    BY DEF NoRead, Read
  <2> QED  BY <1>1, <1>7, <2>1, <2>2
<1>9. ASSUME NEW s \in Sessions, AskForData(s) \/ PushToLogic(s) PROVE ServerInv'
  <2>1. /\ UNCHANGED <<server, accept, pending, _sessions, peer, sent, logic>>
        /\ \E x : /\ reading' = [reading EXCEPT ![s] = x]
                  /\ x = reading[s] \/ x.what # "freed"
    <3>1. Read("data", _header[s].FileSize).what # "freed" /\ HeaderRead.what # "freed"
      BY DEF HeaderRead, Read
    <3> QED  BY <1>9, <3>1 DEF AskForData, PushToLogic, serverVars, clientVars, logicVars
  <2>2. peer[s] # "none"
    BY <1>1, <1>9, HandIs, HandedOver DEF AskForData, PushToLogic, Parsing, Pushes
  <2> QED  BY <1>1, <1>7, <2>1, <2>2
<1>10. CASE Logic
  <2> DEFINE m == Head(logic.msgs)
  <2>1. CASE LogicPop
    BY <1>1, <2>1 DEF LogicPop, serverVars, clientVars, readerVars, At
  <2>2. CASE LogicFind
    <3>1. /\ UNCHANGED <<server, accept, pending, _sessions, peer, sent, reading>>
          /\ \/ m.session \in _sessions /\ logic' = At("send", <<m>>)
             \/ logic' = At("pop", <<>>)
      BY <2>2 DEF LogicFind, serverVars, clientVars, readerVars
    <3> HIDE DEF m
    <3>2. At("send", <<m>>).msgs[1] = m /\ At("send", <<m>>).at = "send"
          /\ At("pop", <<>>).at = "pop"
      BY DEF At
    <3> QED  BY <1>1, <3>1, <3>2 DEF Found
  <2>3. CASE LogicSend
    <3>1. /\ UNCHANGED <<server, accept, pending, _sessions, peer, sent, reading>>
          /\ logic.at = "send" /\ logic' = AfterSend(m)
      BY <2>3 DEF LogicSend, serverVars, clientVars, readerVars
    <3>2. m.session \in _sessions \/ server = "destroyed"
      BY <1>1, <3>1, LogicHas DEF Found
    <3> HIDE DEF m
    <3>3. /\ logic'.at = "pop" \/ logic'.at = "join"
          /\ logic'.at = "join" => server = "destroyed"
      BY <3>1, <3>2 DEF AfterSend, At
    <3> QED  BY <1>1, <3>1, <3>3
  <2>4. CASE LogicJoin
    <3>1. /\ UNCHANGED <<server, accept, pending, _sessions, peer, sent>>
          /\ server = "destroyed" /\ logic'.at = "pop"
          /\ reading' = [reading EXCEPT ![m.session] = Read("freed", 0)]
      BY <1>1, <2>4 DEF LogicJoin, serverVars, clientVars, At
    <3>2. m.session \in Sessions
      BY <1>1, <2>4, LogicHas DEF LogicJoin, Requests
    <3> HIDE DEF m
    <3> QED  BY <1>1, <1>7, <3>1, <3>2
  <2> QED  BY <1>10, <2>1, <2>2, <2>3, <2>4 DEF Logic
<1>11. ASSUME NEW s \in Sessions, Writer(s) PROVE ServerInv'
  BY <1>1, <1>11 DEF Writer, WriterPop, WriterEnds, WriterHeader, WriterWrite, serverVars,
                     clientVars, readerVars, logicVars, Found
<1>12. CASE UNCHANGED vars
  BY <1>1, <1>12 DEF vars, serverVars, clientVars, readerVars, logicVars, Found
<1> QED
  BY <1>2, <1>3, <1>4, <1>6, <1>8, <1>9, <1>10, <1>11, <1>12 DEF Next, Run

-----------------------------------------------------------------------------
(* The invariant.                                                          *)
LEMMA InitIInv == Init => IInv
<1> SUFFICES ASSUME Init PROVE IInv
  OBVIOUS
<1> USE DEF Init
<1>0. /\ \A S : <<>> \in Seq(S) /\ <<>> \in OneOrNone(S)
      /\ Len(<<>>) = 0 /\ DOMAIN <<>> = {}
  BY OneIs
<1>1. Types
  <2>1. ServerTypes
    BY DEF ServerTypes
  <2>2. ClientTypes
    <3>1. \A s \in Sessions : 0 <= Len(Sizes[s])
      BY SizesAssumption, LenProperties
    <3> QED  BY <1>0, <3>1 DEF ClientTypes
  <2>3. ReaderTypes
    BY <1>0, ReadsAre DEF ReaderTypes
  <2>4. LogicTypes
    BY <1>0, QueueAssumption, PlacesOfLogic DEF LogicTypes
  <2>5. WriterTypes
    BY <1>0, QueueAssumption DEF WriterTypes, At
  <2> QED  BY <2>1, <2>2, <2>3, <2>4, <2>5 DEF Types
<1>2. ServerInv
  BY DEF ServerInv, At, NoRead, Read
<1>3. ASSUME NEW s \in Sessions PROVE SessionInv(s)
  <2>1. /\ wire[s] = <<>> /\ Hand(s) = <<>> /\ written[s] = <<>> /\ writer[s].msgs = <<>>
        /\ _queue_send[s] = <<>> /\ InLogic = <<>> /\ reading[s].what = "nothing"
        /\ writer[s].at = "none"
    BY ContextOf DEF Hand, At, InLogic, NoRead, Read
  <2>2. ~Parsing(s) /\ ~Pushes(s) /\ Handed(s) = <<>>
    BY <2>1 DEF Parsing, Pushes, Handed
  <2>3. WireInv(s)
    BY <1>0, <2>1 DEF WireInv, WireOK
  <2>4. ReaderInv(s)
    BY <2>1, <2>2 DEF ReaderInv, Framed
  <2>5. Headers(<<>>) = {} /\ Nums(s, <<>>) = {} /\ Rising(s, <<>>) /\ Intact(s, <<>>)
    BY <1>0, NumsOfOne DEF Headers
  <2>6. Answered(s) = {} /\ Coming(s) = {}
    BY <1>0, <2>1, <2>2, <2>5 DEF Answered, Coming
  <2>7. Places(s) = <<{}, {}, {}, {}, {}, {}, {}>>
    BY <2>1, <2>2, <2>5, <2>6 DEF Places
  <2>8. \A i \in 1..7 : Places(s)[i] = {}
    <3>1. /\ Places(s)[1] = {} /\ Places(s)[2] = {} /\ Places(s)[3] = {} /\ Places(s)[4] = {}
          /\ Places(s)[5] = {} /\ Places(s)[6] = {} /\ Places(s)[7] = {}
      BY <2>7
    <3> QED  BY <3>1
  <2>9. \A q \in Line(s) : q = <<>>
    BY <2>1, <2>2 DEF Line
  <2>10. OrderInv(s)
    BY <1>0, <2>1, <2>5, <2>8, <2>9 DEF OrderInv, Ordered
  <2>11. GapInv(s)
    BY <2>8 DEF GapInv, Handling, AllOf
  <2>12. ContentInv(s)
    <3>1. ToSet(<<>>) = {}
      BY <1>0 DEF ToSet
    <3> QED  BY <2>1, <2>5, <2>9, <3>1 DEF ContentInv
  <2> QED  BY <2>3, <2>4, <2>10, <2>11, <2>12 DEF SessionInv
<1> QED  BY <1>1, <1>2, <1>3 DEF IInv

LEMMA StepIInv == IInv /\ [Next]_vars => IInv'
<1> SUFFICES ASSUME IInv, [Next]_vars PROVE IInv'
  OBVIOUS
<1>1. Types'
  BY ServerTypesKept, ClientTypesKept, ReaderTypesKept, LogicTypesKept, WriterTypesKept
     DEF Types
<1>2. ServerInv'
  BY ServerInvKept
<1>3. ASSUME NEW r \in Sessions PROVE SessionInv(r)'
  <2>1. CASE Stop \/ Destroy \/ UNCHANGED vars
    BY <2>1, StepQuiet DEF Quiet
  <2>2. CASE Run
    BY <2>2, StepQuiet, StepAcceptStart DEF Run, Quiet
  <2>3. CASE Logic
    BY <2>3, StepLogicPop, StepLogicFind, StepLogicSend, StepLogicJoin DEF Logic
  <2>4. ASSUME NEW s \in Sessions, Client(s) PROVE SessionInv(r)'
    BY <2>4, StepClientSends, StepQuiet DEF Client, Quiet
  <2>5. ASSUME NEW s \in Sessions, Writer(s) PROVE SessionInv(r)'
    BY <2>5, StepWriterPop, StepWriterHeader, StepWriterWrite, StepQuiet DEF Writer, Quiet
  <2>6. ASSUME NEW s \in Sessions, Reads(s) PROVE SessionInv(r)'
    BY <2>6, StepReadHeader, StepReadNoHeader, StepReadData DEF Reads
  <2>7. ASSUME NEW s \in Sessions, AskForData(s) \/ PushToLogic(s) \/ ReadFails(s)
        PROVE  SessionInv(r)'
    BY <2>7, StepAskForData, StepPushToLogic, StepReadFails
  <2> QED  BY <2>1, <2>2, <2>3, <2>4, <2>5, <2>6, <2>7 DEF Next
<1> QED  BY <1>1, <1>2, <1>3 DEF IInv

-----------------------------------------------------------------------------
(* The way back to a client, as one sequence.                              *)
Replies == Answers \union Requests \union Handlers

LEMMA ForOf ==
    ASSUME NEW s \in Sessions, NEW q \in Seq(Replies)
    PROVE  /\ For(s, q) \in Seq(Requests) /\ Len(For(s, q)) = Len(q)
           /\ \A k \in 1..Len(q) : /\ For(s, q)[k] = [session |-> s, data |-> q[k].data]
                                   /\ For(s, q)[k].session = s /\ For(s, q)[k].data = q[k].data
                                   /\ Number(For(s, q)[k]) = Number(q[k])
<1>1. Len(q) \in Nat /\ DOMAIN q = 1..Len(q) /\ \A k \in 1..Len(q) : q[k] \in Replies
  BY LenProperties, ElementOfSeq
<1>2. \A k \in 1..Len(q) : [session |-> s, data |-> q[k].data] \in Requests
  BY <1>1 DEF Replies, Answers, Requests, Handlers
<1>3. For(s, q) = [k \in 1..Len(q) |-> [session |-> s, data |-> q[k].data]]
  BY <1>1 DEF For
<1>4. For(s, q) \in Seq(Requests) /\ Len(For(s, q)) = Len(q)
  <2>1. [k \in 1..Len(q) |-> [session |-> s, data |-> q[k].data]] \in Seq(Requests)
    BY <1>1, <1>2, IsASeq
  <2> QED  BY <1>1, <1>3, <2>1, LenProperties
<1>5. \A k \in 1..Len(q) : For(s, q)[k] = [session |-> s, data |-> q[k].data]
  BY <1>3
<1> QED  BY <1>4, <1>5 DEF Number

LEMMA ForJoined ==
    ASSUME NEW s \in Sessions, NEW a \in Seq(Replies), NEW b \in Seq(Replies)
    PROVE  For(s, a \o b) = For(s, a) \o For(s, b)
<1> DEFINE c == a \o b
           d == For(s, a) \o For(s, b)
<1>1. /\ c \in Seq(Replies) /\ Len(c) = Len(a) + Len(b)
      /\ \A k \in 1..Len(a) : c[k] = a[k]
      /\ \A k \in 1..Len(b) : c[Len(a) + k] = b[k]
      /\ Len(a) \in Nat /\ Len(b) \in Nat
  BY Joined, LenProperties
<1>2. /\ For(s, a) \in Seq(Requests) /\ Len(For(s, a)) = Len(a)
      /\ For(s, b) \in Seq(Requests) /\ Len(For(s, b)) = Len(b)
      /\ \A k \in 1..Len(a) : For(s, a)[k] = [session |-> s, data |-> a[k].data]
      /\ \A k \in 1..Len(b) : For(s, b)[k] = [session |-> s, data |-> b[k].data]
  BY ForOf
<1>3. /\ d \in Seq(Requests) /\ Len(d) = Len(a) + Len(b)
      /\ \A k \in 1..Len(a) : d[k] = For(s, a)[k]
      /\ \A k \in 1..Len(b) : d[Len(a) + k] = For(s, b)[k]
  <2>1. PICK x : x = For(s, a)
    OBVIOUS
  <2>2. PICK y : y = For(s, b)
    OBVIOUS
  <2>3. x \in Seq(Requests) /\ y \in Seq(Requests) /\ Len(x) = Len(a) /\ Len(y) = Len(b)
    BY <1>2, <2>1, <2>2
  <2>4. /\ x \o y \in Seq(Requests) /\ Len(x \o y) = Len(x) + Len(y)
        /\ \A k \in 1..Len(x) : (x \o y)[k] = x[k]
        /\ \A k \in 1..Len(y) : (x \o y)[Len(x) + k] = y[k]
    <3>1. x \in Seq(Requests)
      BY <2>3
    <3>2. y \in Seq(Requests)
      BY <2>3
    <3> QED  BY <3>1, <3>2, Joined
  <2> QED  BY <2>1, <2>2, <2>3, <2>4
<1> HIDE DEF c, d
<1>4. /\ For(s, c) \in Seq(Requests) /\ Len(For(s, c)) = Len(a) + Len(b)
      /\ \A k \in 1..(Len(a) + Len(b)) : For(s, c)[k] = [session |-> s, data |-> c[k].data]
  BY <1>1, ForOf
<1>5. ASSUME NEW k \in 1..(Len(a) + Len(b)) PROVE For(s, c)[k] = d[k]
  <2>1. CASE k \in 1..Len(a)
    BY <1>1, <1>2, <1>3, <1>4, <2>1
  <2>2. CASE k \notin 1..Len(a)
    <3>1. k - Len(a) \in 1..Len(b) /\ Len(a) + (k - Len(a)) = k
      BY <1>1, <2>2
    <3>2. c[k] = b[k - Len(a)] /\ d[k] = For(s, b)[k - Len(a)]
      BY <1>1, <1>3, <3>1
    <3> QED  BY <1>2, <1>4, <3>1, <3>2
  <2> QED  BY <2>1, <2>2
<1>6. For(s, c) = d
  BY <1>3, <1>4, <1>5, SeqEqual
<1> QED  BY <1>6 DEF c, d

(* A part of the way back: the requests of s in q are those with the       *)
(* numbers P, in order, and intact if no header of s was raced for.  Two   *)
(* parts join when all of the one in front is older.                       *)
Part(s, q, P) ==
    /\ q \in Seq(Requests) /\ Rising(s, q) /\ Nums(s, q) = P
    /\ s \notin raced => Intact(s, q)

Below(A, B) == \A x \in A, y \in B : x < y

LEMMA PartAndPart ==
    ASSUME NEW s, NEW P, NEW Q, NEW a, NEW b, NEW c,
           Part(s, a, P), Part(s, b, Q), Below(P, Q), c = a \o b
    PROVE  Part(s, c, P \union Q)
<1>a. a \in Seq(Requests) /\ Rising(s, a) /\ Nums(s, a) = P
  BY DEF Part
<1>b. b \in Seq(Requests) /\ Rising(s, b) /\ Nums(s, b) = Q
  BY DEF Part
<1>c. Below(Nums(s, a), Nums(s, b))
  BY <1>a, <1>b
<1>1. /\ c \in Seq(Requests) /\ DOMAIN c = 1..(Len(a) + Len(b))
      /\ \A k \in 1..Len(a) : c[k] = a[k]
      /\ \A k \in 1..Len(b) : c[Len(a) + k] = b[k]
      /\ Len(a) \in Nat /\ Len(b) \in Nat /\ DOMAIN a = 1..Len(a) /\ DOMAIN b = 1..Len(b)
  BY <1>a, <1>b, Joined, LenProperties
<1>2. \A k \in DOMAIN a : k \in DOMAIN c /\ c[k] = a[k]
  BY <1>1
<1>3. \A k \in DOMAIN b : Len(a) + k \in DOMAIN c /\ c[Len(a) + k] = b[k]
  BY <1>1
<1>4. ASSUME NEW k \in DOMAIN c, k \notin DOMAIN a
      PROVE  k - Len(a) \in DOMAIN b /\ c[k] = b[k - Len(a)]
  <2>1. k - Len(a) \in 1..Len(b) /\ Len(a) + (k - Len(a)) = k
    BY <1>1, <1>4
  <2> QED  BY <1>1, <2>1
<1>5. Nums(s, c) = Nums(s, a) \union Nums(s, b)
  <2>1. ASSUME NEW k \in DOMAIN c, c[k].session = s
        PROVE  Number(c[k]) \in Nums(s, a) \union Nums(s, b)
    BY <1>2, <1>4, <2>1 DEF Nums
  <2>2. ASSUME NEW k \in DOMAIN a, a[k].session = s PROVE Number(a[k]) \in Nums(s, c)
    BY <1>2, <2>2 DEF Nums
  <2>3. ASSUME NEW k \in DOMAIN b, b[k].session = s PROVE Number(b[k]) \in Nums(s, c)
    BY <1>3, <2>3 DEF Nums
  <2>4. Nums(s, c) \subseteq Nums(s, a) \union Nums(s, b)
    BY <2>1 DEF Nums
  <2>5. Nums(s, a) \subseteq Nums(s, c) /\ Nums(s, b) \subseteq Nums(s, c)
    BY <2>2, <2>3 DEF Nums
  <2> QED  BY <2>4, <2>5
<1>6. Intact(s, a) /\ Intact(s, b) => Intact(s, c)
  BY <1>2, <1>4 DEF Intact
<1>7. ASSUME NEW j \in DOMAIN c, NEW k \in DOMAIN c, j < k,
             c[j].session = s, c[k].session = s
      PROVE  Number(c[j]) < Number(c[k])
  <2>1. CASE k \in DOMAIN a
    <3>1. j \in DOMAIN a
      BY <1>1, <1>7, <2>1
    <3> QED  BY <1>2, <1>7, <1>a, <2>1, <3>1 DEF Rising
  <2>2. CASE k \notin DOMAIN a /\ j \in DOMAIN a
    <3>1. Number(c[j]) \in Nums(s, a) /\ Number(c[k]) \in Nums(s, b)
      BY <1>2, <1>4, <1>7, <2>2 DEF Nums
    <3> QED  BY <1>c, <3>1 DEF Below
  <2>3. CASE k \notin DOMAIN a /\ j \notin DOMAIN a
    <3>1. /\ k - Len(a) \in DOMAIN b /\ c[k] = b[k - Len(a)]
          /\ j - Len(a) \in DOMAIN b /\ c[j] = b[j - Len(a)]
      BY <1>4, <2>3
    <3>2. j - Len(a) < k - Len(a)
      BY <1>1, <1>7
    <3> QED  BY <1>7, <1>b, <3>1, <3>2 DEF Rising
  <2> QED  BY <2>1, <2>2, <2>3
<1>8. c \in Seq(Requests) /\ Rising(s, c)
  BY <1>1, <1>7 DEF Rising
<1>9. Nums(s, c) = P \union Q
  BY <1>5, <1>a, <1>b
<1>d. (s \notin raced => Intact(s, a)) /\ (s \notin raced => Intact(s, b))
  BY DEF Part
<1> QED  BY <1>6, <1>d, <1>8, <1>9 DEF Part

LEMMA ForKeeps ==
    ASSUME NEW s \in Sessions, NEW q \in Seq(Requests), \A k \in DOMAIN q : q[k].session = s
    PROVE  For(s, q) = q
<1>1. q \in Seq(Replies) /\ Len(q) \in Nat /\ DOMAIN q = 1..Len(q)
  BY SeqMonotonic, LenProperties DEF Replies
<1>2. /\ For(s, q) \in Seq(Requests) /\ Len(For(s, q)) = Len(q)
      /\ \A k \in 1..Len(q) : For(s, q)[k] = [session |-> s, data |-> q[k].data]
  BY <1>1, ForOf
<1>3. \A k \in 1..Len(q) : q[k] = [session |-> s, data |-> q[k].data]
  <2> SUFFICES ASSUME NEW k \in 1..Len(q) PROVE q[k] = [session |-> s, data |-> q[k].data]
    OBVIOUS
  <2>1. q[k] \in Requests /\ q[k].session = s
    BY <1>1, ElementOfSeq
  <2> QED  BY <2>1 DEF Requests
<1> QED  BY <1>2, <1>3, SeqEqual

LEMMA ForAll ==
    ASSUME NEW s \in Sessions, NEW q \in Seq(Replies),
           \A j, k \in DOMAIN q : j < k => Number(q[j]) < Number(q[k])
    PROVE  /\ For(s, q) \in Seq(Requests) /\ Rising(s, For(s, q))
           /\ Nums(s, For(s, q)) = {Number(q[k]) : k \in DOMAIN q}
           /\ (\A k \in DOMAIN q : q[k].data = Request(s, Number(q[k])))
                 => Intact(s, For(s, q))
<1> DEFINE f == For(s, q)
<1>1. /\ f \in Seq(Requests) /\ DOMAIN f = DOMAIN q
      /\ \A k \in DOMAIN q : /\ f[k].session = s /\ f[k].data = q[k].data
                             /\ Number(f[k]) = Number(q[k])
  <2>1. Len(f) = Len(q) /\ f \in Seq(Requests)
        /\ \A k \in 1..Len(q) : /\ f[k].session = s /\ f[k].data = q[k].data
                                /\ Number(f[k]) = Number(q[k])
    BY ForOf
  <2> QED  BY <2>1, LenProperties
<1> HIDE DEF f
<1>2. Rising(s, f)
  BY <1>1 DEF Rising
<1>3. Nums(s, f) = {Number(q[k]) : k \in DOMAIN q}
  BY <1>1 DEF Nums
<1>4. (\A k \in DOMAIN q : q[k].data = Request(s, Number(q[k]))) => Intact(s, f)
  BY <1>1 DEF Intact
<1> QED  BY <1>1, <1>2, <1>3, <1>4 DEF f

LEMMA PushingIs ==
    ASSUME Types, NEW s \in Sessions
    PROVE  /\ Pushing(s) \in Seq(Requests) /\ Rising(s, Pushing(s))
           /\ Nums(s, Pushing(s)) = Nums(s, Handed(s))
           /\ Intact(s, Handed(s)) => Intact(s, Pushing(s))
<1>1. CASE ~Pushes(s)
  <2>1. Pushing(s) = <<>> /\ Handed(s) = <<>>
    BY <1>1, HandIs DEF Pushing, Handed
  <2>2. <<>> \in Seq(Requests)
    OBVIOUS
  <2> QED  BY <2>1, <2>2, NumsOfOne
<1>2. CASE Pushes(s)
  <2> DEFINE h == Hand(s)[1]
  <2>1. Hand(s) = <<h>> /\ h \in Handlers /\ h.session = s /\ Hand(s) = io[Context(s)]
    BY <1>2, HandIs DEF Pushes
  <2>2. Pushing(s) = For(s, <<h>>) /\ Handed(s) = <<h>>
    BY <1>2, <2>1, HandIs DEF Pushing, Handed
  <2> HIDE DEF h
  <2>3. <<h>> \in Seq(Replies) /\ DOMAIN <<h>> = {1} /\ <<h>>[1] = h
    BY <2>1 DEF Replies
  <2>4. /\ For(s, <<h>>) \in Seq(Requests) /\ Rising(s, For(s, <<h>>))
        /\ Nums(s, For(s, <<h>>)) = {Number(h)}
        /\ h.data = Request(s, Number(h)) => Intact(s, For(s, <<h>>))
    <3>1. PICK q : q = <<h>>
      OBVIOUS
    <3>2. /\ q \in Seq(Replies)
          /\ \A j, k \in DOMAIN q : j < k => Number(q[j]) < Number(q[k])
          /\ {Number(q[k]) : k \in DOMAIN q} = {Number(h)}
          /\ h.data = Request(s, Number(h)) =>
                \A k \in DOMAIN q : q[k].data = Request(s, Number(q[k]))
      BY <2>3, <3>1
    <3> QED  BY <3>1, <3>2, ForAll
  <2>5. /\ Nums(s, <<h>>) = {Number(h)}
        /\ Intact(s, <<h>>) => h.data = Request(s, Number(h))
    BY <2>1, NumsOfOne
  <2> QED  BY <2>2, <2>4, <2>5
<1> QED  BY <1>1, <1>2

LEMMA PipelineIs ==
    ASSUME IInv, NEW s \in Sessions, NEW p, p = Pipeline(s)
    PROVE  /\ p \in Seq(Requests) /\ Rising(s, p) /\ Nums(s, p) = Handling(s)
           /\ s \notin raced => Intact(s, p)
<1> DEFINE A == written[s]
           M == writer[s].msgs
           Q == _queue_send[s]
           F == For(s, A)
           K == Pushing(s)
<1>1. Types /\ OrderInv(s) /\ ContentInv(s)
  BY DEF IInv, SessionInv
<1>2. /\ A \in Seq(Answers) /\ M \in Seq(Requests) /\ Q \in Seq(Requests)
      /\ InLogic \in Seq(Requests) /\ logicQueue \in Seq(Requests)
  <2>1. <<>> \in Seq(Requests)
    OBVIOUS
  <2> QED  BY <1>1, <2>1 DEF Types, ClientTypes, WriterTypes, LogicTypes, InLogic, OneOrNone
<1>3. /\ A \in Seq(Replies) /\ M \in Seq(Replies) /\ Q \in Seq(Replies)
  <2>1. Answers \subseteq Replies /\ Requests \subseteq Replies
    BY DEF Replies
  <2> QED  BY <1>2, <2>1, SeqMonotonic
<1>4. For(s, M) = M /\ For(s, Q) = Q
  <2>1. \A k \in DOMAIN M : M[k].session = s
    BY <1>1 DEF ContentInv, ToSet
  <2>2. \A k \in DOMAIN Q : Q[k].session = s
    BY <1>1 DEF ContentInv, ToSet
  <2> HIDE DEF M, Q
  <2> QED  BY <1>2, <2>1, <2>2, ForKeeps
<1>5. /\ F \in Seq(Requests) /\ Rising(s, F) /\ Nums(s, F) = Answered(s)
      /\ s \notin raced => Intact(s, F)
  <2>1. \A j, k \in DOMAIN A : j < k => Number(A[j]) < Number(A[k])
    BY <1>1 DEF OrderInv
  <2>2. Answered(s) = {Number(A[k]) : k \in DOMAIN A}
    BY DEF Answered
  <2>3. s \notin raced => \A k \in DOMAIN A : A[k].data = Request(s, Number(A[k]))
    BY <1>1 DEF ContentInv, ToSet
  <2> HIDE DEF A
  <2> QED  BY <1>3, <2>1, <2>2, <2>3, ForAll
<1>6. For(s, A \o M \o Q) = F \o M \o Q
  <2> HIDE DEF A, M, Q
  <2>1. PICK a : a = A \o M
    OBVIOUS
  <2>2. a \in Seq(Replies)
    BY <1>3, <2>1, ConcatProperties
  <2>3. For(s, a) = For(s, A) \o For(s, M)
    BY <1>3, <2>1, ForJoined
  <2>4. For(s, a \o Q) = For(s, a) \o For(s, Q)
    BY <1>3, <2>2, ForJoined
  <2> QED  BY <1>4, <2>1, <2>3, <2>4
<1>7. /\ K \in Seq(Requests) /\ Rising(s, K) /\ Nums(s, K) = Nums(s, Handed(s))
      /\ s \notin raced => Intact(s, K)
  BY <1>1, PushingIs DEF ContentInv, Line
<1>8. /\ Rising(s, M) /\ Rising(s, Q) /\ Rising(s, InLogic) /\ Rising(s, logicQueue)
      /\ s \notin raced => /\ Intact(s, M) /\ Intact(s, Q)
                           /\ Intact(s, InLogic) /\ Intact(s, logicQueue)
  BY <1>1 DEF OrderInv, ContentInv, Line
<1>9. /\ Places(s)[1] = Nums(s, F) /\ Places(s)[2] = Nums(s, M) /\ Places(s)[3] = Nums(s, Q)
      /\ Places(s)[4] = Nums(s, InLogic) /\ Places(s)[5] = Nums(s, logicQueue)
      /\ Places(s)[6] = Nums(s, K)
  BY <1>5, <1>7, PlacesAre
<1>10. \A i, j \in 1..7 : i < j => Below(Places(s)[i], Places(s)[j])
  BY <1>1 DEF OrderInv, Ordered, Below
<1>11. p = F \o M \o Q \o InLogic \o logicQueue \o K
  BY <1>6 DEF Pipeline
<1> HIDE DEF A, M, Q, F, K
<1> DEFINE P(i) == Places(s)[i]
<1>12. /\ Part(s, F, P(1)) /\ Part(s, M, P(2)) /\ Part(s, Q, P(3))
       /\ Part(s, InLogic, P(4)) /\ Part(s, logicQueue, P(5)) /\ Part(s, K, P(6))
  BY <1>2, <1>5, <1>7, <1>8, <1>9 DEF Part
<1>13. \A i, j \in 1..6 : i < j => Below(P(i), P(j))
  BY <1>10
<1> HIDE DEF P
<1>14. PICK b : b = F \o M
  OBVIOUS
<1>15. PICK c : c = b \o Q
  OBVIOUS
<1>16. PICK d : d = c \o InLogic
  OBVIOUS
<1>17. PICK e : e = d \o logicQueue
  OBVIOUS
<1>18. p = e \o K
  BY <1>11, <1>14, <1>15, <1>16, <1>17
<1>19. Part(s, b, P(1) \union P(2))
  <2>1. Below(P(1), P(2))
    BY <1>13
  <2> QED  BY <1>12, <1>14, <2>1, PartAndPart
<1>20. Part(s, c, P(1) \union P(2) \union P(3))
  <2>1. Below(P(1) \union P(2), P(3))
    BY <1>13 DEF Below
  <2> QED  BY <1>12, <1>15, <1>19, <2>1, PartAndPart
<1>21. Part(s, d, P(1) \union P(2) \union P(3) \union P(4))
  <2>1. Below(P(1) \union P(2) \union P(3), P(4))
    BY <1>13 DEF Below
  <2> QED  BY <1>12, <1>16, <1>20, <2>1, PartAndPart
<1>22. Part(s, e, P(1) \union P(2) \union P(3) \union P(4) \union P(5))
  <2>1. Below(P(1) \union P(2) \union P(3) \union P(4), P(5))
    BY <1>13 DEF Below
  <2> QED  BY <1>12, <1>17, <1>21, <2>1, PartAndPart
<1>23. Part(s, p, P(1) \union P(2) \union P(3) \union P(4) \union P(5) \union P(6))
  <2>1. Below(P(1) \union P(2) \union P(3) \union P(4) \union P(5), P(6))
    BY <1>13 DEF Below
  <2> QED  BY <1>12, <1>18, <1>22, <2>1, PartAndPart
<1>24. Handling(s) = P(1) \union P(2) \union P(3) \union P(4) \union P(5) \union P(6)
  <2>1. 1..6 = {1, 2, 3, 4, 5, 6}
    OBVIOUS
  <2> QED  BY <2>1 DEF Handling, AllOf, P
<1> QED  BY <1>23, <1>24 DEF Part

-----------------------------------------------------------------------------
(* What the invariant is for.                                              *)
LEMMA TypesAreOK == Types => TypeOK
<1> SUFFICES ASSUME Types PROVE TypeOK
  OBVIOUS
<1>1. Requests \subseteq Messages /\ Answers \subseteq Frames
  BY DEF Requests, Answers, Messages, Frames, Texts
<1>2. Seq(Requests) \subseteq Seq(Messages) /\ Seq(Answers) \subseteq Seq(Frames)
  <2>1. \A S, T : S \subseteq T => Seq(S) \subseteq Seq(T)
    BY SeqMonotonic
  <2> QED  BY <1>1, <2>1
<1>3. ASSUME NEW s \in Sessions PROVE sent[s] \in 0..Len(Sizes[s])
  <2>1. sent[s] \in Nat /\ sent[s] <= Len(Sizes[s]) /\ Len(Sizes[s]) \in Nat
    BY SizesAssumption, LenProperties DEF Types, ClientTypes
  <2> QED  BY <2>1
<1>4. ASSUME NEW s \in Sessions
      PROVE  /\ reading[s].what \in {"nothing", "header", "data", "freed"}
             /\ reading[s].count \in Nat
  BY DEF Types, ReaderTypes, Reads0
<1>5. ASSUME NEW c \in Contexts
      PROVE  Len(io[c]) <= 1 /\ \A h \in ToSet(io[c]) : h.in \in {"parse", "push"}
  <2>1. io[c] \in Seq(Handlers) /\ Len(io[c]) <= 1
    BY DEF Types, ReaderTypes, OneOrNone
  <2>2. ToSet(io[c]) \subseteq Handlers
    BY <2>1, ToSetOf
  <2> QED  BY <2>1, <2>2 DEF Handlers
<1>6. /\ logicQueue \in Seq(Messages) /\ Len(logicQueue) <= LogicCapacity
      /\ logic.at \in {"pop", "find", "send", "join"} /\ logic.msgs \in Seq(Messages)
  BY <1>2 DEF Types, LogicTypes, OneOrNone
<1>7. ASSUME NEW s \in Sessions
      PROVE  /\ _queue_send[s] \in Seq(Messages) /\ Len(_queue_send[s]) <= SendCapacity
             /\ writer[s].at \in {"none", "pop", "header", "write", "end"}
             /\ written[s] \in Seq(Frames)
  BY <1>2 DEF Types, WriterTypes, ClientTypes
<1> QED  BY <1>3, <1>4, <1>5, <1>6, <1>7
         DEF TypeOK, Types, ServerTypes, ClientTypes, ReaderTypes

LEMMA RacersAreAhead ==
    ASSUME IInv, NEW s \in Sessions, Racing(s)
    PROVE  sent[s] >= Len(written[s]) + 2
<1>1. Types /\ ReaderInv(s) /\ OrderInv(s) /\ ContentInv(s) /\ WireInv(s)
  BY DEF IInv, SessionInv
<1>2. Parsing(s) /\ writer[s].at = "write"
  BY <1>1, HandIs DEF Racing
<1> DEFINE n == wire[s][1].n
           A == written[s]
<1>3. Places(s)[7] = Coming(s) /\ n \in Coming(s)
  BY <1>2, PlacesAre DEF Coming
<1>4. n \in 1..sent[s] /\ sent[s] \in Nat
  BY <1>1, <1>3 DEF OrderInv, Types, ClientTypes
<1>5. PICK m : m \in Requests /\ writer[s].msgs = <<m>>
  <2>1. writer[s].msgs \in OneOrNone(Requests) /\ writer[s].msgs # <<>>
    BY <1>1, <1>2 DEF Types, WriterTypes
  <2> QED  BY <2>1, NoneOrOne
<1>6. m.session = s
  <2>1. m \in ToSet(writer[s].msgs)
    <3>1. DOMAIN <<m>> = {1} /\ <<m>>[1] = m
      OBVIOUS
    <3> QED  BY <1>5, <3>1 DEF ToSet
  <2> QED  BY <1>1, <2>1 DEF ContentInv
<1>7. Number(m) \in Places(s)[2]
  <2>1. Nums(s, <<m>>) = {Number(m)}
    BY <1>6, NumsOfOne
  <2>2. Places(s)[2] = Nums(s, writer[s].msgs)
    BY PlacesAre
  <2>3. writer[s].msgs = <<m>>
    BY <1>5
  <2> QED  BY <2>1, <2>2, <2>3
<1>8. Number(m) < n /\ Number(m) \in 1..sent[s]
  BY <1>1, <1>3, <1>7 DEF OrderInv, Ordered
<1>9. A \in Seq(Answers) /\ Len(A) \in Nat /\ DOMAIN A = 1..Len(A)
  BY <1>1, LenProperties DEF Types, ClientTypes
<1>10. Len(A) < Number(m)
  <2>1. CASE Len(A) = 0
    BY <1>8, <2>1
  <2>2. CASE Len(A) # 0
    <3>1. Len(A) \in DOMAIN A
      BY <1>9, <2>2
    <3>2. Number(A[Len(A)]) \in Places(s)[1]
      BY <3>1, PlacesAre DEF Answered
    <3>3. Number(A[Len(A)]) < Number(m) /\ Number(A[Len(A)]) \in 1..sent[s]
      BY <1>1, <1>7, <3>2 DEF OrderInv, Ordered
    <3>4. Len(A) <= Number(A[Len(A)])
      BY <1>1, <3>1 DEF OrderInv
    <3> QED  BY <1>8, <1>9, <3>3, <3>4
  <2> QED  BY <2>1, <2>2
<1> QED  BY <1>4, <1>8, <1>9, <1>10

LEMMA IInvIsEnough == IInv => AnsweredInOrder
<1> SUFFICES ASSUME IInv PROVE AnsweredInOrder
  OBVIOUS
<1>1. TypeOK
  BY TypesAreOK DEF IInv
<1>2. \A s \in Sessions : Racing(s) => sent[s] >= Len(written[s]) + 2
  BY RacersAreAhead
<1>3. ASSUME NEW s \in Sessions \ raced, NEW p, p = Pipeline(s),
             NEW own, own = {k \in DOMAIN p : p[k].session = s}
      PROVE  /\ \A k \in own : p[k].data = Request(s, Number(p[k]))
             /\ \A j, k \in own : j < k => Number(p[j]) < Number(p[k])
             /\ peer[s] = "up" /\ server # "destroyed" =>
                   \A j, k \in own :
                      Number(p[j])..Number(p[k]) \subseteq {Number(p[i]) : i \in own}
             /\ \A frame \in ToSet(written[s]) : frame.size = ReplySize(frame)
  <2>1. /\ p \in Seq(Requests) /\ Rising(s, p) /\ Nums(s, p) = Handling(s) /\ Intact(s, p)
    BY <1>3, PipelineIs
  <2>2. GapInv(s) /\ ContentInv(s) /\ WireInv(s) /\ OrderInv(s) /\ Types
    BY DEF IInv, SessionInv
  <2>3. {Number(p[i]) : i \in own} = Handling(s)
    BY <1>3, <2>1 DEF Nums
  <2>4. \A i \in own : Number(p[i]) \in Nat
    <3>1. \A i \in DOMAIN p : p[i] \in Requests
      BY <2>1, LenProperties, ElementOfSeq
    <3> QED  BY <1>3, <3>1, Numbers
  <2>5. Upcoming(s) \in Nat
    <3>1. sent[s] \in Nat /\ wire[s] \in Seq(Units)
      BY <2>2 DEF Types, ClientTypes, ReaderTypes
    <3>2. wire[s] # <<>> => wire[s][1] \in Units
      BY <3>1, EmptySeq, LenProperties, ElementOfSeq
    <3> QED  BY <3>1, <3>2 DEF Upcoming, Units
  <2>6. ASSUME peer[s] = "up", server # "destroyed", NEW j \in own, NEW k \in own
        PROVE  Number(p[j])..Number(p[k]) \subseteq {Number(p[i]) : i \in own}
    <3>1. Number(p[j]) \in Handling(s) /\ Number(p[k]) \in Handling(s)
      BY <2>3
    <3>2. /\ Number(p[j])..(Upcoming(s) - 1) \subseteq Handling(s)
          /\ Number(p[k]) < Upcoming(s)
      BY <1>3, <2>2, <2>6, <3>1 DEF GapInv
    <3>3. Number(p[j])..Number(p[k]) \subseteq Number(p[j])..(Upcoming(s) - 1)
      BY <2>4, <2>5, <3>2
    <3> QED  BY <2>3, <3>2, <3>3
  <2>7. \A k \in own : p[k].data = Request(s, Number(p[k]))
    BY <1>3, <2>1 DEF Intact
  <2>8. \A j, k \in own : j < k => Number(p[j]) < Number(p[k])
    BY <1>3, <2>1 DEF Rising
  <2>9. \A frame \in ToSet(written[s]) : frame.size = ReplySize(frame)
    BY <1>3, <2>2 DEF ContentInv
  <2> QED  BY <2>6, <2>7, <2>8, <2>9
<1> QED  BY <1>1, <1>2, <1>3 DEF AnsweredInOrder

(* Whatever the clients send, in whatever order the pool's threads,        *)
(* NetLogic's and the write threads run and whenever clients go or the     *)
(* server stops: each client is answered in the order of its requests,     *)
(* none twice, none left out once one was found, whole and by nothing of   *)
(* another's (TCPServer.hpp, TCPSession.hpp, TCP.hpp and NetLogic.hpp), as *)
(* long as the one _header that the reader and the write thread of its     *)
(* session share was not in use by both; and that takes a client that      *)
(* sends a request before it has all its answers.                          *)
THEOREM EveryClientIsAnsweredInOrder == Spec => []AnsweredInOrder
  BY InitIInv, StepIInv, IInvIsEnough, PTL DEF Spec
=============================================================================
