--------------------------- MODULE TcpFlowMapProofs ---------------------------
(***************************************************************************)
(* Proofs about reading a capture file: for files of any length with any     *)
(* connections in them, every packet is in one flow and at the endpoint that *)
(* sent it, a bogus endpoint that sends ends the reading, endpoints use the  *)
(* segment size that their peers advertise, and cutting packets into         *)
(* segments loses nothing of them.                                          *)
(***************************************************************************)
EXTENDS TcpFlowMap, SequenceTheorems, FiniteSetTheorems, CaptureLemmas

Size == 0 .. WordSize - 1

Piece == [of : Nat, index : Nat, offset : Int, len : Int]

Endpoint == [socket : Socket \cup {NoSocket}, mss : Size, wire : Seq(Piece), is_bogus : BOOLEAN]

Packet == [index : Nat, segment : Segments]

Flow == [a : Endpoint, b : Endpoint, mss_a : Size, mss_b : Size,
         packets : Seq(Packet)]

\* The packets that the pieces of an endpoint were cut from.
Wired(e) == { e.wire[k].of : k \in DOMAIN e.wire }

\* The packets of a list that a socket sent.
Sent(ps, x) == { ps[k].index : k \in { j \in DOMAIN ps : ps[j].segment.src = x } }

\* A flow, known by its id, with the packets of both directions and no others.
FlowOK(id, f) ==
    /\ f \in Flow
    /\ f.a.socket \in {id.src, id.dst}
    /\ f.b = Missing \/ f.b.socket \in {id.src, id.dst} \ {f.a.socket}
    /\ \A k \in DOMAIN f.packets :
          /\ {f.packets[k].segment.src, f.packets[k].segment.dst} = {id.src, id.dst}
          /\ f.packets[k].segment.src \in {f.a.socket, f.b.socket}
    /\ Wired(f.a) = Sent(f.packets, f.a.socket) /\ Wired(f.b) = Sent(f.packets, f.b.socket)

\* Flow f has an endpoint for the sender of s; flow g is f with packet s, the n-th.
Ready(id, f, s) ==
    /\ FlowOK(id, f)
    /\ {s.src, s.dst} = {id.src, id.dst} /\ s.src \in {f.a.socket, f.b.socket}

Grows(f, s, n, g) ==
    \E u, v \in BOOLEAN : (v => Receiver(f, s) # Missing) /\ g = Added(f, s, n, u, v)

\* With a packet s, flow f becomes g only if a sender with bogus data ends the reading.
StopsBogus(f, g, s) ==
    /\ f.a.is_bogus /\ g.a.wire # f.a.wire => ~IsFine(g, s)
    /\ f.b.is_bogus /\ g.b.wire # f.b.wire => ~IsFine(g, s)

Ids == [src : Socket, dst : Socket]

\* The inductive invariant.
FileInv ==
    /\ DOMAIN flows \subseteq Ids /\ index \in 0 .. MaxPackets
    /\ outcome \in {"reading", "break", "map", "nullptr"}
    /\ \A id \in DOMAIN flows :
          /\ ReverseId(id) \notin DOMAIN flows \ {id}
          /\ FlowOK(id, flows[id])
          /\ flows[id].packets # << >>
          /\ \A k \in DOMAIN flows[id].packets : flows[id].packets[k].index \in 0 .. index - 1
    /\ \A n \in 0 .. index - 1 :
          \E id \in DOMAIN flows : \E k \in DOMAIN flows[id].packets : flows[id].packets[k].index = n
    /\ \A id, other \in DOMAIN flows :
          \A j \in DOMAIN flows[id].packets, k \in DOMAIN flows[other].packets :
             flows[id].packets[j].index = flows[other].packets[k].index => id = other /\ j = k

-----------------------------------------------------------------------------
\* The least of some numbers up to a limit is one of them.
LEMMA LeastIsOneOfThem ==
    ASSUME NEW n \in Nat, NEW S, S \subseteq 0 .. n, S # {}
    PROVE  Min(S) \in S
<1> DEFINE T == { n - x : x \in S }
<1>1. T \subseteq 0 .. n /\ T # {}
  <2>1. \A x \in S : n - x \in 0 .. n
    OBVIOUS
  <2> QED BY <2>1
<1>2. PICK y \in T : \A z \in T : y >= z
  <2> HIDE DEF T
  <2> QED BY <1>1, HasLast
<1>3. PICK x \in S : y = n - x
  OBVIOUS
<1>4. \A z \in S : x <= z
  <2> SUFFICES ASSUME NEW z \in S
               PROVE  x <= z
    OBVIOUS
  <2>1. n - z \in T
    OBVIOUS
  <2>2. n - x >= n - z
    BY <1>2, <1>3, <2>1
  <2> QED BY <2>2
<1> QED BY <1>4 DEF Min

LEMMA LesserOfTwo ==
    ASSUME NEW a \in Int, NEW b \in Int
    PROVE  Min({a, b}) = IF a <= b THEN a ELSE b
<1> DEFINE least == IF a <= b THEN a ELSE b
<1>1. least \in {a, b} /\ \A y \in {a, b} : least <= y
  OBVIOUS
<1>2. \A x \in {a, b} : (\A y \in {a, b} : x <= y) => x = least
  OBVIOUS
<1> QED BY <1>1, <1>2 DEF Min

\* Division of data into segments.
LEMMA WholeSegments ==
    ASSUME NEW a \in Nat, NEW b \in Nat \ {0}
    PROVE  /\ a \div b \in Nat /\ b * (a \div b) <= a /\ a < b * (a \div b) + b
<1>1. a \div b \in Nat /\ a % b \in 0 .. b - 1 /\ a = b * (a \div b) + (a % b)
  OBVIOUS
<1> DEFINE q == a \div b
           r == a % b
           m == b * q
<1>2. q \in Nat /\ r \in 0 .. b - 1 /\ a = m + r /\ m \in Nat
  BY <1>1
<1> HIDE DEF q, r, m
<1>3. m <= a /\ a < m + b
  BY <1>2
<1> QED BY <1>2, <1>3 DEF q, m

\* The segment size that data suggests fits a word.
LEMMA DerivedMSS ==
    ASSUME NEW len \in Nat
    PROVE  DeriveMSS(len) \in Size
<1> DEFINE counts == { n \in 2 .. MaxSegments : len % n = 0 /\ len \div n <= MaxMSS }
<1>1. 0 \in Size /\ MaxMSS < WordSize
  <2>1. MaxMSS \in Nat /\ MaxSegments \in Nat /\ MaxSegments >= 2 /\ WordSize \in Nat
        /\ WordSize > MaxMSS * MaxSegments
    BY FileAssumption
  <2>2. MaxMSS * MaxSegments >= MaxMSS
    BY <2>1
  <2> QED BY <2>1, <2>2 DEF Size
<1>2. CASE len < MinMSS \/ len <= MaxMSS \/ counts = {}
  BY <1>1, <1>2, FileAssumption DEF DeriveMSS, Size
<1>3. CASE ~(len < MinMSS \/ len <= MaxMSS \/ counts = {})
  <2>1. counts \subseteq 0 .. MaxSegments /\ MaxSegments \in Nat
    BY FileAssumption
  <2>2. Min(counts) \in counts
    <3> HIDE DEF counts
    <3> QED BY <1>3, <2>1, LeastIsOneOfThem
  <2>3. len \div Min(counts) \in Nat /\ len \div Min(counts) <= MaxMSS
    BY <2>2, FileAssumption
  <2>4. DeriveMSS(len) = len \div Min(counts)
    BY <1>3 DEF DeriveMSS
  <2> HIDE DEF counts
  <2> QED BY <1>1, <2>3, <2>4, FileAssumption DEF Size
<1> QED BY <1>2, <1>3

\* A packet is split into pieces of it, at least one.
LEMMA Pieces ==
    ASSUME NEW mss \in Size, NEW len \in Nat, NEW id \in Nat
    PROVE  LET w == SplitIntoWirePackets(mss, len, id)
           IN  /\ w \in Seq(Piece) /\ Len(w) >= 1
               /\ \A k \in DOMAIN w : w[k].of = id
<1> DEFINE w == SplitIntoWirePackets(mss, len, id)
<1>1. CASE mss = 0 \/ len <= mss
  <2>1. w = << [of |-> id, index |-> id, offset |-> 0, len |-> len] >>
    BY <1>1 DEF SplitIntoWirePackets
  <2>2. [of |-> id, index |-> id, offset |-> 0, len |-> len] \in Piece
    BY DEF Piece
  <2> QED BY <2>1, <2>2
<1>2. CASE ~(mss = 0 \/ len <= mss)
  <2> DEFINE n == (len + mss - 1) \div mss
             piece(k) == [of |-> id, index |-> 0, offset |-> (k - 1) * mss,
                          len |-> Min({mss, len - (k - 1) * mss})]
  <2>1. mss \in Nat \ {0} /\ len > mss
    BY <1>2, FileAssumption DEF Size
  <2>2. n \in Nat /\ n >= 1
    BY <2>1
  <2>3. w = [k \in 1 .. n |-> piece(k)]
    BY <1>2 DEF SplitIntoWirePackets
  <2>4. \A k \in 1 .. n : piece(k) \in Piece
    <3> SUFFICES ASSUME NEW k \in 1 .. n
                 PROVE  piece(k) \in Piece
      OBVIOUS
    <3>1. (k - 1) * mss \in Int
      BY <2>1
    <3>2. Min({mss, len - (k - 1) * mss}) \in Int
      BY <2>1, <3>1, LesserOfTwo
    <3> QED BY <3>1, <3>2 DEF Piece
  <2> HIDE DEF n, piece
  <2>5. w \in Seq(Piece) /\ Len(w) = n /\ DOMAIN w = 1 .. n
    BY <2>2, <2>3, <2>4
  <2>6. \A k \in 1 .. n : w[k].of = id
    BY <2>3 DEF piece
  <2> QED BY <2>2, <2>5, <2>6
<1> QED BY <1>1, <1>2

-----------------------------------------------------------------------------
\* Constants of the model are of their types.
LEMMA Words ==
    /\ WordSize \in Nat \ {0} /\ TimestampBytes \in Size /\ 0 \in Size
    /\ \A s \in Segments : s.src \in Socket /\ s.dst \in Socket /\ s.len \in Nat /\ s.mss \in Size
    /\ NoSocket \notin Socket
<1>1. MaxMSS * MaxSegments \in Nat
  BY FileAssumption
<1> QED BY <1>1, FileAssumption DEF Size, Socket, NoSocket

LEMMA MissingEndpoint ==
    /\ Missing \in Endpoint /\ Missing.socket = NoSocket /\ Wired(Missing) = {}
    /\ ~Missing.is_bogus
    /\ \A x \in Socket : /\ NewEndpoint(x) \in Endpoint /\ NewEndpoint(x).socket = x
                         /\ Wired(NewEndpoint(x)) = {} /\ NewEndpoint(x) # Missing
BY Words DEF Missing, NewEndpoint, Endpoint, Wired

\* A packet that is added keeps the endpoint and its bogus data.
LEMMA PacketAdded ==
    ASSUME NEW e \in Endpoint, NEW s \in Segments, NEW n \in Nat, NEW u \in BOOLEAN
    PROVE  /\ AddPacket(e, s, n, u) \in Endpoint
           /\ AddPacket(e, s, n, u).socket = e.socket
           /\ AddPacket(e, s, n, u).is_bogus = (e.is_bogus \/ u)
           /\ Wired(AddPacket(e, s, n, u)) = Wired(e) \cup {n}
<1> DEFINE mss == IF e.mss = 0 THEN DeriveMSS(s.len) ELSE e.mss
           w == SplitIntoWirePackets(mss, s.len, n)
           v == e.is_bogus \/ u
           g == [socket |-> e.socket, mss |-> mss, wire |-> e.wire \o w, is_bogus |-> v]
<1>1. g = AddPacket(e, s, n, u)
  BY DEF AddPacket
<1>2. mss \in Size /\ s.len \in Nat
  BY Words, DerivedMSS DEF Endpoint
<1>3. w \in Seq(Piece) /\ Len(w) >= 1 /\ \A k \in DOMAIN w : w[k].of = n
  <2> HIDE DEF mss
  <2> QED BY <1>2, Pieces
<1>6. v \in BOOLEAN /\ v = (e.is_bogus \/ u)
  BY DEF Endpoint
<1> HIDE DEF mss, w, v
<1>4. /\ g \in Endpoint /\ g.socket = e.socket /\ g.wire = e.wire \o w
      /\ g.is_bogus = v
  <2>1. e.socket \in Socket \cup {NoSocket} /\ e.wire \o w \in Seq(Piece)
    BY <1>3 DEF Endpoint
  <2> QED BY <1>2, <1>6, <2>1 DEF Endpoint
<1> HIDE DEF g
<1>5. Wired(g) = Wired(e) \cup {n}
  <2>1. e.wire \in Seq(Piece) /\ Len(e.wire) \in Nat /\ Len(w) \in Nat
        /\ DOMAIN e.wire = 1 .. Len(e.wire)
    BY <1>3 DEF Endpoint
  <2>2. /\ DOMAIN g.wire = 1 .. Len(e.wire) + Len(w)
        /\ \A k \in 1 .. Len(e.wire) : g.wire[k] = e.wire[k]
        /\ \A k \in 1 .. Len(w) : g.wire[Len(e.wire) + k] = w[k]
    BY <1>3, <1>4, <2>1
  <2>3. Wired(e) \subseteq Wired(g)
    <3>1. ASSUME NEW k \in DOMAIN e.wire
          PROVE  e.wire[k].of \in Wired(g)
      <4>1. k \in DOMAIN g.wire /\ g.wire[k] = e.wire[k]
        BY <2>1, <2>2
      <4> QED BY <4>1 DEF Wired
    <3> QED BY <3>1 DEF Wired
  <2>4. n \in Wired(g)
    <3>1. w[1].of = n /\ Len(e.wire) + 1 \in DOMAIN g.wire /\ g.wire[Len(e.wire) + 1] = w[1]
      BY <1>3, <2>1, <2>2
    <3> QED BY <3>1 DEF Wired
  <2>5. ASSUME NEW k \in DOMAIN g.wire
        PROVE  g.wire[k].of \in Wired(e) \cup {n}
    <3>1. CASE k \in 1 .. Len(e.wire)
      BY <2>1, <2>2, <3>1 DEF Wired
    <3>2. CASE k \notin 1 .. Len(e.wire)
      <4>1. k - Len(e.wire) \in 1 .. Len(w) /\ k = Len(e.wire) + (k - Len(e.wire))
        BY <2>1, <2>2, <3>2
      <4>2. g.wire[k] = w[k - Len(e.wire)] /\ k - Len(e.wire) \in DOMAIN w
        BY <1>3, <2>2, <4>1
      <4> QED BY <1>3, <4>2
    <3> QED BY <3>1, <3>2
  <2>6. Wired(g) \subseteq Wired(e) \cup {n}
    BY <2>5 DEF Wired
  <2> QED BY <2>3, <2>4, <2>6
<1> QED BY <1>1, <1>4, <1>5, <1>6 DEF v

\* What CheckForMSS and the creation of endpoints leave of a flow.
LEMMA FlowPrepared ==
    ASSUME NEW id \in Ids, NEW f, FlowOK(id, f) \/ f = NewFlow,
           NEW s \in Segments, {s.src, s.dst} = {id.src, id.dst}
    PROVE  LET p == Prepared(f, s)
           IN  /\ p \in Flow /\ p.packets = f.packets
               /\ p.a.socket = (IF f.a = Missing THEN s.src ELSE f.a.socket)
               /\ p.a.wire = f.a.wire /\ p.a.is_bogus = f.a.is_bogus
               /\ s.src = p.a.socket => p.b = f.b
               /\ s.src # p.a.socket => p.b.socket = s.src
               /\ p.b.wire = f.b.wire /\ p.b.is_bogus = f.b.is_bogus
<1> DEFINE q == WithA(f, s)
           r == CheckForMSS(q, s)
           p == Prepared(f, s)
<1>1. f \in Flow
  <2>1. NewFlow \in Flow
    <3>1. Missing \in Endpoint /\ 0 \in Size
      BY Words, MissingEndpoint
    <3>2. << >> \in Seq(Packet)
      OBVIOUS
    <3> QED BY <3>1, <3>2 DEF NewFlow, Flow
  <2> QED BY <2>1 DEF FlowOK
<1>2. /\ q \in Flow /\ q.packets = f.packets /\ q.b = f.b
      /\ q.a.socket = (IF f.a = Missing THEN s.src ELSE f.a.socket)
      /\ q.a.wire = f.a.wire /\ q.a.is_bogus = f.a.is_bogus
  <2>1. CASE f.a = Missing
    <3>1. q = [f EXCEPT !.a = NewEndpoint(s.src)] /\ s.src \in Socket
      BY <2>1, Words DEF WithA
    <3>2. NewEndpoint(s.src) \in Endpoint /\ NewEndpoint(s.src).socket = s.src
          /\ NewEndpoint(s.src).wire = Missing.wire
          /\ NewEndpoint(s.src).is_bogus = Missing.is_bogus
      BY <3>1, MissingEndpoint DEF NewEndpoint, Missing
    <3> HIDE DEF q
    <3> QED BY <1>1, <2>1, <3>1, <3>2 DEF Flow
  <2>2. CASE f.a # Missing
    BY <1>1, <2>2 DEF WithA
  <2> QED BY <2>1, <2>2
<1>3. Usable(s) \in Size
  BY Words DEF Usable, Size
<1> HIDE DEF q
<1>4. /\ r \in Flow /\ r.packets = q.packets /\ r.a = q.a /\ r.b = q.b
  BY <1>2, <1>3 DEF CheckForMSS, Flow
<1> HIDE DEF r
<1>5. p = WithB(r, s)
  BY DEF Prepared, q, r
<1>6. CASE FromA(r, s) \/ r.b # Missing
  <2>1. p = r
    BY <1>5, <1>6 DEF WithB
  <2>2. s.src # r.a.socket => r.b.socket = s.src
    <3> SUFFICES ASSUME s.src # r.a.socket
                 PROVE  r.b.socket = s.src
      OBVIOUS
    <3>1. f.b # Missing
      BY <1>2, <1>4, <1>6 DEF FromA
    <3>2. FlowOK(id, f)
      BY <3>1 DEF NewFlow
    <3>3. f.a # Missing
      BY <1>2, <1>4
    <3> QED BY <1>2, <1>4, <3>1, <3>2, <3>3 DEF FlowOK
  <2> QED BY <1>2, <1>4, <1>6, <2>1, <2>2
<1>7. CASE ~(FromA(r, s) \/ r.b # Missing)
  <2> DEFINE b == [NewEndpoint(s.src) EXCEPT !.mss = r.mss_b]
             m == IF r.mss_a # 0 THEN r.mss_a ELSE r.a.mss
             a == [r.a EXCEPT !.mss = m]
  <2>1. p = [r EXCEPT !.b = b, !.a = a]
    BY <1>4, <1>5, <1>7 DEF WithB, Flow
  <2>2. b \in Endpoint /\ b.socket = s.src /\ b.wire = Missing.wire /\ b.is_bogus = Missing.is_bogus
    <3>1. NewEndpoint(s.src) \in Endpoint /\ NewEndpoint(s.src).socket = s.src
          /\ NewEndpoint(s.src).wire = Missing.wire
          /\ NewEndpoint(s.src).is_bogus = Missing.is_bogus
      BY Words, MissingEndpoint DEF NewEndpoint, Missing
    <3>2. r.mss_b \in Size
      BY <1>4 DEF Flow
    <3> QED BY <3>1, <3>2 DEF Endpoint
  <2>3. a \in Endpoint /\ a.socket = r.a.socket /\ a.wire = r.a.wire /\ a.is_bogus = r.a.is_bogus
    BY <1>4 DEF Endpoint, Flow
  <2> HIDE DEF a, b
  <2>4. /\ p \in Flow /\ p.packets = r.packets /\ p.a = a /\ p.b = b
    BY <1>4, <2>1, <2>2, <2>3 DEF Flow
  <2>5. r.b = Missing /\ s.src # r.a.socket
    BY <1>7 DEF FromA
  <2> HIDE DEF p
  <2>6. r.b.wire = f.b.wire /\ f.b = Missing
    BY <1>2, <1>4, <2>5
  <2> QED BY <1>2, <1>4, <2>2, <2>3, <2>4, <2>5, <2>6 DEF p
<1> QED BY <1>6, <1>7

\* A flow that is prepared for a packet is still one of that id, and has an endpoint
\* for the sender.
LEMMA FlowReady ==
    ASSUME NEW id \in Ids, NEW f, FlowOK(id, f) \/ f = NewFlow,
           NEW s \in Segments, {s.src, s.dst} = {id.src, id.dst}
    PROVE  LET p == Prepared(f, s)
           IN  /\ FlowOK(id, p) /\ p.packets = f.packets
               /\ s.src \in {p.a.socket, p.b.socket}
               /\ p.a.wire = f.a.wire /\ p.a.is_bogus = f.a.is_bogus
               /\ p.b.wire = f.b.wire /\ p.b.is_bogus = f.b.is_bogus
<1> DEFINE p == Prepared(f, s)
<1>1. /\ p \in Flow /\ p.packets = f.packets
      /\ p.a.socket = (IF f.a = Missing THEN s.src ELSE f.a.socket)
      /\ p.a.wire = f.a.wire /\ p.a.is_bogus = f.a.is_bogus
      /\ s.src = p.a.socket => p.b = f.b
      /\ s.src # p.a.socket => p.b.socket = s.src
      /\ p.b.wire = f.b.wire /\ p.b.is_bogus = f.b.is_bogus
  BY FlowPrepared
<1> HIDE DEF p
<1>2. s.src \in {p.a.socket, p.b.socket}
  BY <1>1
<1>3. Wired(p.a) = Wired(f.a) /\ Wired(p.b) = Wired(f.b)
  BY <1>1 DEF Wired
<1>4. CASE f = NewFlow
  <2>1. f.a = Missing /\ f.b = Missing /\ f.packets = << >>
    BY <1>4 DEF NewFlow
  <2>2. \A x : Sent(p.packets, x) = {}
    BY <1>1, <2>1 DEF Sent
  <2>3. p.a.socket = s.src /\ p.b = Missing
    BY <1>1, <2>1
  <2>4. FlowOK(id, p)
    BY <1>1, <1>3, <2>1, <2>2, <2>3, MissingEndpoint DEF FlowOK
  <2> QED BY <1>1, <1>2, <2>4 DEF p
<1>5. CASE FlowOK(id, f)
  <2>1. id.src \in Socket /\ id.dst \in Socket /\ NoSocket \notin Socket
    BY Words DEF Ids
  <2>2. /\ f.a.socket \in {id.src, id.dst} /\ f.a # Missing /\ p.a.socket = f.a.socket
        /\ f.b = Missing \/ f.b.socket \in {id.src, id.dst} \ {f.a.socket}
    BY <1>1, <1>5, <2>1, MissingEndpoint DEF FlowOK
  <2>3. CASE f.b = Missing /\ s.src # p.a.socket
    <3>1. \A k \in DOMAIN f.packets : f.packets[k].segment.src = f.a.socket
      BY <1>5, <2>1, <2>3, MissingEndpoint DEF FlowOK
    <3>2. Wired(p.b) = {} /\ Sent(p.packets, p.b.socket) = {}
      BY <1>1, <1>3, <2>2, <2>3, <3>1, MissingEndpoint DEF Sent
    <3>3. p.b.socket \in {id.src, id.dst} \ {p.a.socket}
      BY <1>1, <2>3
    <3>4. \A k \in DOMAIN p.packets :
            /\ {p.packets[k].segment.src, p.packets[k].segment.dst} = {id.src, id.dst}
            /\ p.packets[k].segment.src \in {p.a.socket, p.b.socket}
      BY <1>1, <1>5, <2>2, <3>1 DEF FlowOK
    <3>5. Wired(p.a) = Sent(p.packets, p.a.socket)
      BY <1>1, <1>3, <1>5, <2>2 DEF FlowOK
    <3>6. FlowOK(id, p)
      BY <1>1, <2>2, <3>2, <3>3, <3>4, <3>5 DEF FlowOK
    <3> QED BY <1>1, <1>2, <3>6 DEF p
  <2>4. CASE ~(f.b = Missing /\ s.src # p.a.socket)
    <3>1. p.b.socket = f.b.socket /\ (p.b = f.b \/ f.b.socket \in {id.src, id.dst} \ {f.a.socket})
      BY <1>1, <2>2, <2>4
    <3>2. p.b = Missing \/ p.b.socket \in {id.src, id.dst} \ {p.a.socket}
      BY <2>2, <3>1
    <3>3. FlowOK(id, p)
      BY <1>1, <1>3, <1>5, <2>2, <3>1, <3>2 DEF FlowOK
    <3> QED BY <1>1, <1>2, <3>3 DEF p
  <2> QED BY <2>3, <2>4
<1> QED BY <1>4, <1>5

\* What a list of packets holds of each sender, with a packet more.
LEMMA SentGrows ==
    ASSUME NEW ps \in Seq(Packet), NEW r \in Packet
    PROVE  \A x : Sent(Append(ps, r), x)
                    = Sent(ps, x) \cup (IF r.segment.src = x THEN {r.index} ELSE {})
<1> DEFINE q == Append(ps, r)
           l == Len(ps)
<1>2. /\ q \in Seq(Packet)
      /\ l \in Nat /\ DOMAIN ps = 1 .. l /\ DOMAIN q = 1 .. l + 1
      /\ \A k \in 1 .. l : q[k] = ps[k]
      /\ q[l + 1] = r
  OBVIOUS
<1> HIDE DEF l, q
<1>3. ASSUME NEW x
      PROVE  Sent(q, x) = Sent(ps, x) \cup (IF r.segment.src = x THEN {r.index} ELSE {})
  <2>1. ASSUME NEW k \in DOMAIN q, q[k].segment.src = x
        PROVE  q[k].index \in Sent(ps, x) \cup (IF r.segment.src = x THEN {r.index} ELSE {})
    <3>1. CASE k = l + 1
      BY <1>2, <2>1, <3>1
    <3>2. CASE k # l + 1
      <4>1. k \in DOMAIN ps /\ q[k] = ps[k]
        BY <1>2, <3>2
      <4> QED BY <2>1, <4>1 DEF Sent
    <3> QED BY <3>1, <3>2
  <2>2. ASSUME NEW k \in DOMAIN ps, ps[k].segment.src = x
        PROVE  ps[k].index \in Sent(q, x)
    <3>1. k \in DOMAIN q /\ q[k] = ps[k]
      BY <1>2
    <3> QED BY <2>2, <3>1 DEF Sent
  <2>3. r.segment.src = x => r.index \in Sent(q, x)
    <3>1. l + 1 \in DOMAIN q /\ q[l + 1] = r
      BY <1>2
    <3> QED BY <3>1 DEF Sent
  <2>4. Sent(q, x) \subseteq Sent(ps, x) \cup (IF r.segment.src = x THEN {r.index} ELSE {})
    BY <2>1 DEF Sent
  <2>5. Sent(ps, x) \subseteq Sent(q, x)
    BY <2>2 DEF Sent
  <2> QED BY <2>3, <2>4, <2>5
<1> QED BY <1>3 DEF q

\* An ACK leaves an endpoint its packets.
LEMMA AckProcessed ==
    ASSUME NEW e \in Endpoint, NEW v \in BOOLEAN
    PROVE  LET r == [e EXCEPT !.is_bogus = @ \/ v]
           IN  /\ r \in Endpoint /\ r.socket = e.socket /\ Wired(r) = Wired(e)
               /\ r.wire = e.wire /\ ~v => r = e
<1> DEFINE u == e.is_bogus \/ v
           r == [e EXCEPT !.is_bogus = u]
<1>1. u \in BOOLEAN
  BY DEF Endpoint
<1>2. ~v => u = e.is_bogus
  BY DEF Endpoint
<1> HIDE DEF u
<1>3. r \in Endpoint /\ r.socket = e.socket /\ r.wire = e.wire
  BY <1>1 DEF Endpoint
<1>4. ~v => r = e
  BY <1>2 DEF Endpoint
<1>5. Wired(r) = Wired(e)
  BY <1>3 DEF Wired
<1> QED BY <1>3, <1>4, <1>5 DEF u

\* A packet that is added to a flow is in its list and with its sender, and nothing
\* else comes to an endpoint.
LEMMA FlowGrown ==
    ASSUME NEW id \in Ids, NEW p, NEW s \in Segments, Ready(id, p, s),
           NEW n \in Nat, NEW g, Grows(p, s, n, g)
    PROVE  /\ FlowOK(id, g) /\ StopsBogus(p, g, s)
           /\ g.packets = Append(p.packets, [index |-> n, segment |-> s])
<1>0. /\ FlowOK(id, p)
      /\ {s.src, s.dst} = {id.src, id.dst} /\ s.src \in {p.a.socket, p.b.socket}
  BY DEF Ready
<1> PICK u \in BOOLEAN, v \in BOOLEAN :
        (v => Receiver(p, s) # Missing) /\ g = Added(p, s, n, u, v)
  BY DEF Grows
<1> DEFINE r == [index |-> n, segment |-> s]
           add == AddPacket(Sender(p, s), s, n, u)
           ack == [Receiver(p, s) EXCEPT !.is_bogus = @ \/ v]
<1>1. /\ p \in Flow /\ p.a \in Endpoint /\ p.b \in Endpoint
      /\ p.packets \in Seq(Packet)
  BY <1>0 DEF FlowOK, Flow
<1>2. /\ add \in Endpoint /\ add.socket = Sender(p, s).socket
      /\ add.is_bogus = (Sender(p, s).is_bogus \/ u)
      /\ Wired(add) = Wired(Sender(p, s)) \cup {n}
  <2>1. Sender(p, s) \in Endpoint
    BY <1>1 DEF Sender
  <2> QED BY <2>1, PacketAdded
<1>3. /\ ack \in Endpoint /\ ack.socket = Receiver(p, s).socket
      /\ Wired(ack) = Wired(Receiver(p, s))
      /\ ack.wire = Receiver(p, s).wire
      /\ ~v => ack = Receiver(p, s)
  <2>1. Receiver(p, s) \in Endpoint
    BY <1>1 DEF Receiver
  <2> QED BY <2>1, AckProcessed
<1>4. g = [p EXCEPT !.packets = Append(@, r),
                    !.a = IF FromA(p, s) THEN add ELSE ack,
                    !.b = IF FromA(p, s) THEN ack ELSE add]
  BY DEF Added
<1>5. r \in Packet /\ r.index = n /\ r.segment = s
  BY DEF Packet
<1> DEFINE ps == p.packets
           q == Append(ps, r)
           l == Len(ps)
<1>6. /\ q \in Seq(Packet)
      /\ l \in Nat /\ DOMAIN ps = 1 .. l /\ DOMAIN q = 1 .. l + 1
      /\ \A k \in 1 .. l : q[k] = ps[k]
      /\ q[l + 1].index = n /\ q[l + 1].segment = s
      /\ Sent(q, s.src) = Sent(ps, s.src) \cup {n}
      /\ \A x : x # s.src => Sent(q, x) = Sent(ps, x)
  <2>1. ps \in Seq(Packet)
    BY <1>1
  <2>2. q = Append(ps, r)
    OBVIOUS
  <2> HIDE DEF ps, r, q
  <2>3. /\ q \in Seq(Packet)
        /\ Len(ps) \in Nat /\ DOMAIN ps = 1 .. Len(ps) /\ DOMAIN q = 1 .. Len(ps) + 1
        /\ \A k \in 1 .. Len(ps) : q[k] = ps[k]
        /\ q[Len(ps) + 1] = r
    BY <1>5, <2>1, <2>2
  <2>4. \A x : Sent(q, x) = Sent(ps, x) \cup (IF r.segment.src = x THEN {r.index} ELSE {})
    <3>1. r \in Packet
      BY <1>5
    <3> QED BY ONLY <2>1, <2>2, <3>1, SentGrows
  <2>5. q[Len(ps) + 1].index = n /\ q[Len(ps) + 1].segment = s
    BY <1>5, <2>3
  <2>6. r.index = n /\ r.segment = s
    BY <1>5
  <2>7. Sent(q, s.src) = Sent(ps, s.src) \cup {n}
    BY ONLY <2>4, <2>6
  <2>8. \A x : x # s.src => Sent(q, x) = Sent(ps, x)
    BY ONLY <2>4, <2>6
  <2> QED BY ONLY <2>3, <2>5, <2>7, <2>8
<1> HIDE DEF add, ack, r, l, q
<1>7. /\ g \in Flow /\ g.packets = q
      /\ g.a = (IF FromA(p, s) THEN add ELSE ack)
      /\ g.b = (IF FromA(p, s) THEN ack ELSE add)
  BY <1>1, <1>2, <1>3, <1>4, <1>6 DEF Flow, q
<1> HIDE DEF ps
<1>8. /\ id.src \in Socket /\ id.dst \in Socket /\ s.src \in Socket /\ NoSocket \notin Socket
      /\ p.a.socket \in {id.src, id.dst}
      /\ p.b = Missing \/ p.b.socket \in {id.src, id.dst} \ {p.a.socket}
      /\ Wired(p.a) = Sent(ps, p.a.socket) /\ Wired(p.b) = Sent(ps, p.b.socket)
      /\ Missing.socket = NoSocket
  BY <1>0, Words, MissingEndpoint DEF Ids, FlowOK, ps
<1>9. /\ g.a.socket = p.a.socket /\ g.b.socket = p.b.socket
      /\ p.b = Missing => g.b = Missing
      /\ Wired(g.a) = Sent(g.packets, g.a.socket) /\ Wired(g.b) = Sent(g.packets, g.b.socket)
      /\ FromA(g, s) = FromA(p, s)
  <2>1. CASE FromA(p, s)
    <3>1. Sender(p, s) = p.a /\ Receiver(p, s) = p.b /\ s.src = p.a.socket /\ g.a = add /\ g.b = ack
      BY <1>7, <2>1 DEF Sender, Receiver, FromA
    <3>2. p.b.socket # s.src
      BY <1>8, <3>1
    <3>3. p.b = Missing => g.b = Missing
      BY <1>3, <3>1
    <3>4. FromA(g, s) = FromA(p, s)
      BY <1>2, <3>1 DEF FromA
    <3>5. g.a.socket = p.a.socket /\ g.b.socket = p.b.socket
      BY <1>2, <1>3, <3>1
    <3>6. Wired(g.a) = Sent(q, s.src)
      BY <1>2, <1>6, <1>8, <3>1
    <3>7. Wired(g.b) = Sent(q, p.b.socket)
      BY <1>3, <1>6, <1>8, <3>1, <3>2
    <3> QED BY <1>7, <3>1, <3>3, <3>4, <3>5, <3>6, <3>7
  <2>2. CASE ~FromA(p, s)
    <3>1. Sender(p, s) = p.b /\ Receiver(p, s) = p.a /\ s.src = p.b.socket /\ g.a = ack /\ g.b = add
          /\ s.src # p.a.socket
      BY <1>0, <1>7, <2>2 DEF Sender, Receiver, FromA
    <3>2. p.b # Missing
      BY <1>0, <1>8, <3>1
    <3>4. FromA(g, s) = FromA(p, s)
      BY <1>3, <3>1 DEF FromA
    <3>5. g.a.socket = p.a.socket /\ g.b.socket = p.b.socket
      BY <1>2, <1>3, <3>1
    <3>6. Wired(g.b) = Sent(q, s.src)
      BY <1>2, <1>6, <1>8, <3>1
    <3>7. Wired(g.a) = Sent(q, p.a.socket)
      BY <1>3, <1>6, <1>8, <3>1
    <3> QED BY <1>7, <3>1, <3>2, <3>4, <3>5, <3>6, <3>7
  <2> QED BY <2>1, <2>2
<1>10. ASSUME NEW k \in DOMAIN g.packets
       PROVE  /\ {g.packets[k].segment.src, g.packets[k].segment.dst} = {id.src, id.dst}
              /\ g.packets[k].segment.src \in {g.a.socket, g.b.socket}
  <2>1. CASE k = l + 1
    BY <1>0, <1>6, <1>7, <1>9, <2>1
  <2>2. CASE k # l + 1
    <3>1. k \in DOMAIN p.packets /\ g.packets[k] = p.packets[k]
      BY <1>6, <1>7, <2>2 DEF ps
    <3> QED BY <1>0, <1>9, <3>1 DEF FlowOK
  <2> QED BY <2>1, <2>2
<1>11. FlowOK(id, g)
  BY <1>7, <1>8, <1>9, <1>10 DEF FlowOK
<1>12. /\ p.a.is_bogus /\ g.a.wire # p.a.wire => ~IsFine(g, s)
       /\ p.b.is_bogus /\ g.b.wire # p.b.wire => ~IsFine(g, s)
  <2>1. CASE FromA(p, s)
    <3>1. g.b.wire = p.b.wire /\ Sender(g, s) = g.a /\ (p.a.is_bogus => g.a.is_bogus)
      BY <1>2, <1>3, <1>7, <1>9, <2>1 DEF Sender, Receiver
    <3> QED BY <3>1 DEF IsFine
  <2>2. CASE ~FromA(p, s)
    <3>1. g.a.wire = p.a.wire /\ Sender(g, s) = g.b /\ (p.b.is_bogus => g.b.is_bogus)
      BY <1>2, <1>3, <1>7, <1>9, <2>2 DEF Sender, Receiver
    <3> QED BY <3>1 DEF IsFine
  <2> QED BY <2>1, <2>2
<1> QED BY <1>7, <1>11, <1>12 DEF r, q, ps, StopsBogus

-----------------------------------------------------------------------------
\* The id that a packet is given names its connection, and no other flow has the
\* opposite id.
LEMMA FlowIdNamesConnection ==
    ASSUME FileInv, NEW s \in Segments
    PROVE  LET id == FlowId(s)
           IN  /\ id \in Ids /\ {s.src, s.dst} = {id.src, id.dst}
               /\ \A i \in DOMAIN flows \cup {id} :
                     ReverseId(i) \notin (DOMAIN flows \cup {id}) \ {i}
<1> DEFINE forward == [src |-> s.src, dst |-> s.dst]
           id == FlowId(s)
<1>1. forward \in Ids /\ {s.src, s.dst} = {forward.src, forward.dst}
  BY Words DEF Ids
<1>2. \A i \in Ids : ReverseId(i) \in Ids /\ ReverseId(ReverseId(i)) = i
                     /\ {ReverseId(i).src, ReverseId(i).dst} = {i.src, i.dst}
  BY DEF Ids, ReverseId
<1>3. id = IF forward \notin DOMAIN flows /\ ReverseId(forward) \in DOMAIN flows
           THEN ReverseId(forward) ELSE forward
  BY DEF FlowId
<1> HIDE DEF forward, id
<1>4. DOMAIN flows \subseteq Ids /\ \A i \in DOMAIN flows : ReverseId(i) \notin DOMAIN flows \ {i}
  BY DEF FileInv
<1>5. id \in Ids /\ {s.src, s.dst} = {id.src, id.dst}
  BY <1>1, <1>2, <1>3
<1>6. ReverseId(id) \notin DOMAIN flows \ {id}
  BY <1>1, <1>2, <1>3, <1>4
<1>7. ASSUME NEW i \in DOMAIN flows \cup {id}
      PROVE  ReverseId(i) \notin (DOMAIN flows \cup {id}) \ {i}
  <2>1. CASE i = id
    BY <1>6, <2>1
  <2>2. CASE i # id
    <3>1. i \in DOMAIN flows /\ i \in Ids
      BY <1>4, <2>2
    <3>2. ReverseId(i) # id
      <4> SUFFICES ASSUME ReverseId(i) = id
                   PROVE  FALSE
        OBVIOUS
      <4>1. i = ReverseId(id)
        BY <1>2, <3>1
      <4> QED BY <1>6, <2>2, <3>1, <4>1
    <3> QED BY <1>4, <3>1, <3>2
  <2> QED BY <2>1, <2>2
<1> QED BY <1>5, <1>7 DEF id

\* What reading a packet does to the flows: one of them grows by it.
LEMMA FlowRead ==
    ASSUME FileInv, NEW s \in Segments, Read(s)
    PROVE  \E id \in Ids, g \in Flow, ps \in Seq(Packet), r \in Packet :
              /\ flows' = [i \in DOMAIN flows \cup {id} |-> IF i = id THEN g ELSE flows[i]]
              /\ index' = index + 1 /\ outcome' \in {outcome, "break"}
              /\ \A i \in DOMAIN flows \cup {id} :
                    ReverseId(i) \notin (DOMAIN flows \cup {id}) \ {i}
              /\ FlowOK(id, g) /\ g.packets = Append(ps, r) /\ r.index = index
              /\ ps = (IF id \in DOMAIN flows THEN flows[id].packets ELSE << >>)
              /\ id \in DOMAIN flows =>
                    /\ flows[id].a.is_bogus /\ g.a.wire # flows[id].a.wire => outcome' = "break"
                    /\ flows[id].b.is_bogus /\ g.b.wire # flows[id].b.wire => outcome' = "break"
<1> DEFINE id == FlowId(s)
           f == IF id \in DOMAIN flows THEN flows[id] ELSE NewFlow
           p == Prepared(f, s)
           r == [index |-> index, segment |-> s]
<1>1. PICK u \in BOOLEAN, v \in BOOLEAN :
        LET g == Added(p, s, index, u, v)
        IN  /\ v => s.ack /\ Receiver(p, s) # Missing
            /\ flows' = [i \in DOMAIN flows \cup {id} |-> IF i = id THEN g ELSE flows[i]]
            /\ index' = index + 1
            /\ outcome' = IF IsFine(g, s) THEN outcome ELSE "break"
  BY DEF Read
<1> DEFINE g == Added(p, s, index, u, v)
<1>2. /\ id \in Ids /\ {s.src, s.dst} = {id.src, id.dst}
      /\ \A i \in DOMAIN flows \cup {id} :
            ReverseId(i) \notin (DOMAIN flows \cup {id}) \ {i}
  BY FlowIdNamesConnection
<1> HIDE DEF id
<1>3. FlowOK(id, f) \/ f = NewFlow
  BY DEF FileInv
<1>4. f.packets = (IF id \in DOMAIN flows THEN flows[id].packets ELSE << >>)
  BY DEF NewFlow
<1>5. id \in DOMAIN flows => f = flows[id]
  OBVIOUS
<1>6. index \in Nat
  BY DEF FileInv
<1> HIDE DEF f
<1>7. /\ FlowOK(id, p) /\ p.packets = f.packets
      /\ s.src \in {p.a.socket, p.b.socket}
      /\ p.a.wire = f.a.wire /\ p.a.is_bogus = f.a.is_bogus
      /\ p.b.wire = f.b.wire /\ p.b.is_bogus = f.b.is_bogus
  BY <1>2, <1>3, FlowReady
<1> HIDE DEF p
<1>8. v => Receiver(p, s) # Missing
  BY <1>1
<1>9. /\ FlowOK(id, g) /\ g.packets = Append(p.packets, r) /\ g \in Flow
      /\ p.a.is_bogus /\ g.a.wire # p.a.wire => ~IsFine(g, s)
      /\ p.b.is_bogus /\ g.b.wire # p.b.wire => ~IsFine(g, s)
  <2>1. Grows(p, s, index, g)
    BY <1>8 DEF Grows
  <2>2. Ready(id, p, s)
    BY <1>2, <1>7 DEF Ready
  <2>3. s \in Segments /\ id \in Ids
    BY <1>2
  <2> HIDE DEF g
  <2>4. /\ FlowOK(id, g) /\ StopsBogus(p, g, s)
        /\ g.packets = Append(p.packets, [index |-> index, segment |-> s])
    BY ONLY <1>6, <2>1, <2>2, <2>3, FlowGrown
  <2> QED BY <2>4 DEF FlowOK, StopsBogus
<1>10. /\ flows' = [i \in DOMAIN flows \cup {id} |-> IF i = id THEN g ELSE flows[i]]
       /\ index' = index + 1
       /\ outcome' = IF IsFine(g, s) THEN outcome ELSE "break"
  BY <1>1
<1>11. r \in Packet /\ r.index = index
  BY <1>6 DEF Packet
<1>12. p.packets \in Seq(Packet)
  BY <1>7 DEF FlowOK, Flow
<1> HIDE DEF g, r
<1>13. id \in DOMAIN flows =>
         /\ flows[id].a.is_bogus /\ g.a.wire # flows[id].a.wire => outcome' = "break"
         /\ flows[id].b.is_bogus /\ g.b.wire # flows[id].b.wire => outcome' = "break"
  BY <1>5, <1>7, <1>9, <1>10
<1>14. outcome' \in {outcome, "break"}
  BY <1>10
<1>15. /\ g.packets = Append(p.packets, r)
       /\ p.packets = (IF id \in DOMAIN flows THEN flows[id].packets ELSE << >>)
  BY <1>4, <1>7, <1>9
<1> QED BY <1>2, <1>9, <1>10, <1>11, <1>12, <1>13, <1>14, <1>15

-----------------------------------------------------------------------------
LEMMA InvHoldsAtFirst == Init => FileInv
BY FileAssumption DEF Init, FileInv

LEMMA InvKeptByRead ==
    ASSUME FileInv, index < MaxPackets, NEW s \in Segments, Read(s)
    PROVE  FileInv'
<1>1. PICK id \in Ids, g \in Flow, ps \in Seq(Packet), r \in Packet :
        /\ flows' = [i \in DOMAIN flows \cup {id} |-> IF i = id THEN g ELSE flows[i]]
        /\ index' = index + 1 /\ outcome' \in {outcome, "break"}
        /\ \A i \in DOMAIN flows \cup {id} : ReverseId(i) \notin (DOMAIN flows \cup {id}) \ {i}
        /\ FlowOK(id, g) /\ g.packets = Append(ps, r) /\ r.index = index
        /\ ps = (IF id \in DOMAIN flows THEN flows[id].packets ELSE << >>)
  BY FlowRead, ZenonT(40)
<1> DEFINE l == Len(ps)
<1>2. /\ DOMAIN flows' = DOMAIN flows \cup {id} /\ flows'[id] = g
      /\ \A i \in DOMAIN flows \ {id} : flows'[i] = flows[i]
  BY <1>1
<1>3. /\ l \in Nat /\ DOMAIN ps = 1 .. l /\ DOMAIN g.packets = 1 .. l + 1
      /\ \A k \in 1 .. l : g.packets[k] = ps[k]
      /\ g.packets[l + 1] = r
  BY <1>1
<1>4. index \in Nat /\ MaxPackets \in Nat
  BY FileAssumption DEF FileInv
\* A packet of the flows is the new one or was in them.
<1>5. ASSUME NEW i \in DOMAIN flows', NEW j \in DOMAIN flows'[i].packets
      PROVE  \/ i = id /\ j = l + 1 /\ flows'[i].packets[j].index = index
             \/ /\ i \in DOMAIN flows /\ j \in DOMAIN flows[i].packets
                /\ flows'[i].packets[j] = flows[i].packets[j]
                /\ flows[i].packets[j].index \in 0 .. index - 1
  <2>1. CASE i = id /\ j = l + 1
    BY <1>1, <1>2, <1>3, <2>1
  <2>2. CASE i = id /\ j # l + 1
    <3>1. j \in 1 .. l /\ g.packets[j] = ps[j]
      BY <1>2, <1>3, <2>2
    <3>2. id \in DOMAIN flows /\ ps = flows[id].packets
      BY <1>1, <1>3, <3>1
    <3> QED BY <1>2, <1>3, <2>2, <3>1, <3>2 DEF FileInv
  <2>3. CASE i # id
    <3>1. i \in DOMAIN flows /\ flows'[i] = flows[i]
      BY <1>2, <2>3
    <3> QED BY <3>1 DEF FileInv
  <2> QED BY <2>1, <2>2, <2>3
<1>6. ASSUME NEW i \in DOMAIN flows, NEW j \in DOMAIN flows[i].packets
      PROVE  /\ i \in DOMAIN flows' /\ j \in DOMAIN flows'[i].packets
             /\ flows'[i].packets[j] = flows[i].packets[j]
  <2>1. CASE i = id
    BY <1>1, <1>2, <1>3, <2>1
  <2>2. CASE i # id
    BY <1>2, <2>2
  <2> QED BY <2>1, <2>2
<1> HIDE DEF l
<1>7. DOMAIN flows' \subseteq Ids /\ index' \in 0 .. MaxPackets
      /\ outcome' \in {"reading", "break", "map", "nullptr"}
  BY <1>1, <1>2, <1>4 DEF FileInv
<1>8. ASSUME NEW i \in DOMAIN flows'
      PROVE  /\ ReverseId(i) \notin DOMAIN flows' \ {i}
             /\ FlowOK(i, flows'[i])
             /\ flows'[i].packets # << >>
             /\ \A k \in DOMAIN flows'[i].packets : flows'[i].packets[k].index \in 0 .. index' - 1
  <2>1. ReverseId(i) \notin DOMAIN flows' \ {i}
    BY <1>1, <1>2
  <2>2. FlowOK(i, flows'[i]) /\ flows'[i].packets # << >>
    <3>1. CASE i = id
      <4>1. 1 \in DOMAIN g.packets
        BY <1>3
      <4> QED BY <1>1, <1>2, <3>1, <4>1
    <3>2. CASE i # id
      BY <1>2, <3>2 DEF FileInv
    <3> QED BY <3>1, <3>2
  <2>3. ASSUME NEW k \in DOMAIN flows'[i].packets
        PROVE  flows'[i].packets[k].index \in 0 .. index' - 1
    <3>1. flows'[i].packets[k].index \in 0 .. index
      BY <1>4, <1>5
    <3> QED BY <1>1, <1>4, <3>1
  <2> QED BY <2>1, <2>2, <2>3
<1>9. ASSUME NEW n \in 0 .. index' - 1
      PROVE  \E i \in DOMAIN flows' : \E k \in DOMAIN flows'[i].packets :
                flows'[i].packets[k].index = n
  <2>1. CASE n = index
    <3>1. id \in DOMAIN flows' /\ l + 1 \in DOMAIN flows'[id].packets
          /\ flows'[id].packets[l + 1].index = n
      BY <1>1, <1>2, <1>3, <2>1
    <3> QED BY <3>1
  <2>2. CASE n # index
    <3>1. n \in 0 .. index - 1
      BY <1>1, <1>4, <2>2
    <3>2. PICK i \in DOMAIN flows : \E k \in DOMAIN flows[i].packets : flows[i].packets[k].index = n
      BY <3>1 DEF FileInv
    <3>3. PICK k \in DOMAIN flows[i].packets : flows[i].packets[k].index = n
      BY <3>2
    <3> QED BY <1>6, <3>3
  <2> QED BY <2>1, <2>2
<1>10. ASSUME NEW i \in DOMAIN flows', NEW o \in DOMAIN flows',
              NEW j \in DOMAIN flows'[i].packets, NEW k \in DOMAIN flows'[o].packets,
              flows'[i].packets[j].index = flows'[o].packets[k].index
       PROVE  i = o /\ j = k
  <2> DEFINE New(x, y) == x = id /\ y = l + 1 /\ flows'[x].packets[y].index = index
             Old(x, y) == /\ x \in DOMAIN flows /\ y \in DOMAIN flows[x].packets
                          /\ flows'[x].packets[y] = flows[x].packets[y]
                          /\ flows[x].packets[y].index \in 0 .. index - 1
  <2>1. (New(i, j) \/ Old(i, j)) /\ (New(o, k) \/ Old(o, k))
    BY <1>5
  <2>2. CASE New(i, j) /\ New(o, k)
    BY <2>2
  <2>3. CASE Old(i, j) /\ Old(o, k)
    BY <1>10, <2>3 DEF FileInv
  <2>4. CASE New(i, j) /\ Old(o, k)
    BY <1>4, <1>10, <2>4
  <2>5. CASE Old(i, j) /\ New(o, k)
    BY <1>4, <1>10, <2>5
  <2> QED BY <2>1, <2>2, <2>3, <2>4, <2>5
<1> QED BY <1>7, <1>8, <1>9, <1>10 DEF FileInv

LEMMA InvKept == FileInv /\ [Next]_vars => FileInv'
<1> SUFFICES ASSUME FileInv, [Next]_vars
             PROVE  FileInv'
  OBVIOUS
<1>1. CASE ReadPacket
  <2>1. PICK s \in Segments : Read(s)
    BY <1>1 DEF ReadPacket
  <2> QED BY <1>1, <2>1, InvKeptByRead DEF ReadPacket
<1>2. CASE EndOfFile \/ LoopFails \/ UNCHANGED vars
  <2>1. UNCHANGED <<flows, index>> /\ outcome' \in {outcome, "map", "nullptr"}
    BY <1>2 DEF EndOfFile, LoopFails, vars
  <2> QED BY <2>1 DEF FileInv
<1> QED BY <1>1, <1>2 DEF Next

(***************************************************************************)
(* The inductive invariant holds in every file, whatever connections, ports  *)
(* and directions are mixed in it.                                          *)
(***************************************************************************)
THEOREM FileInvariant == Spec => []FileInv
BY InvHoldsAtFirst, InvKept, PTL DEF Spec

(***************************************************************************)
(* The flows and endpoints have the values that their types allow, and no    *)
(* segment size leaves a machine word.                                      *)
(***************************************************************************)
THEOREM TypeCorrect == Spec => []TypeOK
<1>1. FileInv => TypeOK
  <2> SUFFICES ASSUME FileInv
               PROVE  TypeOK
    OBVIOUS
  <2>1. ASSUME NEW id \in DOMAIN flows
        PROVE  LET f == flows[id] IN
               /\ f.packets # << >> /\ f.a # Missing
               /\ \A k \in DOMAIN f.packets : /\ f.packets[k].index \in 0 .. index - 1
                                              /\ f.packets[k].segment \in Segments
               /\ f.mss_a \in 0 .. WordSize - 1 /\ f.mss_b \in 0 .. WordSize - 1
               /\ \A e \in Endpoints(f) : /\ e.socket \in Socket /\ e.is_bogus \in BOOLEAN
                                          /\ e.mss \in 0 .. WordSize - 1
    <3> DEFINE f == flows[id]
    <3>1. /\ FlowOK(id, f) /\ f.packets # << >> /\ id \in Ids
          /\ \A k \in DOMAIN f.packets : f.packets[k].index \in 0 .. index - 1
      BY DEF FileInv
    <3> HIDE DEF f
    <3>2. id.src \in Socket /\ id.dst \in Socket /\ NoSocket \notin Socket /\ Missing.socket = NoSocket
      BY <3>1, Words, MissingEndpoint DEF Ids
    <3>3. /\ f.a \in Endpoint /\ f.b \in Endpoint /\ f.packets \in Seq(Packet)
          /\ f.mss_a \in Size /\ f.mss_b \in Size
      BY <3>1 DEF FlowOK, Flow
    <3>4. f.a.socket \in Socket /\ (f.b = Missing \/ f.b.socket \in Socket)
      BY <3>1, <3>2 DEF FlowOK
    <3>5. ASSUME NEW e \in Endpoints(f)
          PROVE  e.socket \in Socket /\ e.is_bogus \in BOOLEAN /\ e.mss \in 0 .. WordSize - 1
      <4>1. e \in Endpoint /\ e.socket \in Socket
        BY <3>3, <3>4 DEF Endpoints
      <4> QED BY <4>1 DEF Endpoint, Size
    <3>6. ASSUME NEW k \in DOMAIN f.packets
          PROVE  f.packets[k].segment \in Segments
      <4>1. f.packets[k] \in Packet
        BY <3>3
      <4> QED BY <4>1 DEF Packet
    <3>7. f.a # Missing
      BY <3>2, <3>4
    <3> QED BY <3>1, <3>3, <3>5, <3>6, <3>7 DEF f, Size
  <2> QED BY <2>1 DEF TypeOK, Flows, FileInv, Ids
<1> QED BY <1>1, FileInvariant, PTL

(***************************************************************************)
(* Every packet of a file is in one flow, that of its connection, and with   *)
(* the endpoint that sent it (tcp_flow_map.h:15).                           *)
(***************************************************************************)
THEOREM EveryPacketIsSorted == Spec => []SortedIntoFlows
<1>1. FileInv => SortedIntoFlows
  <2> SUFFICES ASSUME FileInv
               PROVE  SortedIntoFlows
    OBVIOUS
  <2>1. ASSUME NEW id \in DOMAIN flows
        PROVE  LET f == flows[id] IN
               /\ \A k \in DOMAIN f.packets :
                     {f.packets[k].segment.src, f.packets[k].segment.dst} = {id.src, id.dst}
               /\ \A e \in Endpoints(f) :
                     { e.wire[k].of : k \in DOMAIN e.wire }
                       = { f.packets[k].index : k \in SentBy(f, e) }
    <3>1. FlowOK(id, flows[id])
      BY DEF FileInv
    <3>2. ASSUME NEW e \in Endpoints(flows[id])
          PROVE  Wired(e) = { flows[id].packets[k].index : k \in SentBy(flows[id], e) }
      BY <3>1 DEF FlowOK, Endpoints, Sent, SentBy
    <3> QED BY <3>1, <3>2 DEF FlowOK, Wired
  <2> QED BY <2>1 DEF SortedIntoFlows, FileInv
<1> QED BY <1>1, FileInvariant, PTL

(***************************************************************************)
(* An endpoint with bogus data that sends again ends the reading, and then   *)
(* there is no map of the file (tcp_flow_map.h:19).                          *)
(***************************************************************************)
THEOREM BogusFilesAreRejected == Spec => BogusSenderStops
<1> DEFINE Stops == \A id \in DOMAIN flows : \A x \in {"a", "b"} :
              flows[id][x].is_bogus /\ flows'[id][x].wire # flows[id][x].wire => outcome' = "break"
           Rejected == outcome = "break" => outcome' = "nullptr" /\ UNCHANGED flows
<1>1. FileInv /\ [Next]_vars => [Stops]_vars
  <2> SUFFICES ASSUME FileInv, Next, NEW id \in DOMAIN flows, NEW x \in {"a", "b"},
                      flows[id][x].is_bogus, flows'[id][x].wire # flows[id][x].wire
               PROVE  outcome' = "break"
    OBVIOUS
  <2>1. CASE ReadPacket
    <3>1. PICK s \in Segments : Read(s)
      BY <2>1 DEF ReadPacket
    <3>2. PICK i \in Ids, g \in Flow :
            /\ flows' = [o \in DOMAIN flows \cup {i} |-> IF o = i THEN g ELSE flows[o]]
            /\ i \in DOMAIN flows =>
                 /\ flows[i].a.is_bogus /\ g.a.wire # flows[i].a.wire => outcome' = "break"
                 /\ flows[i].b.is_bogus /\ g.b.wire # flows[i].b.wire => outcome' = "break"
      BY <3>1, FlowRead
    <3>3. i = id /\ flows'[id] = g
      BY <3>2
    <3>4. CASE x = "a"
      BY <3>2, <3>3, <3>4
    <3>5. CASE x = "b"
      BY <3>2, <3>3, <3>5
    <3> QED BY <3>4, <3>5
  <2>2. CASE EndOfFile \/ LoopFails
    BY <2>2 DEF EndOfFile, LoopFails
  <2> QED BY <2>1, <2>2 DEF Next
<1>2. [Next]_vars => [Rejected]_vars
  BY DEF Next, ReadPacket, EndOfFile, LoopFails
<1> QED BY <1>1, <1>2, FileInvariant, PTL DEF Spec, BogusSenderStops

(***************************************************************************)
(* Splitting neither loses nor repeats a byte, keeps the order and cuts into *)
(* equal segments with a smaller one at the end, for data and segments of    *)
(* any size (SplitIntoWirePackets, tcp_endpoint.cc).                        *)
(***************************************************************************)
THEOREM SplittingIsExact ==
    ASSUME NEW mss \in Nat, NEW len \in Nat, NEW id \in Nat
    PROVE  LET w == SplitIntoWirePackets(mss, len, id)
               last == Len(w)
           IN  /\ w[1].offset = 0
               /\ w[last].offset + w[last].len = len
               /\ \A k \in 1 .. last - 1 : /\ w[k + 1].offset = w[k].offset + w[k].len
                                           /\ w[k].len = w[1].len
               /\ last > 1 => w[last].len \in 1 .. w[1].len
<1> DEFINE w == SplitIntoWirePackets(mss, len, id)
<1>1. CASE mss = 0 \/ len <= mss
  <2>1. w = << [of |-> id, index |-> id, offset |-> 0, len |-> len] >>
    BY <1>1 DEF SplitIntoWirePackets
  <2> HIDE DEF w
  <2>2. Len(w) = 1 /\ w[1].offset = 0 /\ w[1].len = len
    BY <2>1
  <2> QED BY <2>2 DEF w
<1>2. CASE ~(mss = 0 \/ len <= mss)
  <2> DEFINE n == (len + mss - 1) \div mss
             piece(k) == [of |-> id, index |-> 0, offset |-> (k - 1) * mss,
                          len |-> Min({mss, len - (k - 1) * mss})]
  <2>1. mss \in Nat \ {0} /\ len > mss /\ len + mss - 1 \in Nat
    BY <1>2
  <2>2. n \in Nat /\ mss * n <= len + mss - 1 /\ len + mss - 1 < mss * n + mss
    BY <2>1, WholeSegments
  <2>3. w = [k \in 1 .. n |-> piece(k)]
    BY <1>2 DEF SplitIntoWirePackets
  <2> HIDE DEF n, w
  \* All segments but the last one end before the data does, the last one with it.
  <2>4. n >= 2 /\ (n - 1) * mss < len /\ len <= n * mss
    <3>1. mss * n = n * mss /\ (n - 1) * mss = n * mss - mss /\ n * mss \in Nat
      BY <2>1, <2>2
    <3>2. (n - 1) * mss < len /\ len <= n * mss
      BY <2>1, <2>2, <3>1
    <3>3. n # 0 /\ n # 1
      <4>1. n = 0 => n * mss = 0
        BY <2>1
      <4>2. n = 1 => n * mss = mss
        BY <2>1
      <4> QED BY <2>1, <3>2, <4>1, <4>2
    <3> QED BY <2>2, <3>2, <3>3
  <2>5. ASSUME NEW k \in 1 .. n
        PROVE  /\ w[k].offset = (k - 1) * mss
               /\ k < n => w[k].len = mss /\ k * mss = (k - 1) * mss + mss
               /\ k = n => w[k].len = len - (k - 1) * mss
    <3>1. k \in Nat /\ (k - 1) * mss \in Int /\ k * mss = (k - 1) * mss + mss
      BY <2>1
    <3>2. w[k].offset = (k - 1) * mss /\ w[k].len = Min({mss, len - (k - 1) * mss})
      BY <2>3
    <3>3. CASE k < n
      <4>1. k * mss <= (n - 1) * mss
        BY <2>1, <2>2, <3>1, <3>3
      <4>2. mss <= len - (k - 1) * mss
        BY <2>1, <2>2, <2>4, <3>1, <4>1
      <4>3. w[k].len = mss
        BY <2>1, <3>1, <3>2, <4>2, LesserOfTwo
      <4> QED BY <3>1, <3>2, <3>3, <4>3
    <3>4. CASE k = n
      <4>1. len - (k - 1) * mss <= mss
        BY <2>1, <2>4, <3>1, <3>4
      <4>2. w[k].len = len - (k - 1) * mss
        BY <2>1, <3>1, <3>2, <4>1, LesserOfTwo
      <4> QED BY <3>2, <3>4, <4>2
    <3> QED BY <2>2, <3>3, <3>4
  <2>6. Len(w) = n
    BY <2>2, <2>3
  <2>7. w[1].offset = 0 /\ w[1].len = mss
    BY <2>1, <2>2, <2>4, <2>5
  <2>8. w[n].offset = (n - 1) * mss /\ w[n].len = len - (n - 1) * mss
    BY <2>2, <2>4, <2>5
  <2>9. (n - 1) * mss \in Int /\ n * mss = (n - 1) * mss + mss
    BY <2>1, <2>2
  <2>10. w[n].offset + w[n].len = len /\ w[n].len \in 1 .. mss
    BY <2>1, <2>4, <2>8, <2>9
  <2>11. ASSUME NEW k \in 1 .. n - 1
         PROVE  w[k + 1].offset = w[k].offset + w[k].len /\ w[k].len = w[1].len
    <3>1. k \in 1 .. n /\ k + 1 \in 1 .. n /\ k < n /\ (k + 1) - 1 = k
      BY <2>2
    <3>2. w[k].offset = (k - 1) * mss /\ w[k].len = mss /\ k * mss = (k - 1) * mss + mss
      BY <2>5, <3>1
    <3>3. w[k + 1].offset = k * mss
      BY <2>5, <3>1
    <3> QED BY <2>7, <3>2, <3>3
  <2> QED BY <2>6, <2>7, <2>10, <2>11 DEF w
<1> QED BY <1>1, <1>2

-----------------------------------------------------------------------------
\* The first packets of a list are all from socket a, what they tell the socket x of
\* segment sizes, and what the data of x suggests.
OpeningOf(ps, a) == { k \in DOMAIN ps : \A j \in 1 .. k - 1 : ps[j].segment.src = a }

TellsSize(r, x) == r.segment.src # x /\ r.segment.syn /\ r.segment.mss # 0

TellTo(ps, a, x) == { k \in OpeningOf(ps, a) : TellsSize(ps[k], x) }

Told(ps, a, x) == IF TellTo(ps, a, x) = {} THEN 0 ELSE Usable(ps[Max(TellTo(ps, a, x))].segment)

ShowsSize(r, x) == r.segment.src = x /\ DeriveMSS(r.segment.len) # 0

ShownBy(ps, x) == { k \in DOMAIN ps : ShowsSize(ps[k], x) }

Shown(ps, x) == IF ShownBy(ps, x) = {} THEN 0 ELSE DeriveMSS(ps[Min(ShownBy(ps, x))].segment.len)

AllFrom(ps, a) == \A k \in DOMAIN ps : ps[k].segment.src = a

\* List q is ps with packet r.
Longer(q, ps, r) == q = Append(ps, r)

LEMMA OneMorePacket ==
    ASSUME NEW ps \in Seq(Packet), NEW r \in Packet, NEW q, Longer(q, ps, r)
    PROVE  /\ Len(ps) \in Nat /\ DOMAIN ps = 1 .. Len(ps) /\ DOMAIN q = 1 .. Len(ps) + 1
           /\ \A k \in 1 .. Len(ps) : q[k] = ps[k]
           /\ q[Len(ps) + 1] = r
BY DEF Longer

LEMMA OpeningGrows ==
    ASSUME NEW ps \in Seq(Packet), NEW r \in Packet, NEW q, Longer(q, ps, r), NEW a
    PROVE  OpeningOf(q, a) = OpeningOf(ps, a) \cup (IF AllFrom(ps, a) THEN {Len(ps) + 1} ELSE {})
<1> DEFINE l == Len(ps)
<1>1. /\ l \in Nat /\ DOMAIN ps = 1 .. l /\ DOMAIN q = 1 .. l + 1
      /\ \A k \in 1 .. l : q[k] = ps[k]
  BY OneMorePacket
<1> HIDE DEF l
<1>2. ASSUME NEW k \in 1 .. l PROVE k \in OpeningOf(q, a) <=> k \in OpeningOf(ps, a)
  <2>1. \A j \in 1 .. k - 1 : q[j] = ps[j]
    BY <1>1
  <2> QED BY <1>1, <2>1 DEF OpeningOf
<1>3. l + 1 \in OpeningOf(q, a) <=> AllFrom(ps, a)
  <2>1. (l + 1) - 1 = l
    BY <1>1
  <2> QED BY <1>1, <2>1 DEF OpeningOf, AllFrom
<1>4. OpeningOf(q, a) \subseteq 1 .. l + 1 /\ OpeningOf(ps, a) \subseteq 1 .. l
  BY <1>1 DEF OpeningOf
<1> QED BY <1>1, <1>2, <1>3, <1>4 DEF l

\* As long as only A sends, each of its packets may tell B a size; and then the first of
\* B tells A one.
LEMMA ToldGrows ==
    ASSUME NEW ps \in Seq(Packet), NEW r \in Packet, NEW q, Longer(q, ps, r), NEW a, NEW x,
           AllFrom(ps, a)
    PROVE  Told(q, a, x) = IF TellsSize(r, x) THEN Usable(r.segment) ELSE Told(ps, a, x)
<1> DEFINE l == Len(ps)
<1>1. /\ l \in Nat /\ DOMAIN ps = 1 .. l /\ DOMAIN q = 1 .. l + 1
      /\ \A k \in 1 .. l : q[k] = ps[k]
      /\ q[l + 1] = r
  BY OneMorePacket
<1>2. OpeningOf(q, a) = OpeningOf(ps, a) \cup {l + 1} /\ OpeningOf(ps, a) \subseteq 1 .. l
  <2>1. OpeningOf(ps, a) \subseteq DOMAIN ps
    BY DEF OpeningOf
  <2> QED BY <1>1, <2>1, OpeningGrows
<1> HIDE DEF l
<1>3. /\ TellTo(ps, a, x) \subseteq 1 .. l
      /\ TellTo(q, a, x) = TellTo(ps, a, x) \cup (IF TellsSize(r, x) THEN {l + 1} ELSE {})
  BY <1>1, <1>2 DEF TellTo
<1>4. CASE TellsSize(r, x)
  <2>1. TellTo(q, a, x) \subseteq 0 .. l + 1 /\ l + 1 \in TellTo(q, a, x) /\ l + 1 \in Nat
    BY <1>1, <1>3, <1>4
  <2>2. Max(TellTo(q, a, x)) \in TellTo(q, a, x) /\ Max(TellTo(q, a, x)) >= l + 1
    BY ONLY <2>1, MaxIsLast
  <2>3. Max(TellTo(q, a, x)) = l + 1
    BY <2>1, <2>2
  <2> QED BY <1>1, <1>4, <2>1, <2>3 DEF Told
<1>5. CASE ~TellsSize(r, x) /\ TellTo(ps, a, x) # {}
  <2>1. TellTo(ps, a, x) \subseteq 0 .. l
    BY <1>3
  <2>2. Max(TellTo(ps, a, x)) \in 1 .. l
    BY ONLY <1>1, <1>3, <1>5, <2>1, MaxIsLast
  <2> QED BY <1>1, <1>3, <1>5, <2>2 DEF Told
<1>6. CASE ~TellsSize(r, x) /\ TellTo(ps, a, x) = {}
  BY <1>3, <1>6 DEF Told
<1> QED BY <1>4, <1>5, <1>6

\* With both sides known, nothing is told any more.
LEMMA ToldForGood ==
    ASSUME NEW ps \in Seq(Packet), NEW r \in Packet, NEW q, Longer(q, ps, r), NEW a, NEW x,
           ~AllFrom(ps, a)
    PROVE  Told(q, a, x) = Told(ps, a, x)
<1>1. OpeningOf(q, a) = OpeningOf(ps, a)
  <2>1. OpeningOf(q, a) = OpeningOf(ps, a) \cup (IF AllFrom(ps, a) THEN {Len(ps) + 1} ELSE {})
    BY OpeningGrows
  <2> QED BY ONLY ~AllFrom(ps, a), <2>1
<1>2. \A k \in OpeningOf(ps, a) : k \in 1 .. Len(ps) /\ q[k] = ps[k]
  BY OneMorePacket DEF OpeningOf
<1>3. TellTo(q, a, x) = TellTo(ps, a, x)
  BY <1>1, <1>2 DEF TellTo
<1>4. CASE TellTo(ps, a, x) # {}
  <2>1. Len(ps) \in Nat /\ TellTo(ps, a, x) \subseteq 0 .. Len(ps)
    BY <1>2, OneMorePacket DEF TellTo
  <2>2. Max(TellTo(ps, a, x)) \in OpeningOf(ps, a)
    <3>1. Max(TellTo(ps, a, x)) \in TellTo(ps, a, x)
      BY ONLY <1>4, <2>1, MaxIsLast
    <3> QED BY <3>1 DEF TellTo
  <2> QED BY <1>2, <1>3, <1>4, <2>2 DEF Told
<1> QED BY <1>3, <1>4 DEF Told

LEMMA ShownGrows ==
    ASSUME NEW ps \in Seq(Packet), NEW r \in Packet, NEW q, Longer(q, ps, r), NEW x
    PROVE  Shown(q, x) = IF Shown(ps, x) # 0 THEN Shown(ps, x)
                         ELSE IF r.segment.src = x THEN DeriveMSS(r.segment.len) ELSE 0
<1> DEFINE l == Len(ps)
<1>1. /\ l \in Nat /\ DOMAIN ps = 1 .. l /\ DOMAIN q = 1 .. l + 1
      /\ \A k \in 1 .. l : q[k] = ps[k]
      /\ q[l + 1] = r
  BY OneMorePacket
<1> HIDE DEF l
<1>2. /\ ShownBy(ps, x) \subseteq 1 .. l
      /\ ShownBy(q, x) = ShownBy(ps, x) \cup (IF ShowsSize(r, x) THEN {l + 1} ELSE {})
  BY <1>1 DEF ShownBy
<1>3. CASE ShownBy(ps, x) # {}
  <2>1. /\ ShownBy(ps, x) \subseteq 0 .. l /\ ShownBy(q, x) \subseteq 0 .. l + 1
        /\ ShownBy(q, x) # {} /\ l + 1 \in Nat
    BY <1>1, <1>2, <1>3
  <2>2. /\ Min(ShownBy(ps, x)) \in ShownBy(ps, x)
        /\ \A i \in ShownBy(ps, x) : Min(ShownBy(ps, x)) <= i
    BY ONLY <1>1, <1>3, <2>1, MinIsFirst
  <2>3. /\ Min(ShownBy(q, x)) \in ShownBy(q, x)
        /\ \A i \in ShownBy(q, x) : Min(ShownBy(q, x)) <= i
    BY ONLY <2>1, MinIsFirst
  <2>4. Min(ShownBy(q, x)) = Min(ShownBy(ps, x))
    <3> DEFINE least == Min(ShownBy(ps, x))
               new == Min(ShownBy(q, x))
    <3>1. least \in 1 .. l /\ new \in 1 .. l + 1
      BY ONLY <1>1, <1>2, <2>2, <2>3
    <3>2. new <= least
      BY ONLY <1>2, <2>2, <2>3
    <3>3. new \in ShownBy(ps, x)
      BY ONLY <1>1, <1>2, <2>3, <3>1, <3>2
    <3>4. least <= new
      BY ONLY <2>2, <3>3
    <3> HIDE DEF least, new
    <3>5. new = least
      BY <1>1, <3>1, <3>2, <3>4
    <3> QED BY <3>5 DEF least, new
  <2>5. Shown(q, x) = Shown(ps, x) /\ Shown(ps, x) # 0
    <3>1. q[Min(ShownBy(ps, x))] = ps[Min(ShownBy(ps, x))]
      BY <1>1, <1>2, <2>2
    <3>2. ShowsSize(ps[Min(ShownBy(ps, x))], x)
      BY <2>2 DEF ShownBy
    <3> QED BY <1>3, <2>1, <2>4, <3>1, <3>2 DEF Shown, ShowsSize
  <2> QED BY <2>5
<1>4. CASE ShownBy(ps, x) = {} /\ ShowsSize(r, x)
  <2>1. ShownBy(q, x) = {l + 1} /\ l + 1 \in Nat
    BY <1>1, <1>2, <1>4
  <2>2. Min(ShownBy(q, x)) = l + 1
    <3>1. {l + 1} \subseteq 0 .. l + 1 /\ {l + 1} # {}
      BY <2>1
    <3>2. Min({l + 1}) \in {l + 1}
      BY ONLY <2>1, <3>1, MinIsFirst
    <3> QED BY <2>1, <3>2
  <2> QED BY <1>1, <1>4, <2>1, <2>2 DEF Shown, ShowsSize
<1>5. CASE ShownBy(ps, x) = {} /\ ~ShowsSize(r, x)
  BY <1>2, <1>5 DEF Shown, ShowsSize
<1> QED BY <1>3, <1>4, <1>5
-----------------------------------------------------------------------------
\* Endpoint d is e with the n-th packet s, or e with at most more bogus data.
Enlarged(e, d, s, n) ==
    /\ d.socket = e.socket
    /\ d.mss = IF e.mss = 0 THEN DeriveMSS(s.len) ELSE e.mss
    /\ d.wire = e.wire \o SplitIntoWirePackets(d.mss, s.len, n)

Same(e, d) == d.socket = e.socket /\ d.mss = e.mss /\ d.wire = e.wire

\* What a packet changes of the endpoints of a flow.
LEMMA EndpointsGrown ==
    ASSUME NEW p \in Flow, NEW s, NEW n, NEW g, Grows(p, s, n, g)
    PROVE  /\ g.packets = Append(p.packets, [index |-> n, segment |-> s])
           /\ g.mss_a = p.mss_a /\ g.mss_b = p.mss_b
           /\ s.src = p.a.socket => Enlarged(p.a, g.a, s, n) /\ Same(p.b, g.b)
           /\ s.src # p.a.socket => Same(p.a, g.a) /\ Enlarged(p.b, g.b, s, n)
<1> PICK u \in BOOLEAN, v \in BOOLEAN : g = Added(p, s, n, u, v)
  BY DEF Grows
<1> DEFINE add == AddPacket(Sender(p, s), s, n, u)
           ack == [Receiver(p, s) EXCEPT !.is_bogus = @ \/ v]
<1>1. p.a \in Endpoint /\ p.b \in Endpoint
  BY DEF Flow
<1>2. Enlarged(Sender(p, s), add, s, n)
  BY DEF Enlarged, AddPacket
<1>3. Same(Receiver(p, s), ack)
  <2>1. Receiver(p, s) \in Endpoint
    BY <1>1 DEF Receiver
  <2> QED BY <2>1 DEF Same, Endpoint
<1>4. g = [p EXCEPT !.packets = Append(@, [index |-> n, segment |-> s]),
                    !.a = IF FromA(p, s) THEN add ELSE ack,
                    !.b = IF FromA(p, s) THEN ack ELSE add]
  BY DEF Added
<1> HIDE DEF add, ack
<1>5. /\ g.packets = Append(p.packets, [index |-> n, segment |-> s])
      /\ g.mss_a = p.mss_a /\ g.mss_b = p.mss_b
      /\ g.a = (IF FromA(p, s) THEN add ELSE ack)
      /\ g.b = (IF FromA(p, s) THEN ack ELSE add)
  BY <1>4 DEF Flow
<1> QED BY <1>2, <1>3, <1>5 DEF Sender, Receiver, FromA

\* The segment sizes of a flow that was prepared for a packet.
LEMMA SizesPrepared ==
    ASSUME NEW f \in Flow, NEW s,
           NEW p, p = Prepared(f, s),
           NEW y, y = (IF f.a = Missing THEN s.src ELSE f.a.socket),
           NEW first, first <=> (s.src # y /\ f.b = Missing)
    PROVE  /\ p.a.mss = IF first /\ p.mss_a # 0 THEN p.mss_a ELSE f.a.mss
           /\ p.b.mss = IF first THEN p.mss_b ELSE f.b.mss
           /\ p.mss_a = IF s.syn /\ s.mss # 0 /\ s.src # y THEN Usable(s) ELSE f.mss_a
           /\ p.mss_b = IF s.syn /\ s.mss # 0 /\ s.src = y THEN Usable(s) ELSE f.mss_b
<1> DEFINE q == WithA(f, s)
           r == CheckForMSS(q, s)
<1>1. /\ DOMAIN q = DOMAIN f /\ q.b = f.b /\ q.mss_a = f.mss_a /\ q.mss_b = f.mss_b
      /\ q.a.mss = f.a.mss /\ q.a.socket = y /\ DOMAIN q.a = {"socket", "mss", "wire", "is_bogus"}
      /\ q = [x \in DOMAIN f |-> q[x]] /\ DOMAIN f = {"a", "b", "mss_a", "mss_b", "packets"}
  <2>1. CASE f.a = Missing
    <3>1. q = [f EXCEPT !.a = NewEndpoint(s.src)] /\ f.a.mss = 0
      BY <2>1 DEF WithA, Missing, NewEndpoint
    <3>2. /\ NewEndpoint(s.src).mss = 0 /\ NewEndpoint(s.src).socket = s.src
          /\ DOMAIN NewEndpoint(s.src) = {"socket", "mss", "wire", "is_bogus"}
      BY DEF NewEndpoint
    <3> DEFINE e == NewEndpoint(s.src)
    <3> HIDE DEF e
    <3>3. /\ q.a = e /\ q.b = f.b /\ q.mss_a = f.mss_a /\ q.mss_b = f.mss_b /\ DOMAIN q = DOMAIN f
          /\ q = [x \in DOMAIN f |-> q[x]] /\ DOMAIN f = {"a", "b", "mss_a", "mss_b", "packets"}
      <4>1. q = [f EXCEPT !.a = e]
        BY <3>1 DEF e
      <4> HIDE DEF q
      <4> QED BY <4>1 DEF Flow
    <3> HIDE DEF q
    <3> QED BY <2>1, <3>1, <3>2, <3>3 DEF e
  <2>2. CASE f.a # Missing
    <3>1. q = f
      BY <2>2 DEF WithA
    <3>2. f.a \in Endpoint
      BY DEF Flow
    <3>3. DOMAIN f.a = {"socket", "mss", "wire", "is_bogus"}
      BY <3>2 DEF Endpoint
    <3> QED BY <2>2, <3>1, <3>3 DEF Flow
  <2> QED BY <2>1, <2>2
<1> HIDE DEF q
<1>2. /\ r.a = q.a /\ r.b = q.b
      /\ r.mss_a = IF s.syn /\ s.mss # 0 /\ s.src # y THEN Usable(s) ELSE f.mss_a
      /\ r.mss_b = IF s.syn /\ s.mss # 0 /\ s.src = y THEN Usable(s) ELSE f.mss_b
      /\ r = [x \in DOMAIN f |-> r[x]]
  BY <1>1 DEF CheckForMSS, FromA
<1> HIDE DEF r
<1>3. p = WithB(r, s)
  BY DEF Prepared, q, r
<1>4. FromA(r, s) <=> s.src = y
  BY <1>1, <1>2 DEF FromA
<1>5. CASE ~first
  <2>1. p = r
    BY <1>1, <1>2, <1>3, <1>4, <1>5 DEF WithB
  <2> QED BY <1>1, <1>2, <1>5, <2>1
<1>6. CASE first
  <2> DEFINE b == [NewEndpoint(s.src) EXCEPT !.mss = r.mss_b]
             m == IF r.mss_a # 0 THEN r.mss_a ELSE r.a.mss
             a == [r.a EXCEPT !.mss = m]
  <2>1. p = [r EXCEPT !.b = b, !.a = a]
    <3>1. p = [r EXCEPT !.b = b, !.a.mss = IF r.mss_a # 0 THEN r.mss_a ELSE @]
      BY Zenon, <1>1, <1>2, <1>3, <1>4, <1>6 DEF WithB
    <3> QED BY <1>1, <1>2, <3>1
  <2>2. b.mss = r.mss_b
    BY DEF NewEndpoint
  <2>3. a.mss = m
    BY <1>1, <1>2
  <2> HIDE DEF a, b
  <2>4. p.a = a /\ p.b = b /\ p.mss_a = r.mss_a /\ p.mss_b = r.mss_b
    BY <1>1, <1>2, <2>1
  <2> QED BY <1>1, <1>2, <1>6, <2>2, <2>3, <2>4
<1> QED BY <1>5, <1>6
-----------------------------------------------------------------------------
\* While only A has sent, every other socket was told the same and showed nothing.
LEMMA OnlyFromA ==
    ASSUME NEW ps, NEW a, AllFrom(ps, a)
    PROVE  /\ Told(ps, a, a) = 0
           /\ \A x, z : x # a /\ z # a => Told(ps, a, x) = Told(ps, a, z)
           /\ \A x : x # a => Shown(ps, x) = 0
<1>1. \A k \in OpeningOf(ps, a) : ps[k].segment.src = a
  BY DEF OpeningOf, AllFrom
<1>2. TellTo(ps, a, a) = {}
  BY <1>1 DEF TellTo, TellsSize
<1>3. \A x, z : x # a /\ z # a => TellTo(ps, a, x) = TellTo(ps, a, z)
  BY <1>1 DEF TellTo, TellsSize
<1>4. \A x : x # a => ShownBy(ps, x) = {}
  BY DEF ShownBy, ShowsSize, AllFrom
<1> QED BY <1>2, <1>3, <1>4 DEF Told, Shown

LEMMA AllFromGrows ==
    ASSUME NEW ps \in Seq(Packet), NEW r \in Packet, NEW q, Longer(q, ps, r), NEW a
    PROVE  AllFrom(q, a) <=> AllFrom(ps, a) /\ r.segment.src = a
<1>1. /\ Len(ps) \in Nat /\ DOMAIN ps = 1 .. Len(ps) /\ DOMAIN q = 1 .. Len(ps) + 1
      /\ \A k \in 1 .. Len(ps) : q[k] = ps[k]
      /\ q[Len(ps) + 1] = r
  BY OneMorePacket
<1>2. \A k \in DOMAIN q : k \in DOMAIN ps \/ k = Len(ps) + 1
  BY <1>1
<1>3. Len(ps) + 1 \in DOMAIN q
  BY <1>1
<1> QED BY <1>1, <1>2, <1>3 DEF AllFrom

\* What a packet of segment s makes of these.
LEMMA ListGrows ==
    ASSUME NEW ps \in Seq(Packet), NEW r \in Packet, NEW q, Longer(q, ps, r), NEW s, r.segment = s,
           NEW a
    PROVE  /\ AllFrom(q, a) <=> AllFrom(ps, a) /\ s.src = a
           /\ \A x : Shown(q, x) = IF Shown(ps, x) # 0 THEN Shown(ps, x)
                                   ELSE IF s.src = x THEN DeriveMSS(s.len) ELSE 0
           /\ \A x : Told(q, a, x) =
                       IF AllFrom(ps, a) /\ s.src # x /\ s.syn /\ s.mss # 0 THEN Usable(s)
                       ELSE Told(ps, a, x)
<1>1. AllFrom(q, a) <=> AllFrom(ps, a) /\ s.src = a
  BY AllFromGrows
<1>2. ASSUME NEW x
      PROVE  Shown(q, x) = IF Shown(ps, x) # 0 THEN Shown(ps, x)
                           ELSE IF s.src = x THEN DeriveMSS(s.len) ELSE 0
  BY ShownGrows
<1>3. ASSUME NEW x
      PROVE  Told(q, a, x) = IF AllFrom(ps, a) /\ s.src # x /\ s.syn /\ s.mss # 0 THEN Usable(s)
                             ELSE Told(ps, a, x)
  <2>1. TellsSize(r, x) <=> s.src # x /\ s.syn /\ s.mss # 0
    BY DEF TellsSize
  <2>2. CASE AllFrom(ps, a)
    <3>1. Told(q, a, x) = IF TellsSize(r, x) THEN Usable(r.segment) ELSE Told(ps, a, x)
      BY <2>2, ToldGrows
    <3> QED BY <2>1, <2>2, <3>1
  <2>3. CASE ~AllFrom(ps, a)
    <3>1. Told(q, a, x) = Told(ps, a, x)
      BY <2>3, ToldForGood
    <3> QED BY <2>3, <3>1
  <2> QED BY <2>2, <2>3
<1> QED BY <1>1, <1>2, <1>3

\* The size that an endpoint at x uses, and how a flow, whose endpoint A is at a, keeps
\* track of it.
Choice(both, ps, a, x) ==
    IF both /\ Told(ps, a, x) # 0 THEN Told(ps, a, x) ELSE Shown(ps, x)

SizesFor(f, a) ==
    /\ f.b = Missing => /\ AllFrom(f.packets, a)
                        /\ f.mss_a = 0 /\ f.mss_b = Told(f.packets, a, NoSocket)
    /\ f.b # Missing => /\ ~AllFrom(f.packets, a)
                        /\ f.b.mss = Choice(TRUE, f.packets, a, f.b.socket)
    /\ f.a.mss = Choice(f.b # Missing, f.packets, a, a)

SizesOK(f) == SizesFor(f, f.a.socket)

LEMMA SizesOfNewFlow ==
    ASSUME NEW a
    PROVE  SizesFor(NewFlow, a)
<1>1. /\ NewFlow.b = Missing /\ NewFlow.mss_a = 0 /\ NewFlow.mss_b = 0 /\ NewFlow.a.mss = 0
      /\ NewFlow.packets = << >>
  BY DEF NewFlow, Missing, NewEndpoint
<1>2. AllFrom(<< >>, a) /\ OpeningOf(<< >>, a) = {} /\ ShownBy(<< >>, a) = {}
  BY DEF AllFrom, OpeningOf, ShownBy
<1>3. Told(<< >>, a, NoSocket) = 0 /\ Shown(<< >>, a) = 0
  BY <1>2 DEF Told, TellTo, Shown
<1> QED BY <1>1, <1>2, <1>3 DEF SizesFor, Choice

\* A packet of A, one of B, and the first one of B.
LEMMA SizesWithOwn ==
    ASSUME NEW f \in Flow, NEW s \in Segments, NEW n \in Nat, NEW g, NEW p,
           NEW y \in Socket, SizesFor(f, y), s.src = y,
           f.b = Missing \/ f.b.socket # y,
           p.b = f.b, p.a.mss = f.a.mss, p.mss_a = f.mss_a, Same(p.b, g.b),
           g.b = Missing <=> f.b = Missing,
           p.mss_b = IF s.syn /\ s.mss # 0 THEN Usable(s) ELSE f.mss_b,
           g.packets = Append(f.packets, [index |-> n, segment |-> s]),
           g.mss_a = p.mss_a, g.mss_b = p.mss_b,
           Enlarged(p.a, g.a, s, n)
    PROVE  SizesFor(g, y)
<1> DEFINE ps == f.packets
           r == [index |-> n, segment |-> s]
           q == Append(ps, r)
<1>1. ps \in Seq(Packet) /\ r \in Packet /\ Longer(q, ps, r) /\ g.packets = q /\ r.segment = s
  BY DEF Flow, Packet, Longer
<1>2. /\ g.a.mss = IF f.a.mss = 0 THEN DeriveMSS(s.len) ELSE f.a.mss
      /\ f.b # Missing => g.b.mss = f.b.mss /\ g.b.socket = f.b.socket
  BY DEF Enlarged, Same
<1> HIDE DEF ps, r, q
<1>3. /\ AllFrom(q, y) <=> AllFrom(ps, y)
      /\ \A x : Shown(q, x) = IF Shown(ps, x) # 0 THEN Shown(ps, x)
                              ELSE IF s.src = x THEN DeriveMSS(s.len) ELSE 0
      /\ \A x : Told(q, y, x) =
                  IF AllFrom(ps, y) /\ s.src # x /\ s.syn /\ s.mss # 0 THEN Usable(s)
                  ELSE Told(ps, y, x)
  <2>1. /\ AllFrom(q, y) <=> AllFrom(ps, y) /\ s.src = y
        /\ \A x : Shown(q, x) = IF Shown(ps, x) # 0 THEN Shown(ps, x)
                                ELSE IF s.src = x THEN DeriveMSS(s.len) ELSE 0
        /\ \A x : Told(q, y, x) =
                    IF AllFrom(ps, y) /\ s.src # x /\ s.syn /\ s.mss # 0 THEN Usable(s)
                    ELSE Told(ps, y, x)
    BY ONLY <1>1, ListGrows, SMTT(40)
  <2> QED BY <2>1
<1>4. NoSocket # y
  BY Words
<1>5. CASE f.b = Missing
  <2>1. AllFrom(ps, y) /\ f.mss_a = 0 /\ f.mss_b = Told(ps, y, NoSocket) /\ f.a.mss = Shown(ps, y)
    BY <1>5 DEF SizesFor, Choice, ps
  <2>2. g.mss_a = 0 /\ g.mss_b = Told(q, y, NoSocket)
    BY <1>3, <1>4, <2>1
  <2>3. g.a.mss = Shown(q, y)
    BY <1>2, <1>3, <2>1
  <2> QED BY <1>1, <1>3, <1>5, <2>1, <2>2, <2>3 DEF SizesFor, Choice, ps
<1>6. CASE f.b # Missing
  <2>1. ~AllFrom(ps, y) /\ f.b.mss = Choice(TRUE, ps, y, f.b.socket) /\ f.a.mss = Choice(TRUE, ps, y, y)
    BY <1>6 DEF SizesFor, ps
  <2>2. \A x : Told(q, y, x) = Told(ps, y, x)
    BY <1>3, <2>1
  <2>3. g.a.mss = Choice(TRUE, q, y, y)
    BY <1>2, <1>3, <2>1, <2>2 DEF Choice
  <2>4. g.b.mss = Choice(TRUE, q, y, g.b.socket)
    BY <1>2, <1>3, <1>6, <2>1, <2>2 DEF Choice
  <2> QED BY <1>1, <1>3, <1>6, <2>1, <2>3, <2>4 DEF SizesFor, ps
<1> QED BY <1>5, <1>6

LEMMA SizesWithPeers ==
    ASSUME NEW f \in Flow, NEW s \in Segments, NEW n \in Nat, NEW g, NEW p,
           NEW y \in Socket, SizesFor(f, y), s.src # y,
           f.b # Missing, g.b # Missing, f.b.socket = s.src,
           p.b.mss = f.b.mss, p.b.socket = f.b.socket, p.a.mss = f.a.mss, Same(p.a, g.a),
           g.packets = Append(f.packets, [index |-> n, segment |-> s]),
           Enlarged(p.b, g.b, s, n)
    PROVE  SizesFor(g, y)
<1> DEFINE ps == f.packets
           r == [index |-> n, segment |-> s]
           q == Append(ps, r)
<1>1. ps \in Seq(Packet) /\ r \in Packet /\ Longer(q, ps, r) /\ g.packets = q /\ r.segment = s
  BY DEF Flow, Packet, Longer
<1>2. /\ g.b.mss = (IF f.b.mss = 0 THEN DeriveMSS(s.len) ELSE f.b.mss) /\ g.b.socket = s.src
      /\ g.a.mss = f.a.mss
  BY DEF Enlarged, Same
<1> HIDE DEF ps, r, q
<1>3. /\ AllFrom(q, y) => AllFrom(ps, y)
      /\ \A x : Shown(q, x) = IF Shown(ps, x) # 0 THEN Shown(ps, x)
                              ELSE IF s.src = x THEN DeriveMSS(s.len) ELSE 0
      /\ \A x : Told(q, y, x) =
                  IF AllFrom(ps, y) /\ s.src # x /\ s.syn /\ s.mss # 0 THEN Usable(s)
                  ELSE Told(ps, y, x)
  <2>1. /\ AllFrom(q, y) <=> AllFrom(ps, y) /\ s.src = y
        /\ \A x : Shown(q, x) = IF Shown(ps, x) # 0 THEN Shown(ps, x)
                                ELSE IF s.src = x THEN DeriveMSS(s.len) ELSE 0
        /\ \A x : Told(q, y, x) =
                    IF AllFrom(ps, y) /\ s.src # x /\ s.syn /\ s.mss # 0 THEN Usable(s)
                    ELSE Told(ps, y, x)
    BY ONLY <1>1, ListGrows, SMTT(40)
  <2> QED BY <2>1
<1>4. ~AllFrom(ps, y) /\ f.b.mss = Choice(TRUE, ps, y, s.src) /\ f.a.mss = Choice(TRUE, ps, y, y)
  BY DEF SizesFor, ps
<1>5. \A x : Told(q, y, x) = Told(ps, y, x)
  BY <1>3, <1>4
<1>6. g.a.mss = Choice(TRUE, q, y, y)
  BY <1>2, <1>3, <1>4, <1>5 DEF Choice
<1>7. g.b.mss = Choice(TRUE, q, y, g.b.socket)
  BY <1>2, <1>3, <1>4, <1>5 DEF Choice
<1> QED BY <1>1, <1>3, <1>4, <1>6, <1>7 DEF SizesFor, ps

LEMMA SizesExchanged ==
    ASSUME NEW f \in Flow, NEW s \in Segments, NEW n \in Nat, NEW g, NEW p,
           NEW y \in Socket, SizesFor(f, y), s.src # y,
           f.b = Missing, g.b # Missing,
           p.b.mss = p.mss_b, p.b.socket = s.src, p.mss_b = f.mss_b,
           p.mss_a = IF s.syn /\ s.mss # 0 THEN Usable(s) ELSE f.mss_a,
           p.a.mss = IF p.mss_a # 0 THEN p.mss_a ELSE f.a.mss, Same(p.a, g.a),
           g.packets = Append(f.packets, [index |-> n, segment |-> s]),
           Enlarged(p.b, g.b, s, n)
    PROVE  SizesFor(g, y)
<1> DEFINE ps == f.packets
           r == [index |-> n, segment |-> s]
           q == Append(ps, r)
<1>1. ps \in Seq(Packet) /\ r \in Packet /\ Longer(q, ps, r) /\ g.packets = q /\ r.segment = s
  BY DEF Flow, Packet, Longer
<1>2. /\ g.b.mss = (IF f.mss_b = 0 THEN DeriveMSS(s.len) ELSE f.mss_b) /\ g.b.socket = s.src
      /\ g.a.mss = p.a.mss
  BY DEF Enlarged, Same
<1> HIDE DEF ps, r, q
<1>3. /\ ~AllFrom(q, y)
      /\ \A x : Shown(q, x) = IF Shown(ps, x) # 0 THEN Shown(ps, x)
                              ELSE IF s.src = x THEN DeriveMSS(s.len) ELSE 0
      /\ \A x : Told(q, y, x) =
                  IF AllFrom(ps, y) /\ s.src # x /\ s.syn /\ s.mss # 0 THEN Usable(s)
                  ELSE Told(ps, y, x)
  <2>1. /\ AllFrom(q, y) <=> AllFrom(ps, y) /\ s.src = y
        /\ \A x : Shown(q, x) = IF Shown(ps, x) # 0 THEN Shown(ps, x)
                                ELSE IF s.src = x THEN DeriveMSS(s.len) ELSE 0
        /\ \A x : Told(q, y, x) =
                    IF AllFrom(ps, y) /\ s.src # x /\ s.syn /\ s.mss # 0 THEN Usable(s)
                    ELSE Told(ps, y, x)
    BY ONLY <1>1, ListGrows, SMTT(40)
  <2> QED BY <2>1
<1>4. AllFrom(ps, y) /\ f.mss_a = 0 /\ f.mss_b = Told(ps, y, NoSocket) /\ f.a.mss = Shown(ps, y)
  BY DEF SizesFor, Choice, ps
<1>6. NoSocket # y /\ s.src # NoSocket
  BY Words
<1>7. Told(ps, y, y) = 0 /\ Told(ps, y, s.src) = Told(ps, y, NoSocket) /\ Shown(ps, s.src) = 0
  BY <1>4, <1>6, OnlyFromA
<1>9. p.mss_a = Told(q, y, y) /\ f.mss_b = Told(q, y, s.src)
  BY <1>3, <1>4, <1>7
<1>10. g.a.mss = Choice(TRUE, q, y, y)
  BY <1>2, <1>3, <1>4, <1>9 DEF Choice
<1>11. g.b.mss = Choice(TRUE, q, y, g.b.socket)
  BY <1>2, <1>3, <1>7, <1>9 DEF Choice
<1> QED BY <1>1, <1>3, <1>10, <1>11 DEF SizesFor, ps

\* A flow that a packet is prepared for and added to keeps track of its sizes.
LEMMA SizesKept ==
    ASSUME NEW id \in Ids, NEW f, (FlowOK(id, f) /\ SizesOK(f)) \/ f = NewFlow,
           NEW s \in Segments, {s.src, s.dst} = {id.src, id.dst}, NEW n \in Nat,
           NEW g, Grows(Prepared(f, s), s, n, g)
    PROVE  SizesOK(g)
<1> DEFINE p == Prepared(f, s)
           y == IF f.a = Missing THEN s.src ELSE f.a.socket
           first == s.src # y /\ f.b = Missing
<1>1. FlowOK(id, f) \/ f = NewFlow
  OBVIOUS
<1>2. f \in Flow
  <2>1. NewFlow \in Flow
    <3>1. Missing \in Endpoint /\ 0 \in Size /\ << >> \in Seq(Packet)
      BY Words, MissingEndpoint
    <3> QED BY <3>1 DEF NewFlow, Flow
  <2> QED BY <1>1, <2>1 DEF FlowOK
<1>3. /\ p \in Flow /\ p.packets = f.packets /\ p.a.socket = y
      /\ s.src = y => p.b = f.b
      /\ s.src # y => p.b.socket = s.src
  BY <1>1, FlowPrepared
<1>4. FlowOK(id, p) /\ s.src \in {p.a.socket, p.b.socket}
  BY <1>1, FlowReady
<1>5. FlowOK(id, g)
  <2>1. Ready(id, p, s)
    BY <1>4 DEF Ready
  <2> HIDE DEF p
  <2>2. Grows(p, s, n, g)
    BY DEF p
  <2> QED BY ONLY id \in Ids, s \in Segments, n \in Nat, <2>1, <2>2, FlowGrown
<1>6. /\ g.packets = Append(f.packets, [index |-> n, segment |-> s])
      /\ g.mss_a = p.mss_a /\ g.mss_b = p.mss_b
      /\ s.src = y => Enlarged(p.a, g.a, s, n) /\ Same(p.b, g.b)
      /\ s.src # y => Same(p.a, g.a) /\ Enlarged(p.b, g.b, s, n)
  <2> HIDE DEF p
  <2>1. Grows(p, s, n, g)
    BY DEF p
  <2>2. /\ g.packets = Append(p.packets, [index |-> n, segment |-> s])
        /\ g.mss_a = p.mss_a /\ g.mss_b = p.mss_b
        /\ s.src = p.a.socket => Enlarged(p.a, g.a, s, n) /\ Same(p.b, g.b)
        /\ s.src # p.a.socket => Same(p.a, g.a) /\ Enlarged(p.b, g.b, s, n)
    BY ONLY <1>3, <2>1, EndpointsGrown
  <2> QED BY <1>3, <2>2
<1>7. /\ p.a.mss = IF first /\ p.mss_a # 0 THEN p.mss_a ELSE f.a.mss
      /\ p.b.mss = IF first THEN p.mss_b ELSE f.b.mss
      /\ p.mss_a = IF s.syn /\ s.mss # 0 /\ s.src # y THEN Usable(s) ELSE f.mss_a
      /\ p.mss_b = IF s.syn /\ s.mss # 0 /\ s.src = y THEN Usable(s) ELSE f.mss_b
  <2>1. first <=> (s.src # y /\ f.b = Missing)
    OBVIOUS
  <2>2. p = Prepared(f, s) /\ y = (IF f.a = Missing THEN s.src ELSE f.a.socket)
    OBVIOUS
  <2> HIDE DEF first, p, y
  <2> QED BY ONLY <1>2, <2>1, <2>2, SizesPrepared
<1>8. /\ NoSocket \notin Socket /\ Missing.socket = NoSocket /\ s.src \in Socket
      /\ id.src \in Socket /\ id.dst \in Socket
  BY Words, MissingEndpoint DEF Ids
<1>9. SizesFor(f, y) /\ y \in Socket
  <2>1. CASE f = NewFlow
    <3>1. y = s.src
      BY <2>1 DEF NewFlow
    <3> QED BY <1>8, <2>1, <3>1, SizesOfNewFlow
  <2>2. CASE FlowOK(id, f) /\ SizesOK(f)
    <3>1. f.a.socket \in Socket
      BY <1>8, <2>2 DEF FlowOK
    <3>2. y = f.a.socket
      BY <1>8, <3>1
    <3> QED BY <2>2, <3>1, <3>2 DEF SizesOK
  <2> QED BY <2>1, <2>2
<1>10. f.b = Missing \/ f.b.socket \in {id.src, id.dst} \ {y}
  <2>1. CASE f = NewFlow
    BY <2>1 DEF NewFlow
  <2>2. CASE FlowOK(id, f)
    <3>1. f.a.socket \in Socket
      BY <1>8, <2>2 DEF FlowOK
    <3> QED BY <1>8, <2>2, <3>1 DEF FlowOK
  <2> QED BY <1>1, <2>1, <2>2
<1>11. /\ g.b = Missing <=> g.b.socket = NoSocket
       /\ f.b = Missing <=> f.b.socket = NoSocket
       /\ p.b = Missing <=> p.b.socket = NoSocket
  BY <1>4, <1>5, <1>8, <1>10 DEF FlowOK
<1>12. g.a.socket = y /\ g.b.socket = p.b.socket
  BY <1>3, <1>6 DEF Same, Enlarged
<1>13. y \in {id.src, id.dst}
  BY <1>3, <1>4 DEF FlowOK
<1> HIDE DEF p, y
<1>14. CASE s.src = y
  <2>1. p.b = f.b /\ p.a.mss = f.a.mss /\ p.mss_a = f.mss_a
    BY <1>3, <1>7, <1>14
  <2>2. p.mss_b = IF s.syn /\ s.mss # 0 THEN Usable(s) ELSE f.mss_b
    BY <1>7, <1>14
  <2>3. g.b = Missing <=> f.b = Missing
    BY <1>11, <1>12, <2>1
  <2>4. f.b = Missing \/ f.b.socket # y
    BY <1>10
  <2>5. Enlarged(p.a, g.a, s, n) /\ Same(p.b, g.b)
    BY <1>6, <1>14
  <2>6. SizesFor(g, y)
    BY ONLY <1>2, s \in Segments, n \in Nat, <1>6, <1>9, <1>14, <2>1, <2>2, <2>3, <2>4, <2>5,
            SizesWithOwn
  <2> QED BY <1>12, <2>6 DEF SizesOK
<1>15. CASE s.src # y /\ f.b # Missing
  <2>1. f.b.socket = s.src /\ p.b.socket = s.src
    BY <1>3, <1>10, <1>13, <1>15
  <2>2. p.b.mss = f.b.mss /\ p.a.mss = f.a.mss
    BY <1>7, <1>15
  <2>3. g.b # Missing
    BY <1>8, <1>11, <1>12, <2>1
  <2>4. Same(p.a, g.a) /\ Enlarged(p.b, g.b, s, n) /\ p.b.socket = f.b.socket
    BY <1>6, <1>15, <2>1
  <2>5. SizesFor(g, y)
    BY ONLY <1>2, s \in Segments, n \in Nat, <1>6, <1>9, <1>15, <2>1, <2>2, <2>3, <2>4,
            SizesWithPeers
  <2> QED BY <1>12, <2>5 DEF SizesOK
<1>16. CASE s.src # y /\ f.b = Missing
  <2>1. p.b.mss = p.mss_b /\ p.b.socket = s.src /\ p.mss_b = f.mss_b
    BY <1>3, <1>7, <1>16
  <2>2. /\ p.mss_a = IF s.syn /\ s.mss # 0 THEN Usable(s) ELSE f.mss_a
        /\ p.a.mss = IF p.mss_a # 0 THEN p.mss_a ELSE f.a.mss
    BY <1>7, <1>16
  <2>3. g.b # Missing
    BY <1>8, <1>11, <1>12, <2>1
  <2>4. Same(p.a, g.a) /\ Enlarged(p.b, g.b, s, n)
    BY <1>6, <1>16
  <2>5. SizesFor(g, y)
    BY ONLY <1>2, s \in Segments, n \in Nat, <1>6, <1>9, <1>16, <2>1, <2>2, <2>3, <2>4,
            SizesExchanged
  <2> QED BY <1>12, <2>5 DEF SizesOK
<1> QED BY <1>14, <1>15, <1>16
-----------------------------------------------------------------------------
\* Packet m of a length is in a list of pieces as a run of them, from its first byte to
\* its last; an endpoint has all packets of its own cut like that, in their order.
Run(w, m, len, first, last) ==
    /\ first <= last /\ \A j \in DOMAIN w : w[j].of = m <=> j \in first .. last
    /\ w[first].offset = 0 /\ w[last].offset + w[last].len = len
    /\ \A j \in first .. last - 1 : /\ w[j + 1].offset = w[j].offset + w[j].len
                                    /\ w[j].len = w[first].len
    /\ last > first => w[last].len \in 1 .. w[first].len

Cut(w, m, len) == \E first, last \in DOMAIN w : Run(w, m, len, first, last)

WireOK(ps, e) ==
    /\ \A k \in DOMAIN ps :
          ps[k].segment.src = e.socket => Cut(e.wire, ps[k].index, ps[k].segment.len)
    /\ \A j \in 1 .. Len(e.wire) - 1 : e.wire[j].of <= e.wire[j + 1].of

CutsOK(f) == WireOK(f.packets, f.a) /\ WireOK(f.packets, f.b)

LEMMA Joined ==
    ASSUME NEW w \in Seq(Piece), NEW v \in Seq(Piece)
    PROVE  /\ w \o v \in Seq(Piece) /\ Len(w) \in Nat /\ Len(v) \in Nat
           /\ DOMAIN w = 1 .. Len(w) /\ DOMAIN v = 1 .. Len(v)
           /\ Len(w \o v) = Len(w) + Len(v) /\ DOMAIN (w \o v) = 1 .. Len(w) + Len(v)
           /\ \A j \in 1 .. Len(w) : (w \o v)[j] = w[j]
           /\ \A j \in 1 .. Len(v) : (w \o v)[Len(w) + j] = v[j]
           /\ \A j \in 1 .. Len(w) + Len(v) :
                 j \notin 1 .. Len(w) => /\ j - Len(w) \in 1 .. Len(v)
                                         /\ (w \o v)[j] = v[j - Len(w)]
<1>1. Len(w) \in Nat /\ Len(v) \in Nat
  OBVIOUS
<1>2. \A j \in 1 .. Len(w) + Len(v) :
         j \notin 1 .. Len(w) => j - Len(w) \in 1 .. Len(v) /\ Len(w) + (j - Len(w)) = j
  BY <1>1
<1>3. \A j \in 1 .. Len(v) : (w \o v)[Len(w) + j] = v[j]
  OBVIOUS
<1>4. \A j \in 1 .. Len(w) + Len(v) :
         j \notin 1 .. Len(w) => (w \o v)[j] = v[j - Len(w)]
  BY <1>2, <1>3
<1> QED BY <1>1, <1>2, <1>3, <1>4

\* Packets that were cut before stay as they are.
LEMMA EarlierCuts ==
    ASSUME NEW w \in Seq(Piece), NEW v \in Seq(Piece), NEW m, NEW len, Cut(w, m, len),
           \A j \in DOMAIN v : v[j].of # m
    PROVE  Cut(w \o v, m, len)
<1> DEFINE x == w \o v
<1>1. /\ Len(w) \in Nat /\ DOMAIN w = 1 .. Len(w) /\ DOMAIN v = 1 .. Len(v)
      /\ DOMAIN x = 1 .. Len(w) + Len(v) /\ Len(v) \in Nat
      /\ \A j \in 1 .. Len(w) : x[j] = w[j]
      /\ \A j \in 1 .. Len(w) + Len(v) :
            j \notin 1 .. Len(w) => j - Len(w) \in 1 .. Len(v) /\ x[j] = v[j - Len(w)]
  BY Joined
<1> HIDE DEF x
<1>2. PICK first \in DOMAIN w, last \in DOMAIN w : Run(w, m, len, first, last)
  BY DEF Cut
<1>3. first \in 1 .. Len(w) /\ last \in 1 .. Len(w) /\ first \in Nat /\ last \in Nat
  BY <1>1
<1>4. \A j \in first .. last : j \in 1 .. Len(w)
  BY <1>1, <1>3
<1>5. \A j \in DOMAIN x : x[j].of = m <=> j \in first .. last
  <2> SUFFICES ASSUME NEW j \in DOMAIN x PROVE x[j].of = m <=> j \in first .. last
    OBVIOUS
  <2>1. CASE j \in 1 .. Len(w)
    BY <1>1, <1>2, <2>1 DEF Run
  <2>2. CASE j \notin 1 .. Len(w)
    BY <1>1, <1>4, <2>2
  <2> QED BY <2>1, <2>2
<1>6. x[first] = w[first] /\ x[last] = w[last]
  BY <1>1, <1>3
<1>7. ASSUME NEW j \in first .. last - 1
      PROVE  x[j] = w[j] /\ x[j + 1] = w[j + 1]
  <2>1. j \in first .. last /\ j + 1 \in first .. last
    BY <1>3
  <2> QED BY <1>1, <1>4, <2>1
<1>8. Run(x, m, len, first, last)
  BY <1>2, <1>5, <1>6, <1>7 DEF Run
<1>9. first \in DOMAIN x /\ last \in DOMAIN x
  BY <1>1, <1>3
<1> QED BY <1>8, <1>9 DEF Cut, x

\* The pieces of a new packet are such a run.
LEMMA NewCut ==
    ASSUME NEW w \in Seq(Piece), NEW mss \in Size, NEW len \in Nat, NEW n \in Nat,
           \A j \in DOMAIN w : w[j].of # n
    PROVE  Cut(w \o SplitIntoWirePackets(mss, len, n), n, len)
<1> DEFINE v == SplitIntoWirePackets(mss, len, n)
           x == w \o v
           l == Len(w)
           last == Len(v)
<1>1. v \in Seq(Piece) /\ last >= 1 /\ \A k \in DOMAIN v : v[k].of = n
  BY Pieces
<1>2. /\ v[1].offset = 0
      /\ v[last].offset + v[last].len = len
      /\ \A k \in 1 .. last - 1 : /\ v[k + 1].offset = v[k].offset + v[k].len
                                  /\ v[k].len = v[1].len
      /\ last > 1 => v[last].len \in 1 .. v[1].len
  <2>1. mss \in Nat
    BY Words DEF Size
  <2> QED BY ONLY len \in Nat, n \in Nat, <2>1, SplittingIsExact
<1> HIDE DEF v
<1>3. /\ l \in Nat /\ DOMAIN w = 1 .. l /\ last \in Nat /\ DOMAIN v = 1 .. last
      /\ DOMAIN x = 1 .. l + last
      /\ \A j \in 1 .. l : x[j] = w[j]
      /\ \A j \in 1 .. last : x[l + j] = v[j]
      /\ \A j \in 1 .. l + last : j \notin 1 .. l => j - l \in 1 .. last /\ x[j] = v[j - l]
  BY <1>1, Joined
<1> HIDE DEF x, l, last
<1>4. l + 1 \in 1 .. l + last /\ l + last \in 1 .. l + last /\ l + 1 <= l + last
  BY <1>1, <1>3
<1>5. \A j \in DOMAIN x : x[j].of = n <=> j \in l + 1 .. l + last
  <2> SUFFICES ASSUME NEW j \in DOMAIN x PROVE x[j].of = n <=> j \in l + 1 .. l + last
    OBVIOUS
  <2>1. CASE j \in 1 .. l
    BY <1>3, <2>1
  <2>2. CASE j \notin 1 .. l
    <3>1. x[j] = v[j - l] /\ j - l \in DOMAIN v
      BY <1>3, <2>2
    <3>2. x[j].of = n
      BY <1>1, <3>1
    <3>3. j \in l + 1 .. l + last
      BY <1>3, <2>2
    <3> QED BY <3>2, <3>3
  <2> QED BY <2>1, <2>2
<1>6. x[l + 1] = v[1] /\ x[l + last] = v[last]
  BY <1>1, <1>3
<1>7. ASSUME NEW j \in l + 1 .. l + last - 1
      PROVE  x[j + 1].offset = x[j].offset + x[j].len /\ x[j].len = x[l + 1].len
  <2>1. /\ j - l \in 1 .. last - 1 /\ j - l \in 1 .. last /\ (j - l) + 1 \in 1 .. last
        /\ l + (j - l) = j /\ l + ((j - l) + 1) = j + 1
    BY <1>3
  <2>2. x[j] = v[j - l] /\ x[j + 1] = v[(j - l) + 1]
    BY <1>3, <2>1
  <2> QED BY <1>2, <1>6, <2>1, <2>2
<1>8. l + last > l + 1 => x[l + last].len \in 1 .. x[l + 1].len
  BY <1>2, <1>3, <1>6
<1> DEFINE first == l + 1
           end == l + last
<1>9. first <= end /\ \A j \in DOMAIN x : x[j].of = n <=> j \in first .. end
  BY ONLY <1>4, <1>5
<1>10. x[first].offset = 0 /\ x[end].offset + x[end].len = len
  BY <1>2, <1>6
<1>11. \A j \in first .. end - 1 : /\ x[j + 1].offset = x[j].offset + x[j].len
                                  /\ x[j].len = x[first].len
  <2>1. end - 1 = l + last - 1
    BY <1>3
  <2> QED BY ONLY <1>7, <2>1
<1>12. end > first => x[end].len \in 1 .. x[first].len
  BY ONLY <1>8
<1> HIDE DEF first, end
<1>13. Run(x, n, len, first, end)
  BY <1>9, <1>10, <1>11, <1>12 DEF Run
<1> QED BY <1>3, <1>4, <1>13 DEF Cut, x, v, first, end

\* The pieces stay in the order of their packets.
LEMMA OrderKept ==
    ASSUME NEW w \in Seq(Piece), NEW v \in Seq(Piece), NEW n \in Nat,
           \A j \in 1 .. Len(w) - 1 : w[j].of <= w[j + 1].of,
           \A j \in DOMAIN w : w[j].of < n, \A j \in DOMAIN v : v[j].of = n
    PROVE  \A j \in 1 .. Len(w \o v) - 1 : (w \o v)[j].of <= (w \o v)[j + 1].of
<1> DEFINE x == w \o v
<1>1. /\ Len(w) \in Nat /\ DOMAIN w = 1 .. Len(w) /\ DOMAIN v = 1 .. Len(v)
      /\ Len(x) = Len(w) + Len(v) /\ Len(v) \in Nat
      /\ \A j \in 1 .. Len(w) : x[j] = w[j]
      /\ \A j \in 1 .. Len(w) + Len(v) :
            j \notin 1 .. Len(w) => j - Len(w) \in 1 .. Len(v) /\ x[j] = v[j - Len(w)]
  BY Joined
<1> HIDE DEF x
<1>2. ASSUME NEW j \in 1 .. Len(x) - 1
      PROVE  x[j].of <= x[j + 1].of
  <2>1. j \in 1 .. Len(w) + Len(v) /\ j + 1 \in 1 .. Len(w) + Len(v)
    BY <1>1
  <2>2. ASSUME NEW i \in 1 .. Len(w) PROVE w[i].of \in Nat
    <3>1. w[i] \in Piece
      BY <1>1
    <3> QED BY <3>1 DEF Piece
  <2>3. CASE j + 1 \in 1 .. Len(w)
    <3>1. j \in 1 .. Len(w) - 1 /\ j \in 1 .. Len(w)
      BY <1>1, <2>1, <2>3
    <3> QED BY <1>1, <2>3, <3>1
  <2>4. CASE j \in 1 .. Len(w) /\ j + 1 \notin 1 .. Len(w)
    <3>1. x[j + 1].of = n
      BY <1>1, <2>1, <2>4
    <3>2. x[j].of < n /\ x[j].of \in Nat
      BY <1>1, <2>2, <2>4
    <3> QED BY <3>1, <3>2
  <2>5. CASE j \notin 1 .. Len(w)
    <3>1. j + 1 \notin 1 .. Len(w)
      BY <1>1, <2>1, <2>5
    <3>2. x[j + 1].of = n /\ x[j].of = n
      BY <1>1, <2>1, <2>5, <3>1
    <3> QED BY <3>2
  <2> QED BY <2>3, <2>4, <2>5
<1> QED BY <1>2 DEF x
-----------------------------------------------------------------------------
\* The sender of a packet has it cut, and nothing changes for the other endpoint.
LEMMA WireGrown ==
    ASSUME NEW ps \in Seq(Packet), NEW s \in Segments, NEW n \in Nat,
           NEW r \in Packet, r.index = n, r.segment = s, NEW q, Longer(q, ps, r),
           \A k \in DOMAIN ps : ps[k].index < n,
           NEW e \in Endpoint, NEW d \in Endpoint, Enlarged(e, d, s, n),
           Wired(e) = Sent(ps, e.socket), WireOK(ps, e)
    PROVE  WireOK(q, d)
<1> DEFINE w == e.wire
           v == SplitIntoWirePackets(d.mss, s.len, n)
           l == Len(ps)
<1>1. /\ l \in Nat /\ DOMAIN ps = 1 .. l /\ DOMAIN q = 1 .. l + 1
      /\ \A k \in 1 .. l : q[k] = ps[k]
      /\ q[l + 1] = r
  BY OneMorePacket
<1>2. /\ w \in Seq(Piece) /\ d.mss \in Size /\ s.len \in Nat
      /\ d.wire = w \o v /\ d.socket = e.socket
  BY Words DEF Enlarged, Endpoint
<1>3. v \in Seq(Piece) /\ \A j \in DOMAIN v : v[j].of = n
  BY <1>2, Pieces
<1>4. ASSUME NEW j \in DOMAIN w
      PROVE  w[j].of < n
  <2>1. w[j].of \in Sent(ps, e.socket)
    BY DEF Wired
  <2> QED BY <2>1 DEF Sent
<1>5. \A j \in DOMAIN w : w[j].of # n
  BY <1>4
<1>6. \A j \in 1 .. Len(w) - 1 : w[j].of <= w[j + 1].of
  BY DEF WireOK
<1>7. \A j \in 1 .. Len(w \o v) - 1 : (w \o v)[j].of <= (w \o v)[j + 1].of
  <2> HIDE DEF w, v
  <2> QED BY ONLY n \in Nat, <1>2, <1>3, <1>4, <1>6, OrderKept
<1>8. Cut(w \o v, n, s.len)
  BY ONLY n \in Nat, <1>2, <1>5, NewCut
<1>9. ASSUME NEW k \in 1 .. l, ps[k].segment.src = e.socket
      PROVE  Cut(w \o v, ps[k].index, ps[k].segment.len)
  <2> DEFINE m == ps[k].index
             len == ps[k].segment.len
  <2>1. Cut(w, m, len)
    BY <1>1, <1>9 DEF WireOK
  <2>2. \A j \in DOMAIN v : v[j].of # m
    <3>1. m < n /\ m # n
      BY <1>1
    <3> HIDE DEF v, m
    <3> QED BY <1>3, <3>1
  <2> HIDE DEF w, v, m, len
  <2>3. Cut(w \o v, m, len)
    BY ONLY <1>2, <1>3, <2>1, <2>2, EarlierCuts
  <2> QED BY <2>3 DEF m, len
<1> HIDE DEF w, v, l
<1>10. ASSUME NEW k \in DOMAIN q, q[k].segment.src = d.socket
       PROVE  Cut(d.wire, q[k].index, q[k].segment.len)
  <2>1. CASE k \in 1 .. l
    BY <1>1, <1>2, <1>9, <1>10, <2>1
  <2>2. CASE k = l + 1
    BY <1>1, <1>2, <1>8, <2>2
  <2> QED BY <1>1, <2>1, <2>2
<1> QED BY <1>2, <1>7, <1>10 DEF WireOK

LEMMA WireStays ==
    ASSUME NEW ps \in Seq(Packet), NEW r \in Packet, NEW q, Longer(q, ps, r),
           NEW e, NEW d, Same(e, d), r.segment.src # e.socket, WireOK(ps, e)
    PROVE  WireOK(q, d)
<1> DEFINE l == Len(ps)
<1>1. /\ l \in Nat /\ DOMAIN ps = 1 .. l /\ DOMAIN q = 1 .. l + 1
      /\ \A k \in 1 .. l : q[k] = ps[k]
      /\ q[l + 1] = r
  BY OneMorePacket
<1>2. d.socket = e.socket /\ d.wire = e.wire
  BY DEF Same
<1> HIDE DEF l
<1>3. \A k \in DOMAIN q : q[k].segment.src = d.socket => k \in DOMAIN ps /\ q[k] = ps[k]
  BY <1>1, <1>2
<1> QED BY <1>2, <1>3 DEF WireOK

\* Preparing a flow for a packet leaves everything cut.
LEMMA CutsPrepared ==
    ASSUME NEW id \in Ids, NEW f, (FlowOK(id, f) /\ CutsOK(f)) \/ f = NewFlow,
           NEW s \in Segments, {s.src, s.dst} = {id.src, id.dst},
           NEW p, p = Prepared(f, s)
    PROVE  CutsOK(p)
<1>1. FlowOK(id, f) \/ f = NewFlow
  OBVIOUS
<1>2. /\ p \in Flow /\ p.packets = f.packets
      /\ p.a.socket = (IF f.a = Missing THEN s.src ELSE f.a.socket) /\ p.a.wire = f.a.wire
      /\ s.src = p.a.socket => p.b = f.b
      /\ s.src # p.a.socket => p.b.socket = s.src
      /\ p.b.wire = f.b.wire
  BY <1>1, FlowPrepared
<1>3. Missing.wire = << >> /\ Missing.socket = NoSocket /\ NoSocket \notin Socket
  BY Words DEF Missing, NewEndpoint
<1>4. CASE f = NewFlow
  <2>1. p.packets = << >> /\ p.a.wire = << >> /\ p.b.wire = << >>
    BY <1>2, <1>3, <1>4 DEF NewFlow
  <2> QED BY <2>1 DEF CutsOK, WireOK
<1>5. CASE FlowOK(id, f) /\ CutsOK(f)
  <2>1. /\ f.a.socket \in {id.src, id.dst} /\ id.src \in Socket /\ id.dst \in Socket
        /\ f.b = Missing \/ f.b.socket \in {id.src, id.dst} \ {f.a.socket}
        /\ \A k \in DOMAIN f.packets : f.packets[k].segment.src \in {f.a.socket, f.b.socket}
    BY <1>5 DEF FlowOK, Ids
  <2>2. p.a.socket = f.a.socket
    BY <1>2, <1>3, <2>1
  <2>3. WireOK(p.packets, p.a)
    BY <1>2, <1>5, <2>2 DEF CutsOK, WireOK
  <2>4. CASE p.b.socket = f.b.socket
    BY <1>2, <1>5, <2>3, <2>4 DEF CutsOK, WireOK
  <2>5. CASE p.b.socket # f.b.socket
    <3>1. s.src # p.a.socket /\ p.b.socket = s.src /\ s.src \in Socket
      BY <1>2, <2>5, Words
    <3>2. f.b = Missing
      BY <2>1, <2>2, <2>5, <3>1
    <3>3. \A k \in DOMAIN p.packets : p.packets[k].segment.src # p.b.socket
      BY <1>2, <1>3, <2>1, <2>2, <3>1, <3>2
    <3>4. p.b.wire = << >>
      BY <1>2, <1>3, <3>2
    <3>5. WireOK(p.packets, p.b)
      BY <3>3, <3>4 DEF WireOK
    <3> QED BY <2>3, <3>5 DEF CutsOK
  <2> QED BY <2>4, <2>5
<1> QED BY <1>4, <1>5

LEMMA CutsKept ==
    ASSUME NEW id \in Ids, NEW f, (FlowOK(id, f) /\ CutsOK(f)) \/ f = NewFlow,
           NEW s \in Segments, {s.src, s.dst} = {id.src, id.dst}, NEW n \in Nat,
           \A k \in DOMAIN f.packets : f.packets[k].index < n,
           NEW g, Grows(Prepared(f, s), s, n, g)
    PROVE  CutsOK(g)
<1> DEFINE p == Prepared(f, s)
           r == [index |-> n, segment |-> s]
           ps == f.packets
<1>1. FlowOK(id, f) \/ f = NewFlow
  OBVIOUS
<1>2. CutsOK(p)
  <2>1. p = Prepared(f, s)
    OBVIOUS
  <2> QED BY <2>1, CutsPrepared
<1>3. FlowOK(id, p) /\ p.packets = ps /\ s.src \in {p.a.socket, p.b.socket}
  BY <1>1, FlowReady
<1>4. Grows(p, s, n, g)
  OBVIOUS
<1> HIDE DEF p
<1>5. FlowOK(id, g)
  <2>1. Ready(id, p, s)
    BY <1>3 DEF Ready
  <2> QED BY ONLY id \in Ids, s \in Segments, n \in Nat, <1>4, <2>1, FlowGrown
<1>6. /\ p \in Flow /\ p.a \in Endpoint /\ p.b \in Endpoint /\ ps \in Seq(Packet)
      /\ g.a \in Endpoint /\ g.b \in Endpoint
      /\ Wired(p.a) = Sent(ps, p.a.socket) /\ Wired(p.b) = Sent(ps, p.b.socket)
  BY <1>3, <1>5 DEF FlowOK, Flow
<1>7. /\ g.packets = Append(ps, r)
      /\ s.src = p.a.socket => Enlarged(p.a, g.a, s, n) /\ Same(p.b, g.b)
      /\ s.src # p.a.socket => Same(p.a, g.a) /\ Enlarged(p.b, g.b, s, n)
  BY <1>3, <1>4, <1>6, EndpointsGrown
<1>8. r \in Packet /\ r.index = n /\ r.segment = s /\ Longer(g.packets, ps, r)
  BY <1>7 DEF Packet, Longer
<1>9. WireOK(ps, p.a) /\ WireOK(ps, p.b)
  BY <1>2, <1>3 DEF CutsOK
<1>10. \A k \in DOMAIN ps : ps[k].index < n
  OBVIOUS
<1> HIDE DEF r, ps
<1>11. CASE s.src = p.a.socket
  <2>1. WireOK(g.packets, g.a)
    <3>1. Enlarged(p.a, g.a, s, n)
      BY <1>7, <1>11
    <3> QED BY ONLY s \in Segments, n \in Nat, <1>6, <1>8, <1>9, <1>10, <3>1, WireGrown
  <2>2. WireOK(g.packets, g.b)
    <3>1. p.b = Missing \/ p.b.socket # p.a.socket
      BY <1>3 DEF FlowOK
    <3>2. r.segment.src # p.b.socket /\ Same(p.b, g.b)
      BY <1>7, <1>8, <1>11, <3>1, Words, MissingEndpoint
    <3> QED BY ONLY <1>6, <1>8, <1>9, <3>2, WireStays
  <2> QED BY <2>1, <2>2 DEF CutsOK
<1>12. CASE s.src # p.a.socket
  <2>1. WireOK(g.packets, g.b)
    <3>1. Enlarged(p.b, g.b, s, n)
      BY <1>7, <1>12
    <3> QED BY ONLY s \in Segments, n \in Nat, <1>6, <1>8, <1>9, <1>10, <3>1, WireGrown
  <2>2. WireOK(g.packets, g.a)
    <3>1. r.segment.src # p.a.socket /\ Same(p.a, g.a)
      BY <1>7, <1>8, <1>12
    <3> QED BY ONLY <1>6, <1>8, <1>9, <3>1, WireStays
  <2> QED BY <2>1, <2>2 DEF CutsOK
<1> QED BY <1>11, <1>12
-----------------------------------------------------------------------------
\* What all flows of a file have of both.
EndpointsInv == \A id \in DOMAIN flows : SizesOK(flows[id]) /\ CutsOK(flows[id])

FlowOf(id) == IF id \in DOMAIN flows THEN flows[id] ELSE NewFlow

LEMMA ReadGrows ==
    ASSUME FileInv, NEW s \in Segments, Read(s)
    PROVE  \E id \in Ids, g \in Flow :
              /\ {s.src, s.dst} = {id.src, id.dst}
              /\ flows' = [i \in DOMAIN flows \cup {id} |-> IF i = id THEN g ELSE flows[i]]
              /\ Grows(Prepared(FlowOf(id), s), s, index, g)
<1> DEFINE id == FlowId(s)
           f == FlowOf(id)
           p == Prepared(f, s)
<1>1. PICK u \in BOOLEAN, v \in BOOLEAN :
        LET g == Added(p, s, index, u, v)
        IN  /\ v => s.ack /\ Receiver(p, s) # Missing
            /\ flows' = [i \in DOMAIN flows \cup {id} |-> IF i = id THEN g ELSE flows[i]]
  BY DEF Read, FlowOf
<1> DEFINE g == Added(p, s, index, u, v)
<1>2. id \in Ids /\ {s.src, s.dst} = {id.src, id.dst}
  BY FlowIdNamesConnection
<1> HIDE DEF id
<1>3. FlowOK(id, f) \/ f = NewFlow
  BY DEF FileInv, FlowOf
<1>4. index \in Nat
  BY DEF FileInv
<1> HIDE DEF f
<1>5. Ready(id, p, s)
  BY <1>2, <1>3, FlowReady DEF Ready
<1> HIDE DEF p
<1>6. Grows(p, s, index, g)
  BY <1>1 DEF Grows
<1>7. flows' = [i \in DOMAIN flows \cup {id} |-> IF i = id THEN g ELSE flows[i]]
  BY <1>1
<1> HIDE DEF g
<1>8. g \in Flow
  <2>1. FlowOK(id, g)
    BY ONLY <1>2, s \in Segments, <1>4, <1>5, <1>6, FlowGrown
  <2> QED BY <2>1 DEF FlowOK
<1> QED BY <1>2, <1>6, <1>7, <1>8 DEF p, f

LEMMA EndpointsKept == FileInv /\ EndpointsInv /\ [Next]_vars => EndpointsInv'
<1> SUFFICES ASSUME FileInv, EndpointsInv, [Next]_vars
             PROVE  EndpointsInv'
  OBVIOUS
<1>1. CASE ReadPacket
  <2>1. PICK s \in Segments : Read(s)
    BY <1>1 DEF ReadPacket
  <2>2. PICK id \in Ids, g \in Flow :
          /\ {s.src, s.dst} = {id.src, id.dst}
          /\ flows' = [i \in DOMAIN flows \cup {id} |-> IF i = id THEN g ELSE flows[i]]
          /\ Grows(Prepared(FlowOf(id), s), s, index, g)
    BY <2>1, ReadGrows
  <2> DEFINE f == FlowOf(id)
  <2>3. /\ (FlowOK(id, f) /\ SizesOK(f)) \/ f = NewFlow
        /\ (FlowOK(id, f) /\ CutsOK(f)) \/ f = NewFlow
    BY DEF FlowOf, FileInv, EndpointsInv
  <2>4. index \in Nat
    BY DEF FileInv
  <2>5. \A k \in DOMAIN f.packets : f.packets[k].index < index
    <3>1. CASE id \in DOMAIN flows
      <4>1. f = flows[id] /\ \A k \in DOMAIN flows[id].packets : flows[id].packets[k].index \in 0 .. index - 1
        BY <3>1 DEF FlowOf, FileInv
      <4> HIDE DEF f
      <4> QED BY <2>4, <4>1
    <3>2. CASE id \notin DOMAIN flows
      BY <3>2 DEF FlowOf, NewFlow
    <3> QED BY <3>1, <3>2
  <2>6. Grows(Prepared(f, s), s, index, g) /\ {s.src, s.dst} = {id.src, id.dst}
    BY <2>2
  <2> HIDE DEF f
  <2>7. SizesOK(g)
    BY ONLY id \in Ids, s \in Segments, <2>3, <2>4, <2>6, SizesKept
  <2>8. CutsOK(g)
    BY ONLY id \in Ids, s \in Segments, <2>3, <2>4, <2>5, <2>6, CutsKept
  <2>9. ASSUME NEW i \in DOMAIN flows'
        PROVE  SizesOK(flows'[i]) /\ CutsOK(flows'[i])
    <3>1. CASE i = id
      <4>1. flows'[i] = g
        BY <2>2, <3>1
      <4> QED BY <2>7, <2>8, <4>1
    <3>2. CASE i # id
      <4>1. i \in DOMAIN flows /\ flows'[i] = flows[i]
        BY <2>2, <3>2
      <4> QED BY <4>1 DEF EndpointsInv
    <3> QED BY <3>1, <3>2
  <2> QED BY <2>9 DEF EndpointsInv
<1>2. CASE EndOfFile \/ LoopFails \/ UNCHANGED vars
  BY <1>2 DEF EndOfFile, LoopFails, vars, EndpointsInv
<1> QED BY <1>1, <1>2 DEF Next

LEMMA EndpointsInvariant == Spec => [](FileInv /\ EndpointsInv)
<1>1. Init => EndpointsInv
  BY DEF Init, EndpointsInv
<1> QED BY <1>1, EndpointsKept, FileInvariant, PTL DEF Spec

(***************************************************************************)
(* The segment size of an endpoint is what its peer advertised last before  *)
(* both were known, and without that what its own data suggested first,     *)
(* whatever was advertised how often, before or after its endpoint existed   *)
(* (tcp_flow.h:82).                                                        *)
(***************************************************************************)
THEOREM SizesAreThePeers == Spec => []UsesPeersMSS
<1>1. FileInv /\ EndpointsInv => UsesPeersMSS
  <2> SUFFICES ASSUME FileInv, EndpointsInv, NEW id \in DOMAIN flows, NEW e \in Endpoints(flows[id])
               PROVE  LET f == flows[id] IN
                      e.mss = IF Advertised(f, e) # 0 THEN Advertised(f, e) ELSE Suggested(f, e)
    BY DEF UsesPeersMSS, Flows
  <2> DEFINE f == flows[id]
             ps == f.packets
             a == f.a.socket
             x == e.socket
  <2>1. Opening(f) = OpeningOf(ps, a)
    BY DEF Opening, OpeningOf
  <2>2. { k \in Opening(f) \ SentBy(f, e) : f.packets[k].segment.syn /\ f.packets[k].segment.mss # 0 }
          = TellTo(ps, a, x)
    BY <2>1 DEF TellTo, TellsSize, SentBy, OpeningOf
  <2>3. { k \in SentBy(f, e) : DeriveMSS(f.packets[k].segment.len) # 0 } = ShownBy(ps, x)
    BY DEF SentBy, ShownBy, ShowsSize
  <2>4. Advertised(f, e) = IF f.b = Missing THEN 0 ELSE Told(ps, a, x)
    BY <2>2 DEF Advertised, Told
  <2>5. Suggested(f, e) = Shown(ps, x)
    BY <2>3 DEF Suggested, Shown
  <2>6. SizesFor(f, a)
    BY DEF EndpointsInv, SizesOK
  <2> HIDE DEF f
  <2>7. e.mss = Choice(f.b # Missing, ps, a, x)
    <3>1. CASE e = f.a
      BY <2>6, <3>1 DEF SizesFor
    <3>2. CASE e = f.b /\ f.b # Missing
      BY <2>6, <3>2 DEF SizesFor
    <3> QED BY <3>1, <3>2 DEF Endpoints, f
  <2> HIDE DEF ps, a, x
  <2> QED BY <2>4, <2>5, <2>7 DEF Choice, f
<1> QED BY <1>1, EndpointsInvariant, PTL

(***************************************************************************)
(* In what an endpoint sent, every one of its packets is cut into segments   *)
(* that neither lose nor repeat a byte, and packets stay in the order in     *)
(* which they were captured, in files of any length (tcp_endpoint.cc:148).   *)
(***************************************************************************)
THEOREM SplittingLosesNothing == Spec => []SplitExactly
<1>1. FileInv /\ EndpointsInv => SplitExactly
  <2> SUFFICES ASSUME FileInv, EndpointsInv, NEW id \in DOMAIN flows, NEW e \in Endpoints(flows[id])
               PROVE  LET f == flows[id] IN
                      /\ \A k \in SentBy(f, e) : CutExactly(e.wire, f.packets[k])
                      /\ \A j \in 1 .. Len(e.wire) - 1 : e.wire[j].of <= e.wire[j + 1].of
    BY DEF SplitExactly, Flows
  <2> DEFINE f == flows[id]
             w == e.wire
  <2>1. WireOK(f.packets, e) /\ e \in Endpoint
    BY DEF EndpointsInv, CutsOK, Endpoints, FileInv, FlowOK, Flow
  <2>2. w \in Seq(Piece) /\ Len(w) \in Nat /\ DOMAIN w = 1 .. Len(w)
    BY <2>1 DEF Endpoint
  <2>3. ASSUME NEW k \in SentBy(f, e)
        PROVE  CutExactly(w, f.packets[k])
    <3> DEFINE packet == f.packets[k]
               pieces == { j \in DOMAIN w : w[j].of = packet.index }
    <3>1. Cut(w, packet.index, packet.segment.len)
      BY <2>1 DEF WireOK, SentBy
    <3> HIDE DEF packet, w, f
    <3>2. PICK first \in DOMAIN w, last \in DOMAIN w :
             Run(w, packet.index, packet.segment.len, first, last)
      BY <3>1 DEF Cut
    <3>3. first \in 1 .. Len(w) /\ last \in 1 .. Len(w) /\ first <= last
      BY <2>2, <3>2 DEF Run
    <3>4. pieces = first .. last
      <4>1. first .. last \subseteq DOMAIN w
        BY <2>2, <3>3
      <4>2. \A j \in DOMAIN w : w[j].of = packet.index <=> j \in first .. last
        BY <3>2 DEF Run
      <4> QED BY <4>1, <4>2
    <3> HIDE DEF pieces
    <3>5. pieces # {} /\ pieces \subseteq 0 .. Len(w)
      BY <2>2, <3>3, <3>4
    <3>6. Min(pieces) = first
      <4>1. Min(pieces) \in pieces /\ \A j \in pieces : Min(pieces) <= j
        BY ONLY <2>2, <3>5, MinIsFirst
      <4>2. first \in pieces
        BY <2>2, <3>3, <3>4
      <4> QED BY <2>2, <3>3, <3>4, <4>1, <4>2
    <3>7. Max(pieces) = last
      <4>1. Max(pieces) \in pieces /\ \A j \in pieces : Max(pieces) >= j
        BY ONLY <2>2, <3>5, MaxIsLast
      <4>2. last \in pieces
        BY <2>2, <3>3, <3>4
      <4> QED BY <2>2, <3>3, <3>4, <4>1, <4>2
    <3> QED BY <3>2, <3>4, <3>5, <3>6, <3>7 DEF CutExactly, Run, pieces, packet
  <2> QED BY <2>1, <2>3 DEF WireOK
<1> QED BY <1>1, EndpointsInvariant, PTL
=============================================================================
