------------------------------ MODULE TcpFlowMap ------------------------------
(***************************************************************************)
(* Reading a capture file (tcp_flow_map.cc, tcp_flow.cc): the capture loop   *)
(* hands every TCP packet to the flow map, which finds its flow in either    *)
(* direction or creates it; the flow creates its two endpoints, passes on    *)
(* the segment sizes that they advertise and has packets larger than that    *)
(* split into those that were on the wire (tcp_endpoint.cc); an endpoint     *)
(* with bogus data that still sends ends the reading.                       *)
(*                                                                         *)
(* What else an endpoint does with a packet is the matter of TcpEndpoint;    *)
(* here it may find its data bogus wherever the code can.                   *)
(*                                                                         *)
(* An operator X_fault is a faulty variant of X; the runs use it to show    *)
(* that their properties notice such a fault, the model itself never does.  *)
(***************************************************************************)
EXTENDS Integers, Sequences, FiniteSets, FiniteSetsExt

CONSTANTS MinMSS, MaxMSS,   \* kMinMSS, kMaxMSS
          MaxSegments,      \* segments that a coalesced packet may hold (10)
          TimestampBytes,   \* what the timestamp option takes (12)
          WordSize,         \* number of values of a machine word (2^32)
          Segments,         \* [src, dst, syn, ack, len, mss, timestamps]: TCP packets
          MaxPackets        \* bound: TCP packets in the file

Socket == [addr : Nat, port : Nat \ {0}]

ASSUME FileAssumption ==
    /\ MinMSS \in Nat \ {0} /\ MaxMSS \in Nat /\ MaxMSS >= MinMSS
    /\ MaxSegments \in Nat /\ MaxSegments >= 2
    /\ WordSize \in Nat /\ WordSize > MaxMSS * MaxSegments
    /\ TimestampBytes \in 0 .. WordSize - 1
    /\ MaxPackets \in Nat
    /\ \A s \in Segments :
          /\ s.src \in Socket /\ s.dst \in Socket
          /\ s.syn \in BOOLEAN /\ s.ack \in BOOLEAN /\ s.timestamps \in BOOLEAN
          /\ s.len \in Nat /\ s.mss \in Nat /\ s.mss < WordSize
          \* CheckBogus drops a SYN with payload
          /\ s.syn /\ ~s.ack => s.len = 0

VARIABLES
    flows,    \* map_: the flow of each id
    index,    \* index_
    outcome   \* of MakeFromPcap: "reading", "break", "map", "nullptr"

vars == <<flows, index, outcome>>

-----------------------------------------------------------------------------
\* Endpoints.  Port 0 never gets here: it stands for an endpoint that is missing.
NoSocket == [addr |-> 0, port |-> 0]

NewEndpoint(socket) == [socket |-> socket, mss |-> 0, wire |-> << >>, is_bogus |-> FALSE]

Missing == NewEndpoint(NoSocket)

\* DeriveMSS: data that fits a frame is a segment, more is taken for the smallest
\* number of equal segments that fit.
DeriveMSS(len) ==
    LET counts == { n \in 2 .. MaxSegments : len % n = 0 /\ len \div n <= MaxMSS }
    IN  IF len < MinMSS THEN 0
        ELSE IF len <= MaxMSS THEN len
        ELSE IF counts = {} THEN 0 ELSE len \div Min(counts)

\* SplitIntoWirePackets: whole, or cut into segments, of which the last takes the
\* rest.  The copies do not get the index of the packet.
SplitIntoWirePackets_full_last(mss, len, id) ==
    IF mss = 0 \/ len <= mss THEN << [of |-> id, index |-> id, offset |-> 0, len |-> len] >>
    ELSE [k \in 1 .. (len + mss - 1) \div mss |->
             [of |-> id, index |-> 0, offset |-> (k - 1) * mss, len |-> mss]]

SplitIntoWirePackets(mss, len, id) ==
    IF mss = 0 \/ len <= mss THEN << [of |-> id, index |-> id, offset |-> 0, len |-> len] >>
    ELSE [k \in 1 .. (len + mss - 1) \div mss |->
             [of |-> id, index |-> 0, offset |-> (k - 1) * mss,
              len |-> Min({mss, len - (k - 1) * mss})]]

\* TcpEndpoint::AddPacket as the flow sees it; unmatched says that it was one
\* retransmission without an original too many.
AddPacket(e, s, id, unmatched) ==
    LET mss == IF e.mss = 0 THEN DeriveMSS(s.len) ELSE e.mss
    IN  [socket   |-> e.socket,
         mss      |-> mss,
         wire     |-> e.wire \o SplitIntoWirePackets(mss, s.len, id),
         is_bogus |-> e.is_bogus \/ unmatched]

MayBeUnmatched(e, s) == e.wire # << >> /\ (s.len > 0 \/ s.syn)

-----------------------------------------------------------------------------
\* Flows.
NewFlow == [a |-> Missing, b |-> Missing, mss_a |-> 0, mss_b |-> 0, packets |-> << >>]

\* The sender of the first packet is endpoint A.
WithA(f, s) == IF f.a = Missing THEN [f EXCEPT !.a = NewEndpoint(s.src)] ELSE f

FromA(f, s) == s.src = f.a.socket

\* The payload that an advertised segment size leaves, in a machine word.
Usable_signed(s) == IF s.timestamps THEN s.mss - TimestampBytes ELSE s.mss

Usable(s) == IF s.timestamps THEN (s.mss - TimestampBytes) % WordSize ELSE s.mss

\* CheckForMSS: what one endpoint advertises is kept for the other one.
CheckForMSS_own(f, s) ==
    IF ~s.syn \/ s.mss = 0 THEN f
    ELSE IF FromA(f, s) THEN [f EXCEPT !.mss_a = Usable(s)] ELSE [f EXCEPT !.mss_b = Usable(s)]

CheckForMSS(f, s) ==
    IF ~s.syn \/ s.mss = 0 THEN f
    ELSE IF FromA(f, s) THEN [f EXCEPT !.mss_b = Usable(s)] ELSE [f EXCEPT !.mss_a = Usable(s)]

\* Endpoint B is created by its first packet; only then both get what is known of
\* their segment size.
WithB(f, s) ==
    IF FromA(f, s) \/ f.b # Missing THEN f
    ELSE [f EXCEPT !.b = [NewEndpoint(s.src) EXCEPT !.mss = f.mss_b],
                   !.a.mss = IF f.mss_a # 0 THEN f.mss_a ELSE @]

Prepared(f, s) == WithB(CheckForMSS(WithA(f, s), s), s)

Sender(f, s) == IF FromA(f, s) THEN f.a ELSE f.b
Receiver(f, s) == IF FromA(f, s) THEN f.b ELSE f.a

\* AddPacketToEndpoint on a prepared flow: the sender adds the packet, then the
\* receiver, if there is one, processes its ACK; beyond says that the ACK covers
\* more than was sent.
Added(f, s, id, unmatched, beyond) ==
    LET sender   == AddPacket(Sender(f, s), s, id, unmatched)
        receiver == [Receiver(f, s) EXCEPT !.is_bogus = @ \/ beyond]
    IN  [f EXCEPT !.packets = Append(@, [index |-> id, segment |-> s]),
                  !.a = IF FromA(f, s) THEN sender ELSE receiver,
                  !.b = IF FromA(f, s) THEN receiver ELSE sender]

-----------------------------------------------------------------------------
\* The flow map.
ReverseId(id) == [src |-> id.dst, dst |-> id.src]

FlowId_one_way(s) == [src |-> s.src, dst |-> s.dst]

FlowId(s) ==
    LET id == [src |-> s.src, dst |-> s.dst]
    IN  IF id \notin DOMAIN flows /\ ReverseId(id) \in DOMAIN flows THEN ReverseId(id) ELSE id

\* Whether reading goes on is up to the sender.
IsFine_receiver(f, s) == ~Receiver(f, s).is_bogus

IsFine(f, s) == ~Sender(f, s).is_bogus

\* TcpFlowMap::AddPacket, from the callback of the capture loop.
Read(s) ==
    LET id == FlowId(s)
        f  == Prepared(IF id \in DOMAIN flows THEN flows[id] ELSE NewFlow, s)
    IN  \E unmatched, beyond \in BOOLEAN :
          LET g == Added(f, s, index, unmatched, beyond)
          IN  /\ unmatched => MayBeUnmatched(Sender(f, s), s)
              /\ beyond => s.ack /\ Receiver(f, s) # Missing
              /\ flows' = [i \in DOMAIN flows \cup {id} |-> IF i = id THEN g ELSE flows[i]]
              /\ index' = index + 1
              /\ outcome' = IF IsFine(g, s) THEN outcome ELSE "break"

\* Packets that are not TCP, or whose header is bogus, are skipped; pcap_loop returns
\* an error for a broken loop and for a file that ends in a packet, and MakeFromPcap
\* returns no map then.
ReadPacket ==
    /\ outcome = "reading" /\ index < MaxPackets
    /\ \E s \in Segments : Read(s)

EndOfFile ==
    /\ outcome = "reading"
    /\ outcome' = "map"
    /\ UNCHANGED <<flows, index>>

LoopFails ==
    /\ outcome \in {"reading", "break"}
    /\ outcome' = "nullptr"
    /\ UNCHANGED <<flows, index>>

Init == flows = << >> /\ index = 0 /\ outcome = "reading"

Next == ReadPacket \/ EndOfFile \/ LoopFails

Spec == Init /\ [][Next]_vars

-----------------------------------------------------------------------------
Endpoints(f) == {f.a, f.b} \ {Missing}

Flows == { flows[id] : id \in DOMAIN flows }

SentBy(f, e) == { k \in DOMAIN f.packets : f.packets[k].segment.src = e.socket }

TypeOK ==
    /\ DOMAIN flows \subseteq [src : Socket, dst : Socket]
    /\ \A f \in Flows :
          /\ f.packets # << >> /\ f.a # Missing
          /\ \A k \in DOMAIN f.packets : /\ f.packets[k].index \in 0 .. index - 1
                                         /\ f.packets[k].segment \in Segments
          /\ f.mss_a \in 0 .. WordSize - 1 /\ f.mss_b \in 0 .. WordSize - 1
          /\ \A e \in Endpoints(f) : /\ e.socket \in Socket /\ e.is_bogus \in BOOLEAN
                                     /\ e.mss \in 0 .. WordSize - 1
    /\ index \in 0 .. MaxPackets
    /\ outcome \in {"reading", "break", "map", "nullptr"}

(***************************************************************************)
(* Each connection has one flow, whichever side was seen first, with all of *)
(* its packets and no others, and its endpoints each hold the packets that  *)
(* they sent, also when connections share an address or a port             *)
(* (tcp_flow_map.h:15).                                                    *)
(***************************************************************************)
SortedIntoFlows ==
    /\ \A id \in DOMAIN flows : ReverseId(id) \notin DOMAIN flows \ {id}
    /\ \A n \in 0 .. index - 1 :
          \E id \in DOMAIN flows : \E k \in DOMAIN flows[id].packets : flows[id].packets[k].index = n
    /\ \A id, other \in DOMAIN flows :
          \A j \in DOMAIN flows[id].packets, k \in DOMAIN flows[other].packets :
             flows[id].packets[j].index = flows[other].packets[k].index => id = other /\ j = k
    /\ \A id \in DOMAIN flows : LET f == flows[id] IN
          /\ \A k \in DOMAIN f.packets :
                {f.packets[k].segment.src, f.packets[k].segment.dst} = {id.src, id.dst}
          /\ \A e \in Endpoints(f) :
                { e.wire[k].of : k \in DOMAIN e.wire } = { f.packets[k].index : k \in SentBy(f, e) }

\* The packets up to the first one that endpoint A did not send.
Opening(f) == { k \in DOMAIN f.packets :
                  \A j \in 1 .. k - 1 : f.packets[j].segment.src = f.a.socket }

\* What the peer of an endpoint advertised last before both endpoints were known, and
\* what the data of the endpoint suggests first; 0 if nothing does.
Advertised(f, e) ==
    LET sizes == { k \in Opening(f) \ SentBy(f, e) :
                     f.packets[k].segment.syn /\ f.packets[k].segment.mss # 0 }
    IN  IF f.b = Missing \/ sizes = {} THEN 0 ELSE Usable(f.packets[Max(sizes)].segment)

Suggested(f, e) ==
    LET sizes == { k \in SentBy(f, e) : DeriveMSS(f.packets[k].segment.len) # 0 }
    IN  IF sizes = {} THEN 0 ELSE DeriveMSS(f.packets[Min(sizes)].segment.len)

(***************************************************************************)
(* The segment size of an endpoint is what its peer advertised last up to   *)
(* the first packet of endpoint B, and without that, or if timestamps leave  *)
(* nothing of it, what its own first packet of that size suggests           *)
(* (tcp_flow.h:82): sizes are advertised before the endpoint that they are   *)
(* for need exist.                                                         *)
(***************************************************************************)
UsesPeersMSS ==
    \A f \in Flows : \A e \in Endpoints(f) :
        e.mss = IF Advertised(f, e) # 0 THEN Advertised(f, e) ELSE Suggested(f, e)

\* The pieces of a packet stand together in what an endpoint sent, follow one another
\* from the packet's first byte to its last, and only the last one may be smaller.
CutExactly(wire, packet) ==
    LET pieces == { j \in DOMAIN wire : wire[j].of = packet.index }
        first  == Min(pieces)
        last   == Max(pieces)
    IN  /\ pieces # {} /\ pieces = first .. last
        /\ wire[first].offset = 0
        /\ wire[last].offset + wire[last].len = packet.segment.len
        /\ \A j \in first .. last - 1 : /\ wire[j + 1].offset = wire[j].offset + wire[j].len
                                        /\ wire[j].len = wire[first].len
        /\ last > first => wire[last].len \in 1 .. wire[first].len

(***************************************************************************)
(* Splitting neither loses nor repeats a byte, keeps the order of packets    *)
(* and of their data, and cuts into equal segments with at most one smaller  *)
(* one at the end (tcp_endpoint.cc:148).                                    *)
(***************************************************************************)
SplitExactly ==
    \A f \in Flows : \A e \in Endpoints(f) :
        /\ \A k \in SentBy(f, e) : CutExactly(e.wire, f.packets[k])
        /\ \A j \in 1 .. Len(e.wire) - 1 : e.wire[j].of <= e.wire[j + 1].of

(***************************************************************************)
(* An endpoint whose data was found bogus, be it by an ACK for it, can send *)
(* one more packet at most, and then the file has no map (tcp_flow_map.h:19). *)
(***************************************************************************)
BogusSenderStops ==
    /\ [][\A id \in DOMAIN flows : \A x \in {"a", "b"} :
            flows[id][x].is_bogus /\ flows'[id][x].wire # flows[id][x].wire => outcome' = "break"]_vars
    /\ [][outcome = "break" => outcome' = "nullptr" /\ UNCHANGED flows]_vars
=============================================================================
