------------------------------ MODULE MCCaptures ------------------------------
(***************************************************************************)
(* The captures in which the properties of TcpEndpoint are checked: those   *)
(* of several scenarios, each with packets of its own to send and to        *)
(* receive, in any order and with any of its gaps, so that losses,          *)
(* duplicates, reordering and retransmissions of every kind are among them. *)
(***************************************************************************)
EXTENDS MCTcpEndpoint

\* A scenario: what the capture may begin with, what follows, and its bound.
Scenario(opening, sends, acks, gaps, max) ==
    [opening |-> opening, sends |-> sends, acks |-> acks, gaps |-> gaps, max |-> max]

\* Timeouts: two packets and their ACKs, with gaps that meet and miss the timers.
Timeouts == Scenario({ Data(2, 2) }, { Data(2, 2), Data(4, 2) },
                     { Ack(4), Ack(6) }, {1, 4, 8, 12}, 5)

\* SACKs, reordering and duplicate SACKs.
Sacks == Scenario({ Data(2, 2) }, { Data(2, 2), Data(4, 1), Data(5, 1) },
                  { Ack(4), Ack(6), Sack(2, 4, 5), Sack(2, 5, 6), Sack(5, 2, 4) }, {1, 4}, 5)

\* Options cut off by the snap length: prompt and late retransmissions of two
\* packets, and late ones of three.
Cut == Scenario({ Data(2, 2) }, { Data(2, 2), Data(4, 1) },
                { Ack(4), CutAck(2) }, {1, 4}, 6)
CutLong == Scenario({ Data(2, 2) }, { Data(2, 2), Data(4, 1), Data(5, 1) },
                    { Ack(4), Ack(6), CutAck(2) }, {4}, 7)

\* A timeout that passes for a probe, a tie that arms the timers anew, and a probe.
Twice == Scenario({ Data(2, 2) }, { Data(4, 1) }, { CutAck(2) }, {2, 10, 20}, 6)

\* The handshake, numbers that wrap around behind it, and a FIN.
Handshake == Scenario({ Syn(13) }, { Syn(13), Data(14, 3), Fin(1) },
                      { Ack(14), Ack(1), Ack(2) }, {1, 4}, 5)

\* A capture that begins with a packet without data; its data wraps around, and
\* retransmissions are cut otherwise than the data was sent.
Midway == Scenario({ PureAck(14) }, { Data(14, 2), Data(14, 1), Data(15, 2) },
                   { Ack(15), Ack(1), Ack(2), Sack(14, 15, 1) }, {1, 4}, 5)

\* Data in both directions: the ACKs carry data, which the endpoint's own packets ack.
TwoWay == Scenario({ Data(2, 2) }, { Data(2, 2), Data(4, 2) },
                   { DataAck(2), DataAck(4) }, {1, 4}, 5)

Scenarios == { Timeouts, Sacks, Cut, CutLong, Twice, Handshake, Midway, TwoWay }

AllOpening == UNION { c.opening : c \in Scenarios }
AllSends == UNION { c.opening \cup c.sends : c \in Scenarios }
AllAcks == UNION { c.acks : c \in Scenarios }
AllGaps == UNION { c.gaps : c \in Scenarios }

-----------------------------------------------------------------------------
(***************************************************************************)
(* Captures of every scenario: a behaviour of the endpoint that keeps to    *)
(* the packets of one of them.                                             *)
(***************************************************************************)
VARIABLE scenario

CaptureInit == Init /\ scenario \in Scenarios

Times == IF pkts = << >> THEN {1} ELSE { pkts[Len(pkts)].ts + gap : gap \in scenario.gaps }

Sendable == IF pkts = << >> THEN scenario.opening ELSE scenario.sends

CaptureSend == \E ts \in Times, s \in Sendable : AddPacket(OwnPacket(s, ts))
CaptureAck == pkts # << >> /\ \E ts \in Times, a \in scenario.acks : ProcessAck(AckPacket(a, ts))

CaptureNext ==
    /\ Len(pkts) < scenario.max /\ ~GivenUp
    /\ CaptureSend \/ CaptureAck
    /\ PeerSide
    /\ Unseen \in ToSet(peer_trigger') => scenario = TwoWay
    /\ UNCHANGED scenario

CaptureSpec == CaptureInit /\ [][CaptureNext]_<<vars, scenario>>
=============================================================================
