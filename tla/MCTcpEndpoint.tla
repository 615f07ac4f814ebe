---------------------------- MODULE MCTcpEndpoint ----------------------------
(***************************************************************************)
(* Small captures for TcpEndpoint.  Each scenario is a set of packets the   *)
(* endpoint may send and a set of ACKs it may receive, in any order and     *)
(* with any of the gaps, so that losses, duplicates, reordering at the      *)
(* capture point and retransmissions of every kind are among the captures.  *)
(* Sequence numbers are 0 .. 15: a comparison is an order over distances    *)
(* below 7.                                                                *)
(***************************************************************************)
EXTENDS TcpEndpoint

Data(s, len) == [seq |-> s, len |-> len, syn |-> FALSE, fin |-> FALSE]
Syn(s) == [seq |-> s, len |-> 0, syn |-> TRUE, fin |-> FALSE]
Fin(s) == [seq |-> s, len |-> 0, syn |-> FALSE, fin |-> TRUE]
PureAck(s) == Data(s, 0)

Ack(n) == [ack |-> n, blocks |-> << >>, num_sacks |-> 0, cut |-> FALSE, data |-> FALSE]
CutAck(n) == [Ack(n) EXCEPT !.cut = TRUE]
Sack(n, from, to) == [Ack(n) EXCEPT !.blocks = <<[start |-> from, end |-> to]>>,
                                    !.num_sacks = 1]
\* The option was announced but its blocks were not captured.
EmptySack(n) == [Ack(n) EXCEPT !.num_sacks = 1]
\* An ACK that data of the other endpoint carries.
DataAck(n) == [Ack(n) EXCEPT !.data = TRUE]

\* A tie to a cut ACK, for EndpointClaims.
CutOpening == { Data(2, 2) }
CutSends == { Data(2, 2), Data(4, 1), Data(5, 1) }
CutAcks == { Ack(4), CutAck(2), EmptySack(2) }

\* Timeouts, for EndpointClaims.
TimeoutOpening == { Data(2, 2) }
TimeoutSends == { Data(2, 2), Data(4, 2) }
TimeoutAcks == { Ack(2), Ack(4), Ack(6) }

\* Two timeouts with a tie to a cut ACK between them, for EndpointClaims.
TwiceOpening == { Data(2, 2) }
TwiceSends == { Data(2, 2), Data(4, 1) }
TwiceAcks == { CutAck(2) }

\* A connection that the endpoint closes.
CloseOpening == { Data(2, 2) }
CloseSends == { Data(2, 2), Fin(4) }
CloseAcks == { Ack(4), Ack(5) }
=============================================================================
