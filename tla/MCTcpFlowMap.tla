---------------------------- MODULE MCTcpFlowMap ----------------------------
(***************************************************************************)
(* Small files for TcpFlowMap: a connection whose handshake advertises      *)
(* segment sizes, one of them with timestamps, and a second connection that *)
(* shares the address of one side and the whole socket of the other.        *)
(***************************************************************************)
EXTENDS TcpFlowMap

Client == [addr |-> 1, port |-> 1]
Other  == [addr |-> 1, port |-> 2]
Server == [addr |-> 2, port |-> 1]

Data(from, to, len) == [src |-> from, dst |-> to, syn |-> FALSE, ack |-> TRUE, len |-> len,
                        mss |-> 0, timestamps |-> FALSE]
Syn(from, to, mss) == [Data(from, to, 0) EXCEPT !.syn = TRUE, !.ack = FALSE, !.mss = mss]
SynAck(from, to, mss) == [Syn(from, to, mss) EXCEPT !.ack = TRUE, !.timestamps = TRUE]

\* An advertised size of 1 is less than the timestamps take, 2 is as much.  As for the
\* data, 3 fits a frame, 8 is two or four segments, 7 is no multiple, 1 is too small.
FileSegments ==
    { Syn(Client, Server, 3), SynAck(Server, Client, 4), SynAck(Server, Client, 1), SynAck(Server, Client, 2),
      Data(Server, Client, 3), Data(Server, Client, 8), Data(Client, Server, 7),
      Data(Server, Other, 8), Data(Other, Server, 1) }
=============================================================================
