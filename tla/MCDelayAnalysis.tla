--------------------------- MODULE MCDelayAnalysis ---------------------------
(***************************************************************************)
(* Captures for DelayAnalysis.  An analysis needs captures that are longer  *)
(* than those every order can be tried of: RTTs that grow with the bytes in *)
(* flight, a loss, its recovery.  A script says for each packet of the      *)
(* capture what it may be; the file ends after any of them.                 *)
(***************************************************************************)
EXTENDS DelayAnalysis

Data(s, len) == [seq |-> s, len |-> len, syn |-> FALSE, fin |-> FALSE]
Ack(n) == [ack |-> n, blocks |-> << >>, num_sacks |-> 0, cut |-> FALSE, data |-> FALSE]
CutAck(n) == [Ack(n) EXCEPT !.cut = TRUE]
Sack(n, from, to) == [Ack(n) EXCEPT !.blocks = <<[start |-> from, end |-> to]>>,
                                    !.num_sacks = 1]

\* One of these packets, after one of these gaps.
Out(sends, gaps) == [out |-> TRUE, packets |-> sends, gaps |-> gaps]
In(acks, gaps) == [out |-> FALSE, packets |-> acks, gaps |-> gaps]

\* Two RTTs, the longer one with more bytes in flight.
Start == << Out({Data(2, 1)}, {1}), Out({Data(3, 2)}, {1}), In({Ack(3)}, {2, 4}),
            In({Ack(5)}, {2, 4}) >>

\* A loss that a SACK, a probe or a timeout repairs, once or twice.
Loss == Start \o
    << Out({Data(5, 2)}, {1}), Out({Data(7, 2)}, {0, 1}),
       In({Sack(5, 7, 9), Ack(5)}, {4}),
       Out({Data(5, 2), Data(7, 2)}, {1, 8}),
       Out({Data(5, 2), Data(7, 2)}, {8, 16}),
       In({Ack(7), Ack(9)}, {2, 6}) >>

\* A timeout whose ACKs trigger the rest of the recovery; data may be cut anew.
Recovery == Start \o
    << Out({Data(5, 2)}, {1}), Out({Data(7, 2)}, {1}),
       Out({Data(5, 1), Data(5, 2)}, {8, 12}),
       In({Ack(6), Ack(7)}, {4}),
       Out({Data(6, 1), Data(7, 2)}, {1}),
       In({Ack(7), Ack(9)}, {1, 8}), In({Ack(9)}, {4}) >>

\* ACKs with their SACKs cut off, which packets are tied to in retrospect; a tie to
\* an ACK older than one that gave a sample already.
Ties == << Out({Data(2, 1)}, {1}), In({Ack(3)}, {2}), Out({Data(3, 1)}, {1}),
           Out({Data(4, 2)}, {1}), Out({Data(6, 2)}, {1}),
           In({CutAck(3)}, {4}), In({CutAck(3), Ack(4)}, {2}),
           Out({Data(4, 2), Data(6, 2)}, {1, 8}),
           In({Ack(6), Ack(8)}, {4, 8}), Out({Data(8, 1)}, {1}), In({Ack(9)}, {4}) >>

Scripts == { Loss, Recovery, Ties }

Items == UNION { ToSet(s) : s \in Scripts }
AllSends == UNION { item.packets : item \in { i \in Items : i.out } }
AllAcks == UNION { item.packets : item \in { i \in Items : ~i.out } }
AllGaps == UNION { item.gaps : item \in Items }
AllSeqs == { <<1, 3, 5, 20>> }

VARIABLE script

ScriptInit == AnalysisInit /\ script \in Scripts

\* The next packet of the script.
ScriptPacket ==
    /\ phase = "capture" /\ ~GivenUp /\ Len(pkts) < Len(script)
    /\ LET item == script[Len(pkts) + 1]
       IN  \E gap \in item.gaps, x \in item.packets :
              LET ts == gap + IF pkts = << >> THEN 0 ELSE pkts[Len(pkts)].ts
              IN  IF item.out THEN AddPacket(OwnPacket(x, ts)) ELSE ProcessAck(AckPacket(x, ts))
    /\ OneWay
    /\ NoteSamples
    /\ UNCHANGED <<phase, resultVars>>

ScriptNext == (ScriptPacket \/ EndOfCapture \/ Analyze) /\ UNCHANGED script

ScriptSpec == ScriptInit /\ [][ScriptNext]_<<analysisVars, script>>
=============================================================================
