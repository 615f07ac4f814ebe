----------------------------- MODULE DelayClaims ------------------------------
(***************************************************************************)
(* Statements that the comments and tests of the source make about the      *)
(* analysis and that its code does not keep, each checked by a run of its    *)
(* own; README.md says what the counterexamples show.                       *)
(***************************************************************************)
EXTENDS MCDelayAnalysis

\* A timeout retransmits the first half of a lost packet; its ACK triggers the other.
Recut == Start \o
    << Out({Data(5, 2)}, {1}), Out({Data(7, 2)}, {1}), Out({Data(5, 1)}, {8, 12}),
       In({Ack(6)}, {4}), Out({Data(6, 1)}, {1}), In({Ack(9)}, {4}) >>

\* A lost packet of which both a probe and a timeout retransmit the same bytes.
Twice == Start \o
    << Out({Data(5, 2)}, {1}), Out({Data(5, 2)}, {8}), Out({Data(5, 2)}, {8, 16}),
       In({Ack(7)}, {2, 6}) >>

ClaimInit(s) == AnalysisInit /\ script = s

RecutSpec == ClaimInit(Recut) /\ [][ScriptNext]_<<analysisVars, script>>
TwiceSpec == ClaimInit(Twice) /\ [][ScriptNext]_<<analysisVars, script>>

(***************************************************************************)
(* GetTriggerDelay takes the transmission that reached the receiver to "then *)
(* work backwards towards the first transmission (via trigger packets or    *)
(* RTOs)" (delay_analysis.cc:351): it gets there, whatever was sent.         *)
(***************************************************************************)
WorksBackwards == phase # "endless"

(***************************************************************************)
(* "Enforce constraints (delay combinations cannot exceed overall delay)"   *)
(* (delay_analysis.cc:179), tested as EXPECT_LE(all_delays, overall_us_) and *)
(* for each of the parts (test_latency.cc:28).                              *)
(***************************************************************************)
PartsWithinOverall ==
    LET t == tail_latency
        all == t.propagation + t.loss + t.loss_trigger + t.queueing + t.other
    IN  phase = "analysis" =>
            /\ all % WordSize <= t.overall
            /\ \A part \in {"propagation", "loss", "loss_trigger", "queueing", "other"} :
                   t[part] <= t.overall
=============================================================================
