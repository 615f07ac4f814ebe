---------------------------- MODULE EndpointClaims ---------------------------
(***************************************************************************)
(* Statements that the comments of the source make about an endpoint and    *)
(* that its code does not keep.  Each is checked by a run of its own, whose *)
(* counterexample is a short capture; README.md says what each one shows.   *)
(***************************************************************************)
EXTENDS MCTcpEndpoint

\* The sequence number behind a packet: SYN and FIN take one each.
SpaceEnd(p) == SeqPlus(CountedEnd(p), IF p.fin THEN 1 ELSE 0)

(***************************************************************************)
(* is_bogus_ is set on "any indication that we have a corrupted capture     *)
(* (e.g. when observing ACKs before their corresponding data packets)"      *)
(* (tcp_endpoint.h:303): the ACK of a FIN that was captured is none.        *)
(***************************************************************************)
BogusMeansCorrupt == is_bogus => AckedBeyond(Own, SpaceEnd) \/ unmatched_rtx > MaxUnmatched

(***************************************************************************)
(* A packet tied to a lookalike was SACKed and so no longer unacked, by     *)
(* which the "unacked_bytes counts for packets seen after this SACK are now *)
(* off and need to be corrected" (tcp_endpoint.cc:210): the correction never *)
(* raises a count.                                                         *)
(***************************************************************************)
CorrectedDownwards ==
    [][\A i \in Own : sent'[i].unacked_bytes <= sent[i].unacked_bytes]_vars

(***************************************************************************)
(* num_rtos_ counts "consecutive RTOs (without any ACKs)"                   *)
(* (tcp_endpoint.h:254): a timer armed by an ACK for new data is not backed  *)
(* off by timeouts before that ACK.                                        *)
(***************************************************************************)
AckEndsBackoff ==
    rto.armed_by # 0 /\ ~pkts[rto.armed_by].out => rto.backoffs = 0
=============================================================================
