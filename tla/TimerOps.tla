------------------------------- MODULE TimerOps ------------------------------
(***************************************************************************)
(* The RTT estimator and the timeouts of TcpTimer (tcp_timer.cc): Linux's   *)
(* variant of RFC 6298 in scaled integers.  A timer is the record of the    *)
(* class's fields; its list of past samples is kept by the modules that     *)
(* need it.  The shifts are divisions by powers of two, which agree with    *)
(* the code on negative values as well (both round down).                   *)
(* X_fault is a faulty variant of X that only serves to test the properties. *)
(***************************************************************************)
EXTENDS SeqSpace

CONSTANTS ClockGranularity,  \* kClockGranularityUs
          MinRTO,            \* kMinRTOUs
          MaxRTO,            \* kMaxRTOUs
          MaxDelayedAck      \* kMaxDelayedAckUs

ASSUME TimerAssumption ==
    /\ ClockGranularity \in Nat \ {0}
    /\ MinRTO \in Nat /\ MinRTO >= ClockGranularity
    /\ MaxRTO \in Nat /\ MaxRTO >= MinRTO
    /\ MaxDelayedAck \in Nat

Larger(a, b) == IF a < b THEN b ELSE a
Smaller(a, b) == IF b < a THEN b ELSE a

NewTimer == [smoothed_rtt_x8  |-> 0,
             rtt_var_x4       |-> 0,
             mean_dev_x4      |-> 0,
             max_mean_dev_x4  |-> 0,
             next_seq         |-> 0]

\* "This is the first sample": a zero smoothed RTT stands for "no sample yet".
Unseeded(t) == t.smoothed_rtt_x8 = 0

FirstSample(rtt, seq_next) ==
    [smoothed_rtt_x8  |-> 8 * rtt,
     rtt_var_x4       |-> Larger(2 * rtt, MinRTO),
     mean_dev_x4      |-> 2 * rtt,
     max_mean_dev_x4  |-> Larger(2 * rtt, MinRTO),
     next_seq         |-> seq_next]

\* A falling RTT moves the mean deviation up by an eighth of what a rising one
\* would, and down as fast.
MeanDevUpdate_signed(error, mean_dev_x4) == error - mean_dev_x4 \div 4

MeanDevUpdate_absolute(error, mean_dev_x4) == IF error < 0 THEN -error ELSE error

MeanDevUpdate(error, mean_dev_x4) ==
    LET update == (IF error < 0 THEN -error ELSE error) - mean_dev_x4 \div 4
    IN  IF error < 0 /\ update > 0 THEN update \div 8 ELSE update

\* A mean deviation beyond this window's maximum counts at once.
RaiseVariation_maximum_only(t) ==
    [t EXCEPT !.max_mean_dev_x4 = Larger(@, t.mean_dev_x4)]

RaiseVariation(t) ==
    IF t.mean_dev_x4 > t.max_mean_dev_x4
    THEN [t EXCEPT !.max_mean_dev_x4 = t.mean_dev_x4,
                   !.rtt_var_x4 = Larger(@, t.mean_dev_x4)]
    ELSE t

\* Once the data in flight at the last window's start is acked, the variation
\* decays towards that window's maximum and a new window starts.
CloseWindow(t, seq_acked, seq_next) ==
    IF After(seq_acked, t.next_seq)
    THEN [t EXCEPT !.rtt_var_x4 = IF t.max_mean_dev_x4 < @
                                  THEN @ - (@ - t.max_mean_dev_x4) \div 4 ELSE @,
                   !.next_seq = seq_next,
                   !.max_mean_dev_x4 = MinRTO]
    ELSE t

LaterSample_rounded_up(t, rtt, seq_acked, seq_next) ==
    LET error == rtt - (t.smoothed_rtt_x8 + 7) \div 8
        updated == [t EXCEPT !.smoothed_rtt_x8 = @ + error,
                             !.mean_dev_x4 = @ + MeanDevUpdate(error, @)]
    IN  CloseWindow(RaiseVariation(updated), seq_acked, seq_next)

LaterSample(t, rtt, seq_acked, seq_next) ==
    LET error == rtt - t.smoothed_rtt_x8 \div 8
        updated == [t EXCEPT !.smoothed_rtt_x8 = @ + error,
                             !.mean_dev_x4 = @ + MeanDevUpdate(error, @)]
    IN  CloseWindow(RaiseVariation(updated), seq_acked, seq_next)

AddSample(t, rtt, seq_acked, seq_next) ==
    IF Unseeded(t) THEN FirstSample(rtt, seq_next)
    ELSE LaterSample(t, rtt, seq_acked, seq_next)

-----------------------------------------------------------------------------
\* The cap is applied after a doubling, so only a timeout that was backed off at
\* least once is capped.
AdjustRTOForBackoff(rto, num_rtos) ==
    LET backedOff[n \in 0 .. num_rtos] ==
            IF n = 0 THEN rto ELSE Smaller(2 * backedOff[n - 1], MaxRTO)
    IN  backedOff[num_rtos]

BaseRTO(t) ==
    IF Unseeded(t) THEN MinRTO
    ELSE t.smoothed_rtt_x8 \div 8 + Larger(ClockGranularity, t.rtt_var_x4)

GetRTO(t, num_rtos) == AdjustRTOForBackoff(BaseRTO(t), num_rtos)

\* The probe timeout is cut to an RTO without backoff.
GetTLP(t, delayed_ack) ==
    LET rtt == t.smoothed_rtt_x8 \div 8
        probe == IF delayed_ack
                 THEN Larger(2 * rtt, rtt + rtt \div 2 + MaxDelayedAck)
                 ELSE 2 * rtt
    IN  Smaller(probe, GetRTO(t, 0))
=============================================================================
