------------------------------- MODULE TcpTimer ------------------------------
(***************************************************************************)
(* A TcpTimer object fed by TcpEndpoint::HandleAckedPacket: one step per    *)
(* RTT sample, while the endpoint's sequence numbers advance around the     *)
(* sequence space.  A sample carries the ACK number and the next sequence   *)
(* number at its time; data is sent in steps of at most MaxAdvance and       *)
(* MaxWindow bounds the data in flight.                                     *)
(***************************************************************************)
EXTENDS TimerOps

CONSTANTS RTTs,        \* the RTTs that can be measured
          MaxWindow,   \* bound on the data in flight
          MaxAdvance   \* bound on what one sample acks, and on what is sent

ASSUME SamplesAssumption ==
    /\ RTTs \subseteq Nat
    /\ MaxWindow \in Nat /\ MaxAdvance \in Nat
    /\ MaxWindow < MaxForward

VARIABLES timer,       \* the fields of the class
          seq_acked,   \* the endpoint's cumulative ACK
          seq_next     \* its next sequence number

vars == <<timer, seq_acked, seq_next>>

Init ==
    /\ timer = NewTimer
    /\ seq_acked \in SeqNum
    /\ seq_next = seq_acked

Transmit(d) ==
    /\ SeqMinus(seq_next, seq_acked) + d <= MaxWindow
    /\ seq_next' = SeqPlus(seq_next, d)
    /\ UNCHANGED <<timer, seq_acked>>

\* HandleAckedPacket runs after ProcessAck advanced seq_acked; several packets
\* acked at once, or one packet SACKed, leave it where it was.
Sample(d, rtt) ==
    /\ d <= SeqMinus(seq_next, seq_acked)
    /\ seq_acked' = SeqPlus(seq_acked, d)
    /\ timer' = AddSample(timer, rtt, seq_acked', seq_next)
    /\ UNCHANGED seq_next

Next ==
    \/ \E d \in 1 .. MaxAdvance : Transmit(d)
    \/ \E d \in 0 .. MaxAdvance, rtt \in RTTs : Sample(d, rtt)

Spec == Init /\ [][Next]_vars

-----------------------------------------------------------------------------
(***************************************************************************)
(* "Even though all these numbers end up being non-negative we make them    *)
(* signed" (tcp_timer.h:63): no order of samples drives an estimate below   *)
(* zero, although every one of them is moved by signed differences.         *)
(***************************************************************************)
TypeOK ==
    /\ timer \in [smoothed_rtt_x8 : Nat, rtt_var_x4 : Nat, mean_dev_x4 : Nat,
                  max_mean_dev_x4 : Nat, next_seq : SeqNum]
    /\ seq_acked \in SeqNum
    /\ seq_next \in SeqNum

(***************************************************************************)
(* A timer that has seen a sample never looks new again: the smoothed RTT   *)
(* doubles as the "no sample yet" mark, and samples of zero erode it only   *)
(* down to 7/8 of a microsecond.                                           *)
(***************************************************************************)
StaysSeeded == [][~Unseeded(timer) => ~Unseeded(timer')]_vars

(***************************************************************************)
(* Once seeded, the variation is never below the largest mean deviation of  *)
(* the current window, nor that below the minimum RTO: closing a window     *)
(* decays the variation towards the maximum without passing it.             *)
(***************************************************************************)
VariationOrder ==
    ~Unseeded(timer) => /\ MinRTO <= timer.max_mean_dev_x4
                        /\ timer.max_mean_dev_x4 <= timer.rtt_var_x4
                        /\ timer.mean_dev_x4 <= timer.max_mean_dev_x4
                               \/ timer.max_mean_dev_x4 = MinRTO

\* The largest RTT that can be measured, in the estimator's units.
WithinSamples(t, rtt) ==
    /\ t.smoothed_rtt_x8 <= 8 * rtt
    /\ t.mean_dev_x4 <= 4 * rtt
    /\ t.rtt_var_x4 <= Larger(4 * rtt, MinRTO)
    /\ t.max_mean_dev_x4 <= Larger(4 * rtt, MinRTO)

(***************************************************************************)
(* The estimates never leave the range of the samples: the smoothed RTT is  *)
(* at most the largest RTT R and the RTO at most R + Max(4R, minimum RTO).  *)
(* No overshoot builds up over any number of samples, so the 32-bit fields  *)
(* hold every value as long as 8R fits.                                    *)
(***************************************************************************)
Bounded ==
    \A rtt \in RTTs : (\A r \in RTTs : r <= rtt) =>
        /\ WithinSamples(timer, rtt)
        /\ ~Unseeded(timer) => BaseRTO(timer) <= rtt + Larger(4 * rtt, MinRTO)
=============================================================================
