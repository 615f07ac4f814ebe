---------------------------- MODULE TcpTimerProofs ---------------------------
(***************************************************************************)
(* Proofs about the RTT estimator: for every set of RTTs, every constant of *)
(* the timer and every sequence space, the estimates stay in type, ordered  *)
(* and within the range of the samples.                                     *)
(***************************************************************************)
EXTENDS TcpTimer, TLAPS

Timer == [smoothed_rtt_x8 : Nat, rtt_var_x4 : Nat, mean_dev_x4 : Nat,
          max_mean_dev_x4 : Nat, next_seq : SeqNum]

\* A seeded estimate never falls below 7, and the variation is ordered.
Seeded(t) ==
    ~Unseeded(t) => /\ t.smoothed_rtt_x8 >= 7
                    /\ MinRTO <= t.max_mean_dev_x4
                    /\ t.max_mean_dev_x4 <= t.rtt_var_x4
                    /\ \/ t.mean_dev_x4 <= t.max_mean_dev_x4
                       \/ t.max_mean_dev_x4 = MinRTO

\* rtt is an upper bound of all samples.
Highest(rtt) == rtt \in RTTs /\ \A r \in RTTs : r <= rtt

\* The inductive invariant.
Inv ==
    /\ TypeOK
    /\ Seeded(timer)
    /\ \A rtt \in RTTs : Highest(rtt) => WithinSamples(timer, rtt)

-----------------------------------------------------------------------------
(***************************************************************************)
(* SeqPlus stays in the sequence space for operands of the space            *)
(* (uint32_t addition wraps).                                              *)
(***************************************************************************)
LEMMA SeqPlusType ==
    ASSUME NEW a \in SeqNum, NEW d \in 0 .. SpaceSize
    PROVE  SeqPlus(a, d) \in SeqNum
BY SpaceSizeAssumption DEF SeqNum, SeqPlus

(***************************************************************************)
(* The distance between two sequence numbers is one as well.               *)
(***************************************************************************)
LEMMA SeqMinusType ==
    ASSUME NEW a \in SeqNum, NEW b \in SeqNum
    PROVE  SeqMinus(a, b) \in SeqNum
BY SpaceSizeAssumption DEF SeqNum, SeqMinus

(***************************************************************************)
(* The step of the mean deviation, signed as it is, neither takes it below  *)
(* zero nor above what a full quarter of the error adds.                    *)
(***************************************************************************)
LEMMA MeanDevStep ==
    ASSUME NEW error \in Int, NEW mean_dev \in Nat
    PROVE  LET stepped == mean_dev + MeanDevUpdate(error, mean_dev)
               size    == IF error < 0 THEN -error ELSE error
           IN  /\ stepped \in Nat
               /\ stepped <= mean_dev - mean_dev \div 4 + size
BY DEF MeanDevUpdate

(***************************************************************************)
(* The first sample seeds an ordered estimate within that sample; a sample  *)
(* of zero leaves the timer unseeded.                                      *)
(***************************************************************************)
LEMMA FirstSampleSound ==
    ASSUME NEW rtt \in Nat, NEW next \in SeqNum
    PROVE  LET t == FirstSample(rtt, next)
           IN  t \in Timer /\ Seeded(t) /\ \A r \in Nat : rtt <= r => WithinSamples(t, r)
BY TimerAssumption
   DEF FirstSample, Timer, Seeded, Unseeded, WithinSamples, Larger

(***************************************************************************)
(* A mean deviation beyond the window's maximum raises both bounds above it. *)
(***************************************************************************)
LEMMA RaiseVariationSound ==
    ASSUME NEW t \in Timer, MinRTO <= t.max_mean_dev_x4, t.max_mean_dev_x4 <= t.rtt_var_x4
    PROVE  LET raised == RaiseVariation(t)
           IN  /\ raised \in Timer
               /\ raised.smoothed_rtt_x8 = t.smoothed_rtt_x8
               /\ raised.mean_dev_x4 = t.mean_dev_x4
               /\ MinRTO <= raised.max_mean_dev_x4
               /\ raised.max_mean_dev_x4 <= raised.rtt_var_x4
               /\ raised.mean_dev_x4 <= raised.max_mean_dev_x4
               /\ \A r \in Nat : WithinSamples(t, r) => WithinSamples(raised, r)
<1> DEFINE raised == RaiseVariation(t)
<1>1. MinRTO \in Nat
  BY TimerAssumption
<1>2. CASE t.mean_dev_x4 > t.max_mean_dev_x4
  <2>1. raised = [t EXCEPT !.max_mean_dev_x4 = t.mean_dev_x4,
                           !.rtt_var_x4 = Larger(@, t.mean_dev_x4)]
    BY <1>2 DEF RaiseVariation
  <2>2. /\ raised \in Timer
        /\ raised.smoothed_rtt_x8 = t.smoothed_rtt_x8
        /\ raised.mean_dev_x4 = t.mean_dev_x4
        /\ raised.max_mean_dev_x4 = t.mean_dev_x4
        /\ raised.rtt_var_x4 = Larger(t.rtt_var_x4, t.mean_dev_x4)
    BY <2>1 DEF Timer, Larger
  <2>3. t.mean_dev_x4 \in Nat /\ t.max_mean_dev_x4 \in Nat /\ t.rtt_var_x4 \in Nat
    BY DEF Timer
  <2> HIDE DEF raised
  <2>4. ASSUME NEW r \in Nat, WithinSamples(t, r)
        PROVE  WithinSamples(raised, r)
    BY <1>1, <2>2, <2>3, <2>4 DEF WithinSamples, Larger
  <2>5. /\ MinRTO <= raised.max_mean_dev_x4
        /\ raised.max_mean_dev_x4 <= raised.rtt_var_x4
    BY <1>1, <1>2, <2>2, <2>3 DEF Larger
  <2> QED
    BY <2>2, <2>3, <2>4, <2>5 DEF raised
<1>3. CASE ~(t.mean_dev_x4 > t.max_mean_dev_x4)
  <2>1. raised = t
    BY <1>3 DEF RaiseVariation
  <2> QED
    BY <1>1, <1>3, <2>1 DEF Timer
<1> QED
  BY <1>2, <1>3

(***************************************************************************)
(* Closing a window decays the variation towards the window's maximum but   *)
(* not past it.                                                            *)
(***************************************************************************)
LEMMA CloseWindowSound ==
    ASSUME NEW t \in Timer, NEW acked \in SeqNum, NEW next \in SeqNum,
           MinRTO <= t.max_mean_dev_x4, t.max_mean_dev_x4 <= t.rtt_var_x4,
           t.mean_dev_x4 <= t.max_mean_dev_x4
    PROVE  LET closed == CloseWindow(t, acked, next)
           IN  /\ closed \in Timer
               /\ closed.smoothed_rtt_x8 = t.smoothed_rtt_x8
               /\ MinRTO <= closed.max_mean_dev_x4
               /\ closed.max_mean_dev_x4 <= closed.rtt_var_x4
               /\ \/ closed.mean_dev_x4 <= closed.max_mean_dev_x4
                  \/ closed.max_mean_dev_x4 = MinRTO
               /\ \A r \in Nat : WithinSamples(t, r) => WithinSamples(closed, r)
<1> DEFINE closed == CloseWindow(t, acked, next)
           decayed == IF t.max_mean_dev_x4 < t.rtt_var_x4
                      THEN t.rtt_var_x4 - (t.rtt_var_x4 - t.max_mean_dev_x4) \div 4
                      ELSE t.rtt_var_x4
<1>1. MinRTO \in Nat
  BY TimerAssumption
<1>2. CASE After(acked, t.next_seq)
  <2>1. closed = [t EXCEPT !.rtt_var_x4 = decayed, !.next_seq = next,
                           !.max_mean_dev_x4 = MinRTO]
    BY <1>2 DEF CloseWindow
  <2>2. /\ decayed \in Nat
        /\ t.max_mean_dev_x4 <= decayed
        /\ decayed <= t.rtt_var_x4
    BY DEF Timer
  <2> HIDE DEF decayed
  <2>3. /\ closed \in Timer
        /\ closed.smoothed_rtt_x8 = t.smoothed_rtt_x8
        /\ closed.mean_dev_x4 = t.mean_dev_x4
        /\ closed.max_mean_dev_x4 = MinRTO
        /\ closed.rtt_var_x4 = decayed
    BY <1>1, <2>1, <2>2 DEF Timer
  <2>4. t.max_mean_dev_x4 \in Nat /\ t.rtt_var_x4 \in Nat
    BY DEF Timer
  <2> HIDE DEF closed
  <2>5. ASSUME NEW r \in Nat, WithinSamples(t, r)
        PROVE  WithinSamples(closed, r)
    BY <1>1, <2>2, <2>3, <2>4, <2>5 DEF WithinSamples, Larger
  <2> QED
    BY <1>1, <2>2, <2>3, <2>4, <2>5 DEF closed
<1>3. CASE ~After(acked, t.next_seq)
  <2>1. closed = t
    BY <1>3 DEF CloseWindow
  <2> QED
    BY <2>1
<1> QED
  BY <1>2, <1>3

(***************************************************************************)
(* A later sample keeps a seeded timer seeded, ordered and within the       *)
(* largest sample.                                                         *)
(***************************************************************************)
LEMMA LaterSampleSound ==
    ASSUME NEW t \in Timer, ~Unseeded(t), Seeded(t),
           NEW rtt \in Nat, NEW acked \in SeqNum, NEW next \in SeqNum
    PROVE  LET later == LaterSample(t, rtt, acked, next)
           IN  /\ later \in Timer
               /\ Seeded(later)
               /\ ~Unseeded(later)
               /\ \A r \in Nat : rtt <= r /\ WithinSamples(t, r) => WithinSamples(later, r)
<1> DEFINE error == rtt - t.smoothed_rtt_x8 \div 8
           mean_dev == t.mean_dev_x4 + MeanDevUpdate(error, t.mean_dev_x4)
           updated == [t EXCEPT !.smoothed_rtt_x8 = t.smoothed_rtt_x8 + error,
                                !.mean_dev_x4 = mean_dev]
           raised == RaiseVariation(updated)
           later == CloseWindow(raised, acked, next)
<1>1. /\ t.smoothed_rtt_x8 \in Nat /\ t.smoothed_rtt_x8 >= 7
      /\ MinRTO <= t.max_mean_dev_x4
      /\ t.max_mean_dev_x4 <= t.rtt_var_x4
  BY DEF Timer, Seeded
<1>2. /\ error \in Int
      /\ t.smoothed_rtt_x8 + error \in Nat
      /\ t.smoothed_rtt_x8 + error >= 7
  BY <1>1
<1>3. /\ mean_dev \in Nat
      /\ mean_dev <= t.mean_dev_x4 - t.mean_dev_x4 \div 4 +
                     (IF error < 0 THEN -error ELSE error)
  BY <1>2, MeanDevStep DEF Timer
<1>4. ASSUME NEW r \in Nat, rtt <= r, WithinSamples(t, r)
      PROVE  WithinSamples(updated, r)
  <2>1. t.smoothed_rtt_x8 <= 8 * r /\ t.mean_dev_x4 <= 4 * r
    BY <1>4 DEF WithinSamples
  <2>2. t.smoothed_rtt_x8 + error <= 8 * r
    BY <1>1, <1>4, <2>1
  <2>3. (IF error < 0 THEN -error ELSE error) <= r
    BY <1>1, <1>4, <2>1
  <2>4. mean_dev <= 4 * r
    <3> HIDE DEF error, mean_dev
    <3>1. t.mean_dev_x4 \in Nat
      BY DEF Timer
    <3>2. t.mean_dev_x4 - t.mean_dev_x4 \div 4 <= 3 * r
      BY <2>1, <3>1
    <3> QED
      BY <1>2, <1>3, <2>3, <3>1, <3>2
  <2> HIDE DEF error, mean_dev
  <2> QED
    BY <1>4, <2>2, <2>4 DEF WithinSamples, Timer
<1>5. /\ updated \in Timer
      /\ updated.smoothed_rtt_x8 = t.smoothed_rtt_x8 + error
      /\ updated.max_mean_dev_x4 = t.max_mean_dev_x4
      /\ updated.rtt_var_x4 = t.rtt_var_x4
  <2> HIDE DEF error, mean_dev
  <2> QED
    BY <1>2, <1>3 DEF Timer
<1> HIDE DEF error, mean_dev, updated
<1>6. /\ raised \in Timer
      /\ raised.smoothed_rtt_x8 = updated.smoothed_rtt_x8
      /\ MinRTO <= raised.max_mean_dev_x4
      /\ raised.max_mean_dev_x4 <= raised.rtt_var_x4
      /\ raised.mean_dev_x4 <= raised.max_mean_dev_x4
      /\ \A r \in Nat : WithinSamples(updated, r) => WithinSamples(raised, r)
  BY <1>1, <1>5, RaiseVariationSound
<1> HIDE DEF raised
<1>7. /\ later \in Timer
      /\ later.smoothed_rtt_x8 = raised.smoothed_rtt_x8
      /\ MinRTO <= later.max_mean_dev_x4
      /\ later.max_mean_dev_x4 <= later.rtt_var_x4
      /\ \/ later.mean_dev_x4 <= later.max_mean_dev_x4
         \/ later.max_mean_dev_x4 = MinRTO
      /\ \A r \in Nat : WithinSamples(raised, r) => WithinSamples(later, r)
  BY <1>6, CloseWindowSound
<1>8. LaterSample(t, rtt, acked, next) = later
  BY DEF LaterSample, later, raised, updated, error, mean_dev
<1> HIDE DEF later
<1>9. Seeded(later) /\ ~Unseeded(later)
  BY <1>2, <1>5, <1>6, <1>7 DEF Seeded, Unseeded
<1> QED
  BY <1>4, <1>6, <1>7, <1>8, <1>9

-----------------------------------------------------------------------------
(***************************************************************************)
(* The initial timer satisfies the invariant.                              *)
(***************************************************************************)
LEMMA InitInv == Init => Inv
BY SpaceSizeAssumption, TimerAssumption, SamplesAssumption
   DEF Init, Inv, TypeOK, NewTimer, SeqNum, Seeded, Unseeded, Highest, WithinSamples, Larger

(***************************************************************************)
(* What one step does with the timer: nothing, or one sample.              *)
(***************************************************************************)
LEMMA StepInv == Inv /\ [Next]_vars => Inv'
<1> SUFFICES ASSUME Inv, [Next]_vars
             PROVE  Inv'
  OBVIOUS
<1>1. timer \in Timer /\ seq_acked \in SeqNum /\ seq_next \in SeqNum
  BY DEF Inv, TypeOK, Timer
<1>2. ASSUME NEW d \in 1 .. MaxAdvance, Transmit(d)
      PROVE  Inv'
  <2>1. d \in 0 .. SpaceSize
    <3>1. SeqMinus(seq_next, seq_acked) \in Nat
      BY <1>1, SeqMinusType, SpaceSizeAssumption DEF SeqNum
    <3>2. d <= MaxWindow
      BY <1>2, <3>1, SamplesAssumption DEF Transmit
    <3> QED
      BY <3>2, SamplesAssumption, SpaceSizeAssumption DEF MaxForward, HalfSpace
  <2>2. seq_next' \in SeqNum
    BY <1>1, <1>2, <2>1, SeqPlusType DEF Transmit
  <2> QED
    BY <1>2, <2>2 DEF Transmit, Inv, TypeOK, Seeded, Unseeded, WithinSamples
<1>3. ASSUME NEW d \in 0 .. MaxAdvance, NEW rtt \in RTTs, Sample(d, rtt)
      PROVE  Inv'
  <2>1. d \in 0 .. SpaceSize
    BY <1>1, <1>3, SeqMinusType, SamplesAssumption, SpaceSizeAssumption DEF Sample, SeqNum
  <2>2. seq_acked' \in SeqNum
    BY <1>1, <1>3, <2>1, SeqPlusType DEF Sample
  <2>3. rtt \in Nat
    BY SamplesAssumption
  <2>4. timer' = AddSample(timer, rtt, seq_acked', seq_next)
    BY <1>3 DEF Sample
  <2>5. CASE Unseeded(timer)
    <3>1. timer' = FirstSample(rtt, seq_next)
      BY <2>4, <2>5 DEF AddSample
    <3>2. /\ timer' \in Timer /\ Seeded(timer')
          /\ \A r \in Nat : rtt <= r => WithinSamples(timer', r)
      BY <1>1, <2>3, <3>1, FirstSampleSound
    <3> QED
      BY <1>1, <1>3, <2>2, <3>2, SamplesAssumption
         DEF Inv, TypeOK, Timer, Sample, Highest, Seeded, Unseeded, WithinSamples
  <2>6. CASE ~Unseeded(timer)
    <3>1. timer' = LaterSample(timer, rtt, seq_acked', seq_next)
      BY <2>4, <2>6 DEF AddSample
    <3>2. Seeded(timer)
      BY DEF Inv
    <3>3. /\ timer' \in Timer /\ Seeded(timer')
          /\ \A r \in Nat : rtt <= r /\ WithinSamples(timer, r) => WithinSamples(timer', r)
      BY <1>1, <2>2, <2>3, <2>6, <3>1, <3>2, LaterSampleSound
    <3> QED
      BY <1>1, <1>3, <2>2, <3>3, SamplesAssumption
         DEF Inv, TypeOK, Timer, Sample, Highest, Seeded, Unseeded, WithinSamples
  <2> QED
    BY <2>5, <2>6
<1>4. CASE UNCHANGED vars
  BY <1>4 DEF Inv, TypeOK, Seeded, Unseeded, WithinSamples, vars
<1> QED
  BY <1>2, <1>3, <1>4 DEF Next

(***************************************************************************)
(* The invariant holds throughout.                                         *)
(***************************************************************************)
LEMMA InvAlways == Spec => []Inv
BY InitInv, StepInv, PTL DEF Spec

(***************************************************************************)
(* No order of samples makes a field of the estimator negative.            *)
(***************************************************************************)
THEOREM TypeCorrect == Spec => []TypeOK
<1>1. Inv => TypeOK
  BY DEF Inv
<1> QED
  BY <1>1, InvAlways, PTL

(***************************************************************************)
(* The mean deviations and the variation of a seeded timer stay ordered.   *)
(***************************************************************************)
THEOREM VariationOrdered == Spec => []VariationOrder
<1>1. Inv => VariationOrder
  BY DEF Inv, Seeded, VariationOrder
<1> QED
  BY <1>1, InvAlways, PTL

(***************************************************************************)
(* The estimates, and the RTO without back-off, stay within the samples.    *)
(***************************************************************************)
THEOREM EstimatesBounded == Spec => []Bounded
<1>1. Inv => Bounded
  <2> SUFFICES ASSUME Inv, NEW rtt \in RTTs, \A r \in RTTs : r <= rtt
               PROVE  /\ WithinSamples(timer, rtt)
                      /\ ~Unseeded(timer) => BaseRTO(timer) <= rtt + Larger(4 * rtt, MinRTO)
    BY DEF Bounded
  <2>1. WithinSamples(timer, rtt)
    BY DEF Inv, Highest
  <2>2. ASSUME ~Unseeded(timer)
        PROVE  BaseRTO(timer) <= rtt + Larger(4 * rtt, MinRTO)
    BY <2>1, <2>2, TimerAssumption, SamplesAssumption
       DEF Inv, TypeOK, WithinSamples, BaseRTO, Larger
  <2> QED
    BY <2>1, <2>2
<1> QED
  BY <1>1, InvAlways, PTL

(***************************************************************************)
(* A seeded timer stays seeded: the zero that marks a new timer never comes *)
(* back.                                                                   *)
(***************************************************************************)
THEOREM SeededForGood == Spec => StaysSeeded
<1>1. Inv /\ [Next]_vars => [~Unseeded(timer) => ~Unseeded(timer')]_vars
  <2> SUFFICES ASSUME Inv, Next, ~Unseeded(timer)
               PROVE  ~Unseeded(timer')
    OBVIOUS
  <2>1. timer \in Timer /\ seq_acked \in SeqNum /\ seq_next \in SeqNum /\ Seeded(timer)
    BY DEF Inv, TypeOK, Timer
  <2>2. ASSUME NEW d \in 1 .. MaxAdvance, Transmit(d)
        PROVE  ~Unseeded(timer')
    BY <2>2 DEF Transmit
  <2>3. ASSUME NEW d \in 0 .. MaxAdvance, NEW rtt \in RTTs, Sample(d, rtt)
        PROVE  ~Unseeded(timer')
    <3>1. Inv'
      BY StepInv
    <3>2. seq_acked' \in SeqNum /\ rtt \in Nat
      BY <3>1, SamplesAssumption DEF Inv, TypeOK
    <3>3. timer' = LaterSample(timer, rtt, seq_acked', seq_next)
      BY <2>3 DEF Sample, AddSample
    <3> QED
      BY <2>1, <3>2, <3>3, LaterSampleSound
  <2> QED
    BY <2>2, <2>3 DEF Next
<1> QED
  BY <1>1, InvAlways, PTL DEF Spec, StaysSeeded
=============================================================================
