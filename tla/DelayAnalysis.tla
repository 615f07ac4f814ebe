---------------------------- MODULE DelayAnalysis ----------------------------
(***************************************************************************)
(* What the tool makes of a finished endpoint (delay_analysis.cc): for the  *)
(* data packet whose ACK took longest, how much of that time was            *)
(* propagation, loss, waiting for what triggered the retransmission, and    *)
(* queueing; and the timers as they would have been without queueing.       *)
(*                                                                         *)
(* The module extends the endpoint by the estimator's list of samples, lets *)
(* it read a capture and then, at any end of the file, makes the calls of    *)
(* the main loop (analyze_latency.cc) in any number.  The linear fits are    *)
(* exact rationals where the code has doubles: an intercept or a slope is   *)
(* kept as a numerator over the denominator of the fit, a correlation as    *)
(* its square.                                                             *)
(* An operator X_fault is a faulty variant of X for the runs.               *)
(***************************************************************************)
EXTENDS TcpEndpoint

CONSTANTS NumSamples, \* RTT samples around a packet that a fit may use (60)
          WordSize,   \* 2^32, for the delays that are subtracted from each other
          RateUnit,   \* kBytesPerMicrosecondInBitsPerSecond
          MaxSeqs,    \* arguments of AnalyzeTailLatency, 0 for no limit
          SeqLists    \* arguments of GetTimerEstimates

ASSUME AnalysisAssumption ==
    /\ NumSamples \in Nat \ {0, 1} /\ WordSize \in Nat \ {0} /\ RateUnit \in Nat \ {0}
    /\ MaxSeqs \subseteq SeqNum /\ SeqLists \subseteq Seq(SeqNum) \ {<< >>}

VARIABLES
    samples,           \* samples_ of the endpoint's timer: [packet, rtt, acked, next]
    phase,             \* "capture", "analysis", or "endless": a call never returns
    called,            \* what AnalyzeTailLatency was last called with, -1: not yet
    worst_packet, tail_latency, fit, correlation, no_queue_timeouts,
    estimates          \* the last result of GetTimerEstimates

resultVars == <<called, worst_packet, tail_latency, fit, correlation,
                no_queue_timeouts, estimates>>
analysisVars == <<vars, samples, phase, resultVars>>

-----------------------------------------------------------------------------
(***************************************************************************)
(* The captures that are analyzed carry data in one direction only: what    *)
(* the trigger of a retransmission is, this endpoint has found.  Where the   *)
(* other one also sends, it may have put a packet of its own there           *)
(* (PeerSide of TcpEndpoint), and the code goes on with the delays and lines *)
(* of that packet, which only the other endpoint keeps.  (A handshake does   *)
(* not matter: the analysis reads triggers of retransmissions and of         *)
(* received ACKs, and the latter are this endpoint's.)                      *)
(***************************************************************************)
OneWay == peer_trigger' = Append(peer_trigger, 0)

-----------------------------------------------------------------------------
(***************************************************************************)
(* The samples, as TcpTimer::AddSample keeps them: of packets acked in this *)
(* step and not retransmitted, in the order in which they were handled.     *)
(***************************************************************************)
InOrder(ids) == FoldInOrder(LAMBDA i, list : Append(list, i), << >>, ids)

Sample_acked_before(i) ==
    [packet |-> i, rtt |-> delays'[i].ack, acked |-> seq_acked, next |-> seq_next']

Sample(i) ==
    [packet |-> i, rtt |-> delays'[i].ack, acked |-> seq_acked', next |-> seq_next']

NoteSamples ==
    LET sampled == { i \in Own : ack_packet[i] = 0 /\ ack_packet'[i] # 0
                               /\ previous_tx[i] = 0 /\ rtx[i] = 0 }
    IN  samples' = FoldInOrder(LAMBDA i, list : Append(list, Sample(i)), samples, sampled)

Replayed(list) == FoldLeft(LAMBDA tm, s : AddSample(tm, s.rtt, s.acked, s.next), NewTimer, list)

-----------------------------------------------------------------------------
(***************************************************************************)
(* Packets as the analysis sees them.                                      *)
(***************************************************************************)
Lost(i) == IsLost(i, rtx, marks)
RelativeSeq(i) == SeqMinus(pkts[i].seq, seq_init)

\* Packets cut from one captured packet lie next to each other without time between
\* them.  Copies have no index of their own: index_ stays 0.
IsCopy(i) ==
    \E j \in Own \ {i} :
        /\ pkts[i].len > 0 /\ pkts[j].len > 0 /\ pkts[i].ts = pkts[j].ts
        /\ \/ j = i - 1 /\ pkts[i].seq = SeqEnd(pkts[j])
           \/ j = i + 1 /\ pkts[j].seq = SeqEnd(pkts[i])

Index(i) == IF i \in Own /\ IsCopy(i) THEN 0 ELSE i - 1

\* The transmission that was not lost.
LastTx(i) ==
    LET last[j \in Ids] == IF Lost(j) THEN last[rtx[j]] ELSE j
    IN  last[i]

-----------------------------------------------------------------------------
(***************************************************************************)
(* The linear fits.                                                        *)
(***************************************************************************)
Usable == { i \in Own : ~Lost(i) /\ "out_of_order" \notin marks[i] /\ delays[i].ack # 0 }

FirstOf(n, ids) == SubSeq(InOrder(ids), 1, Smaller(n, Cardinality(ids)))
LastOf(n, ids) == SubSeq(InOrder(ids), Cardinality(ids) - Smaller(n, Cardinality(ids)) + 1,
                         Cardinality(ids))

\* GetUnackedBytesRttPairs and GetUnackedBytesRttPairsAroundPacket.  The search for
\* packets behind the target starts at the target, which counts twice.
AllPairs == InOrder(Usable)

PairsBefore(target, max_distance) == LastOf(max_distance, { i \in Usable : i <= target })

PairsAround(target) ==
    LET half == NumSamples \div 2
        before == PairsBefore(target, half)
    IN  IF before = << >> THEN << >>
        ELSE before \o FirstOf(half, { i \in Usable : i >= target })

SumOf(f) == FoldInOrder(LAMBDA k, sum : sum + f[k], 0, DOMAIN f)

\* Least squares: the slope is cov / varx, the intercept (sy varx - cov sx) / (n varx).
FitOf(n, sx, sy, sxx, syy, sxy) ==
    LET varx == n * sxx - sx * sx
        vary == n * syy - sy * sy
        cov  == n * sxy - sx * sy
    IN  [c_0 |-> sy * varx - cov * sx, c_1 |-> n * cov, den |-> n * varx,
         corr |-> [num |-> cov * cov, den |-> varx * vary]]

LinearFit(ids) ==
    LET x == [k \in DOMAIN ids |-> sent[ids[k]].unacked_bytes]
        y == [k \in DOMAIN ids |-> delays[ids[k]].ack]
        product(f, g) == SumOf([k \in DOMAIN ids |-> f[k] * g[k]])
    IN  FitOf(Len(ids), SumOf(x), SumOf(y), product(x, x), product(y, y), product(x, y))

NoFit == [c_0 |-> 0, c_1 |-> 0, den |-> 1]
NoCorrelation == [num |-> -1, den |-> 1]

\* Fractions are compared by their continued fractions: products would not fit.
Fraction == [num : Int, den : Nat \ {0}]

LessThan(p, q) ==
    LET less[a \in Fraction, b \in Fraction] ==
            IF a.num \div a.den # b.num \div b.den THEN a.num \div a.den < b.num \div b.den
            ELSE IF b.num % b.den = 0 THEN FALSE
            ELSE IF a.num % a.den = 0 THEN TRUE
            ELSE less[[num |-> b.den, den |-> b.num % b.den],
                      [num |-> a.den, den |-> a.num % a.den]]
    IN  less[p, q]

\* The squares of kMinUnackedBytesRttCorrelation.
MinCorrelation == [num |-> 1, den |-> 4]

\* CalculateRttLinearFit: the best of three sets of samples, if its slope is positive
\* and it is better than what is there.
TryFit(best, ids) ==
    LET current == LinearFit(ids)
    IN  IF ids # << >> /\ current.c_1 > 0 /\ LessThan(best.correlation, current.corr)
        THEN [found |-> TRUE, correlation |-> current.corr,
              fit |-> [c_0 |-> current.c_0, c_1 |-> current.c_1, den |-> current.den]]
        ELSE best

CalculateRttLinearFit(i, old_fit, old_correlation) ==
    LET none == [found |-> FALSE, correlation |-> old_correlation, fit |-> old_fit]
    IN  TryFit(TryFit(TryFit(none, AllPairs), PairsAround(i)), PairsBefore(i, NumSamples))

\* GetQueueingDelay: what the fit expects for the bytes in flight before the packet,
\* less the larger one of the intercept and the propagation delay, rounded down.
GetQueueingDelay(i, f, propagation) ==
    LET before == sent[i].unacked_bytes - pkts[i].len
        expected == f.c_0 + f.c_1 * before
        floor == Larger(f.c_0, propagation * f.den)
    IN  IF before <= 0 \/ expected <= floor THEN 0 ELSE (expected - floor) \div f.den

-----------------------------------------------------------------------------
(***************************************************************************)
(* Queue-free timeouts: the samples less their queueing delay, where that   *)
(* leaves anything, in a timer of their own.  q is the function from        *)
(* packets to queueing delays.                                             *)
(***************************************************************************)
WithoutQueueing(list, q) ==
    LET keep(kept, s) == IF s.rtt > q[s.packet]
                         THEN Append(kept, [s EXCEPT !.rtt = @ - q[s.packet]]) ELSE kept
    IN  FoldLeft(keep, << >>, list)

AckIndex(s) == Index(ack_packet[s.packet])

ComputeQueueFreeTimeouts(q) ==
    LET list == WithoutQueueing(samples, q)
        timer_at(k) == Replayed(SubSeq(list, 1, k))
    IN  [k \in DOMAIN list |->
            [index |-> AckIndex(list[k]), rto |-> GetRTO(timer_at(k), 0),
             tlp |-> GetTLP(timer_at(k), FALSE), delayed_tlp |-> GetTLP(timer_at(k), TRUE)]]

\* GetQueueFreeTimeouts looks at the probe before the timeout, its callers the other
\* way round; the last entry below the index of the packet that armed the timer counts.
NoTimeouts == [index |-> 0, rto |-> 0, tlp |-> 0, delayed_tlp |-> 0]

GetQueueFreeTimeouts(i, timeouts) ==
    LET armer == IF "tlp" \in marks[i] THEN sent[i].tlp_info.armed_by
                 ELSE sent[i].rto_info.armed_by
        below == { k \in DOMAIN timeouts : armer # 0 /\ timeouts[k].index < Index(armer) }
    IN  IF below = {} THEN NoTimeouts ELSE timeouts[Max(below)]

NoQueueTimeout(i, timeouts) ==
    LET found == GetQueueFreeTimeouts(i, timeouts)
    IN  IF "rto" \in marks[i] THEN AdjustRTOForBackoff(found.rto, sent[i].rto_info.backoffs)
        ELSE IF "tlp" \notin marks[i] THEN 0
        ELSE IF sent[i].tlp_info.delayed_ack THEN found.delayed_tlp ELSE found.tlp

ActualTimeout(i) ==
    IF "rto" \in marks[i] THEN sent[i].rto_info.delay
    ELSE IF "tlp" \in marks[i] THEN sent[i].tlp_info.delay ELSE 0

GetArmingTimerDelay(i, q) ==
    LET armer == IF "rto" \in marks[i] THEN sent[i].rto_info.armed_by
                 ELSE IF "tlp" \in marks[i] THEN sent[i].tlp_info.armed_by ELSE 0
    IN  IF armer = 0 THEN 0
        ELSE IF pkts[armer].out \/ trigger[armer] = 0 THEN 0
        ELSE q[trigger[armer]]

-----------------------------------------------------------------------------
(***************************************************************************)
(* GetTriggerDelay: from the transmission that arrived back to the first    *)
(* one, or to one that an ACK triggered.                                   *)
(***************************************************************************)
NoTrigger == [no_queue |-> 0, timeout |-> 0, arms |-> 0, triggers |-> 0, for_trigger |-> 0,
              endless |-> FALSE]

Total(b) == b.timeout + b.arms + b.triggers + b.for_trigger

SlowStartTrigger_own_line(j) == first_tx[j]
SlowStartTrigger(j) == first_tx[trigger[j]]

\* The retransmissions of the line, the latest one that an ACK triggered, and those
\* after it, which timers sent.
RtxsOf(i) == { j \in Line(LastTx(i)) : previous_tx[j] # 0 }
Cause(i) == Max({0} \cup { j \in RtxsOf(i) : trigger[j] # 0 })
TimedOf(i) == { j \in RtxsOf(i) : j > Cause(i) }

Excess(j, timeouts) ==
    LET free == NoQueueTimeout(j, timeouts)
    IN  IF free # 0 THEN Larger(ActualTimeout(j) - free, 0) ELSE 0

OwnDelay(i, q, timeouts) ==
    [no_queue |-> SumOf([j \in TimedOf(i) |-> NoQueueTimeout(j, timeouts)]),
     timeout |-> SumOf([j \in TimedOf(i) |-> Excess(j, timeouts)]),
     arms |-> SumOf([j \in TimedOf(i) |-> GetArmingTimerDelay(j, q)]),
     triggers |-> IF Cause(i) = 0 THEN 0 ELSE q[trigger[Cause(i)]],
     for_trigger |-> 0, endless |-> FALSE]

\* A call that comes back to itself never returns: calls bounds the depth that can be
\* reached without that.  deeper tells what calls for other packets give.
TriggerDelay(i, q, timeouts, calls, deeper) ==
    LET again == deeper[SlowStartTrigger(Cause(i))]
    IN  IF ~Lost(i) THEN NoTrigger
        ELSE IF calls = 0 THEN [NoTrigger EXCEPT !.endless = TRUE]
        ELSE IF Cause(i) # 0 /\ "slow_start" \in marks[Cause(i)]
        THEN [OwnDelay(i, q, timeouts) EXCEPT !.for_trigger = Total(again),
                                              !.endless = again.endless]
        ELSE OwnDelay(i, q, timeouts)

GetTriggerDelay(i, q, timeouts) ==
    LET delay[calls \in 0 .. Len(pkts)] ==
            [k \in Ids |-> TriggerDelay(k, q, timeouts, calls, delay[calls - 1])]
    IN  delay[Len(pkts)][i]

-----------------------------------------------------------------------------
(***************************************************************************)
(* AnalyzeTailLatency.                                                     *)
(***************************************************************************)
NoTail == [overall |-> 0, propagation |-> 0, loss |-> 0, time_to_first_rtx |-> 0,
           loss_trigger |-> 0, breakdown |-> NoTrigger, queueing |-> 0, other |-> 0,
           goodput |-> 0, bytes_acked |-> 0, buffered |-> 0, unacked |-> 0]

\* The data packets looked at: the search ends at the first packet beyond the limit.
Candidates(max) ==
    LET beyond == { i \in Own : max # 0 /\ After(RelativeSeq(i), max) }
    IN  { i \in Own : pkts[i].len > 0 /\ \A j \in beyond : i < j }

WorstOf(ids) ==
    IF ids = {} THEN 0
    ELSE Min({ i \in ids : \A j \in ids : delays[j].ack <= delays[i].ack })

\* ComputeGoodputMetrics: the largest amount that is needed at an ACK before the one
\* of the packet itself, if data is consumed at the rate achieved so far.
BufferNeeded_at_the_end(sent_at, acked, acks, goodput) ==
    LET consume(b, a) ==
            LET needed == b.needed + ((a.ts - b.ts) * goodput) \div RateUnit
                moved == After(a.ack, b.ack)
            IN  [needed |-> IF moved THEN needed - SeqMinus(a.ack, b.ack) ELSE needed,
                 max |-> Larger(0, needed), ts |-> a.ts,
                 ack |-> IF moved THEN a.ack ELSE b.ack]
    IN  FoldLeft(consume, [needed |-> 0, max |-> 0, ts |-> sent_at, ack |-> acked], acks).max

BufferNeeded(sent_at, acked, acks, goodput) ==
    LET consume(b, a) ==
            LET needed == b.needed + ((a.ts - b.ts) * goodput) \div RateUnit
                moved == After(a.ack, b.ack)
            IN  [needed |-> IF moved THEN needed - SeqMinus(a.ack, b.ack) ELSE needed,
                 max |-> Larger(b.max, needed), ts |-> a.ts,
                 ack |-> IF moved THEN a.ack ELSE b.ack]
    IN  FoldLeft(consume, [needed |-> 0, max |-> 0, ts |-> sent_at, ack |-> acked], acks).max

AcksUntil(w) == { a \in Ids \ Own : sent[w].last_ack < a /\ a < ack_packet[w] }

PacketsAt(ids) ==
    LET order == InOrder(ids)
    IN  [k \in DOMAIN order |-> pkts[order[k]]]

WithGoodput(t, first, w) ==
    LET elapsed == pkts[w].ts - pkts[first].ts
        goodput == (sent[w].acked_bytes * RateUnit) \div elapsed
    IN  IF elapsed = 0 THEN t
        ELSE [t EXCEPT !.bytes_acked = sent[w].acked_bytes, !.goodput = goodput,
                       !.buffered = IF sent[w].last_ack = 0 \/ ack_packet[w] = 0 THEN 0
                                    ELSE BufferNeeded(pkts[w].ts, pkts[sent[w].last_ack].ack,
                                                      PacketsAt(AcksUntil(w)), goodput)]

Minus_signed(a, b) == a - b
Minus(a, b) == (a - b) % WordSize

\* The constraints, in the order and the arithmetic of the code: queueing fits between
\* loss and propagation; what a timeout takes without queueing, and the way of a late
\* ACK, is loss and no trigger delay.
Constrained_queueing_kept(t) == t

Constrained(t) ==
    [t EXCEPT !.queueing = Smaller(@, Minus(Minus(t.overall, t.loss), t.propagation))]

Attributed(t) ==
    LET late == t.breakdown.arms # 0 \/ t.breakdown.triggers # 0
        base == t.breakdown.no_queue + IF late THEN t.propagation ELSE 0
        pure == Larger(t.loss - t.loss_trigger, 0)
    IN  IF pure < base
        THEN [t EXCEPT !.loss = base, !.loss_trigger = Minus(@, base - pure)]
        ELSE [t EXCEPT !.loss = pure]

SetOtherDelay(t) ==
    LET all == (t.propagation + t.loss + t.loss_trigger + t.queueing) % WordSize
    IN  [t EXCEPT !.other = Larger(t.overall - all, 0)]

QueueingDelays(f, propagation) == [i \in Own |-> GetQueueingDelay(i, f, propagation)]

\* The worst packet's delay and what of it follows from the endpoint alone.
Measured(first, w) ==
    LET t == WithGoodput([NoTail EXCEPT !.unacked = sent[w].unacked_bytes,
                                        !.overall = delays[w].ack], first, w)
        base == [t EXCEPT !.propagation = min_rtt]
    IN  IF t.overall = 0 THEN t
        ELSE IF Lost(w)
        THEN [base EXCEPT !.loss = delays[w].final,
                          !.time_to_first_rtx = pkts[rtx[w]].ts - pkts[w].ts]
        ELSE base

\* Clear, which leaves the fit and the queue-free timeouts.
Cleared_old_correlation == correlation
Cleared == NoCorrelation

\* The queue-free timeouts are computed once, if a packet's loss asks for them.
TimeoutTable(w, q) ==
    IF Lost(w) /\ no_queue_timeouts = << >> THEN ComputeQueueFreeTimeouts(q)
    ELSE no_queue_timeouts

\* What the fit adds, if it is good enough: queueing, and the trigger of a lost packet.
WithBreakdown(t, b) == [t EXCEPT !.breakdown = b, !.loss_trigger = Total(b)]

WithFit(w, t, best, q, table) ==
    IF best.found /\ LessThan(MinCorrelation, best.correlation)
    THEN [tail |-> WithBreakdown([t EXCEPT !.queueing = q[LastTx(w)]],
                                 GetTriggerDelay(w, q, table)),
          timeouts |-> table]
    ELSE [tail |-> t, timeouts |-> no_queue_timeouts]

\* What a call leaves in the object.  Without a packet or a delay it stops early.
Finished(w, best, r) ==
    [worst |-> w, tail |-> SetOtherDelay(Attributed(Constrained(r.tail))), fit |-> best.fit,
     correlation |-> best.correlation, timeouts |-> r.timeouts]

BrokenDown(w, t, best, q) == Finished(w, best, WithFit(w, t, best, q, TimeoutTable(w, q)))

AnalyzedWith(w, t, best) ==
    IF w = 0 \/ t.overall = 0
    THEN [worst |-> w, tail |-> t, fit |-> fit, correlation |-> Cleared,
          timeouts |-> no_queue_timeouts]
    ELSE BrokenDown(w, t, best, QueueingDelays(best.fit, min_rtt))

Analyzed(w, ids) ==
    AnalyzedWith(w, IF w = 0 THEN NoTail ELSE Measured(Min(ids), w),
                 CalculateRttLinearFit(w, fit, Cleared))

TailLatency(max) == Analyzed(WorstOf(Candidates(max)), Candidates(max))

AnalyzeTailLatency(max) ==
    /\ phase = "analysis"
    /\ called' = max
    /\ \E result \in {TailLatency(max)} :
          /\ worst_packet' = result.worst
          /\ tail_latency' = result.tail
          /\ fit' = result.fit
          /\ correlation' = result.correlation
          /\ no_queue_timeouts' = result.timeouts
          /\ phase' = IF result.tail.breakdown.endless THEN "endless" ELSE phase
    /\ UNCHANGED <<vars, samples, estimates>>

-----------------------------------------------------------------------------
(***************************************************************************)
(* GetTimerEstimates: one pass over the packets, which takes in the samples *)
(* on its way and stops for each of the sequence numbers.  taken is how     *)
(* many samples were taken in; an estimate remembers its packet.            *)
(***************************************************************************)
Taken_one_at_a_time(i, taken) ==
    IF taken < Len(samples) /\ AckIndex(samples[taken + 1]) < Index(i)
    THEN taken + 1 ELSE taken

Taken(i, taken) ==
    Max({ m \in taken .. Len(samples) :
            \A k \in taken + 1 .. m : AckIndex(samples[k]) < Index(i) })

QueueFreeTimer(list, q) == Replayed(WithoutQueueing(list, q))

EstimateAt(i, seq, tm) ==
    [packet |-> i, seq |-> seq, rto |-> sent[i].rto_estimate, tlp |-> sent[i].tlp_estimate,
     tlp_delayed |-> sent[i].tlp_delayed_ack_estimate,
     queue_free_rto |-> GetRTO(tm, 0), queue_free_tlp |-> GetTLP(tm, FALSE),
     queue_free_tlp_delayed |-> GetTLP(tm, TRUE)]

NoEstimate == [packet |-> 0, seq |-> 0, rto |-> 0, tlp |-> 0, tlp_delayed |-> 0,
               queue_free_rto |-> 0, queue_free_tlp |-> 0, queue_free_tlp_delayed |-> 0]

EstimatesFor(seqs, q) ==
    LET Visit(v, i) ==
            LET taken == Taken(i, v.taken)
                seq == seqs[Len(v.list) + 1]
                tm == QueueFreeTimer(SubSeq(samples, 1, taken), q)
            IN  IF Len(v.list) = Len(seqs) THEN v
                ELSE IF Before(RelativeSeq(i), seq) THEN [v EXCEPT !.taken = taken]
                ELSE [taken |-> taken, list |-> Append(v.list, EstimateAt(i, seq, tm))]
        found == FoldLeft(Visit, [taken |-> 0, list |-> << >>], InOrder(Own)).list
    IN  found \o [k \in 1 .. Len(seqs) - Len(found) |-> NoEstimate]

\* A fit that the analysis has found is used whatever its correlation is; only one
\* that is looked for here has to be good enough.
TimerEstimates(seqs) ==
    LET missing == correlation = NoCorrelation
        best    == CalculateRttLinearFit(worst_packet, fit, correlation)
        refit   == worst_packet # 0 /\ missing
        useless == missing /\ (~best.found \/ LessThan(best.correlation, MinCorrelation))
        none    == worst_packet = 0 \/ useless \/ samples = << >>
        f       == IF refit THEN best.fit ELSE fit
    IN  [fit |-> f, correlation |-> IF refit THEN best.correlation ELSE correlation,
         list |-> IF none THEN << >>
                  ELSE EstimatesFor(seqs, QueueingDelays(f, tail_latency.propagation))]

GetTimerEstimates(seqs) ==
    /\ phase = "analysis"
    /\ \E result \in {TimerEstimates(seqs)} :
          /\ fit' = result.fit
          /\ correlation' = result.correlation
          /\ estimates' = result.list
    /\ UNCHANGED <<vars, samples, phase, called, worst_packet, tail_latency,
                   no_queue_timeouts>>

-----------------------------------------------------------------------------
AnalysisInit ==
    /\ Init
    /\ samples = << >> /\ phase = "capture" /\ called = -1
    /\ worst_packet = 0 /\ tail_latency = NoTail /\ fit = NoFit
    /\ correlation = NoCorrelation
    /\ no_queue_timeouts = << >> /\ estimates = << >>

CapturePacket ==
    /\ phase = "capture"
    /\ Next /\ OneWay
    /\ NoteSamples
    /\ UNCHANGED <<phase, resultVars>>

\* The file ends anywhere.  A direction is analyzed if both endpoints were seen and
\* the sender is not bogus.
EndOfCapture ==
    /\ phase = "capture"
    /\ ~is_bogus /\ Own # {} /\ Own # Ids
    /\ phase' = "analysis"
    /\ UNCHANGED <<vars, samples, resultVars>>

Analyze ==
    \/ \E max \in MaxSeqs : AnalyzeTailLatency(max)
    \/ \E seqs \in SeqLists : GetTimerEstimates(seqs)

AnalysisNext == CapturePacket \/ EndOfCapture \/ Analyze

AnalysisSpec == AnalysisInit /\ [][AnalysisNext]_analysisVars

-----------------------------------------------------------------------------
AnalysisTypeOK ==
    /\ samples \in Seq([packet : Own, rtt : Nat, acked : SeqNum, next : SeqNum])
    /\ phase \in {"capture", "analysis", "endless"} /\ called \in MaxSeqs \cup {-1}
    /\ worst_packet \in Own \cup {0}
    /\ DOMAIN tail_latency = DOMAIN NoTail
    /\ \A part \in DOMAIN NoTail \ {"breakdown"} : tail_latency[part] \in Nat
    /\ \A part \in DOMAIN NoTrigger \ {"endless"} : tail_latency.breakdown[part] \in Nat
    /\ fit.den \in Nat \ {0} /\ fit.c_0 \in Int /\ fit.c_1 \in Nat
    /\ correlation = NoCorrelation \/ correlation.num <= correlation.den
    /\ no_queue_timeouts \in Seq([index : Nat, rto : Nat, tlp : Nat, delayed_tlp : Nat])
    /\ estimates \in Seq([DOMAIN NoEstimate -> Nat])

(***************************************************************************)
(* The list of samples holds what is "necessary ... to recompute the RTO    *)
(* timer for a connection without analyzing packets again"                  *)
(* (tcp_timer.h:10), after ties of packets in retrospect as well.           *)
(***************************************************************************)
SamplesReplay == Replayed(samples) = timer

\* The samples are listed in the order of the ACKs that gave them.
InAckOrder ==
    \A k, m \in DOMAIN samples : k <= m => AckIndex(samples[k]) <= AckIndex(samples[m])

\* An estimate rests on all samples whose ACKs were captured before its packet and on no
\* other, less their queueing delays by the fit f.
UpToDate(estimate, f) ==
    LET i == estimate.packet
        earlier == { k \in DOMAIN samples : ack_packet[samples[k].packet] < i }
        q == QueueingDelays(f, tail_latency.propagation)
        tm == QueueFreeTimer(SubSeq(samples, 1, Cardinality(earlier)), q)
    IN  i # 0 /\ ~IsCopy(i) /\ InAckOrder => estimate = EstimateAt(i, estimate.seq, tm)

(***************************************************************************)
(* Where samples came in the order of their ACKs, the queue-free timers     *)
(* reported with a packet are up to date, however many packets the pass     *)
(* has skipped before.  Copies have no place in the capture and are left    *)
(* out.                                                                    *)
(***************************************************************************)
EstimatesUpToDate ==
    [][\A seqs \in SeqLists : GetTimerEstimates(seqs)
           => \A k \in DOMAIN estimates' : UpToDate(estimates'[k], fit')]_analysisVars

(***************************************************************************)
(* "Delay combinations cannot exceed overall delay" (delay_analysis.cc:179): *)
(* as long as the loss delay leaves room for propagation and covers what     *)
(* the trigger and the timeouts take, and the ACK came within a word of      *)
(* time, the parts add up to the overall delay exactly, whatever was moved   *)
(* between them.                                                           *)
(***************************************************************************)
DelaysAddUp ==
    LET t == tail_latency
        loss == IF worst_packet # 0 /\ Lost(worst_packet) THEN delays[worst_packet].final ELSE 0
        late == t.breakdown.arms # 0 \/ t.breakdown.triggers # 0
        base == t.breakdown.no_queue + IF late THEN t.propagation ELSE 0
    IN  /\ loss + t.propagation <= t.overall /\ Total(t.breakdown) <= loss /\ base <= loss
        /\ t.overall < WordSize
        => t.propagation + t.loss + t.loss_trigger + t.queueing + t.other = t.overall

(***************************************************************************)
(* The propagation delay is no more than the overall delay                  *)
(* (test_latency.cc:29), although the one is the smallest delay of any       *)
(* packet that was not a retransmission and the other the largest one of    *)
(* the data packets looked at: as long as one of these was not a            *)
(* retransmission itself and was acked.                                    *)
(***************************************************************************)
PropagationWithin ==
    LET settled == { i \in Own : ack_packet[i] # 0 /\ previous_tx[i] = 0 }
    IN  /\ \A i \in settled : delays[i].ack # 0
        /\ \E i \in settled : i \in Candidates(called)
        => tail_latency.propagation <= tail_latency.overall

(***************************************************************************)
(* GetTriggerDelay returns unless a slow-start retransmission was triggered *)
(* by a line that was still being retransmitted at that time or later:      *)
(* recursion always moves to an earlier last transmission otherwise.  This   *)
(* is of data in one direction: a trigger that the other endpoint has put    *)
(* there takes the recursion into that one's lines (OneWay).                *)
(***************************************************************************)
EndlessOnlyIntoLaterLine ==
    phase = "endless" =>
        \E i \in Own : /\ "slow_start" \in marks[i] /\ trigger[i] # 0
                       /\ Lost(first_tx[trigger[i]]) /\ LastTx(first_tx[trigger[i]]) >= i

(***************************************************************************)
(* The analysis of a flow can be repeated: a call like the one before it    *)
(* gives the same delays, although it starts from the fit and the queue-    *)
(* free timeouts that one has left.                                        *)
(***************************************************************************)
RepeatedCallsAgree == [][called' = called => tail_latency' = tail_latency]_analysisVars

(***************************************************************************)
(* With bytes_needed_buffered_ bytes in store, consumption at the rate      *)
(* achieved before the worst packet never runs dry at an ACK that arrives   *)
(* while the packet is outstanding (delay_analysis.cc:232), except for what  *)
(* rounding down takes from each interval between ACKs.                     *)
(***************************************************************************)
BufferSuffices ==
    LET w == worst_packet
        got(a) == Max({0} \cup { SeqMinus(pkts[b].ack, pkts[sent[w].last_ack].ack) :
                        b \in { b \in AcksUntil(w) : b < a /\ After(pkts[b].ack,
                                                     pkts[sent[w].last_ack].ack) } })
        rounding(a) == Cardinality({ b \in AcksUntil(w) : b <= a }) * RateUnit
    IN  w # 0 =>
            \A a \in IF sent[w].last_ack = 0 THEN {} ELSE AcksUntil(w) :
                (tail_latency.buffered + got(a)) * RateUnit + rounding(a)
                    >= (pkts[a].ts - pkts[w].ts) * tail_latency.goodput
=============================================================================
