------------------------- MODULE DelayAnalysisProofs -------------------------
(***************************************************************************)
(* Theorems on the delay analysis, for every capture, every argument and    *)
(* any number of calls.                                                    *)
(***************************************************************************)
EXTENDS DelayAnalysis, TcpEndpointProofs

(***************************************************************************)
(* The analysis reads the endpoint only: as long as no packet is captured,  *)
(* what it makes of a packet or of a list of packets stays the same.        *)
(***************************************************************************)
NothingCaptured == UNCHANGED <<vars, samples>>

LEMMA SamePackets ==
    ASSUME NothingCaptured
    PROVE  /\ Ids' = Ids /\ Own' = Own
           /\ \A i : Lost(i)' = Lost(i) /\ RelativeSeq(i)' = RelativeSeq(i)
           /\ \A i : IsCopy(i)' = IsCopy(i)
<1>1. /\ pkts' = pkts /\ rtx' = rtx /\ marks' = marks /\ seq_init' = seq_init
  BY DEF NothingCaptured, vars, linkVars, noteVars, seqVars
<1>2. Ids' = Ids /\ Own' = Own
  BY <1>1 DEF Ids, Own
<1>3. \A i : Lost(i)' = Lost(i) /\ RelativeSeq(i)' = RelativeSeq(i)
  BY <1>1 DEF Lost, RelativeSeq, IsLost
<1>4. \A i : IsCopy(i)' = IsCopy(i)
  BY <1>1, <1>2 DEF IsCopy
<1> QED BY <1>2, <1>3, <1>4

LEMMA SameLinks ==
    ASSUME NothingCaptured
    PROVE  /\ \A i : Index(i)' = Index(i)
           /\ \A i : LastTx(i)' = LastTx(i)
           /\ \A i : Line(i)' = Line(i)
           /\ \A s : AckIndex(s)' = AckIndex(s)
           /\ \A i : SlowStartTrigger(i)' = SlowStartTrigger(i)
<1>1. /\ pkts' = pkts /\ rtx' = rtx /\ previous_tx' = previous_tx /\ first_tx' = first_tx
      /\ trigger' = trigger /\ ack_packet' = ack_packet
  BY DEF NothingCaptured, vars, linkVars, noteVars, seqVars
<1>2. \A i : Index(i)' = Index(i)
  BY SamePackets DEF Index
<1>3. \A i : LastTx(i)' = LastTx(i)
  BY <1>1, SamePackets DEF LastTx
<1>4. \A i : Line(i)' = Line(i)
  BY <1>1, SamePackets DEF Line
<1>5. \A s : AckIndex(s)' = AckIndex(s)
  BY <1>1, <1>2 DEF AckIndex
<1>6. \A i : SlowStartTrigger(i)' = SlowStartTrigger(i)
  BY <1>1 DEF SlowStartTrigger
<1> QED BY <1>2, <1>3, <1>4, <1>5, <1>6

LEMMA SamePairs ==
    ASSUME NothingCaptured
    PROVE  /\ AllPairs' = AllPairs
           /\ \A i : PairsAround(i)' = PairsAround(i)
           /\ \A i : PairsBefore(i, NumSamples)' = PairsBefore(i, NumSamples)
           /\ \A ids : LinearFit(ids)' = LinearFit(ids)
<1>1. /\ pkts' = pkts /\ marks' = marks /\ delays' = delays /\ sent' = sent
  BY DEF NothingCaptured, vars, linkVars, noteVars, seqVars
<1>2. Usable' = Usable
  BY <1>1, SamePackets DEF Usable
<1>3. AllPairs' = AllPairs
  BY <1>2 DEF AllPairs
<1>4. \A i, n : PairsBefore(i, n)' = PairsBefore(i, n)
  BY <1>2 DEF PairsBefore
<1>5. \A i : PairsAround(i)' = PairsAround(i)
  BY <1>2, <1>4 DEF PairsAround
<1>6. \A ids : LinearFit(ids)' = LinearFit(ids)
  BY <1>1 DEF LinearFit, FitOf
<1> QED BY <1>3, <1>4, <1>5, <1>6

LEMMA SameDelays ==
    ASSUME NothingCaptured
    PROVE  /\ \A i, f, p : GetQueueingDelay(i, f, p)' = GetQueueingDelay(i, f, p)
           /\ \A f, p : QueueingDelays(f, p)' = QueueingDelays(f, p)
           /\ \A i, t : GetQueueFreeTimeouts(i, t)' = GetQueueFreeTimeouts(i, t)
           /\ \A i, t : NoQueueTimeout(i, t)' = NoQueueTimeout(i, t)
           /\ \A i : ActualTimeout(i)' = ActualTimeout(i)
           /\ \A i, q : GetArmingTimerDelay(i, q)' = GetArmingTimerDelay(i, q)
           /\ \A q : ComputeQueueFreeTimeouts(q)' = ComputeQueueFreeTimeouts(q)
<1>1. /\ pkts' = pkts /\ marks' = marks /\ delays' = delays /\ sent' = sent
      /\ trigger' = trigger /\ samples' = samples
  BY DEF NothingCaptured, vars, linkVars, noteVars, seqVars
<1>2. \A i, f, p : GetQueueingDelay(i, f, p)' = GetQueueingDelay(i, f, p)
  BY <1>1 DEF GetQueueingDelay
<1>3. \A f, p : QueueingDelays(f, p)' = QueueingDelays(f, p)
  BY <1>2, SamePackets DEF QueueingDelays
<1>4. \A i, t : GetQueueFreeTimeouts(i, t)' = GetQueueFreeTimeouts(i, t)
  <2> SUFFICES ASSUME NEW i, NEW t
               PROVE  GetQueueFreeTimeouts(i, t)' = GetQueueFreeTimeouts(i, t)
    OBVIOUS
  <2> DEFINE armer == IF "tlp" \in marks[i] THEN sent[i].tlp_info.armed_by
                      ELSE sent[i].rto_info.armed_by
             below == { k \in DOMAIN t : armer # 0 /\ t[k].index < Index(armer) }
  <2>1. armer' = armer
    BY <1>1
  <2>2. \A k : Index(k)' = Index(k)
    BY SameLinks
  <2>3. below' = below
    <3> HIDE DEF armer
    <3> QED BY <2>1, <2>2
  <2>4. GetQueueFreeTimeouts(i, t) = IF below = {} THEN NoTimeouts ELSE t[Max(below)]
    BY Zenon DEF GetQueueFreeTimeouts
  <2>5. GetQueueFreeTimeouts(i, t)' = IF below' = {} THEN NoTimeouts ELSE t[Max(below')]
    BY Zenon DEF GetQueueFreeTimeouts
  <2> HIDE DEF armer, below
  <2> QED BY <2>3, <2>4, <2>5
<1>5. \A i, t : NoQueueTimeout(i, t)' = NoQueueTimeout(i, t)
  BY <1>1, <1>4 DEF NoQueueTimeout
<1>6. \A i : ActualTimeout(i)' = ActualTimeout(i)
  BY <1>1 DEF ActualTimeout
<1>7. \A i, q : GetArmingTimerDelay(i, q)' = GetArmingTimerDelay(i, q)
  BY <1>1 DEF GetArmingTimerDelay
<1>8. \A q : ComputeQueueFreeTimeouts(q)' = ComputeQueueFreeTimeouts(q)
  BY <1>1, SameLinks DEF ComputeQueueFreeTimeouts
<1> QED BY <1>2, <1>3, <1>4, <1>5, <1>6, <1>7, <1>8

LEMMA SameTrigger ==
    ASSUME NothingCaptured
    PROVE  \A i, q, t : GetTriggerDelay(i, q, t)' = GetTriggerDelay(i, q, t)
<1>1. pkts' = pkts /\ marks' = marks /\ previous_tx' = previous_tx /\ trigger' = trigger
  BY DEF NothingCaptured, vars, linkVars, noteVars, seqVars
<1>2. \A i : RtxsOf(i)' = RtxsOf(i)
  BY <1>1, SameLinks DEF RtxsOf
<1>3. \A i : Cause(i)' = Cause(i)
  BY <1>1, <1>2 DEF Cause
<1>4. \A i : TimedOf(i)' = TimedOf(i)
  BY <1>2, <1>3 DEF TimedOf
<1>5. \A j, t : Excess(j, t)' = Excess(j, t)
  BY SameDelays DEF Excess
<1>6. \A i, q, t : OwnDelay(i, q, t)' = OwnDelay(i, q, t)
  BY <1>1, <1>3, <1>4, <1>5, SameDelays DEF OwnDelay
<1>7. \A i, q, t, n, d : TriggerDelay(i, q, t, n, d)' = TriggerDelay(i, q, t, n, d)
  <2> SUFFICES ASSUME NEW i, NEW q, NEW t, NEW n, NEW d
               PROVE  TriggerDelay(i, q, t, n, d)' = TriggerDelay(i, q, t, n, d)
    OBVIOUS
  <2>1. Cause(i)' = Cause(i) /\ OwnDelay(i, q, t)' = OwnDelay(i, q, t) /\ Lost(i)' = Lost(i)
    BY <1>3, <1>6, SamePackets
  <2>2. SlowStartTrigger(Cause(i))' = SlowStartTrigger(Cause(i))
    BY <2>1, SameLinks
  <2> QED BY <1>1, <2>1, <2>2 DEF TriggerDelay
<1> QED BY <1>1, <1>7, SamePackets, ZenonT(40) DEF GetTriggerDelay

LEMMA SameMeasure ==
    ASSUME NothingCaptured
    PROVE  /\ \A max : Candidates(max)' = Candidates(max)
           /\ \A ids : WorstOf(ids)' = WorstOf(ids)
           /\ \A first, w : Measured(first, w)' = Measured(first, w)
<1>1. /\ pkts' = pkts /\ delays' = delays /\ sent' = sent /\ rtx' = rtx
      /\ ack_packet' = ack_packet /\ min_rtt' = min_rtt
  BY DEF NothingCaptured, vars, linkVars, noteVars, seqVars, ackVars
<1>2. \A max : Candidates(max)' = Candidates(max)
  BY <1>1, SamePackets DEF Candidates
<1>3. \A ids : WorstOf(ids)' = WorstOf(ids)
  BY <1>1 DEF WorstOf
<1>4. \A w : AcksUntil(w)' = AcksUntil(w)
  BY <1>1, SamePackets DEF AcksUntil
<1>5. \A ids : PacketsAt(ids)' = PacketsAt(ids)
  BY <1>1 DEF PacketsAt
<1>6. ASSUME NEW t, NEW first, NEW w
      PROVE  WithGoodput(t, first, w)' = WithGoodput(t, first, w)
  <2>1. /\ AcksUntil(w)' = AcksUntil(w)
        /\ PacketsAt(AcksUntil(w))' = PacketsAt(AcksUntil(w))
    BY <1>4, <1>5
  <2> QED BY <1>1, <2>1, Zenon DEF WithGoodput
<1>7. \A first, w : Measured(first, w)' = Measured(first, w)
  BY <1>1, <1>6, SamePackets, ZenonT(40) DEF Measured
<1> QED BY <1>2, <1>3, <1>7

-----------------------------------------------------------------------------
(***************************************************************************)
(* Repeated calls: what is left of the last call is its fit, which counts   *)
(* only where none is found again, and its table of queue-free timeouts,    *)
(* which would be computed again from the same fit.                        *)
(***************************************************************************)
\* Two results of the search for a fit that differ in what there was before at most.
AsGood(a, b) ==
    /\ a.found \in BOOLEAN /\ a.found = b.found
    /\ a.correlation = b.correlation
    /\ a.found => a.fit = b.fit

LEMMA TriesAsGood ==
    ASSUME NEW a, NEW b, AsGood(a, b), NEW ids
    PROVE  AsGood(TryFit(a, ids), TryFit(b, ids))
<1> DEFINE current == LinearFit(ids)
           better(best) == /\ ids # << >> /\ current.c_1 > 0
                           /\ LessThan(best.correlation, current.corr)
           new == [found |-> TRUE, correlation |-> current.corr,
                   fit |-> [c_0 |-> current.c_0, c_1 |-> current.c_1, den |-> current.den]]
<1>1. \A best : TryFit(best, ids) = IF better(best) THEN new ELSE best
  BY Zenon DEF TryFit
<1>2. better(a) <=> better(b)
  BY DEF AsGood
<1>3. AsGood(new, new)
  BY DEF AsGood
<1> HIDE DEF new, better
<1> QED BY <1>1, <1>2, <1>3

LEMMA FitsAsGood ==
    ASSUME NEW i, NEW f, NEW g, NEW c
    PROVE  AsGood(CalculateRttLinearFit(i, f, c), CalculateRttLinearFit(i, g, c))
<1> DEFINE none(h) == [found |-> FALSE, correlation |-> c, fit |-> h]
<1>1. AsGood(none(f), none(g))
  BY DEF AsGood
<1>2. \A h : CalculateRttLinearFit(i, h, c) =
                TryFit(TryFit(TryFit(none(h), AllPairs), PairsAround(i)),
                       PairsBefore(i, NumSamples))
  BY Zenon DEF CalculateRttLinearFit
<1> HIDE DEF none
<1>3. AsGood(TryFit(none(f), AllPairs), TryFit(none(g), AllPairs))
  BY <1>1, TriesAsGood
<1>4. AsGood(TryFit(TryFit(none(f), AllPairs), PairsAround(i)),
             TryFit(TryFit(none(g), AllPairs), PairsAround(i)))
  BY <1>3, TriesAsGood
<1>5. AsGood(TryFit(TryFit(TryFit(none(f), AllPairs), PairsAround(i)), PairsBefore(i, NumSamples)),
             TryFit(TryFit(TryFit(none(g), AllPairs), PairsAround(i)), PairsBefore(i, NumSamples)))
  BY <1>4, TriesAsGood
<1> QED BY <1>2, <1>5

LEMMA SameFit ==
    ASSUME NothingCaptured, NEW i, NEW f, NEW c
    PROVE  CalculateRttLinearFit(i, f, c)' = CalculateRttLinearFit(i, f, c)
<1>1. \A best, ids : TryFit(best, ids)' = TryFit(best, ids)
  <2> SUFFICES ASSUME NEW best, NEW ids
               PROVE  TryFit(best, ids)' = TryFit(best, ids)
    OBVIOUS
  <2>1. LinearFit(ids)' = LinearFit(ids)
    BY SamePairs
  <2> QED BY <2>1, Zenon DEF TryFit
<1> DEFINE none == [found |-> FALSE, correlation |-> c, fit |-> f]
<1>2. CalculateRttLinearFit(i, f, c) =
         TryFit(TryFit(TryFit(none, AllPairs), PairsAround(i)), PairsBefore(i, NumSamples))
  BY Zenon DEF CalculateRttLinearFit
<1>3. CalculateRttLinearFit(i, f, c)' =
         TryFit(TryFit(TryFit(none, AllPairs), PairsAround(i)), PairsBefore(i, NumSamples))'
  BY Zenon DEF CalculateRttLinearFit
<1> HIDE DEF none
<1>4. none' = none
  BY DEF none
<1> QED BY <1>1, <1>2, <1>3, <1>4, SamePairs

\* A call in the state that an analysis, or a call for timers, has left.
LEMMA SameTail ==
    ASSUME NothingCaptured, NEW max,
           no_queue_timeouts' \in {no_queue_timeouts, TailLatency(max).timeouts}
    PROVE  TailLatency(max)'.tail = TailLatency(max).tail
<1> SUFFICES ASSUME NEW f, f = fit', NEW n, n = no_queue_timeouts'
             PROVE  TailLatency(max)'.tail = TailLatency(max).tail
  OBVIOUS
<1> DEFINE ids == Candidates(max)
           w == WorstOf(ids)
           t == IF w = 0 THEN NoTail ELSE Measured(Min(ids), w)
           best == CalculateRttLinearFit(w, fit, NoCorrelation)
           again == CalculateRttLinearFit(w, f, NoCorrelation)
           q == QueueingDelays(best.fit, min_rtt)
           p == QueueingDelays(again.fit, min_rtt)
           table == TimeoutTable(w, q)
           used == IF Lost(w) /\ n = << >> THEN ComputeQueueFreeTimeouts(p) ELSE n
           good(b) == b.found /\ LessThan(MinCorrelation, b.correlation)
           explained(b, d, tt) == WithBreakdown([t EXCEPT !.queueing = d[LastTx(w)]],
                                                GetTriggerDelay(w, d, tt))
           constrained(x) == SetOtherDelay(Attributed(Constrained(x)))
<1>1. min_rtt' = min_rtt
  BY DEF NothingCaptured, vars, ackVars
<1>2. ids' = ids /\ w' = w /\ t' = t
  <2>1. ids' = ids
    BY SameMeasure
  <2>2. w' = w
    BY <2>1, SameMeasure
  <2>3. \A m : Measured(m, w)' = Measured(m, w)
    BY <2>2, SameMeasure
  <2> HIDE DEF ids, w
  <2> QED BY <2>1, <2>2, <2>3
<1>3. best' = again
  <2>1. \A i, g, c : CalculateRttLinearFit(i, g, c)' = CalculateRttLinearFit(i, g, c)
    BY SameFit
  <2> HIDE DEF ids, w
  <2> QED BY <1>2, <2>1
<1>4. AsGood(best, again)
  BY FitsAsGood
<1>5. TailLatency(max) = AnalyzedWith(w, t, best) /\ TailLatency(max)' = AnalyzedWith(w, t, best)'
  BY Zenon DEF TailLatency, Analyzed, Cleared
<1>6. q' = p
  <2>1. \A g, x : QueueingDelays(g, x)' = QueueingDelays(g, x)
    BY SameDelays
  <2> HIDE DEF best, again
  <2> QED BY <1>1, <1>3, <2>1
<1>7. Lost(w)' = Lost(w) /\ LastTx(w)' = LastTx(w)
  BY <1>2, SamePackets, SameLinks
<1>8. \A d, tt : GetTriggerDelay(w, d, tt)' = GetTriggerDelay(w, d, tt)
  BY <1>2, SameTrigger
<1>9. table' = used
  <2>1. \A d : ComputeQueueFreeTimeouts(d)' = ComputeQueueFreeTimeouts(d)
    BY SameDelays
  <2>2. table' = IF Lost(w)' /\ no_queue_timeouts' = << >>
                 THEN ComputeQueueFreeTimeouts(q)' ELSE no_queue_timeouts'
    BY Zenon DEF TimeoutTable
  <2> HIDE DEF q, p, w, table
  <2> QED BY <1>6, <1>7, <2>1, <2>2 DEF used
<1>10. CASE w = 0 \/ t.overall = 0
  <2> HIDE DEF w, t, best, again
  <2> QED BY <1>2, <1>5, <1>10 DEF AnalyzedWith
<1>11. CASE ~(w = 0 \/ t.overall = 0)
  <2> DEFINE tail(b, d, tt) == IF good(b) THEN explained(b, d, tt) ELSE t
  <2>1. /\ TailLatency(max).tail = constrained(tail(best, q, table))
        /\ TailLatency(max).timeouts = IF good(best) THEN table ELSE no_queue_timeouts
    <3>1. TailLatency(max) = Finished(w, best, WithFit(w, t, best, q, table))
      <4> HIDE DEF w, t, best, table
      <4> QED BY <1>5, <1>11, Zenon DEF AnalyzedWith, BrokenDown, table
    <3>2. WithFit(w, t, best, q, table) =
             IF good(best) THEN [tail |-> explained(best, q, table), timeouts |-> table]
             ELSE [tail |-> t, timeouts |-> no_queue_timeouts]
      BY Zenon DEF WithFit
    <3> HIDE DEF good, explained, w, t, best, q, table
    <3>3. /\ WithFit(w, t, best, q, table).tail = tail(best, q, table)
          /\ WithFit(w, t, best, q, table).timeouts
                = IF good(best) THEN table ELSE no_queue_timeouts
      BY <3>2
    <3> QED BY <3>1, <3>3 DEF Finished
  <2>2. TailLatency(max)'.tail = constrained(tail(again, p, used))
    <3>1. TailLatency(max)' = Finished(w, best, WithFit(w, t, best, q, table))'
      <4>1. ~(w = 0 \/ t.overall = 0)'
        <5> HIDE DEF w, t
        <5> QED BY <1>2, <1>11
      <4> HIDE DEF w, t, best, table
      <4> QED BY <1>5, <4>1, Zenon DEF AnalyzedWith, BrokenDown, table
    <3>2. WithFit(w, t, best, q, table)' =
             (IF good(best) THEN [tail |-> explained(best, q, table), timeouts |-> table]
              ELSE [tail |-> t, timeouts |-> no_queue_timeouts])'
      BY Zenon DEF WithFit
    <3>3. good(best)' = good(again)
      <4> HIDE DEF best, again
      <4> QED BY <1>3
    <3>4. explained(best, q, table)' = explained(again, p, used)
      <4> HIDE DEF w, t, best, again, q, p, table, used
      <4> QED BY <1>2, <1>6, <1>7, <1>8, <1>9
    <3>5. WithFit(w, t, best, q, table)' =
             IF good(again) THEN [tail |-> explained(again, p, used), timeouts |-> used]
             ELSE [tail |-> t, timeouts |-> n]
      <4> HIDE DEF good, explained, w, t, best, again, q, p, table, used
      <4> QED BY <1>2, <1>9, <3>2, <3>3, <3>4
    <3>6. (WithFit(w, t, best, q, table)').tail = tail(again, p, used)
      <4> HIDE DEF good, explained, w, t, best, again, q, p, table, used
      <4> QED BY <3>5
    <3>7. (TailLatency(max)').tail = constrained((WithFit(w, t, best, q, table)').tail)
      <4> HIDE DEF w, t, best, q, table
      <4> QED BY <3>1 DEF Finished
    <3> HIDE DEF good, explained, w, t, best, again, q, p, table, used, tail, constrained
    <3> QED BY <3>6, <3>7
  <2>3. good(again) <=> good(best)
    <3> HIDE DEF best, again
    <3> QED BY <1>4 DEF AsGood
  <2>4. CASE good(best)
    <3>1. p = q
      <4> HIDE DEF best, again
      <4> QED BY <1>4, <2>4 DEF AsGood
    <3>2. table = IF Lost(w) /\ no_queue_timeouts = << >> THEN ComputeQueueFreeTimeouts(q)
                  ELSE no_queue_timeouts
      BY Zenon DEF TimeoutTable
    <3>3. n \in {no_queue_timeouts, table}
      <4> HIDE DEF good, table, best
      <4> QED BY <2>1, <2>4
    <3>4. used = table
      <4> HIDE DEF p, q, w, table
      <4> QED BY <3>1, <3>2, <3>3
    <3>5. tail(again, p, used) = tail(best, q, table)
      <4> HIDE DEF good, p, q, used, table, best, again
      <4>1. explained(again, p, used) = explained(best, q, table)
        BY <3>1, <3>4
      <4> HIDE DEF explained
      <4> QED BY <2>3, <2>4, <4>1
    <3> HIDE DEF tail, constrained, p, q, used, table, best, again
    <3> QED BY <2>1, <2>2, <3>5
  <2>5. CASE ~good(best)
    <3>1. tail(again, p, used) = t /\ tail(best, q, table) = t
      <4> HIDE DEF good, explained, p, q, used, table, best, again, t
      <4> QED BY <2>3, <2>5 DEF tail
    <3> HIDE DEF tail, constrained, p, q, used, table, best, again, t
    <3> QED BY <2>1, <2>2, <3>1
  <2> QED BY <2>4, <2>5
<1> QED BY <1>10, <1>11

CallInv ==
    /\ phase = "capture" => called = -1
    /\ called # -1 => tail_latency = TailLatency(called).tail

LEMMA CallStep ==
    ASSUME CallInv, [AnalysisNext]_analysisVars
    PROVE  CallInv' /\ (called' = called => tail_latency' = tail_latency)
<1>1. CASE UNCHANGED analysisVars
  <2>1. /\ NothingCaptured /\ no_queue_timeouts' = no_queue_timeouts /\ phase' = phase
        /\ called' = called /\ tail_latency' = tail_latency
    BY <1>1 DEF analysisVars, resultVars, NothingCaptured
  <2>2. \A m : (TailLatency(m)').tail = TailLatency(m).tail
    BY <2>1, SameTail
  <2> QED BY <2>1, <2>2 DEF CallInv
<1>2. CASE CapturePacket
  <2>1. phase = "capture" /\ called' = called /\ tail_latency' = tail_latency
    BY <1>2 DEF CapturePacket, resultVars
  <2> QED BY <2>1 DEF CallInv
<1>3. CASE EndOfCapture
  <2>1. phase = "capture" /\ called' = called /\ tail_latency' = tail_latency
    BY <1>3 DEF EndOfCapture, resultVars
  <2> QED BY <2>1 DEF CallInv
<1>4. ASSUME NEW seqs, GetTimerEstimates(seqs)
      PROVE  CallInv' /\ tail_latency' = tail_latency
  <2>1. /\ NothingCaptured /\ no_queue_timeouts' = no_queue_timeouts /\ phase' = phase
        /\ called' = called /\ tail_latency' = tail_latency
    BY <1>4 DEF GetTimerEstimates, NothingCaptured
  <2>2. \A m : (TailLatency(m)').tail = TailLatency(m).tail
    BY <2>1, SameTail
  <2> QED BY <2>1, <2>2 DEF CallInv
<1>5. ASSUME NEW max \in MaxSeqs, AnalyzeTailLatency(max)
      PROVE  CallInv' /\ (called' = called => tail_latency' = tail_latency)
  <2>1. /\ NothingCaptured /\ called' = max /\ phase = "analysis"
        /\ phase' \in {"analysis", "endless"}
        /\ tail_latency' = TailLatency(max).tail
        /\ no_queue_timeouts' = TailLatency(max).timeouts
    <3> HIDE DEF TailLatency
    <3> QED BY <1>5, Zenon DEF AnalyzeTailLatency, NothingCaptured
  <2>2. (TailLatency(max)').tail = TailLatency(max).tail
    BY <2>1, SameTail
  <2>3. max # -1
    BY AnalysisAssumption, SpaceSizeAssumption DEF SeqNum
  <2> QED BY <2>1, <2>2, <2>3 DEF CallInv
<1> QED BY <1>1, <1>2, <1>3, <1>4, <1>5 DEF AnalysisNext, Analyze

(***************************************************************************)
(* A flow can be analyzed again: on every capture, after any calls, a call  *)
(* like the last one gives the delays that are there already.              *)
(***************************************************************************)
THEOREM RepetitionAgrees == AnalysisSpec => RepeatedCallsAgree
<1>1. AnalysisInit => CallInv
  BY DEF AnalysisInit, CallInv
<1>2. CallInv /\ [AnalysisNext]_analysisVars => CallInv'
  BY CallStep
<1>3. CallInv /\ [AnalysisNext]_analysisVars
         => [called' = called => tail_latency' = tail_latency]_analysisVars
  BY CallStep
<1> QED BY <1>1, <1>2, <1>3, PTL DEF AnalysisSpec, RepeatedCallsAgree
-----------------------------------------------------------------------------
(***************************************************************************)
(* Where the lines end: LastTx follows the latest retransmissions as long   *)
(* as they were lost, always towards the end of the capture.                *)
(***************************************************************************)
LEMMA LastTxEquation ==
    ASSUME LinesInv
    PROVE  \A i \in Ids : LastTx(i) = IF Lost(i) THEN LastTx(rtx[i]) ELSE i
<1> DEFINE n == Len(pkts)
           F(f, k) == f = [j \in n - k + 1 .. n |-> IF Lost(j) THEN f[rtx[j]] ELSE j]
           K == { k \in 0 .. n : \E f : F(f, k) }
           L(f) == f = [j \in Ids |-> IF Lost(j) THEN f[rtx[j]] ELSE j]
           h == CHOOSE f : L(f)
<1>1. n \in Nat /\ Ids = 1 .. n
  BY CaptureTypes DEF LinesInv
<1>2. ASSUME NEW i \in Ids, Lost(i)
      PROVE  rtx[i] > i /\ rtx[i] \in Ids
  <2>1. rtx[i] # 0 /\ rtx[i] \in 0 .. n
    BY <1>2 DEF LinesInv, Lost, IsLost
  <2>2. rtx[i] > i
    BY <2>1 DEF LinesInv, LinesOK
  <2> QED BY <1>1, <2>1, <2>2
<1>3. 0 \in K
  <2>1. n - 0 + 1 .. n = {}
    BY <1>1
  <2>2. F([j \in n - 0 + 1 .. n |-> j], 0)
    <3> HIDE DEF n
    <3> QED BY <2>1
  <2> HIDE DEF F
  <2> QED BY <1>1, <2>2
<1>4. ASSUME NEW k \in 0 .. n - 1, k \in K
      PROVE  k + 1 \in K
  <2>1. PICK f : F(f, k)
    BY <1>4
  <2> DEFINE m == n - k
             D == m .. n
             g == [j \in D |-> IF j = m THEN (IF Lost(j) THEN f[rtx[j]] ELSE j) ELSE f[j]]
  <2>2. /\ k \in Int /\ m \in 1 .. n /\ n - k + 1 = m + 1 /\ n - (k + 1) + 1 = m
        /\ k + 1 \in 0 .. n
    BY <1>1
  <2>3. \A j \in D : /\ j \in Ids /\ (j # m => j \in m + 1 .. n)
                     /\ Lost(j) => rtx[j] \in m + 1 .. n
    <3> SUFFICES ASSUME NEW j \in D
                 PROVE  /\ j \in Ids /\ (j # m => j \in m + 1 .. n)
                        /\ Lost(j) => rtx[j] \in m + 1 .. n
      OBVIOUS
    <3> HIDE DEF n, m
    <3>1. j \in Ids /\ j \in Int /\ j >= m /\ m \in Int
      BY <1>1, <2>2
    <3>2. Lost(j) => rtx[j] > j /\ rtx[j] \in 1 .. n
      BY <1>1, <1>2, <3>1
    <3>3. ASSUME Lost(j) PROVE rtx[j] \in m + 1 .. n
      <4> rtx[j] \in Int /\ rtx[j] > j /\ rtx[j] <= n
        BY <1>1, <3>2, <3>3
      <4> QED BY <1>1, <3>1
    <3> QED BY <1>1, <3>1, <3>3
  <2>4. \A j \in m + 1 .. n : j \in D /\ g[j] = f[j]
    <3> HIDE DEF n, m
    <3>1. \A j \in m + 1 .. n : j \in m .. n /\ j # m
      BY <1>1, <2>2
    <3> QED BY <3>1
  <2>5. ASSUME NEW j \in D
        PROVE  g[j] = IF Lost(j) THEN g[rtx[j]] ELSE j
    <3>1. Lost(j) => g[rtx[j]] = f[rtx[j]]
      <4> HIDE DEF g, D, m, n
      <4> QED BY <2>3, <2>4
    <3>2. CASE j = m
      <4>1. g[j] = IF Lost(j) THEN f[rtx[j]] ELSE j
        BY <3>2
      <4> QED BY <3>1, <4>1
    <3>3. CASE j # m
      <4>1. j \in m + 1 .. n
        BY <2>3, <3>3
      <4>2. f[j] = IF Lost(j) THEN f[rtx[j]] ELSE j
        <5> HIDE DEF D, m, g, n
        <5> QED BY <2>1, <2>2, <4>1
      <4>3. g[j] = f[j]
        BY <3>3
      <4> HIDE DEF g, m, n
      <4> QED BY <3>1, <4>2, <4>3
    <3> QED BY <3>2, <3>3
  <2>6. F(g, k + 1)
    <3>1. g = [j \in D |-> g[j]]
      OBVIOUS
    <3> HIDE DEF g, n
    <3> QED BY <2>2, <2>5, <3>1 DEF D
  <2> HIDE DEF F, g, n
  <2> QED BY <2>2, <2>6
<1>5. \E f : L(f)
  <2>1. n \in K
    <3> HIDE DEF K, n
    <3> QED BY <1>1, <1>3, <1>4, CountingUp
  <2>2. n - n + 1 .. n = Ids
    BY <1>1
  <2> HIDE DEF n
  <2> QED BY <2>1, <2>2
<1>6. L(h)
  <2> HIDE DEF L
  <2> QED BY <1>5
<1>7. \A i : LastTx(i) = h[i]
  BY Zenon DEF LastTx
<1> HIDE DEF h
<1>8. \A i \in Ids : h[i] = IF Lost(i) THEN h[rtx[i]] ELSE i
  BY <1>6
<1> QED BY <1>7, <1>8

\* The last transmission lies in the capture and was not lost.
LEMMA LastTxBounds ==
    ASSUME LinesInv
    PROVE  \A i \in Ids : LastTx(i) \in Ids /\ ~Lost(LastTx(i)) /\ (i \in Own => LastTx(i) \in Own)
<1> DEFINE n == Len(pkts)
           Good(i) == LastTx(i) \in Ids /\ ~Lost(LastTx(i)) /\ (i \in Own => LastTx(i) \in Own)
           K == { k \in 0 .. n : \A i \in n - k + 1 .. n : Good(i) }
<1>1. n \in Nat /\ Ids = 1 .. n
  BY CaptureTypes DEF LinesInv
<1>2. 0 \in K
  BY <1>1
<1>3. ASSUME NEW k \in 0 .. n - 1, k \in K
      PROVE  k + 1 \in K
  <2> DEFINE m == n - k
  <2>1. /\ m \in 1 .. n /\ n - k + 1 = m + 1 /\ n - (k + 1) + 1 = m
        /\ k + 1 \in 0 .. n
    BY <1>1
  <2>2. \A i \in m + 1 .. n : Good(i)
    BY <1>3, <2>1
  <2> HIDE DEF m
  <2>3. Good(m)
    <3>1. m \in Ids
      BY <1>1, <2>1
    <3>2. CASE Lost(m)
      <4>1. rtx[m] # 0 /\ rtx[m] \in 0 .. n
        BY <3>1, <3>2 DEF LinesInv, Lost, IsLost
      <4>2. rtx[m] > m
        BY <3>1, <4>1 DEF LinesInv, LinesOK
      <4>3. rtx[m] \in m + 1 .. n
        BY <1>1, <2>1, <4>1, <4>2
      <4>4. LastTx(m) = LastTx(rtx[m])
        BY <3>1, <3>2, LastTxEquation
      <4>5. rtx[m] \in Own
        <5> rtx[m] \in Ids /\ previous_tx[rtx[m]] = m /\ m # 0
          BY <1>1, <2>1, <3>1, <4>1, <4>3 DEF LinesInv, LinesOK
        <5> QED BY DEF LinesInv
      <4> QED BY <2>2, <4>3, <4>4, <4>5
    <3>3. CASE ~Lost(m)
      BY <3>1, <3>3, LastTxEquation
    <3> QED BY <3>2, <3>3
  <2>4. \A i \in m .. n : i = m \/ i \in m + 1 .. n
    BY <1>1, <2>1
  <2> HIDE DEF Good
  <2> QED BY <2>1, <2>2, <2>3, <2>4
<1>4. n \in K
  <2> HIDE DEF K, n
  <2> QED BY <1>1, <1>2, <1>3, CountingUp
<1>5. n - n + 1 = 1
  BY <1>1
<1> QED BY <1>1, <1>4, <1>5

\* A line goes back from its packet.
LEMMA LineGoesBack ==
    ASSUME LinesInv
    PROVE  \A i \in Ids : \A j \in Line(i) : j \in Ids /\ j <= i
<1> DEFINE G == { i \in Ids : \A j \in Line(i) : j <= i }
<1>1. \A i \in Ids : i \in Nat /\ Line(i) = {i} \cup Line(previous_tx[i])
  BY CaptureTypes, LineEquation DEF LinesInv
<1>2. ASSUME NEW i \in Ids, previous_tx[i] = 0
      PROVE  i \in G
  <2> Line(i) = {i}
    BY <1>1, <1>2, LineEquation
  <2> QED BY <1>1
<1>3. ASSUME NEW i \in Ids, previous_tx[i] # 0, previous_tx[i] \in G
      PROVE  i \in G
  <2>1. previous_tx[i] < i /\ previous_tx[i] \in Ids
    BY <1>3 DEF LinesInv, LinesOK, Own
  <2>2. \A j \in Line(previous_tx[i]) : j <= previous_tx[i] /\ j \in Ids
    BY <1>3, <2>1, LineMembers
  <2>3. \A j \in Line(previous_tx[i]) : j <= i
    BY <1>1, <2>1, <2>2
  <2> QED BY <1>1, <2>3
<1>4. Ids \subseteq G
  <2> HIDE DEF G
  <2> QED BY <1>2, <1>3, AlongLines
<1> QED BY <1>4, LineMembers

-----------------------------------------------------------------------------
(***************************************************************************)
(* GetTriggerDelay returns: its recursion follows the packets that ACKs      *)
(* triggered, and unless one of them belongs to a line that still goes on,  *)
(* it reaches earlier last transmissions only.                             *)
(***************************************************************************)
TriggerRound(c, calls, deeper) == [k \in Ids |-> TriggerDelay(k, c[1], c[2], calls, deeper)]
TriggerWalk == INSTANCE Walks WITH Step <- TriggerRound

LEMMA TriggerOneMore == TriggerWalk!OneMoreSuffices
BY OneMoreAtTheEnd DEF TriggerWalk!OneMoreSuffices

\* The calls for all packets, by the depth that they may reach.
CallsOf(d, q, timeouts) ==
    /\ d = [calls \in 0 .. Len(pkts) |-> d[calls]]
    /\ \A calls \in 0 .. Len(pkts) :
          d[calls] = [k \in Ids |-> TriggerDelay(k, q, timeouts, calls, d[calls - 1])]

LEMMA TriggerEquation ==
    ASSUME LinesInv, NEW q, NEW timeouts
    PROVE  \E d : /\ CallsOf(d, q, timeouts)
                  /\ \A i : GetTriggerDelay(i, q, timeouts) = d[Len(pkts)][i]
<1> DEFINE n == Len(pkts)
           c == <<q, timeouts>>
           L(f) == f = [calls \in 0 .. n |->
                          [k \in Ids |-> TriggerDelay(k, q, timeouts, calls, f[calls - 1])]]
           h == CHOOSE f : L(f)
<1>1. n \in Nat
  BY CaptureTypes DEF LinesInv
<1>2. \A k, d, e : TriggerDelay(k, q, timeouts, 0, d) = TriggerDelay(k, q, timeouts, 0, e)
  BY Zenon DEF TriggerDelay
<1>A. PICK f : TriggerWalk!IsRecursion(f, c, 0, n)
  <2> HIDE DEF n, c
  <2> QED BY <1>1, TriggerOneMore, TriggerWalk!RecursionExists
<1>3. /\ f = [k \in 0 .. n |-> f[k]]
      /\ f[0] = TriggerRound(c, 0, 0)
      /\ \A k \in 1 .. n : f[k] = TriggerRound(c, k, f[k - 1])
  BY <1>A DEF TriggerWalk!IsRecursion
<1>4. \A x, d : TriggerRound(c, x, d) = [k \in Ids |-> TriggerDelay(k, q, timeouts, x, d)]
  BY DEF TriggerRound
<1>5. ASSUME NEW x \in 0 .. n
      PROVE  f[x] = [k \in Ids |-> TriggerDelay(k, q, timeouts, x, f[x - 1])]
  <2> HIDE DEF c, n
  <2>1. CASE x = 0
    <3>1. f[0] = [k \in Ids |-> TriggerDelay(k, q, timeouts, 0, 0)]
      BY <1>3, <1>4
    <3>2. \A k : TriggerDelay(k, q, timeouts, 0, 0) = TriggerDelay(k, q, timeouts, 0, f[x - 1])
      BY <1>2
    <3> QED BY <2>1, <3>1, <3>2
  <2>2. CASE x # 0
    <3> x \in 1 .. n
      BY <1>1, <2>2
    <3> QED BY <1>3, <1>4, SMTT(40)
  <2> QED BY <2>1, <2>2
<1>6. L(f)
  <2> HIDE DEF n
  <2> QED BY <1>3, <1>5
<1>7. L(h)
  <2> HIDE DEF L
  <2> QED BY <1>6
<1>8. \A i : GetTriggerDelay(i, q, timeouts) = h[n][i]
  BY Zenon DEF GetTriggerDelay
<1>9. CallsOf(h, q, timeouts)
  <2> HIDE DEF h
  <2>1. h = [x \in 0 .. n |-> h[x]]
    BY <1>7
  <2>2. \A x \in 0 .. n : h[x] = [k \in Ids |-> TriggerDelay(k, q, timeouts, x, h[x - 1])]
    BY <1>7
  <2> QED BY <2>1, <2>2 DEF CallsOf
<1> HIDE DEF h
<1> QED BY <1>8, <1>9

\* A slow-start retransmission whose trigger's line was retransmitted later.
LaterLine ==
    \E i \in Own : /\ "slow_start" \in marks[i] /\ trigger[i] # 0
                   /\ Lost(first_tx[trigger[i]]) /\ LastTx(first_tx[trigger[i]]) >= i

\* The retransmission that an ACK triggered, if there is one.
LEMMA CauseInLine ==
    ASSUME LinesInv, TriggerInv, NEW i \in Ids, Cause(i) # 0
    PROVE  /\ Cause(i) \in Own /\ Cause(i) <= LastTx(i) /\ trigger[Cause(i)] # 0
           /\ SlowStartTrigger(Cause(i)) \in Ids
<1> DEFINE S == { j \in RtxsOf(i) : trigger[j] # 0 }
<1>1. /\ Len(pkts) \in Nat /\ Ids = 1 .. Len(pkts) /\ Own \subseteq Ids
  BY CaptureTypes DEF LinesInv
<1>2. LastTx(i) \in Ids
  BY LastTxBounds
<1>3. \A j \in S : j \in Own /\ j <= LastTx(i) /\ trigger[j] # 0
  <2> SUFFICES ASSUME NEW j \in S
               PROVE  j \in Own /\ j <= LastTx(i) /\ trigger[j] # 0
    OBVIOUS
  <2>1. j \in Line(LastTx(i)) /\ previous_tx[j] # 0 /\ trigger[j] # 0
    BY DEF RtxsOf
  <2>2. j \in Ids /\ j <= LastTx(i)
    BY <1>2, <2>1, LineGoesBack
  <2> QED BY <2>1, <2>2 DEF LinesInv
<1>4. Cause(i) = Max({0} \cup S)
  BY DEF Cause
<1> HIDE DEF S
<1>5. Max({0} \cup S) \in {0} \cup S
  <2>1. \A j \in S : j \in 0 .. Len(pkts)
    <3> SUFFICES ASSUME NEW j \in S PROVE j \in 0 .. Len(pkts)
      OBVIOUS
    <3> j \in Own
      BY <1>3
    <3> QED BY ONLY <1>1, j \in Own
  <2>2. {0} \cup S \subseteq 0 .. Len(pkts) /\ {0} \cup S # {}
    BY <1>1, <2>1
  <2> QED BY <1>1, <2>2, MaxIsLast
<1>6. Cause(i) \in S
  BY <1>4, <1>5
<1>7. Cause(i) \in Own /\ Cause(i) <= LastTx(i) /\ trigger[Cause(i)] # 0
  BY <1>3, <1>6
<1>8. trigger[Cause(i)] \in Own
  BY <1>1, <1>7 DEF TriggerInv, TriggerLinks
<1>9. SlowStartTrigger(Cause(i)) \in Ids
  BY <1>1, <1>8, OriginalOf DEF SlowStartTrigger
<1> QED BY <1>7, <1>9

\* One round: a call for a lost packet does not end unless one further down does not.
LEMMA TriggerDelayEnds ==
    ASSUME NEW i, NEW q, NEW timeouts, NEW calls, NEW deeper
    PROVE  /\ ~Lost(i) => ~TriggerDelay(i, q, timeouts, calls, deeper).endless
           /\ TriggerDelay(i, q, timeouts, calls, deeper).endless /\ calls # 0 =>
                 /\ Cause(i) # 0 /\ "slow_start" \in marks[Cause(i)]
                 /\ deeper[SlowStartTrigger(Cause(i))].endless
<1> DEFINE again == deeper[SlowStartTrigger(Cause(i))]
           own == OwnDelay(i, q, timeouts)
           total == Total(again)
           further == [own EXCEPT !.for_trigger = total, !.endless = again.endless]
           d == TriggerDelay(i, q, timeouts, calls, deeper)
<1>1. /\ ~Lost(i) => d = NoTrigger
      /\ Lost(i) /\ calls # 0 =>
            d = IF Cause(i) # 0 /\ "slow_start" \in marks[Cause(i)] THEN further ELSE own
  BY Zenon DEF TriggerDelay
<1>2. NoTrigger.endless = FALSE
  BY DEF NoTrigger
<1>3. own.endless = FALSE /\ "endless" \in DOMAIN own
  BY DEF OwnDelay
<1>4. further.endless = again.endless
  <2> HIDE DEF own, total, again
  <2> QED BY <1>3
<1> HIDE DEF d, own, further
<1>5. /\ ~Lost(i) => ~d.endless
      /\ d.endless /\ calls # 0 =>
                 /\ Cause(i) # 0 /\ "slow_start" \in marks[Cause(i)]
                 /\ again.endless
  BY <1>1, <1>2, <1>3, <1>4
<1> QED BY <1>5 DEF d

LEMMA EndlessNeedsLaterLine ==
    ASSUME LinesInv, TriggerInv, NEW i \in Ids, NEW q, NEW timeouts,
           GetTriggerDelay(i, q, timeouts).endless
    PROVE  LaterLine
<1> SUFFICES ASSUME ~LaterLine PROVE FALSE
  OBVIOUS
<1> DEFINE n == Len(pkts)
<1>1. n \in Nat /\ Ids = 1 .. n
  BY CaptureTypes DEF LinesInv
<1>2. PICK d : /\ CallsOf(d, q, timeouts)
               /\ \A k : GetTriggerDelay(k, q, timeouts) = d[n][k]
  BY TriggerEquation
<1>3. ASSUME NEW c \in 0 .. n, NEW k \in Ids
      PROVE  d[c][k] = TriggerDelay(k, q, timeouts, c, d[c - 1])
  <2> HIDE DEF n
  <2>1. d[c] = [x \in Ids |-> TriggerDelay(x, q, timeouts, c, d[c - 1])]
    BY <1>2, <1>3 DEF CallsOf, n
  <2> QED BY <2>1
<1> DEFINE K == { c \in 0 .. n : \A k \in Ids : LastTx(k) <= c => ~d[c][k].endless }
<1> HIDE DEF n
<1>4. 0 \in K
  <2>1. \A k \in Ids : LastTx(k) \in Ids
    BY LastTxBounds
  <2>2. \A k \in Ids : ~(LastTx(k) <= 0)
    BY <1>1, <2>1
  <2> QED BY <1>1, <2>2
<1>5. ASSUME NEW c \in 0 .. n - 1, c \in K
      PROVE  c + 1 \in K
  <2>1. c + 1 \in 0 .. n /\ c \in 0 .. n /\ c + 1 # 0 /\ (c + 1) - 1 = c
    BY <1>1
  <2>2. ASSUME NEW k \in Ids, LastTx(k) <= c + 1, d[c + 1][k].endless
        PROVE  FALSE
    <3> DEFINE j == SlowStartTrigger(Cause(k))
    <3>1. /\ Cause(k) # 0 /\ "slow_start" \in marks[Cause(k)]
          /\ d[c][j].endless
      <4>1. d[c + 1][k] = TriggerDelay(k, q, timeouts, c + 1, d[c])
        BY <1>3, <2>1
      <4> QED BY <2>1, <2>2, <4>1, TriggerDelayEnds
    <3>2. /\ Cause(k) \in Own /\ Cause(k) <= LastTx(k) /\ trigger[Cause(k)] # 0
          /\ j \in Ids
      BY <3>1, CauseInLine
    <3>3. Lost(j)
      <4>1. d[c][j] = TriggerDelay(j, q, timeouts, c, d[c - 1])
        BY <1>3, <2>1, <3>2
      <4> HIDE DEF j
      <4> QED BY <3>1, <4>1, TriggerDelayEnds
    <3>4. ~(LastTx(j) >= Cause(k))
      BY <3>1, <3>2, <3>3 DEF LaterLine, SlowStartTrigger
    <3>5. LastTx(j) <= c
      <4>1. LastTx(j) \in Ids /\ LastTx(k) \in Ids /\ Cause(k) \in Ids
        BY <3>2, LastTxBounds DEF Own
      <4> HIDE DEF j
      <4> QED BY <1>1, <2>2, <3>2, <3>4, <4>1
    <3> HIDE DEF j
    <3> QED BY <1>5, <3>1, <3>2, <3>5
  <2> QED BY <2>1, <2>2
<1>6. n \in K
  <2> HIDE DEF K
  <2> QED BY <1>1, <1>4, <1>5, CountingUp
<1>7. LastTx(i) <= n
  BY <1>1, LastTxBounds
<1> QED BY <1>2, <1>6, <1>7

-----------------------------------------------------------------------------
(***************************************************************************)
(* The call as a whole: what its steps do to the parts of the worst          *)
(* packet's delay.                                                         *)
(***************************************************************************)
Parts(t) == DOMAIN t = DOMAIN NoTail

\* All parts but some are kept.
OthersKept(u, t, parts) ==
    Parts(u) /\ \A part \in DOMAIN NoTail \ parts : u[part] = t[part]

LEMMA GoodputParts ==
    ASSUME NEW t, Parts(t), NEW first, NEW w
    PROVE  OthersKept(WithGoodput(t, first, w), t, {"bytes_acked", "goodput", "buffered"})
<1> DEFINE elapsed == pkts[w].ts - pkts[first].ts
           bytes == sent[w].acked_bytes
           goodput == (sent[w].acked_bytes * RateUnit) \div elapsed
           buffered == IF sent[w].last_ack = 0 \/ ack_packet[w] = 0 THEN 0
                       ELSE BufferNeeded(pkts[w].ts, pkts[sent[w].last_ack].ack,
                                         PacketsAt(AcksUntil(w)), goodput)
           u == WithGoodput(t, first, w)
<1>1. u = t \/ u = [t EXCEPT !.bytes_acked = bytes, !.goodput = goodput, !.buffered = buffered]
  BY Zenon DEF WithGoodput
<1> HIDE DEF u, bytes, goodput, buffered
<1>2. OthersKept(u, t, {"bytes_acked", "goodput", "buffered"})
  BY <1>1 DEF OthersKept, Parts
<1> QED BY <1>2 DEF u

LEMMA MeasuredParts ==
    ASSUME NEW first, NEW w
    PROVE  LET m == Measured(first, w)
           IN  /\ Parts(m) /\ m.breakdown = NoTrigger /\ m.overall = delays[w].ack
               /\ m.queueing = 0 /\ m.loss_trigger = 0 /\ m.other = 0
               /\ m.overall = 0 => m.propagation = 0 /\ m.loss = 0
               /\ m.overall # 0 => /\ m.propagation = min_rtt
                                   /\ m.loss = IF Lost(w) THEN delays[w].final ELSE 0
<1> DEFINE x == sent[w].unacked_bytes
           d == delays[w].ack
           s == [NoTail EXCEPT !.unacked = x, !.overall = d]
           t == WithGoodput(s, first, w)
           p == min_rtt
           base == [t EXCEPT !.propagation = p]
           final == delays[w].final
           gap == pkts[rtx[w]].ts - pkts[w].ts
           lost == [base EXCEPT !.loss = final, !.time_to_first_rtx = gap]
           m == Measured(first, w)
<1>1. m = IF t.overall = 0 THEN t ELSE IF Lost(w) THEN lost ELSE base
  BY Zenon DEF Measured
<1>2. /\ Parts(s) /\ s.breakdown = NoTrigger /\ s.overall = d /\ s.queueing = 0
      /\ s.loss_trigger = 0 /\ s.other = 0 /\ s.propagation = 0 /\ s.loss = 0
  <2> HIDE DEF x, d
  <2> QED BY DEF NoTail, Parts
<1>3. OthersKept(t, s, {"bytes_acked", "goodput", "buffered"})
  <2> HIDE DEF s
  <2> QED BY <1>2, GoodputParts
<1>4. DOMAIN NoTail = {"overall", "propagation", "loss", "time_to_first_rtx", "loss_trigger",
                       "breakdown", "queueing", "other", "goodput", "bytes_acked", "buffered",
                       "unacked"}
  BY DEF NoTail
<1> HIDE DEF s, t
<1>5. /\ Parts(t) /\ t.breakdown = NoTrigger /\ t.overall = d /\ t.queueing = 0
      /\ t.loss_trigger = 0 /\ t.other = 0 /\ t.propagation = 0 /\ t.loss = 0
  BY <1>2, <1>3, <1>4 DEF OthersKept
<1> HIDE DEF p, d, final, gap
<1>6. /\ Parts(base) /\ base.breakdown = NoTrigger /\ base.overall = d /\ base.queueing = 0
      /\ base.loss_trigger = 0 /\ base.other = 0 /\ base.propagation = p /\ base.loss = 0
  BY <1>4, <1>5 DEF Parts
<1> HIDE DEF base
<1>7. /\ Parts(lost) /\ lost.breakdown = NoTrigger /\ lost.overall = d /\ lost.queueing = 0
      /\ lost.loss_trigger = 0 /\ lost.other = 0 /\ lost.propagation = p /\ lost.loss = final
  BY <1>4, <1>6 DEF Parts
<1> HIDE DEF lost, m
<1>8. /\ Parts(m) /\ m.breakdown = NoTrigger /\ m.overall = d
      /\ m.queueing = 0 /\ m.loss_trigger = 0 /\ m.other = 0
      /\ m.overall = 0 => m.propagation = 0 /\ m.loss = 0
      /\ m.overall # 0 => /\ m.propagation = p /\ m.loss = IF Lost(w) THEN final ELSE 0
  BY <1>1, <1>5, <1>6, <1>7
<1> QED BY <1>8 DEF m, p, d, final

\* The constraints, each with the parts that it touches.
LEMMA ConstrainedParts ==
    ASSUME NEW t, Parts(t)
    PROVE  LET u == Constrained(t)
           IN  /\ OthersKept(u, t, {"queueing"})
               /\ u.queueing = Smaller(t.queueing,
                                       Minus(Minus(t.overall, t.loss), t.propagation))
<1> DEFINE q == Smaller(t.queueing, Minus(Minus(t.overall, t.loss), t.propagation))
           u == [t EXCEPT !.queueing = q]
<1>1. Constrained(t) = u
  BY Zenon DEF Constrained
<1>2. "queueing" \in DOMAIN NoTail
  BY DEF NoTail
<1>3. OthersKept(u, t, {"queueing"}) /\ u.queueing = q
  <2> HIDE DEF q
  <2> QED BY <1>2 DEF OthersKept, Parts
<1> QED BY <1>1, <1>3

\* What the timeouts take without queueing, and the way of a late ACK.
LossBase(t) ==
    LET late == t.breakdown.arms # 0 \/ t.breakdown.triggers # 0
    IN  t.breakdown.no_queue + IF late THEN t.propagation ELSE 0

PureLoss(t) == Larger(t.loss - t.loss_trigger, 0)

LEMMA AttributedParts ==
    ASSUME NEW t, Parts(t)
    PROVE  LET u == Attributed(t)
           IN  /\ OthersKept(u, t, {"loss", "loss_trigger"})
               /\ PureLoss(t) < LossBase(t) =>
                     /\ u.loss = LossBase(t)
                     /\ u.loss_trigger = Minus(t.loss_trigger, LossBase(t) - PureLoss(t))
               /\ ~(PureLoss(t) < LossBase(t)) =>
                     u.loss = PureLoss(t) /\ u.loss_trigger = t.loss_trigger
<1> DEFINE base == LossBase(t)
           pure == PureLoss(t)
           rest == Minus(t.loss_trigger, base - pure)
           more == [t EXCEPT !.loss = base, !.loss_trigger = rest]
           less == [t EXCEPT !.loss = pure]
           u == Attributed(t)
<1>1. u = IF pure < base THEN more ELSE less
  BY Zenon DEF Attributed, LossBase, PureLoss
<1>2. "loss" \in DOMAIN NoTail /\ "loss_trigger" \in DOMAIN NoTail
  BY DEF NoTail
<1> HIDE DEF base, pure, u, rest
<1>3. OthersKept(more, t, {"loss", "loss_trigger"}) /\ more.loss = base /\ more.loss_trigger = rest
  BY <1>2 DEF OthersKept, Parts
<1>4. /\ OthersKept(less, t, {"loss", "loss_trigger"})
      /\ less.loss = pure /\ less.loss_trigger = t.loss_trigger
  BY <1>2 DEF OthersKept, Parts
<1> HIDE DEF more, less
<1>5. /\ OthersKept(u, t, {"loss", "loss_trigger"})
      /\ pure < base => u.loss = base /\ u.loss_trigger = rest
      /\ ~(pure < base) => u.loss = pure /\ u.loss_trigger = t.loss_trigger
  BY <1>1, <1>3, <1>4
<1> QED BY <1>5 DEF u, base, pure, rest

LEMMA OtherDelayParts ==
    ASSUME NEW t, Parts(t)
    PROVE  LET u == SetOtherDelay(t)
               all == (t.propagation + t.loss + t.loss_trigger + t.queueing) % WordSize
           IN  OthersKept(u, t, {"other"}) /\ u.other = Larger(t.overall - all, 0)
<1> DEFINE all == (t.propagation + t.loss + t.loss_trigger + t.queueing) % WordSize
           other == Larger(t.overall - all, 0)
           u == [t EXCEPT !.other = other]
<1>1. SetOtherDelay(t) = u
  BY Zenon DEF SetOtherDelay
<1>2. "other" \in DOMAIN NoTail
  BY DEF NoTail
<1>3. OthersKept(u, t, {"other"}) /\ u.other = other
  <2> HIDE DEF other
  <2> QED BY <1>2 DEF OthersKept, Parts
<1> QED BY <1>1, <1>3

\* The worst packet is a data packet of the endpoint, if there is one.
LEMMA WorstIsCandidate ==
    ASSUME CaptureInv, MinInv, NEW max
    PROVE  LET ids == Candidates(max)
               w == WorstOf(ids)
           IN  /\ ids = {} => w = 0
               /\ ids # {} => w \in ids /\ \A j \in ids : delays[j].ack <= delays[w].ack
               /\ ids \subseteq Own
<1> DEFINE n == Len(pkts)
           ids == Candidates(max)
           f == [i \in Ids |-> delays[i].ack]
           S == { i \in ids : \A j \in ids : delays[j].ack <= delays[i].ack }
           w == WorstOf(ids)
<1>1. n \in Nat /\ Own \subseteq 0 .. n /\ Own \subseteq Ids
  BY CaptureTypes DEF CaptureInv
<1>2. ids \subseteq Own
  BY DEF Candidates
<1>3. w = IF ids = {} THEN 0 ELSE Min(S)
  BY DEF WorstOf
<1>4. CASE ids # {}
  <2>1. \A i \in ids : f[i] = delays[i].ack /\ f[i] \in Nat
    BY <1>1, <1>2 DEF MinInv
  <2>2. PICK i \in ids : \A j \in ids : f[j] <= f[i]
    <3>1. ids \subseteq 0 .. n
      BY <1>1, <1>2
    <3> HIDE DEF ids, n, f
    <3> QED BY <1>1, <1>4, <2>1, <3>1, HasLargest
  <2>3. S \subseteq 0 .. n /\ S # {}
    <3> HIDE DEF f, ids, n
    <3> QED BY <1>1, <1>2, <2>1, <2>2
  <2>4. Min(S) \in S
    <3> HIDE DEF S, n
    <3> QED BY <1>1, <2>3, MinIsFirst
  <2>5. w \in S
    <3> HIDE DEF S, ids, w
    <3> QED BY <1>3, <1>4, <2>4
  <2> HIDE DEF w, ids
  <2>6. w \in ids /\ \A j \in ids : delays[j].ack <= delays[w].ack
    BY <2>5
  <2> QED BY <1>2, <1>4, <2>6 DEF w, ids
<1>5. CASE ids = {}
  BY <1>2, <1>3, <1>5
<1> QED BY <1>4, <1>5

\* The parts before the constraints: as measured, or with what the fit adds.
Added(x, m, w, q, timeouts) ==
    x = WithBreakdown([m EXCEPT !.queueing = q[LastTx(w)]], GetTriggerDelay(w, q, timeouts))

\* What a call makes of the worst packet w.
TailOf(t, w, m) ==
    \/ (w = 0 \/ m.overall = 0) /\ t = m
    \/ /\ w # 0 /\ m.overall # 0
       /\ \E x : /\ t = SetOtherDelay(Attributed(Constrained(x)))
                 /\ \/ x = m
                    \/ \E q, timeouts : Added(x, m, w, q, timeouts)

LEMMA TailCases ==
    ASSUME NEW max
    PROVE  LET w == WorstOf(Candidates(max))
           IN  /\ TailOf(TailLatency(max).tail, w,
                         IF w = 0 THEN NoTail ELSE Measured(Min(Candidates(max)), w))
               /\ TailLatency(max).worst = w
<1> DEFINE ids == Candidates(max)
           w == WorstOf(ids)
           m == IF w = 0 THEN NoTail ELSE Measured(Min(ids), w)
           best == CalculateRttLinearFit(w, fit, Cleared)
           q == QueueingDelays(best.fit, min_rtt)
           table == TimeoutTable(w, q)
           r == WithFit(w, m, best, q, table)
           u == TailLatency(max)
<1>1. u = AnalyzedWith(w, m, best)
  BY Zenon DEF TailLatency, Analyzed
<1>2. CASE w = 0 \/ m.overall = 0
  <2> HIDE DEF w, m, best, u, ids
  <2>1. u.tail = m /\ u.worst = w
    BY <1>1, <1>2 DEF AnalyzedWith
  <2>2. TailOf(u.tail, w, m) /\ u.worst = w
    BY <1>2, <2>1, Zenon DEF TailOf
  <2> QED BY <2>2 DEF w, m, ids, u
<1>3. CASE ~(w = 0 \/ m.overall = 0)
  <2>1. u = Finished(w, best, r)
    <3> HIDE DEF w, m, best, u, ids, table
    <3> QED BY <1>1, <1>3, Zenon DEF AnalyzedWith, BrokenDown, table
  <2> DEFINE x == r.tail
             y == WithBreakdown([m EXCEPT !.queueing = q[LastTx(w)]],
                                GetTriggerDelay(w, q, table))
  <2>2. r = [tail |-> y, timeouts |-> table] \/ r = [tail |-> m, timeouts |-> no_queue_timeouts]
    BY Zenon DEF WithFit
  <2>3. Added(y, m, w, q, table)
    BY DEF Added
  <2> HIDE DEF r, y, q, table, m, w, u, best, ids
  <2>4. x = m \/ Added(x, m, w, q, table)
    BY <2>2, <2>3
  <2>5. u.tail = SetOtherDelay(Attributed(Constrained(x))) /\ u.worst = w
    BY <2>1 DEF Finished
  <2> HIDE DEF x
  <2>6. TailOf(u.tail, w, m) /\ u.worst = w
    BY <1>3, <2>4, <2>5, Zenon DEF TailOf
  <2> QED BY <2>6 DEF w, m, ids, u
<1> QED BY <1>2, <1>3

\* What the fit adds to the parts.
LEMMA AddedParts ==
    ASSUME NEW x, NEW m, Parts(m), NEW w, NEW q, NEW timeouts, Added(x, m, w, q, timeouts)
    PROVE  /\ OthersKept(x, m, {"queueing", "breakdown", "loss_trigger"})
           /\ x.queueing = q[LastTx(w)]
           /\ x.breakdown = GetTriggerDelay(w, q, timeouts)
           /\ x.loss_trigger = Total(x.breakdown)
<1> DEFINE d == q[LastTx(w)]
           b == GetTriggerDelay(w, q, timeouts)
           all == Total(b)
           y == [m EXCEPT !.queueing = d]
           z == [y EXCEPT !.breakdown = b, !.loss_trigger = all]
<1>1. x = z
  BY DEF Added, WithBreakdown
<1>2. "queueing" \in DOMAIN NoTail /\ "breakdown" \in DOMAIN NoTail /\ "loss_trigger" \in DOMAIN NoTail
  BY DEF NoTail
<1> HIDE DEF d, b, all
<1>3. OthersKept(y, m, {"queueing"}) /\ y.queueing = d
  BY <1>2 DEF OthersKept, Parts
<1> HIDE DEF y
<1>4. /\ OthersKept(z, y, {"breakdown", "loss_trigger"})
      /\ z.breakdown = b /\ z.loss_trigger = all
  BY <1>2, <1>3 DEF OthersKept, Parts
<1> HIDE DEF z
<1>5. /\ OthersKept(z, m, {"queueing", "breakdown", "loss_trigger"}) /\ z.queueing = d
  BY <1>2, <1>3, <1>4 DEF OthersKept
<1> QED BY <1>1, <1>4, <1>5 DEF d, b, all

\* A call that does not return has come to the worst packet's trigger.
LEMMA EndlessCall ==
    ASSUME CaptureInv, MinInv, LinesInv, TriggerInv, NEW max,
           TailLatency(max).tail.breakdown.endless
    PROVE  LaterLine
<1> DEFINE ids == Candidates(max)
           w == WorstOf(ids)
           m == IF w = 0 THEN NoTail ELSE Measured(Min(ids), w)
           t == TailLatency(max).tail
<1>1. Parts(m) /\ m.breakdown = NoTrigger
  <2>1. Parts(NoTail) /\ NoTail.breakdown = NoTrigger
    BY DEF Parts, NoTail
  <2>2. Parts(Measured(Min(ids), w)) /\ Measured(Min(ids), w).breakdown = NoTrigger
    BY MeasuredParts
  <2> HIDE DEF w
  <2> QED BY <2>1, <2>2
<1>2. TailOf(t, w, m)
  BY TailCases
<1>3. w # 0 => w \in Ids
  <2> w = 0 \/ w \in Own
    BY WorstIsCandidate
  <2> HIDE DEF w
  <2> QED BY DEF Own
<1>4. t.breakdown.endless
  OBVIOUS
<1> HIDE DEF t, w, m, ids
<1>5. NoTrigger.endless = FALSE
  BY DEF NoTrigger
<1>6. w # 0
  BY <1>1, <1>2, <1>4, <1>5 DEF TailOf
<1>7. PICK x : /\ t = SetOtherDelay(Attributed(Constrained(x)))
               /\ \/ x = m
                  \/ \E q, timeouts : Added(x, m, w, q, timeouts)
  BY <1>1, <1>2, <1>4, <1>5 DEF TailOf
<1>8. Parts(x)
  BY <1>1, <1>7, AddedParts DEF OthersKept
<1>9. t.breakdown = x.breakdown
  <2>1. "breakdown" \in DOMAIN NoTail \ {"queueing", "loss", "loss_trigger", "other"}
    BY DEF NoTail
  <2>2. OthersKept(Constrained(x), x, {"queueing"})
    BY <1>8, ConstrainedParts
  <2>3. OthersKept(Attributed(Constrained(x)), Constrained(x), {"loss", "loss_trigger"})
    BY <2>2, AttributedParts DEF OthersKept
  <2>4. OthersKept(t, Attributed(Constrained(x)), {"other"})
    BY <1>7, <2>3, OtherDelayParts DEF OthersKept
  <2> QED BY <2>1, <2>2, <2>3, <2>4 DEF OthersKept
<1>10. CASE x = m
  BY <1>1, <1>4, <1>5, <1>9, <1>10
<1>11. ASSUME NEW q, NEW timeouts, Added(x, m, w, q, timeouts)
       PROVE  LaterLine
  <2>1. GetTriggerDelay(w, q, timeouts).endless
    BY <1>1, <1>4, <1>9, <1>11, AddedParts
  <2> QED BY <1>3, <1>6, <2>1, EndlessNeedsLaterLine
<1> QED BY <1>7, <1>10, <1>11

\* The calls only read the capture.
LEMMA CaptureOrRead ==
    ASSUME [AnalysisNext]_analysisVars
    PROVE  [Next]_vars /\ (phase # "capture" => NothingCaptured)
<1>1. CASE UNCHANGED analysisVars
  BY <1>1 DEF analysisVars, NothingCaptured
<1>2. CASE CapturePacket
  BY <1>2 DEF CapturePacket
<1>3. CASE EndOfCapture
  BY <1>3 DEF EndOfCapture
<1>4. ASSUME NEW max, AnalyzeTailLatency(max)
      PROVE  NothingCaptured
  BY <1>4, Zenon DEF AnalyzeTailLatency, NothingCaptured
<1>5. ASSUME NEW seqs, GetTimerEstimates(seqs)
      PROVE  NothingCaptured
  BY <1>5, Zenon DEF GetTimerEstimates, NothingCaptured
<1>6. CASE NothingCaptured
  BY <1>6 DEF NothingCaptured
<1> QED BY <1>1, <1>2, <1>3, <1>4, <1>5, <1>6 DEF AnalysisNext, Analyze

\* What the analysis relies on of the capture.
ReadInv == AckInv /\ CaptureInv /\ TriggerInv /\ LinesInv /\ MinInv

LEMMA ReadStep ==
    ASSUME ReadInv, [AnalysisNext]_analysisVars
    PROVE  ReadInv'
BY CaptureOrRead, AckStep, CaptureStep, TriggerStep, LineStep, MinStep DEF ReadInv

LEMMA ReadStart == AnalysisInit => ReadInv
BY CaptureStart, LinesStart, DelaysStart DEF AnalysisInit, ReadInv

LEMMA LaterLineStays ==
    ASSUME NothingCaptured, LaterLine
    PROVE  LaterLine'
<1>1. pkts' = pkts /\ marks' = marks /\ trigger' = trigger /\ first_tx' = first_tx
  BY DEF NothingCaptured, vars, linkVars, noteVars
<1>2. PICK i \in Own : /\ "slow_start" \in marks[i] /\ trigger[i] # 0
                       /\ Lost(first_tx[trigger[i]]) /\ LastTx(first_tx[trigger[i]]) >= i
  BY DEF LaterLine
<1>3. /\ i \in Own' /\ \A j : Lost(j)' = Lost(j) /\ LastTx(j)' = LastTx(j)
  BY SamePackets, SameLinks
<1> QED BY <1>1, <1>2, <1>3 DEF LaterLine

LEMMA EndlessStep ==
    ASSUME ReadInv, phase = "endless" => LaterLine, [AnalysisNext]_analysisVars
    PROVE  phase' = "endless" => LaterLine'
<1>1. CASE phase # "capture" /\ phase' = phase
  BY <1>1, CaptureOrRead, LaterLineStays
<1>2. CASE UNCHANGED analysisVars
  <2> NothingCaptured /\ phase' = phase
    BY <1>2 DEF analysisVars, NothingCaptured
  <2> QED BY LaterLineStays
<1>3. CASE CapturePacket \/ EndOfCapture
  BY <1>3 DEF CapturePacket, EndOfCapture
<1>4. ASSUME NEW max, AnalyzeTailLatency(max)
      PROVE  phase' = "endless" => LaterLine'
  <2>1. /\ NothingCaptured /\ phase = "analysis"
        /\ phase' = IF TailLatency(max).tail.breakdown.endless THEN "endless" ELSE phase
    <3> HIDE DEF TailLatency
    <3> QED BY <1>4, Zenon DEF AnalyzeTailLatency, NothingCaptured
  <2>2. phase' = "endless" => LaterLine
    BY <2>1, EndlessCall DEF ReadInv
  <2> QED BY <2>1, <2>2, LaterLineStays
<1>5. ASSUME NEW seqs, GetTimerEstimates(seqs)
      PROVE  phase' = "endless" => LaterLine'
  <2> phase = "analysis" /\ phase' = phase
    BY <1>5 DEF GetTimerEstimates
  <2> QED BY <1>1
<1> QED BY <1>2, <1>3, <1>4, <1>5 DEF AnalysisNext, Analyze

(***************************************************************************)
(* GetTriggerDelay returns, in every capture with data in one direction,     *)
(* unless a slow-start                                                     *)
(* retransmission was triggered by a line that went on at that time or      *)
(* later.                                                                  *)
(***************************************************************************)
THEOREM EndlessMeansLaterLine == AnalysisSpec => []EndlessOnlyIntoLaterLine
<1>1. AnalysisInit => ReadInv /\ (phase = "endless" => LaterLine)
  BY ReadStart DEF AnalysisInit
<1>2. ReadInv /\ (phase = "endless" => LaterLine) /\ [AnalysisNext]_analysisVars
         => ReadInv' /\ (phase = "endless" => LaterLine)'
  BY ReadStep, EndlessStep
<1>3. (phase = "endless" => LaterLine) => EndlessOnlyIntoLaterLine
  BY DEF LaterLine, EndlessOnlyIntoLaterLine
<1> QED BY <1>1, <1>2, <1>3, PTL DEF AnalysisSpec
-----------------------------------------------------------------------------
(***************************************************************************)
(* The samples and the timer.  A step takes samples on its walk over the    *)
(* packets that it acks or ties; the list gets them on a walk over the       *)
(* packets that were sampled.  Both walks see the same packets in the same  *)
(* order.                                                                  *)
(***************************************************************************)
ReplayRound(list, k, tm) == AddSample(tm, list[k].rtt, list[k].acked, list[k].next)
ReplayWalk == INSTANCE Walks WITH Step <- ReplayRound

LEMMA ReplayOneMore == ReplayWalk!OneMoreSuffices
BY OneMoreAtTheEnd DEF ReplayWalk!OneMoreSuffices

ListRound(entries, i, list) == Append(list, entries[i])
ListWalk == INSTANCE Walks WITH Step <- ListRound

LEMMA ListOneMore == ListWalk!OneMoreSuffices
BY OneMoreAtTheEnd DEF ListWalk!OneMoreSuffices

IsList(s, n) == n \in Nat /\ s = [k \in 1 .. n |-> s[k]]
Gives(s, tm) == Replayed(s) = tm /\ \E n : IsList(s, n)

\* The walk of a list of samples (AddSample for each of them).
LEMMA ReplayIsAWalk ==
    ASSUME NEW n, NEW s, IsList(s, n)
    PROVE  \E g : /\ ReplayWalk!IsWalk(g, s, NewTimer, 1 .. n)
                  /\ Replayed(s) = g[1 .. n]
<1> DEFINE S == DOMAIN s
           G(g) == g = [t \in SUBSET S |-> IF t = {} THEN NewTimer
                          ELSE ReplayRound(s, Max(t), g[t \ {Max(t)}])]
           h == CHOOSE g : G(g)
<1>1. n \in Nat /\ S = 1 .. n /\ S \subseteq 0 .. n
  BY DEF IsList
<1>2. PICK f : ReplayWalk!IsWalk(f, s, NewTimer, S)
  <2> HIDE DEF S
  <2> QED BY <1>1, ReplayOneMore, ReplayWalk!WalkExists
<1>3. G(f)
  <2> HIDE DEF S
  <2> QED BY <1>1, <1>2, LastOfEach DEF ReplayWalk!IsWalk
<1>4. G(h)
  <2> HIDE DEF G
  <2> QED BY <1>3
<1>5. Replayed(s) = h[S]
  BY Zenon DEF Replayed, FoldLeft, MapThenFoldSet, ReplayRound
<1> HIDE DEF S, h
<1>6. ReplayWalk!IsWalk(h, s, NewTimer, S)
  <2>1. /\ h = [t \in SUBSET S |-> h[t]] /\ h[{}] = NewTimer
        /\ \A t \in SUBSET S : t # {} => h[t] = ReplayRound(s, Max(t), h[t \ {Max(t)}])
    BY <1>4
  <2>2. \A t \in SUBSET S : \A x \in t : (\A y \in t : x >= y) => x = Max(t)
    BY <1>1, LastOfEach
  <2> HIDE DEF Max, ReplayRound
  <2> QED BY <2>1, <2>2 DEF ReplayWalk!IsWalk
<1> QED BY <1>1, <1>5, <1>6

\* No samples, no estimate.
LEMMA ReplayNone == Replayed(<< >>) = NewTimer
<1>1. IsList(<< >>, 0)
  BY DEF IsList
<1>2. PICK g : ReplayWalk!IsWalk(g, << >>, NewTimer, 1 .. 0) /\ Replayed(<< >>) = g[1 .. 0]
  BY <1>1, ReplayIsAWalk
<1>3. 1 .. 0 = {}
  OBVIOUS
<1> QED BY <1>2, <1>3 DEF ReplayWalk!IsWalk

\* One sample more.
More(s, n, e) == [k \in 1 .. n + 1 |-> IF k = n + 1 THEN e ELSE s[k]]

LEMMA ReplayMore ==
    ASSUME NEW n, NEW s, IsList(s, n), NEW e
    PROVE  Replayed(More(s, n, e)) = AddSample(Replayed(s), e.rtt, e.acked, e.next)
<1> DEFINE m == n + 1
           l == More(s, n, e)
<1>1. n \in Nat /\ m \in Nat /\ IsList(l, m)
  BY DEF IsList, More
<1>2. l[m] = e /\ \A k \in 1 .. n : l[k] = s[k] /\ k # m
  BY <1>1 DEF More
<1> HIDE DEF l
<1>3. PICK g : ReplayWalk!IsWalk(g, s, NewTimer, 1 .. n) /\ Replayed(s) = g[1 .. n]
  BY ReplayIsAWalk
<1>4. PICK h : ReplayWalk!IsWalk(h, l, NewTimer, 1 .. m) /\ Replayed(l) = h[1 .. m]
  <2> HIDE DEF m
  <2> QED BY <1>1, ReplayIsAWalk
<1> DEFINE Good == { t \in SUBSET (1 .. n) : h[t] = g[t] }
<1>5. {} \in Good
  BY <1>3, <1>4 DEF ReplayWalk!IsWalk
<1>6. ASSUME NEW t \in SUBSET (1 .. n), NEW x \in t, \A y \in t : x >= y, t \ {x} \in Good
      PROVE  t \in Good
  <2>1. t \in SUBSET (1 .. m)
    BY <1>1
  <2>2. g[t] = ReplayRound(s, x, g[t \ {x}])
    BY <1>3, <1>6 DEF ReplayWalk!IsWalk
  <2>3. h[t] = ReplayRound(l, x, h[t \ {x}])
    <3> HIDE DEF m, Good
    <3> QED BY <1>4, <1>6, <2>1 DEF ReplayWalk!IsWalk
  <2>4. h[t \ {x}] = g[t \ {x}] /\ l[x] = s[x]
    BY <1>2, <1>6
  <2> QED BY <2>2, <2>3, <2>4 DEF ReplayRound
<1>7. 1 .. n \in Good
  <2>1. 1 .. n \subseteq 0 .. n
    OBVIOUS
  <2> HIDE DEF Good
  <2> QED BY <1>1, <1>5, <1>6, <2>1, OneMoreAtTheEnd
<1>8. h[1 .. m] = ReplayRound(l, m, h[1 .. n])
  <2>1. /\ 1 .. m \in SUBSET (1 .. m) /\ m \in 1 .. m /\ \A y \in 1 .. m : m >= y
        /\ (1 .. m) \ {m} = 1 .. n
    BY <1>1
  <2> HIDE DEF m
  <2>2. h[1 .. m] = ReplayRound(l, m, h[(1 .. m) \ {m}])
    BY <1>4, <2>1 DEF ReplayWalk!IsWalk
  <2> QED BY <2>1, <2>2
<1> QED BY <1>2, <1>3, <1>4, <1>7, <1>8 DEF ReplayRound, l

LEMMA AppendIsMore ==
    ASSUME NEW n, NEW s, IsList(s, n), NEW e
    PROVE  Append(s, e) = More(s, n, e) /\ IsList(Append(s, e), n + 1)
<1>1. n \in Nat /\ s = [k \in 1 .. n |-> s[k]]
  BY DEF IsList
<1>2. /\ Append(s, e) = [k \in 1 .. n + 1 |-> Append(s, e)[k]]
      /\ \A k \in 1 .. n : Append(s, e)[k] = s[k]
      /\ Append(s, e)[n + 1] = e
  BY <1>1, AppendEntry
<1> QED BY <1>1, <1>2 DEF More, IsList

\* The packets that a step samples, and the walk that lists them (NoteSamples).
SampledPackets == { i \in Own : ack_packet[i] = 0 /\ ack_packet'[i] # 0
                              /\ previous_tx[i] = 0 /\ rtx[i] = 0 }

LEMMA SamplesAreAWalk ==
    ASSUME NEW n \in Nat, NEW T, T = SampledPackets, T \subseteq 0 .. n, NoteSamples,
           NEW e, e = [i \in T |-> Sample(i)]
    PROVE  \E h : ListWalk!IsWalk(h, e, samples, T) /\ samples' = h[T]
<1> DEFINE S == SampledPackets
           G(g) == g = [s \in SUBSET S |-> IF s = {} THEN samples
                          ELSE ListRound(e, Max(s), g[s \ {Max(s)}])]
           G2(g) == g = [s \in SUBSET S |-> IF s = {} THEN samples
                          ELSE Append(g[s \ {Max(s)}], Sample(Max(s)))]
           h == CHOOSE g : G2(g)
<1>1. S = T /\ S \subseteq 0 .. n
  OBVIOUS
<1>2. PICK f : ListWalk!IsWalk(f, e, samples, S)
  <2> HIDE DEF S
  <2> QED BY <1>1, ListOneMore, ListWalk!WalkExists
<1>3. G(f)
  <2>1. \A t \in SUBSET S : t # {} => Max(t) \in t /\ \A y \in t : Max(t) >= y
    <3> HIDE DEF S, Max
    <3> QED BY <1>1, LastOfEach
  <2> HIDE DEF S, Max, ListRound
  <2>2. f = [t \in SUBSET S |-> f[t]] /\ f[{}] = samples
    BY <1>2 DEF ListWalk!IsWalk
  <2>3. \A t \in SUBSET S : t # {} => f[t] = ListRound(e, Max(t), f[t \ {Max(t)}])
    BY <1>2, <2>1 DEF ListWalk!IsWalk
  <2> QED BY <2>2, <2>3
<1>4. \A g : G(g) <=> G2(g)
  <2>1. \A s \in SUBSET S : s # {} => Max(s) \in S
    <3> HIDE DEF S, Max
    <3> QED BY <1>1, LastOfEach
  <2>2. \A s \in SUBSET S : s # {} => e[Max(s)] = Sample(Max(s))
    <3> HIDE DEF S, Max, Sample
    <3> QED BY <1>1, <2>1
  <2> HIDE DEF S, Max, Sample
  <2> QED BY <2>2 DEF ListRound
<1>5. G2(h)
  <2>1. G2(f)
    <3> HIDE DEF G, G2
    <3> QED BY <1>3, <1>4
  <2> HIDE DEF G2
  <2> QED BY <2>1
<1>6. G(h)
  <2> HIDE DEF G, G2, h
  <2> QED BY <1>4, <1>5
<1>7. samples' = h[S]
  BY Zenon DEF NoteSamples, FoldInOrder, MapThenFoldSet, SampledPackets
<1> HIDE DEF S, h
<1>8. ListWalk!IsWalk(h, e, samples, S)
  <2>1. /\ h = [t \in SUBSET S |-> h[t]] /\ h[{}] = samples
        /\ \A t \in SUBSET S : t # {} => h[t] = ListRound(e, Max(t), h[t \ {Max(t)}])
    BY <1>6
  <2>2. \A t \in SUBSET S : \A x \in t : (\A y \in t : x >= y) => x = Max(t)
    BY <1>1, LastOfEach
  <2> HIDE DEF Max, ListRound
  <2> QED BY <2>1, <2>2 DEF ListWalk!IsWalk
<1> QED BY <1>1, <1>7, <1>8

\* The first positions of a set.
Leading(s, S) == s \subseteq S /\ \A x \in s : \A y \in S : y < x => y \in s

\* A walk over S that samples the packets of T as the list e has them.
Samples(G, S, T, e) ==
    \A s \in SUBSET S : \A x \in s :
       (\A y \in s : x >= y) /\ Leading(s, S) =>
          G[s] = IF x \in T THEN AddSample(G[s \ {x}], e[x].rtt, e[x].acked, e[x].next)
                 ELSE G[s \ {x}]

LEMMA ListReplays ==
    ASSUME NEW n \in Nat, NEW S, S \subseteq 0 .. n, NEW T, T \subseteq S, NEW e,
           NEW G, Samples(G, S, T, e),
           NEW list, Gives(list, G[{}]),
           NEW h, ListWalk!IsWalk(h, e, list, T)
    PROVE  Gives(h[T], G[S])
<1> DEFINE OK(s) == Gives(h[s \cap T], G[s])
           Good == { s \in SUBSET S : Leading(s, S) => OK(s) }
<1>1. {} \in Good
  <2>1. {} \cap T = {} /\ h[{}] = list
    BY DEF ListWalk!IsWalk
  <2>2. OK({})
    BY <2>1
  <2> QED BY <2>2
<1>2. ASSUME NEW s \in SUBSET S, NEW x \in s, \A y \in s : x >= y, s \ {x} \in Good
      PROVE  s \in Good
  <2> SUFFICES ASSUME Leading(s, S)
               PROVE  OK(s)
    OBVIOUS
  <2>1. Leading(s \ {x}, S)
    <3> SUFFICES ASSUME NEW z \in s \ {x}, NEW y \in S, y < z
                 PROVE  y \in s \ {x}
      BY DEF Leading
    <3>1. y \in s
      BY DEF Leading
    <3>2. x \in Int /\ y \in Int /\ z \in Int /\ x >= z
      BY <1>2
    <3> QED BY <3>1, <3>2
  <2>2. PICK k : IsList(h[(s \ {x}) \cap T], k)
    BY <1>2, <2>1 DEF Gives
  <2>3. Replayed(h[(s \ {x}) \cap T]) = G[s \ {x}]
    BY <1>2, <2>1 DEF Gives
  <2>4. CASE x \in T
    <3>1. /\ s \cap T \in SUBSET T /\ x \in s \cap T /\ (\A y \in s \cap T : x >= y)
          /\ (s \cap T) \ {x} = (s \ {x}) \cap T
      BY <1>2, <2>4
    <3>2. h[s \cap T] = ListRound(e, x, h[(s \ {x}) \cap T])
      <4> HIDE DEF Good, OK
      <4>1. h[s \cap T] = ListRound(e, x, h[(s \cap T) \ {x}])
        BY <3>1 DEF ListWalk!IsWalk
      <4> QED BY <3>1, <4>1
    <3>3. h[s \cap T] = More(h[(s \ {x}) \cap T], k, e[x]) /\ IsList(h[s \cap T], k + 1)
      <4> DEFINE l == h[(s \ {x}) \cap T]
      <4>1. IsList(l, k)
        BY <2>2
      <4> HIDE DEF l
      <4>2. Append(l, e[x]) = More(l, k, e[x]) /\ IsList(Append(l, e[x]), k + 1)
        BY <4>1, AppendIsMore
      <4> QED BY <3>2, <4>2 DEF ListRound, l
    <3>4. Replayed(h[s \cap T])
             = AddSample(Replayed(h[(s \ {x}) \cap T]), e[x].rtt, e[x].acked, e[x].next)
      BY <2>2, <3>3, ReplayMore
    <3>5. G[s] = AddSample(G[s \ {x}], e[x].rtt, e[x].acked, e[x].next)
      BY <1>2, <2>4 DEF Samples
    <3> QED BY <2>3, <3>3, <3>4, <3>5 DEF Gives
  <2>5. CASE x \notin T
    <3>1. s \cap T = (s \ {x}) \cap T
      BY <2>5
    <3>2. G[s] = G[s \ {x}]
      BY <1>2, <2>5 DEF Samples
    <3> QED BY <2>2, <2>3, <3>1, <3>2 DEF Gives
  <2> QED BY <2>4, <2>5
<1>3. S \in Good
  <2> HIDE DEF Good
  <2> QED BY <1>1, <1>2, OneMoreAtTheEnd
<1>4. Leading(S, S) /\ S \cap T = T
  BY DEF Leading
<1> QED BY <1>3, <1>4

\* What a walk notes of the packets that it samples.
Noted(e, T, delay, acked, next) ==
    \A i \in T : e[i].rtt = delay[i] /\ e[i].acked = acked /\ e[i].next = next

\* The samples of the packets that an ACK covers.
LEMMA EstimatesSample ==
    ASSUME NEW n \in Nat, NEW S, S \subseteq 0 .. n, NEW a, NEW e,
           NEW T, T = { i \in S : previous_tx[i] = 0 /\ rtx[i] = 0 },
           Noted(e, T, [i \in T |-> a.ts - pkts[i].ts], AckedAfter(a), seq_next)
    PROVE  \E G : Samples(G, S, T, e) /\ G[{}] = timer /\ G[S] = EstimatesOf(a, S).timer
<1> DEFINE start == [min_rtt |-> min_rtt, timer |-> timer]
<1>1. PICK g : EstimateWalk!IsWalk(g, a, start, S) /\ EstimatesOf(a, S) = g[S]
  BY EstimatesAreAWalk
<1> DEFINE G == [s \in SUBSET S |-> g[s].timer]
<1>2. G[{}] = timer /\ G[S] = EstimatesOf(a, S).timer
  BY <1>1 DEF EstimateWalk!IsWalk
<1>3. ASSUME NEW s \in SUBSET S, NEW x \in s, \A y \in s : x >= y
      PROVE  G[s] = IF x \in T THEN AddSample(G[s \ {x}], e[x].rtt, e[x].acked, e[x].next)
                    ELSE G[s \ {x}]
  <2>1. g[s] = Estimate(g[s \ {x}], x, a)
    BY <1>1, <1>3 DEF EstimateWalk!IsWalk, EstimateRound
  <2>2. G[s] = g[s].timer /\ G[s \ {x}] = g[s \ {x}].timer
    OBVIOUS
  <2>3. G[s] = Sampled(G[s \ {x}], x, a.ts - pkts[x].ts, AckedAfter(a), seq_next)
    BY <2>1, <2>2 DEF Estimate
  <2>4. x \in T <=> previous_tx[x] = 0 /\ rtx[x] = 0
    OBVIOUS
  <2>5. x \in T => /\ e[x].rtt = a.ts - pkts[x].ts
                   /\ e[x].acked = AckedAfter(a) /\ e[x].next = seq_next
    BY DEF Noted
  <2> HIDE DEF G
  <2> QED BY <2>3, <2>4, <2>5 DEF Sampled
<1> HIDE DEF G
<1>4. Samples(G, S, T, e)
  BY <1>3 DEF Samples
<1> QED BY <1>2, <1>4

\* A round ties its own packet or none, and takes the sample that the tie gives.
LEMMA TieRoundSamples ==
    ASSUME CaptureInv, NEW s, NEW t, TiesOK(s, t), NEW i \in unacked, i \notin s,
           NEW p, NEW sq
    PROVE  LET u == TieStep(t, i, p, sq)
           IN  /\ \A j \in unacked \ {i} : u.by[j] = t.by[j]
               /\ u.by[i] = 0 => u.timer = t.timer
               /\ u.by[i] # 0 =>
                     u.timer = Sampled(t.timer, i, pkts[u.by[i]].ts - pkts[i].ts, sq.acked, sq.next)
<1> DEFINE Kept(u) == u.by = t.by /\ u.timer = t.timer
<1>1. /\ DOMAIN t = DOMAIN NoTies
      /\ t.by = [j \in unacked |-> t.by[j]] /\ t.by[i] = 0
  BY DEF TiesOK
<1>2. /\ Kept([t EXCEPT !.done = TRUE]) /\ Kept([t EXCEPT !.queue = {}]) /\ Kept(t)
  OBVIOUS
<1>3. ASSUME NEW a \in CanHaveSeen(t, i)
      PROVE  LET u == Tie(t, i, a, sq)
             IN  /\ \A j \in unacked \ {i} : u.by[j] = t.by[j]
                 /\ u.by[i] = a /\ a # 0
                 /\ u.timer = Sampled(t.timer, i, pkts[a].ts - pkts[i].ts, sq.acked, sq.next)
  <2> DEFINE u == Tie(t, i, a, sq)
             tm == Sampled(t.timer, i, pkts[a].ts - pkts[i].ts, sq.acked, sq.next)
             rtt == LowerMinRTT(t.min_rtt, i, pkts[a].ts - pkts[i].ts)
             rest == { q \in t.queue : q > a }
             by == [t.by EXCEPT ![i] = a]
             list == Add(t.sacks, [start |-> pkts[i].seq, end |-> SeqEnd(pkts[i])])
             tied == [t EXCEPT !.queue = rest, !.by = by, !.min_rtt = rtt, !.timer = tm,
                               !.sacks = list]
             len == pkts[i].len
             delayed == DelayedAck({ j \in unacked : t.by[j] = 0 }, rtx, marks)
             newer == [tied EXCEPT !.last = a, !.adjust = @ + len, !.armer = a,
                                   !.armed_with = tm, !.delayed = delayed]
  <2>1. u = newer \/ u = tied
    BY DEF Tie
  <2>2. "timer" \in DOMAIN t /\ "by" \in DOMAIN t
    BY <1>1 DEF NoTies
  <2>3. tied.by = by /\ tied.timer = tm /\ DOMAIN tied = DOMAIN t
    <3> HIDE DEF rest, by, rtt, tm, list
    <3> QED BY <2>2
  <2>4. newer.by = by /\ newer.timer = tm
    <3> HIDE DEF rest, by, rtt, tm, list, len, delayed, tied
    <3> QED BY <2>2, <2>3
  <2>5. u.by = by /\ u.timer = tm
    <3> HIDE DEF by, tm, tied, newer, u
    <3> QED BY <2>1, <2>3, <2>4
  <2>6. by[i] = a /\ \A j \in unacked \ {i} : by[j] = t.by[j]
    BY <1>1
  <2>7. a # 0
    <3> a \in lookalikes
      BY DEF CanHaveSeen, TiesOK
    <3> QED BY CaptureTypes DEF CaptureInv
  <2> HIDE DEF u, by, tm
  <2>8. u.by[i] = a /\ \A j \in unacked \ {i} : u.by[j] = t.by[j]
    BY <2>5, <2>6
  <2> QED BY <2>5, <2>7, <2>8 DEF u, tm
<1>4. CanHaveSeen(t, i) # {} => Min(CanHaveSeen(t, i)) \in CanHaveSeen(t, i)
  <2>1. Len(pkts) \in Nat /\ CanHaveSeen(t, i) \subseteq 0 .. Len(pkts)
    BY CaptureTypes DEF CanHaveSeen, TiesOK, CaptureInv
  <2> HIDE DEF CanHaveSeen
  <2> QED BY <2>1, MinIsFirst
<1> DEFINE u == TieStep(t, i, p, sq)
           b == Min(CanHaveSeen(t, i))
<1>5. Kept(u) \/ (CanHaveSeen(t, i) # {} /\ u = Tie(t, i, b, sq))
  <2> HIDE DEF Kept, b
  <2> QED BY <1>2, Zenon DEF TieStep, b
<1>6. CASE Kept(u)
  <2> HIDE DEF u
  <2>1. u.by = t.by /\ u.timer = t.timer
    BY <1>6
  <2>2. u.by[i] = 0 /\ u.timer = t.timer /\ \A j \in unacked \ {i} : u.by[j] = t.by[j]
    BY <1>1, <2>1
  <2> QED BY <2>2 DEF u
<1>7. CASE CanHaveSeen(t, i) # {} /\ u = Tie(t, i, b, sq)
  <2>1. b \in CanHaveSeen(t, i)
    BY <1>4, <1>7
  <2> HIDE DEF u, b
  <2>2. /\ \A j \in unacked \ {i} : u.by[j] = t.by[j]
        /\ u.by[i] = b /\ b # 0
        /\ u.timer = Sampled(t.timer, i, pkts[b].ts - pkts[i].ts, sq.acked, sq.next)
    BY <1>3, <1>7, <2>1
  <2> QED BY <2>2 DEF u
<1> QED BY <1>5, <1>6, <1>7

\* Ties stay as the walk goes on.
LEMMA TiesStay ==
    ASSUME CaptureInv, NEW p, NEW sq, NEW c, c = <<p, sq>>,
           NEW g, TieWalk!IsWalk(g, c, NoTies, unacked), NEW f, Leading(f, unacked)
    PROVE  \A i \in f : g[unacked].by[i] = g[f].by[i]
<1> DEFINE Good == { s \in SUBSET unacked : f \subseteq s => \A i \in f : g[s].by[i] = g[f].by[i] }
<1>1. Len(pkts) \in Nat /\ unacked \subseteq 0 .. Len(pkts)
  BY CaptureTypes DEF CaptureInv
<1>2. {} \in Good
  <2> f \subseteq {} => f = {}
    OBVIOUS
  <2> QED OBVIOUS
<1>3. ASSUME NEW s \in SUBSET unacked, NEW x \in s, \A y \in s : x >= y, s \ {x} \in Good
      PROVE  s \in Good
  <2> SUFFICES ASSUME f \subseteq s, NEW i \in f
               PROVE  g[s].by[i] = g[f].by[i]
    OBVIOUS
  <2>1. CASE x \in f
    <3> s \subseteq f
      <4> SUFFICES ASSUME NEW y \in s PROVE y \in f
        OBVIOUS
      <4>1. x \in Int /\ y \in Int /\ x >= y /\ y \in unacked
        BY <1>1, <1>3
      <4>2. y < x \/ y = x
        BY <4>1
      <4> QED BY <2>1, <4>1, <4>2 DEF Leading
    <3> s = f
      OBVIOUS
    <3> QED OBVIOUS
  <2>2. CASE x \notin f
    <3>1. f \subseteq s \ {x} /\ s \ {x} \in SUBSET unacked /\ i \in unacked \ {x}
      BY <2>2
    <3>2. g[s \ {x}].by[i] = g[f].by[i]
      BY <1>3, <3>1
    <3>3. g[s] = TieStep(g[s \ {x}], x, p, sq)
      <4>1. g[s] = TieRound(c, x, g[s \ {x}])
        BY <1>3 DEF TieWalk!IsWalk
      <4> QED BY <4>1 DEF TieRound
    <3>4. TiesOK(s \ {x}, g[s \ {x}])
      BY <3>1, TieWalkSound
    <3>5. g[s].by[i] = g[s \ {x}].by[i]
      BY <3>1, <3>3, <3>4, TieRoundSamples
    <3> QED BY <3>2, <3>5
  <2> QED BY <2>1, <2>2
<1>4. unacked \in Good
  <2> HIDE DEF Good
  <2> QED BY <1>1, <1>2, <1>3, OneMoreAtTheEnd
<1> QED BY <1>4 DEF Leading

\* The samples of the packets that are tied to lookalikes.
TiedBy(T, by, p, sq) ==
    by = TiesOf(p, sq).by /\ T = { i \in unacked : by[i] # 0 /\ rtx[i] = 0 }

LEMMA TiesSample ==
    ASSUME CaptureInv, NEW p, NEW sq, NEW e, NEW by, NEW T, TiedBy(T, by, p, sq),
           Noted(e, T, [i \in T |-> pkts[by[i]].ts - pkts[i].ts], sq.acked, sq.next)
    PROVE  \E G : /\ Samples(G, unacked, T, e) /\ G[{}] = timer
                  /\ G[unacked] = TiesOf(p, sq).timer
<1> DEFINE S == unacked
<1>1. Len(pkts) \in Nat /\ unacked \subseteq 0 .. Len(pkts)
  BY CaptureTypes DEF CaptureInv
<1>2. NoTies.timer = timer /\ NoTies.by = [i \in unacked |-> 0]
  BY DEF NoTies
<1>5. by = TiesOf(p, sq).by /\ T = { i \in unacked : by[i] # 0 /\ rtx[i] = 0 }
  BY DEF TiedBy
<1>3. CASE lookalikes = {}
  <2>1. TiesOf(p, sq) = NoTies /\ T = {}
    BY <1>2, <1>3, <1>5 DEF TiesOf
  <2> DEFINE G == [s \in SUBSET S |-> timer]
  <2>2. \A s \in SUBSET S : G[s] = timer
    OBVIOUS
  <2>3. Samples(G, S, T, e)
    <3> HIDE DEF G
    <3> QED BY <2>1, <2>2 DEF Samples
  <2> QED BY <1>2, <2>1, <2>2, <2>3
<1>4. CASE lookalikes # {}
  <2> DEFINE c == <<p, sq>>
  <2>1. PICK g : TieWalk!IsWalk(g, c, NoTies, S) /\ TiesOf(p, sq) = g[S]
    BY <1>1, <1>4, TiesAreAWalk
  <2> DEFINE G == [s \in SUBSET S |-> g[s].timer]
  <2>2. G[{}] = timer /\ G[S] = TiesOf(p, sq).timer
    BY <1>2, <2>1 DEF TieWalk!IsWalk
  <2>3. ASSUME NEW s \in SUBSET S, NEW x \in s, \A y \in s : x >= y, Leading(s, S)
        PROVE  G[s] = IF x \in T THEN AddSample(G[s \ {x}], e[x].rtt, e[x].acked, e[x].next)
                      ELSE G[s \ {x}]
    <3>1. g[s] = TieStep(g[s \ {x}], x, p, sq)
      <4>1. g[s] = TieRound(c, x, g[s \ {x}])
        BY <2>1, <2>3 DEF TieWalk!IsWalk
      <4> QED BY <4>1 DEF TieRound
    <3>2. TiesOK(s \ {x}, g[s \ {x}]) /\ TiesOK(s, g[s])
      <4> HIDE DEF c
      <4> QED BY <2>1, TieWalkSound DEF c
    <3>3. /\ g[s].by[x] = 0 => g[s].timer = g[s \ {x}].timer
          /\ g[s].by[x] # 0 =>
                g[s].timer = Sampled(g[s \ {x}].timer, x, pkts[g[s].by[x]].ts - pkts[x].ts,
                                     sq.acked, sq.next)
      BY <3>1, <3>2, TieRoundSamples
    <3>4. g[s].by[x] = by[x]
      <4>1. \A i \in s : g[S].by[i] = g[s].by[i]
        <5> HIDE DEF c
        <5> QED BY <2>1, <2>3, TiesStay DEF c
      <4> QED BY <1>5, <2>1, <4>1
    <3>5. by[x] # 0 => previous_tx[x] = 0
      BY <3>2, <3>4 DEF TiesOK
    <3>6. G[s] = g[s].timer /\ G[s \ {x}] = g[s \ {x}].timer
      OBVIOUS
    <3>7. x \in T <=> by[x] # 0 /\ rtx[x] = 0
      BY <1>5
    <3>8. x \in T => /\ e[x].rtt = pkts[by[x]].ts - pkts[x].ts
                     /\ e[x].acked = sq.acked /\ e[x].next = sq.next
      BY DEF Noted
    <3> HIDE DEF G
    <3> QED BY <3>3, <3>4, <3>5, <3>6, <3>7, <3>8 DEF Sampled
  <2> HIDE DEF G
  <2>4. Samples(G, S, T, e)
    BY <2>3 DEF Samples
  <2> QED BY <2>2, <2>4
<1> QED BY <1>3, <1>4

\* The inductive invariant: the samples are a list, and give the timer.
SampleInv == Gives(samples, timer)

\* A step whose walk over S takes the samples that it notes.
LEMMA StepSamples ==
    ASSUME SampleInv, NoteSamples, NEW n \in Nat, NEW S, S \subseteq 0 .. n,
           NEW T, T = SampledPackets, T \subseteq S, NEW e, e = [i \in T |-> Sample(i)],
           NEW G, Samples(G, S, T, e), G[{}] = timer, G[S] = timer'
    PROVE  SampleInv'
<1>2. T \subseteq 0 .. n
  OBVIOUS
<1>3. PICK h : ListWalk!IsWalk(h, e, samples, T) /\ samples' = h[T]
  BY ONLY <1>2, SamplesAreAWalk, n \in Nat, T = SampledPackets, NoteSamples,
          e = [i \in T |-> Sample(i)]
<1>4. Gives(samples, G[{}])
  BY DEF SampleInv
<1>5. Gives(h[T], G[S])
  <2>1. /\ n \in Nat /\ S \subseteq 0 .. n /\ T \subseteq S /\ Samples(G, S, T, e)
        /\ ListWalk!IsWalk(h, e, samples, T)
    BY <1>3
  <2> QED BY ONLY <1>4, <2>1, ListReplays
<1>6. Gives(samples', timer')
  BY <1>3, <1>5
<1> QED BY <1>6 DEF SampleInv, Gives

\* A step that acks nothing.
LEMMA NoSamples ==
    ASSUME SampleInv, NoteSamples, timer' = timer,
           \A i \in Own : ack_packet[i] = 0 => ack_packet'[i] = 0
    PROVE  SampleInv'
<1> DEFINE T == SampledPackets
           e == [i \in T |-> Sample(i)]
           G == [s \in SUBSET {} |-> timer]
<1>1. T = {}
  BY DEF SampledPackets
<1>2. {} \subseteq 0 .. 0 /\ 0 \in Nat /\ G[{}] = timer
  OBVIOUS
<1> HIDE DEF G
<1>3. Samples(G, {}, T, e)
  BY DEF Samples
<1> HIDE DEF T, e
<1> QED BY <1>1, <1>2, <1>3, StepSamples DEF T, e

LEMMA SampleStep ==
    ASSUME ReadInv, SampleInv, Next, NoteSamples
    PROVE  SampleInv'
<1>0. /\ Len(pkts) \in Nat /\ Ids = 1 .. Len(pkts) /\ Own \subseteq Ids /\ unacked \subseteq Own
      /\ New = Len(pkts) + 1 /\ Ids \subseteq 0 .. Len(pkts)
      /\ unacked \subseteq 0 .. Len(pkts)
  BY CaptureTypes DEF ReadInv, CaptureInv, New
<1>1. ASSUME NEW f, f = [i \in Ids |-> f[i]], NEW g, NEW x, g = Append(f, x)
      PROVE  \A i \in Ids : g[i] = f[i]
  BY <1>0, <1>1, AppendEntry
<1>2. ASSUME timer' = timer, ack_packet' = Append(ack_packet, 0)
      PROVE  SampleInv'
  <2>1. \A i \in Ids : ack_packet'[i] = ack_packet[i]
    BY <1>1, <1>2 DEF ReadInv, AckInv, Entries
  <2> QED BY <1>0, <1>2, <2>1, NoSamples
<1>3. ASSUME NEW p \in OwnPackets, AddPacket(p)
      PROVE  SampleInv'
  <2>1. ASSUME NEW sq, NEW high, PushNew(p, sq, high)
        PROVE  SampleInv'
    BY <1>2, <2>1 DEF PushNew, NoteNew
  <2>2. CASE AddOther(p)
    BY <1>2, <2>2 DEF AddOther, NoteNew
  <2>3. ASSUME NEW sq, NEW high, PushRtx(p, sq, high)
        PROVE  SampleInv'
    <3> DEFINE ties  == TiesOf(p, sq)
               by    == ties.by
               still == { i \in unacked : by[i] = 0 }
               S     == unacked \ still
               prev  == PreviousTx(p)
               acks  == [i \in Ids |-> IF i \in S THEN by[i] ELSE ack_packet[i]]
               delay(i) == pkts[by[i]].ts - pkts[i].ts
               tied  == [i \in Ids |-> IF i \in S THEN [delays[i] EXCEPT !.ack = delay(i)]
                                       ELSE delays[i]]
               f     == RtxDelays(p, prev, tied)
               t     == FindRtxTrigger(p, sq, high, ties, still)
               T     == { i \in unacked : by[i] # 0 /\ rtx[i] = 0 }
               e     == [i \in T |-> Sample(i)]
    <3>1. PushTied(p, sq, ties, still, t)
      BY <2>3, Zenon DEF PushRtx
    <3> HIDE DEF t
    <3>2. /\ ack_packet' = Append(acks, 0) /\ delays' = Append(f, NoDelays)
          /\ timer' = ties.timer
      BY <3>1, Zenon DEF PushTied
    <3>3. seq_acked' = sq.acked /\ seq_next' = sq.next
      <4> HIDE DEF ties, still
      <4> QED BY <3>1, Zenon DEF PushTied, Push
    <3>4. TiesOK(unacked, ties)
      BY TiesSound DEF ReadInv
    <3>5. \A i \in Ids : ack_packet'[i] = IF i \in S THEN by[i] ELSE ack_packet[i]
      <4>1. /\ acks = [i \in Ids |-> acks[i]]
            /\ \A i \in Ids : acks[i] = IF i \in S THEN by[i] ELSE ack_packet[i]
        <5> HIDE DEF ties, S, by
        <5> QED OBVIOUS
      <4> HIDE DEF acks
      <4> QED BY <1>1, <3>2, <4>1
    <3>6. \A i \in Ids : /\ DOMAIN tied[i] = DOMAIN NoDelays
                         /\ tied[i].ack = IF i \in S THEN delay(i) ELSE delays[i].ack
      <4> HIDE DEF S, delay
      <4> QED BY DEF ReadInv, MinInv, NoDelays
    <3>7. \A i \in Ids : delays'[i].ack = IF i \in S THEN delay(i) ELSE delays[i].ack
      <4>1. /\ f = [i \in Ids |-> f[i]]
            /\ \A i \in Ids : f[i].ack = IF i \in S THEN delay(i) ELSE delays[i].ack
        <5> HIDE DEF tied, S, delay
        <5> QED BY <3>6, RtxKeepsAckDelays
      <4> HIDE DEF f, S, delay
      <4> QED BY <1>1, <3>2, <4>1
    <3>8. S = { i \in unacked : by[i] # 0 } /\ \A i \in S : previous_tx[i] = 0
      <4> HIDE DEF ties
      <4> QED BY <3>4 DEF TiesOK
    <3>9. T = SampledPackets
      <4>1. \A i \in unacked : ack_packet[i] = 0
        BY DEF ReadInv, AckInv
      <4> HIDE DEF S, by
      <4> QED BY <1>0, <3>5, <3>8, <4>1 DEF SampledPackets
    <3>10. Noted(e, T, [i \in T |-> pkts[by[i]].ts - pkts[i].ts], sq.acked, sq.next)
      <4> SUFFICES ASSUME NEW i \in T
                   PROVE  /\ e[i].rtt = pkts[by[i]].ts - pkts[i].ts
                          /\ e[i].acked = sq.acked /\ e[i].next = sq.next
        BY DEF Noted
      <4>1. i \in S /\ i \in Ids
        BY <1>0, <3>8
      <4>2. e[i] = Sample(i)
        OBVIOUS
      <4> HIDE DEF S, by, T, e
      <4> QED BY <3>3, <3>7, <4>1, <4>2 DEF Sample
    <3> HIDE DEF T, e, S, by, ties, still, f, acks, tied
    <3>11. PICK G : /\ Samples(G, unacked, T, e) /\ G[{}] = timer
                    /\ G[unacked] = TiesOf(p, sq).timer
      <4>1. CaptureInv
        BY DEF ReadInv
      <4>2. TiedBy(T, by, p, sq)
        BY DEF by, ties, T, TiedBy
      <4> QED BY ONLY <3>10, <4>1, <4>2, TiesSample, ZenonT(40)
    <3>12. timer' = TiesOf(p, sq).timer
      BY <3>2 DEF ties
    <3>13. T \subseteq unacked
      BY DEF T
    <3> QED BY <1>0, <3>9, <3>11, <3>12, <3>13, StepSamples DEF e
  <2> QED BY <1>3, <2>1, <2>2, <2>3, SendCases
<1>4. ASSUME NEW a \in Received, ProcessOldAck(a)
      PROVE  SampleInv'
  BY <1>2, <1>4 DEF ProcessOldAck
<1>5. ASSUME NEW a \in Received, ProcessNewAck(a)
      PROVE  SampleInv'
  <2> DEFINE S    == AckedNow(a)
             acks == [i \in Ids |-> IF i \in S THEN New ELSE ack_packet[i]]
             delay(i) == a.ts - pkts[i].ts
             f    == [i \in Ids |-> IF i \in S THEN [delays[i] EXCEPT !.ack = delay(i)]
                                    ELSE delays[i]]
             T    == { i \in S : previous_tx[i] = 0 /\ rtx[i] = 0 }
             e    == [i \in T |-> Sample(i)]
  <2>1. /\ ack_packet' = Append(acks, 0) /\ delays' = Append(f, NoDelays)
        /\ timer' = EstimatesOf(a, S).timer /\ NoteAck(a)
    BY <1>5, Zenon DEF ProcessNewAck
  <2>2. seq_acked' = AckedAfter(a) /\ seq_next' = seq_next
    BY <2>1 DEF NoteAck
  <2>3. S \subseteq unacked
    BY DEF AckedNow
  <2>4. \A i \in Ids : ack_packet'[i] = IF i \in S THEN New ELSE ack_packet[i]
    <3>1. /\ acks = [i \in Ids |-> acks[i]]
          /\ \A i \in Ids : acks[i] = IF i \in S THEN New ELSE ack_packet[i]
      <4> HIDE DEF S
      <4> QED OBVIOUS
    <3> HIDE DEF acks
    <3> QED BY <1>1, <2>1, <3>1
  <2>5. \A i \in S : delays'[i].ack = delay(i)
    <3>1. f = [i \in Ids |-> f[i]] /\ \A i \in S : i \in Ids /\ f[i].ack = delay(i)
      <4> HIDE DEF S, delay
      <4> QED BY <1>0, <2>3 DEF ReadInv, MinInv, NoDelays
    <3> HIDE DEF f, S, delay
    <3>2. \A i \in Ids : delays'[i] = f[i]
      BY <1>1, <2>1, <3>1
    <3>3. \A i \in S : delays'[i].ack = delay(i)
      BY <3>1, <3>2
    <3> QED BY <3>3 DEF delay
  <2>6. T = SampledPackets
    <3>1. \A i \in unacked : ack_packet[i] = 0
      BY DEF ReadInv, AckInv
    <3>2. New # 0
      BY <1>0
    <3> HIDE DEF S
    <3> QED BY <1>0, <2>3, <2>4, <3>1, <3>2 DEF SampledPackets
  <2>7. Noted(e, T, [i \in T |-> a.ts - pkts[i].ts], AckedAfter(a), seq_next)
    <3> SUFFICES ASSUME NEW i \in T
                 PROVE  /\ e[i].rtt = a.ts - pkts[i].ts
                        /\ e[i].acked = AckedAfter(a) /\ e[i].next = seq_next
      BY DEF Noted
    <3>1. i \in S /\ e[i] = Sample(i)
      OBVIOUS
    <3> HIDE DEF S, T, e
    <3> QED BY <2>2, <2>5, <3>1 DEF Sample
  <2>8. T = { i \in S : previous_tx[i] = 0 /\ rtx[i] = 0 } /\ T \subseteq S
    OBVIOUS
  <2>9. S \subseteq 0 .. Len(pkts)
    BY <1>0, <2>3
  <2> HIDE DEF T, e, S, f, acks
  <2>10. PICK G : /\ Samples(G, S, T, e) /\ G[{}] = timer
                  /\ G[S] = EstimatesOf(a, S).timer
    BY <1>0, <2>7, <2>8, <2>9, EstimatesSample
  <2> QED BY <1>0, <2>1, <2>6, <2>8, <2>9, <2>10, StepSamples DEF e
<1> QED BY <1>3, <1>4, <1>5, StepCases DEF ReadInv, CaptureInv

(***************************************************************************)
(* The samples kept with the timer are enough to compute it again: after     *)
(* any packets sent and received, ties in retrospect and calls of the       *)
(* analysis.                                                               *)
(***************************************************************************)
THEOREM SamplesAreEnough == AnalysisSpec => []SamplesReplay
<1>1. AnalysisInit => ReadInv /\ SampleInv
  <2> SUFFICES ASSUME AnalysisInit PROVE ReadInv /\ SampleInv
    OBVIOUS
  <2>1. samples = << >> /\ timer = NewTimer
    BY DEF AnalysisInit, Init
  <2>2. IsList(samples, 0)
    BY <2>1 DEF IsList
  <2> QED BY <2>1, <2>2, ReadStart, ReplayNone DEF SampleInv, Gives
<1>2. ReadInv /\ SampleInv /\ [AnalysisNext]_analysisVars => ReadInv' /\ SampleInv'
  <2> SUFFICES ASSUME ReadInv, SampleInv, [AnalysisNext]_analysisVars
               PROVE  SampleInv'
    BY ReadStep
  <2>1. CASE NothingCaptured
    <3> samples' = samples /\ timer' = timer
      BY <2>1 DEF NothingCaptured, vars, ackVars
    <3> QED BY DEF SampleInv, Gives
  <2>2. CASE CapturePacket
    BY <2>2, SampleStep DEF CapturePacket
  <2>3. CASE UNCHANGED analysisVars
    BY <2>1, <2>3 DEF analysisVars, NothingCaptured
  <2>4. CASE EndOfCapture
    BY <2>1, <2>4 DEF EndOfCapture, NothingCaptured
  <2>5. ASSUME NEW max, AnalyzeTailLatency(max)
        PROVE  NothingCaptured
    BY <2>5, Zenon DEF AnalyzeTailLatency, NothingCaptured
  <2>6. ASSUME NEW seqs, GetTimerEstimates(seqs)
        PROVE  NothingCaptured
    BY <2>6, Zenon DEF GetTimerEstimates, NothingCaptured
  <2> QED BY <2>1, <2>2, <2>3, <2>4, <2>5, <2>6 DEF AnalysisNext, Analyze
<1>3. SampleInv => SamplesReplay
  BY DEF SampleInv, Gives, SamplesReplay
<1> QED BY <1>1, <1>2, <1>3, PTL DEF AnalysisSpec
-----------------------------------------------------------------------------
\* What a call measures, before the fit adds to it.
MeasuredAt(w, first) == IF w = 0 THEN NoTail ELSE Measured(first, w)

LEMMA MeasuredAtParts ==
    ASSUME NEW w, NEW first
    PROVE  LET m == MeasuredAt(w, first)
           IN  /\ Parts(m) /\ m.breakdown = NoTrigger
               /\ m.overall = IF w = 0 THEN 0 ELSE delays[w].ack
               /\ m.queueing = 0 /\ m.loss_trigger = 0 /\ m.other = 0
               /\ m.overall = 0 => m.propagation = 0 /\ m.loss = 0
               /\ m.overall # 0 => /\ m.propagation = min_rtt
                                   /\ m.loss = IF Lost(w) THEN delays[w].final ELSE 0
<1>1. CASE w = 0
  BY <1>1 DEF MeasuredAt, Parts, NoTail
<1>2. CASE w # 0
  <2> MeasuredAt(w, first) = Measured(first, w)
    BY <1>2 DEF MeasuredAt
  <2> QED BY <1>2, MeasuredParts
<1> QED BY <1>1, <1>2

\* The constraints leave the parts that were measured, but for the loss.
LEMMA ConstraintsKeep ==
    ASSUME NEW x, Parts(x)
    PROVE  OthersKept(SetOtherDelay(Attributed(Constrained(x))), x,
                      {"queueing", "loss", "loss_trigger", "other"})
<1>1. OthersKept(Constrained(x), x, {"queueing"})
  BY ConstrainedParts
<1>2. OthersKept(Attributed(Constrained(x)), Constrained(x), {"loss", "loss_trigger"})
  BY <1>1, AttributedParts DEF OthersKept
<1>3. OthersKept(SetOtherDelay(Attributed(Constrained(x))), Attributed(Constrained(x)), {"other"})
  BY <1>2, OtherDelayParts DEF OthersKept
<1> QED BY <1>1, <1>2, <1>3 DEF OthersKept

LEMMA TailKeeps ==
    ASSUME NEW t, NEW w, NEW m, Parts(m), TailOf(t, w, m)
    PROVE  t.overall = m.overall /\ t.propagation = m.propagation
<1>1. {"overall", "propagation"} \subseteq
         DOMAIN NoTail \ {"queueing", "loss", "loss_trigger", "other", "breakdown"}
  BY DEF NoTail
<1>2. CASE t = m
  BY <1>2
<1>3. ASSUME NEW x, t = SetOtherDelay(Attributed(Constrained(x))), OthersKept(x, m,
                           {"queueing", "breakdown", "loss_trigger"})
      PROVE  t.overall = m.overall /\ t.propagation = m.propagation
  <2>1. OthersKept(t, x, {"queueing", "loss", "loss_trigger", "other"})
    BY <1>3, ConstraintsKeep DEF OthersKept
  <2> QED BY <1>1, <1>3, <2>1 DEF OthersKept
<1>4. OthersKept(m, m, {"queueing", "breakdown", "loss_trigger"})
  BY DEF OthersKept
<1> QED BY <1>2, <1>3, <1>4, AddedParts DEF TailOf

\* An original among the packets looked at bounds both.
LEMMA PropagationOfCall ==
    ASSUME ReadInv, NEW max, 0 \notin Settled,
           NEW i \in Candidates(max), ack_packet[i] # 0, previous_tx[i] = 0
    PROVE  TailLatency(max).tail.propagation <= TailLatency(max).tail.overall
<1> DEFINE ids == Candidates(max)
           w == WorstOf(ids)
           m == MeasuredAt(w, Min(ids))
           t == TailLatency(max).tail
<1>1. /\ w \in ids /\ \A j \in ids : delays[j].ack <= delays[w].ack
      /\ ids \subseteq Own
  BY WorstIsCandidate DEF ReadInv
<1>2. Own \subseteq Ids /\ \A j \in Ids : j # 0
  BY CaptureTypes DEF ReadInv, CaptureInv
<1>3. delays[i].ack <= delays[w].ack /\ delays[i].ack \in Nat /\ delays[w].ack \in Nat /\ w # 0
  <2> HIDE DEF ids, w
  <2> QED BY <1>1, <1>2 DEF ReadInv, MinInv, ids
<1>4. delays[i].ack \in Settled /\ min_rtt \in Nat
  <2> i \in Own
    BY <1>1
  <2> QED BY DEF Settled, ReadInv, CaptureInv
<1>5. min_rtt <= delays[i].ack
  BY <1>4 DEF ReadInv, MinInv, LeastOf
<1>6. TailOf(t, w, m)
  BY TailCases DEF MeasuredAt
<1>7. Parts(m)
  <2> HIDE DEF w, ids
  <2> QED BY MeasuredAtParts
<1>8. m.overall = delays[w].ack /\ (m.overall = 0 => m.propagation = 0)
      /\ (m.overall # 0 => m.propagation = min_rtt)
  <2> HIDE DEF w, ids
  <2> QED BY <1>3, MeasuredAtParts
<1>9. t.overall = m.overall /\ t.propagation = m.propagation
  <2> HIDE DEF t, w, m
  <2> QED BY <1>6, <1>7, TailKeeps
<1>10. t.propagation <= t.overall
  <2> HIDE DEF t, w, m, ids
  <2> QED BY <1>3, <1>4, <1>5, <1>8, <1>9
<1> QED BY <1>10

(***************************************************************************)
(* In every capture, after any calls: the propagation delay is within the   *)
(* overall delay where both were measured at packets of the same kind.      *)
(***************************************************************************)
THEOREM PropagationIsWithin == AnalysisSpec => []PropagationWithin
<1>1. AnalysisInit => ReadInv /\ CallInv /\ (called = -1 => tail_latency = NoTail)
  BY ReadStart DEF AnalysisInit, CallInv
<1>2. ReadInv /\ [AnalysisNext]_analysisVars => ReadInv'
  BY ReadStep
<1>3. CallInv /\ [AnalysisNext]_analysisVars => CallInv'
  BY CallStep
<1>4. (called = -1 => tail_latency = NoTail) /\ [AnalysisNext]_analysisVars
         => (called = -1 => tail_latency = NoTail)'
  <2> SUFFICES ASSUME called = -1 => tail_latency = NoTail, [AnalysisNext]_analysisVars
               PROVE  called' = -1 => tail_latency' = NoTail
    OBVIOUS
  <2>1. ASSUME NEW max \in MaxSeqs, AnalyzeTailLatency(max)
        PROVE  called' # -1
    <3> called' = max
      BY <2>1, Zenon DEF AnalyzeTailLatency
    <3> QED BY AnalysisAssumption, SpaceSizeAssumption DEF SeqNum
  <2>2. ASSUME NEW seqs, GetTimerEstimates(seqs)
        PROVE  called' = called /\ tail_latency' = tail_latency
    BY <2>2, Zenon DEF GetTimerEstimates
  <2> QED BY <2>1, <2>2 DEF AnalysisNext, Analyze, CapturePacket, EndOfCapture,
                                  analysisVars, resultVars
<1>5. ReadInv /\ CallInv /\ (called = -1 => tail_latency = NoTail) => PropagationWithin
  <2> SUFFICES ASSUME ReadInv, CallInv, called = -1 => tail_latency = NoTail,
                      0 \notin Settled,
                      NEW i \in Candidates(called), ack_packet[i] # 0, previous_tx[i] = 0
               PROVE  tail_latency.propagation <= tail_latency.overall
    BY DEF PropagationWithin, Settled
  <2>1. CASE called = -1
    BY <2>1 DEF NoTail
  <2>2. CASE called # -1
    <3> tail_latency = TailLatency(called).tail
      BY <2>2 DEF CallInv
    <3> QED BY PropagationOfCall
  <2> QED BY <2>1, <2>2
<1> QED BY <1>1, <1>2, <1>3, <1>4, <1>5, PTL DEF AnalysisSpec

SumRound(f, k, sum) == sum + f[k]
SumWalk == INSTANCE Walks WITH Step <- SumRound

LEMMA SumOneMore == SumWalk!OneMoreSuffices
BY OneMoreAtTheEnd DEF SumWalk!OneMoreSuffices

LEMMA SumIsAWalk ==
    ASSUME NEW n \in Nat, NEW f, DOMAIN f \subseteq 0 .. n
    PROVE  \E g : SumWalk!IsWalk(g, f, 0, DOMAIN f) /\ SumOf(f) = g[DOMAIN f]
<1> DEFINE S == DOMAIN f
           G(g) == g = [t \in SUBSET S |-> IF t = {} THEN 0
                          ELSE SumRound(f, Max(t), g[t \ {Max(t)}])]
           h == CHOOSE g : G(g)
<1>1. S \subseteq 0 .. n
  OBVIOUS
<1>2. PICK e : SumWalk!IsWalk(e, f, 0, S)
  <2> HIDE DEF S
  <2> QED BY <1>1, SumOneMore, SumWalk!WalkExists
<1>3. G(e)
  <2> HIDE DEF S
  <2> QED BY <1>1, <1>2, LastOfEach DEF SumWalk!IsWalk
<1>4. G(h)
  <2> HIDE DEF G
  <2> QED BY <1>3
<1>5. SumOf(f) = h[S]
  BY Zenon DEF SumOf, FoldInOrder, MapThenFoldSet, SumRound
<1> HIDE DEF S, h
<1>6. SumWalk!IsWalk(h, f, 0, S)
  <2>1. /\ h = [t \in SUBSET S |-> h[t]] /\ h[{}] = 0
        /\ \A t \in SUBSET S : t # {} => h[t] = SumRound(f, Max(t), h[t \ {Max(t)}])
    BY <1>4
  <2>2. \A t \in SUBSET S : \A x \in t : (\A y \in t : x >= y) => x = Max(t)
    BY <1>1, LastOfEach
  <2> HIDE DEF Max, SumRound
  <2> QED BY <2>1, <2>2 DEF SumWalk!IsWalk
<1> QED BY <1>5, <1>6 DEF S

\* A sum of numbers is a number.
LEMMA SumTyped ==
    ASSUME NEW n \in Nat, NEW S, S \subseteq 0 .. n, NEW f \in [S -> Nat]
    PROVE  SumOf(f) \in Nat
<1>1. DOMAIN f \subseteq 0 .. n
  OBVIOUS
<1>2. PICK g : SumWalk!IsWalk(g, f, 0, S) /\ SumOf(f) = g[S]
  BY <1>1, SumIsAWalk
<1>3. 0 \in Nat /\ \A x \in S : \A t \in Nat : SumRound(f, x, t) \in Nat
  BY DEF SumRound
<1>4. g[S] \in Nat
  BY <1>2, <1>3, SumOneMore, SumWalk!WalkStays
<1> QED BY <1>2, <1>4

\* The sum of a list, entry by entry.
Sums(p, f, n) ==
    /\ p[0] = 0 /\ p[n] = SumOf(f)
    /\ \A k \in 0 .. n : p[k] \in Int
    /\ \A k \in 0 .. n - 1 : p[k + 1] = p[k] + f[k + 1]

LEMMA SumsExist ==
    ASSUME NEW n \in Nat, NEW f \in [1 .. n -> Int]
    PROVE  \E p : Sums(p, f, n)
<1>1. DOMAIN f \subseteq 0 .. n /\ DOMAIN f = 1 .. n
  OBVIOUS
<1>2. PICK g : SumWalk!IsWalk(g, f, 0, 1 .. n) /\ SumOf(f) = g[1 .. n]
  BY <1>1, SumIsAWalk
<1> DEFINE p == [k \in 0 .. n |-> g[1 .. k]]
<1>3. p[0] = 0 /\ p[n] = SumOf(f)
  <2>1. 1 .. 0 = {}
    OBVIOUS
  <2> QED BY <1>2, <2>1 DEF SumWalk!IsWalk
<1>4. ASSUME NEW k \in 0 .. n - 1
      PROVE  p[k + 1] = p[k] + f[k + 1]
  <2>1. /\ 1 .. k + 1 \in SUBSET (1 .. n) /\ k + 1 \in 1 .. k + 1
        /\ \A y \in 1 .. k + 1 : k + 1 >= y
        /\ (1 .. k + 1) \ {k + 1} = 1 .. k
    OBVIOUS
  <2>2. g[1 .. k + 1] = SumRound(f, k + 1, g[(1 .. k + 1) \ {k + 1}])
    BY <1>2, <2>1 DEF SumWalk!IsWalk
  <2>3. k \in 0 .. n /\ k + 1 \in 0 .. n
    OBVIOUS
  <2> QED BY <2>1, <2>2, <2>3 DEF SumRound
<1> HIDE DEF p
<1> DEFINE G == { k \in 0 .. n : p[k] \in Int }
<1>5. n \in Nat /\ 0 \in G
  BY <1>3
<1>6. ASSUME NEW m \in 0 .. n, m \in Nat
      PROVE  m \in G
  <2>1. ASSUME NEW k \in 0 .. m - 1, k \in G
        PROVE  k + 1 \in G
    <3>1. k \in 0 .. n - 1 /\ k + 1 \in 0 .. n /\ k + 1 \in 1 .. n
      BY <1>6
    <3>2. p[k + 1] = p[k] + f[k + 1] /\ f[k + 1] \in Int /\ p[k] \in Int
      BY <1>4, <2>1, <3>1
    <3> QED BY <3>1, <3>2
  <2> HIDE DEF G
  <2> QED BY <1>5, <1>6, <2>1, CountingUp
<1>7. \A k \in 0 .. n : p[k] \in Int
  BY <1>6
<1> QED BY <1>3, <1>4, <1>7 DEF Sums

\* One more square.
LEMMA OneMoreSquare ==
    ASSUME NEW a \in Int, NEW b \in Int, NEW c \in Int, NEW x \in Int, NEW y \in Int
    PROVE  a*a*(x*x) + b*b*(y*y) + c*c + 2*a*b*(x*y) + 2*a*c*x + 2*b*c*y >= 0
<1> DEFINE u == a*x + b*y + c
<1>1. u \in Int
  OBVIOUS
<1>2. u * u >= 0
  <2> HIDE DEF u
  <2> QED BY <1>1
<1>3. u * u = a*a*(x*x) + b*b*(y*y) + c*c + 2*a*b*(x*y) + 2*a*c*x + 2*b*c*y
  OBVIOUS
<1> QED BY <1>2, <1>3

\* The five sums of a fit.
Product(f, g, n) == [k \in 1 .. n |-> f[k] * g[k]]

Square(a, b, c, n, s) ==
    a*a*s.xx + b*b*s.yy + n*(c*c) + 2*a*b*s.xy + 2*a*c*s.x + 2*b*c*s.y

FiveSums(x, y, n) ==
    [x |-> SumOf(x), y |-> SumOf(y), xx |-> SumOf(Product(x, x, n)),
     yy |-> SumOf(Product(y, y, n)), xy |-> SumOf(Product(x, y, n))]

Number5 == [x : Int, y : Int, xx : Int, yy : Int, xy : Int]

\* One more pair.
LEMMA SquareGrows ==
    ASSUME NEW a \in Int, NEW b \in Int, NEW c \in Int, NEW k \in Nat,
           NEW s \in Number5, Square(a, b, c, k, s) >= 0,
           NEW x \in Int, NEW y \in Int, NEW r \in Number5,
           r.x = s.x + x, r.y = s.y + y, r.xx = s.xx + x*x, r.yy = s.yy + y*y,
           r.xy = s.xy + x*y
    PROVE  Square(a, b, c, k + 1, r) >= 0
<1>1. a*a*(x*x) + b*b*(y*y) + c*c + 2*a*b*(x*y) + 2*a*c*x + 2*b*c*y >= 0
  BY OneMoreSquare
<1>2. ASSUME NEW sx \in Int, NEW sy \in Int, NEW sxx \in Int, NEW syy \in Int, NEW sxy \in Int
      PROVE  a*a*(sxx + x*x) + b*b*(syy + y*y) + (k + 1)*(c*c) + 2*a*b*(sxy + x*y)
                  + 2*a*c*(sx + x) + 2*b*c*(sy + y)
             = (a*a*sxx + b*b*syy + k*(c*c) + 2*a*b*sxy + 2*a*c*sx + 2*b*c*sy)
               + (a*a*(x*x) + b*b*(y*y) + c*c + 2*a*b*(x*y) + 2*a*c*x + 2*b*c*y)
  OBVIOUS
<1>3. /\ s.x \in Int /\ s.y \in Int /\ s.xx \in Int /\ s.yy \in Int /\ s.xy \in Int
  BY DEF Number5
<1>4. Square(a, b, c, k + 1, r)
         = Square(a, b, c, k, s)
           + (a*a*(x*x) + b*b*(y*y) + c*c + 2*a*b*(x*y) + 2*a*c*x + 2*b*c*y)
  BY <1>2, <1>3 DEF Square
<1>5. Square(a, b, c, k, s) \in Int
  BY <1>3 DEF Square
<1>6. a*a*(x*x) + b*b*(y*y) + c*c + 2*a*b*(x*y) + 2*a*c*x + 2*b*c*y \in Int
  OBVIOUS
<1>7. ASSUME NEW u \in Int, NEW v \in Int, u >= 0, v >= 0 PROVE u + v >= 0
  BY <1>7
<1> QED BY ONLY <1>1, <1>4, <1>5, <1>6, <1>7, Square(a, b, c, k, s) >= 0

\* No sum of squares is negative.
LEMMA SquaresAdd ==
    ASSUME NEW n \in Nat, NEW x \in [1 .. n -> Int], NEW y \in [1 .. n -> Int]
    PROVE  /\ FiveSums(x, y, n) \in Number5
           /\ \A a \in Int, b \in Int, c \in Int : Square(a, b, c, n, FiveSums(x, y, n)) >= 0
<1>1. /\ Product(x, x, n) \in [1 .. n -> Int] /\ Product(y, y, n) \in [1 .. n -> Int]
      /\ Product(x, y, n) \in [1 .. n -> Int]
  BY DEF Product
<1>2. PICK px, py, pxx, pyy, pxy :
         /\ Sums(px, x, n) /\ Sums(py, y, n) /\ Sums(pxx, Product(x, x, n), n)
         /\ Sums(pyy, Product(y, y, n), n) /\ Sums(pxy, Product(x, y, n), n)
  BY <1>1, SumsExist
<1> DEFINE at(k) == [x |-> px[k], y |-> py[k], xx |-> pxx[k], yy |-> pyy[k], xy |-> pxy[k]]
<1>3. \A k \in 0 .. n : at(k) \in Number5
  BY <1>2 DEF Sums, Number5
<1>4. FiveSums(x, y, n) = at(n)
  BY <1>2 DEF Sums, FiveSums
<1>5. ASSUME NEW a \in Int, NEW b \in Int, NEW c \in Int
      PROVE  Square(a, b, c, n, at(n)) >= 0
  <2> DEFINE G == { k \in 0 .. n : Square(a, b, c, k, at(k)) >= 0 }
  <2>1. 0 \in G
    <3>1. at(0).x = 0 /\ at(0).y = 0 /\ at(0).xx = 0 /\ at(0).yy = 0 /\ at(0).xy = 0
      BY <1>2 DEF Sums
    <3>2. Square(a, b, c, 0, at(0)) = 0
      <4> HIDE DEF at
      <4> QED BY <3>1 DEF Square
    <3> HIDE DEF at
    <3> QED BY <3>2
  <2>2. ASSUME NEW k \in 0 .. n - 1, k \in G
        PROVE  k + 1 \in G
    <3>1. k \in Nat /\ k \in 0 .. n /\ k + 1 \in 0 .. n /\ k + 1 \in 1 .. n
      OBVIOUS
    <3>2. /\ px[k + 1] = px[k] + x[k + 1] /\ py[k + 1] = py[k] + y[k + 1]
          /\ pxx[k + 1] = pxx[k] + x[k + 1] * x[k + 1]
          /\ pyy[k + 1] = pyy[k] + y[k + 1] * y[k + 1]
          /\ pxy[k + 1] = pxy[k] + x[k + 1] * y[k + 1]
      BY <1>2, <3>1 DEF Sums, Product
    <3>3. /\ at(k + 1).x = at(k).x + x[k + 1] /\ at(k + 1).y = at(k).y + y[k + 1]
          /\ at(k + 1).xx = at(k).xx + x[k + 1] * x[k + 1]
          /\ at(k + 1).yy = at(k).yy + y[k + 1] * y[k + 1]
          /\ at(k + 1).xy = at(k).xy + x[k + 1] * y[k + 1]
      BY <3>2
    <3>4. x[k + 1] \in Int /\ y[k + 1] \in Int
      BY <3>1
    <3>5. Square(a, b, c, k, at(k)) >= 0
      BY <2>2
    <3>6. at(k) \in Number5 /\ at(k + 1) \in Number5
      BY <1>3, <3>1
    <3> HIDE DEF at
    <3>7. Square(a, b, c, k + 1, at(k + 1)) >= 0
      BY ONLY <3>1, <3>3, <3>4, <3>5, <3>6, SquareGrows, a \in Int, b \in Int, c \in Int
    <3> QED BY <3>1, <3>7
  <2>3. n \in G
    <3> HIDE DEF G
    <3> QED BY <2>1, <2>2, CountingUp
  <2> HIDE DEF at
  <2> QED BY <2>3
<1>6. n \in 0 .. n
  OBVIOUS
<1> HIDE DEF at
<1> QED BY <1>3, <1>4, <1>5, <1>6

\* With pairs whose slope is positive the values vary, and no correlation is beyond one.
Variation(n, s) ==
    [x |-> n * s.xx - s.x * s.x, y |-> n * s.yy - s.y * s.y, xy |-> n * s.xy - s.x * s.y]

LEMMA SlopeNeedsVariation ==
    ASSUME NEW n \in Nat \ {0}, NEW s \in Number5,
           \A a \in Int, b \in Int, c \in Int : Square(a, b, c, n, s) >= 0
    PROVE  LET v == Variation(n, s)
           IN  /\ v.x \in Int /\ v.y \in Int /\ v.xy \in Int
               /\ v.xy > 0 => v.x > 0 /\ v.xy * v.xy <= v.x * v.y
<1> DEFINE V == n * s.xx - s.x * s.x
           W == n * s.yy - s.y * s.y
           C == n * s.xy - s.x * s.y
<1>0. /\ s.x \in Int /\ s.y \in Int /\ s.xx \in Int /\ s.yy \in Int /\ s.xy \in Int
  BY DEF Number5
<1>1. V \in Int /\ W \in Int /\ C \in Int
  BY <1>0
<1>2. ASSUME NEW p \in Int, NEW q \in Int
      PROVE  p*p*V + q*q*W + 2*p*q*C >= 0
  <2> DEFINE a == n * p
             b == n * q
             c == -(p * s.x + q * s.y)
             T == p*p*V + q*q*W + 2*p*q*C
  <2>1. a \in Int /\ b \in Int /\ c \in Int
    BY <1>0
  <2>2. Square(a, b, c, n, s) >= 0
    <3> HIDE DEF a, b, c
    <3> QED BY <2>1
  <2>3. Square(a, b, c, n, s) = n * T
    <3>1. ASSUME NEW sx \in Int, NEW sy \in Int, NEW xx \in Int, NEW yy \in Int, NEW xy \in Int
          PROVE  (n*p)*(n*p)*xx + (n*q)*(n*q)*yy + n*((-(p*sx + q*sy))*(-(p*sx + q*sy)))
                    + 2*(n*p)*(n*q)*xy + 2*(n*p)*(-(p*sx + q*sy))*sx
                    + 2*(n*q)*(-(p*sx + q*sy))*sy
                 = n*(p*p*(n*xx - sx*sx) + q*q*(n*yy - sy*sy) + 2*p*q*(n*xy - sx*sy))
      OBVIOUS
    <3> QED BY <1>0, <3>1 DEF Square
  <2>4. T \in Int
    <3> HIDE DEF V, W, C
    <3> QED BY <1>1
  <2> HIDE DEF T, a, b, c, V, W, C
  <2>5. ASSUME T < 0 PROVE FALSE
    <3>1. n * T < 0
      BY <2>4, <2>5
    <3> QED BY <2>2, <2>3, <2>4, <3>1
  <2>6. T >= 0
    BY <2>4, <2>5
  <2> QED BY <2>6 DEF T
<1> HIDE DEF V, W, C
<1>3. V >= 0 /\ W >= 0
  <2> DEFINE one == 1
             zero == 0
  <2>0. one \in Int /\ zero \in Int
    OBVIOUS
  <2> HIDE DEF one, zero
  <2>1. one*one*V + zero*zero*W + 2*one*zero*C >= 0
    BY <1>2, <2>0
  <2>2. zero*zero*V + one*one*W + 2*zero*one*C >= 0
    BY <1>2, <2>0
  <2> USE DEF one, zero
  <2> QED BY <1>1, <2>1, <2>2
<1>4. ASSUME C > 0
      PROVE  V > 0 /\ C * C <= V * W
  <2>1. V > 0
    <3> SUFFICES ASSUME V = 0 PROVE FALSE
      BY <1>1, <1>3
    <3> DEFINE p == -(W + 1)
    <3>1. p \in Int
      BY <1>1
    <3>2. p*p*V + 1*1*W + 2*p*1*C >= 0
      <4> HIDE DEF p
      <4> QED BY <1>2, <3>1
    <3>3. W - 2 * ((W + 1) * C) >= 0
      BY <1>1, <3>2
    <3>4. (W + 1) * C >= W + 1
      BY <1>1, <1>3, <1>4
    <3> DEFINE x == (W + 1) * C
    <3>5. x \in Int
      BY <1>1
    <3> HIDE DEF x
    <3> QED BY <1>1, <1>3, <3>3, <3>4, <3>5 DEF x
  <2>2. (-C)*(-C)*V + V*V*W + 2*(-C)*V*C >= 0
    <3> -C \in Int
      BY <1>1
    <3> QED BY <1>1, <1>2
  <2>3. V * (V * W - C * C) = (-C)*(-C)*V + V*V*W + 2*(-C)*V*C
    BY <1>1
  <2>4. V * W - C * C \in Int
    BY <1>1
  <2> DEFINE d == V * W - C * C
  <2>5. d >= 0
    <3> SUFFICES ASSUME d < 0 PROVE FALSE
      BY <2>4
    <3>1. d \in Int /\ V * d >= 0
      BY <2>2, <2>3, <2>4
    <3> HIDE DEF d
    <3>2. V * d < 0
      BY <1>1, <2>1, <3>1
    <3> QED BY <1>1, <3>1, <3>2
  <2>6. V * W \in Int /\ C * C \in Int
    BY <1>1
  <2>7. C * C <= V * W
    <3> DEFINE vw == V * W
               cc == C * C
    <3> HIDE DEF vw, cc
    <3> QED BY <2>5, <2>6 DEF vw, cc
  <2> QED BY <2>1, <2>7
<1>5. /\ Variation(n, s).x = V /\ Variation(n, s).y = W /\ Variation(n, s).xy = C
  BY DEF Variation, V, W, C
<1> QED BY <1>1, <1>4, <1>5

-----------------------------------------------------------------------------
(***************************************************************************)
(* The samples of a fit.                                                   *)
(***************************************************************************)
OrderRound(c, i, list) == Append(list, i)
OrderWalk == INSTANCE Walks WITH Step <- OrderRound

LEMMA OrderOneMore == OrderWalk!OneMoreSuffices
BY OneMoreAtTheEnd DEF OrderWalk!OneMoreSuffices

\* A list of members of a set is one of a larger set.
LEMMA SeqGrows ==
    ASSUME NEW A, NEW B, A \subseteq B
    PROVE  Seq(A) \subseteq Seq(B)
<1> SUFFICES ASSUME NEW s \in Seq(A) PROVE s \in Seq(B)
  OBVIOUS
<1>1. Len(s) \in Nat /\ s \in [1 .. Len(s) -> A]
  BY LenProperties
<1>2. s \in [1 .. Len(s) -> B]
  BY <1>1
<1> QED BY <1>1, <1>2, SeqDef

\* A list of positions from a set, in their order.
Ascends(list, s) ==
    /\ \A k \in 1 .. Len(list) : list[k] \in s
    /\ \A k, m \in 1 .. Len(list) : k < m => list[k] < list[m]

LEMMA AppendAscends ==
    ASSUME NEW n \in Nat, NEW s, s \subseteq 0 .. n, NEW x \in s, \A y \in s : x >= y,
           NEW list \in Seq(0 .. n), Ascends(list, s \ {x})
    PROVE  Ascends(Append(list, x), s)
<1> DEFINE l == Append(list, x)
           m == Len(list)
<1>1. /\ m \in Nat /\ Len(l) = m + 1 /\ l[m + 1] = x
      /\ \A k \in 1 .. m : l[k] = list[k]
  BY AppendProperties, LenProperties
<1>2. \A k \in 1 .. m : list[k] \in s /\ list[k] < x
  <2> TAKE k \in 1 .. m
  <2>1. list[k] \in s /\ list[k] # x
    BY DEF Ascends
  <2> QED BY <2>1
<1> HIDE DEF l, m
<1>3. \A k \in 1 .. Len(l) : IF k = m + 1 THEN l[k] = x ELSE k \in 1 .. m /\ l[k] = list[k]
  BY <1>1
<1>4. \A k \in 1 .. Len(l) : l[k] \in s
  BY <1>2, <1>3
<1>5. ASSUME NEW j \in 1 .. Len(l), NEW k \in 1 .. Len(l), j < k
      PROVE  l[j] < l[k]
  <2>1. j # m + 1 /\ j \in 1 .. m
    BY <1>1, <1>3, <1>5
  <2>2. CASE k = m + 1
    BY <1>2, <1>3, <2>1, <2>2
  <2>3. CASE k # m + 1
    BY <1>3, <1>5, <2>1, <2>3 DEF Ascends, m
  <2> QED BY <2>2, <2>3
<1> QED BY <1>4, <1>5 DEF Ascends, l

\* A set of positions in their order.
LEMMA InOrderTyped ==
    ASSUME NEW n \in Nat, NEW S, S \subseteq 0 .. n
    PROVE  /\ InOrder(S) \in Seq(S) /\ Len(InOrder(S)) = Cardinality(S) /\ IsFiniteSet(S)
           /\ Ascends(InOrder(S), S)
<1> DEFINE G(g) == g = [t \in SUBSET S |-> IF t = {} THEN << >>
                          ELSE OrderRound(0, Max(t), g[t \ {Max(t)}])]
           h == CHOOSE g : G(g)
           T == [s \in SUBSET S |-> { l \in Seq(S) : Len(l) = Cardinality(s) /\ Ascends(l, s) }]
<1>1. PICK e : OrderWalk!IsWalk(e, 0, << >>, S)
  BY OrderOneMore, OrderWalk!WalkExists
<1>2. G(e)
  BY <1>1, LastOfEach DEF OrderWalk!IsWalk
<1>3. G(h)
  <2> HIDE DEF G
  <2> QED BY <1>2
<1>4. InOrder(S) = h[S]
  BY Zenon DEF InOrder, FoldInOrder, MapThenFoldSet, OrderRound
<1> HIDE DEF h
<1>5. OrderWalk!IsWalk(h, 0, << >>, S)
  <2>1. /\ h = [t \in SUBSET S |-> h[t]] /\ h[{}] = << >>
        /\ \A t \in SUBSET S : t # {} => h[t] = OrderRound(0, Max(t), h[t \ {Max(t)}])
    BY <1>3
  <2>2. \A t \in SUBSET S : \A x \in t : (\A y \in t : x >= y) => x = Max(t)
    BY LastOfEach
  <2> HIDE DEF Max, OrderRound
  <2> QED BY <2>1, <2>2 DEF OrderWalk!IsWalk
<1>6. IsFiniteSet(S)
  <2>1. IsFiniteSet(0 .. n)
    <3> 0 \in Int /\ n \in Int
      OBVIOUS
    <3> QED BY ONLY 0 \in Int, n \in Int, FS_Interval
  <2> QED BY ONLY <2>1, S \subseteq 0 .. n, FS_Subset
<1>7. << >> \in T[{}]
  <2>1. Len(<< >>) = Cardinality({}) /\ << >> \in Seq(S)
    BY FS_EmptySet, EmptySeq
  <2>2. Ascends(<< >>, {})
    BY DEF Ascends
  <2> QED BY <2>1, <2>2
<1>8. ASSUME NEW s \in SUBSET S, NEW x \in s, NEW l \in T[s \ {x}], \A y \in s : x >= y
      PROVE  OrderRound(0, x, l) \in T[s]
  <2>1. /\ l \in Seq(S) /\ Len(l) = Cardinality(s \ {x}) /\ x \in S
        /\ Ascends(l, s \ {x})
    OBVIOUS
  <2>2. IsFiniteSet(s)
    BY ONLY <1>6, s \in SUBSET S, FS_Subset
  <2>3. Cardinality(s \ {x}) = Cardinality(s) - 1 /\ Cardinality(s) \in Nat
    BY ONLY <2>2, x \in s, FS_RemoveElement, FS_CardinalityType
  <2>4. Append(l, x) \in Seq(S) /\ Len(Append(l, x)) = Len(l) + 1
    BY ONLY <2>1, AppendProperties
  <2>5. Len(Append(l, x)) = Cardinality(s)
    BY ONLY <2>1, <2>3, <2>4
  <2>6. Ascends(Append(l, x), s)
    <3>1. l \in Seq(0 .. n)
      BY <2>1, SeqGrows
    <3> HIDE DEF T
    <3> QED BY <1>8, <2>1, <3>1, AppendAscends
  <2> QED BY <2>4, <2>5, <2>6 DEF OrderRound
<1> HIDE DEF T
<1>9. h[S] \in T[S]
  BY <1>5, <1>7, <1>8, OrderOneMore, OrderWalk!WalkReaches
<1> QED BY <1>4, <1>6, <1>9 DEF T

\* A part of a list.
LEMMA PartTyped ==
    ASSUME NEW S, NEW s \in Seq(S), NEW i \in Nat \ {0}, NEW j \in Nat, j <= Len(s)
    PROVE  SubSeq(s, i, j) \in Seq(S)
BY SubSeqProperties

\* The packets that a fit uses.
LEMMA PairsTyped ==
    ASSUME CaptureInv, NEW i
    PROVE  AllPairs \in Seq(Own) /\ PairsAround(i) \in Seq(Own)
           /\ PairsBefore(i, NumSamples) \in Seq(Own)
<1>0. Len(pkts) \in Nat /\ Own \subseteq 0 .. Len(pkts)
  BY CaptureTypes DEF CaptureInv
<1>1. ASSUME NEW S, S \subseteq Own
      PROVE  /\ InOrder(S) \in Seq(Own) /\ Len(InOrder(S)) = Cardinality(S)
             /\ Cardinality(S) \in Nat
  <2>1. S \subseteq 0 .. Len(pkts)
    BY <1>0, <1>1
  <2>2. InOrder(S) \in Seq(S) /\ Len(InOrder(S)) = Cardinality(S)
    BY ONLY <1>0, <2>1, InOrderTyped
  <2>3. Len(InOrder(S)) \in Nat
    BY <2>2, LenProperties
  <2>4. InOrder(S) \in Seq(Own)
    <3>1. InOrder(S) \in [1 .. Len(InOrder(S)) -> S]
      BY <2>2, LenProperties
    <3> DEFINE s == InOrder(S)
    <3> HIDE DEF s
    <3>2. s \in [1 .. Len(s) -> Own] /\ Len(s) \in Nat
      BY <1>1, <2>3, <3>1 DEF s
    <3> QED BY <3>2, SeqDef DEF s
  <2> QED BY <2>2, <2>3, <2>4
<1>2. ASSUME NEW S, S \subseteq Own, NEW n \in Nat
      PROVE  FirstOf(n, S) \in Seq(Own) /\ LastOf(n, S) \in Seq(Own)
  <2> DEFINE s == InOrder(S)
             c == Cardinality(S)
  <2>1. s \in Seq(Own) /\ Len(s) = c /\ c \in Nat
    BY <1>1, <1>2
  <2> HIDE DEF s, c
  <2> DEFINE m == Smaller(n, c)
  <2>2. m \in 0 .. c
    BY <2>1 DEF Smaller
  <2>3. FirstOf(n, S) = SubSeq(s, 1, m) /\ LastOf(n, S) = SubSeq(s, c - m + 1, c)
    BY DEF FirstOf, LastOf, s, c
  <2> HIDE DEF m
  <2>4. /\ 1 \in Nat \ {0} /\ m \in Nat /\ m <= Len(s)
        /\ c - m + 1 \in Nat \ {0} /\ c <= Len(s)
    BY <2>1, <2>2
  <2> QED BY <2>1, <2>3, <2>4, PartTyped
<1>3. /\ Usable \subseteq Own
      /\ \A k : { j \in Usable : j <= k } \subseteq Own
      /\ \A m : { j \in Usable : j >= m } \subseteq Own
  BY DEF Usable
<1>4. NumSamples \in Nat /\ NumSamples \div 2 \in Nat
  BY AnalysisAssumption
<1>5. AllPairs \in Seq(Own)
  BY <1>1, <1>3 DEF AllPairs
<1>6. \A n \in Nat : PairsBefore(i, n) \in Seq(Own)
  BY <1>2, <1>3 DEF PairsBefore
<1>7. PairsAround(i) \in Seq(Own)
  <2> DEFINE half == NumSamples \div 2
             before == PairsBefore(i, half)
             behind == FirstOf(half, { j \in Usable : j >= i })
  <2>1. before \in Seq(Own) /\ behind \in Seq(Own)
    BY <1>2, <1>3, <1>4, <1>6
  <2>2. PairsAround(i) = IF before = << >> THEN << >> ELSE before \o behind
    BY DEF PairsAround
  <2> HIDE DEF before, behind
  <2>3. before \o behind \in Seq(Own)
    BY <2>1, ConcatProperties
  <2> QED BY <2>2, <2>3, EmptySeq
<1> QED BY <1>4, <1>5, <1>6, <1>7

-----------------------------------------------------------------------------
\* A fit with a positive slope, and how good it is.
FitTyped(f) == f.den \in Nat \ {0} /\ f.c_0 \in Int /\ f.c_1 \in Nat
CorrelationTyped(c) == c = NoCorrelation \/ c.num <= c.den

LEMMA LinearFitTyped ==
    ASSUME CaptureInv, TypesInv, NEW ids \in Seq(Own), ids # << >>, LinearFit(ids).c_1 > 0
    PROVE  FitTyped(LinearFit(ids)) /\ LinearFit(ids).corr.num <= LinearFit(ids).corr.den
<1> DEFINE n == Len(ids)
           x == [k \in 1 .. n |-> sent[ids[k]].unacked_bytes]
           y == [k \in 1 .. n |-> delays[ids[k]].ack]
           s == FiveSums(x, y, n)
           v == Variation(n, s)
           f == LinearFit(ids)
<1>1. n \in Nat \ {0} /\ DOMAIN ids = 1 .. n /\ \A k \in 1 .. n : ids[k] \in Own
  BY EmptySeq, LenProperties, ElementOfSeq
<1>2. \A i \in Own : sent[i].unacked_bytes \in Nat /\ delays[i].ack \in Nat
  <2>1. Own \subseteq 1 .. Len(pkts)
    BY CaptureTypes DEF CaptureInv
  <2> QED BY <2>1 DEF TypesInv, NotesTyped, Snapshots, NotedDelays
<1>3. x \in [1 .. n -> Int] /\ y \in [1 .. n -> Int]
  <2> HIDE DEF n
  <2> QED BY <1>1, <1>2
<1>4. /\ s.x = SumOf(x) /\ s.y = SumOf(y) /\ s.xx = SumOf(Product(x, x, n))
      /\ s.yy = SumOf(Product(y, y, n)) /\ s.xy = SumOf(Product(x, y, n))
  BY DEF FiveSums
<1>5. s \in Number5 /\ \A a \in Int, b \in Int, c \in Int : Square(a, b, c, n, s) >= 0
  <2> HIDE DEF n, x, y
  <2> QED BY <1>1, <1>3, SquaresAdd
<1>6. /\ v.x \in Int /\ v.y \in Int /\ v.xy \in Int
      /\ v.xy > 0 => v.x > 0 /\ v.xy * v.xy <= v.x * v.y
  <2> HIDE DEF n, s
  <2> QED BY <1>1, <1>5, SlopeNeedsVariation
<1>7. f = [c_0 |-> s.y * v.x - v.xy * s.x, c_1 |-> n * v.xy, den |-> n * v.x,
           corr |-> [num |-> v.xy * v.xy, den |-> v.x * v.y]]
  BY <1>1, ZenonT(40) DEF LinearFit, FitOf, FiveSums, Variation, Product
<1> HIDE DEF f, s, v, n, x, y
<1>8. /\ f.c_0 = s.y * v.x - v.xy * s.x /\ f.c_1 = n * v.xy /\ f.den = n * v.x
      /\ f.corr.num = v.xy * v.xy /\ f.corr.den = v.x * v.y
  BY <1>7
<1>9. v.xy > 0
  <2> SUFFICES ASSUME ~(v.xy > 0) PROVE FALSE
    OBVIOUS
  <2>1. n * v.xy > 0
    BY <1>8 DEF f
  <2> DEFINE c == v.xy
  <2>2. c \in Int /\ n * c > 0 /\ c <= 0
    BY <1>6, <2>1
  <2> HIDE DEF c
  <2> QED BY <1>1, <2>2
<1>10. v.x > 0 /\ v.xy * v.xy <= v.x * v.y
  BY <1>6, <1>9
<1>11. ASSUME NEW p \in Int, p > 0 PROVE n * p \in Nat \ {0}
  BY <1>1, <1>11
<1>12. f.den \in Nat \ {0} /\ f.c_1 \in Nat
  BY <1>6, <1>8, <1>9, <1>10, <1>11
<1>13. f.c_0 \in Int
  <2> s.y \in Int /\ s.x \in Int
    BY <1>5 DEF Number5
  <2> QED BY <1>6, <1>8
<1> QED BY <1>8, <1>10, <1>12, <1>13 DEF FitTyped, f

\* What the search for a fit has found so far.
BestTyped(best) == FitTyped(best.fit) /\ CorrelationTyped(best.correlation)

LEMMA TryFitTyped ==
    ASSUME CaptureInv, TypesInv, NEW best, BestTyped(best), NEW ids \in Seq(Own)
    PROVE  BestTyped(TryFit(best, ids))
<1> DEFINE current == LinearFit(ids)
           corr == current.corr
           f == [c_0 |-> current.c_0, c_1 |-> current.c_1, den |-> current.den]
           better == [found |-> TRUE, correlation |-> corr, fit |-> f]
<1>1. TryFit(best, ids) = IF ids # << >> /\ current.c_1 > 0
                             /\ LessThan(best.correlation, corr) THEN better ELSE best
  BY Zenon DEF TryFit
<1>2. ASSUME ids # << >>, current.c_1 > 0 PROVE BestTyped(better)
  <2>1. FitTyped(current) /\ corr.num <= corr.den
    BY <1>2, LinearFitTyped
  <2> HIDE DEF current, corr
  <2>2. FitTyped(f)
    BY <2>1 DEF FitTyped
  <2> HIDE DEF f
  <2> QED BY <2>1, <2>2 DEF BestTyped, CorrelationTyped
<1> HIDE DEF current, corr, better
<1> QED BY <1>1, <1>2

LEMMA BestFitTyped ==
    ASSUME CaptureInv, TypesInv, NEW i, NEW f, FitTyped(f), NEW c, CorrelationTyped(c)
    PROVE  BestTyped(CalculateRttLinearFit(i, f, c))
<1> DEFINE none == [found |-> FALSE, correlation |-> c, fit |-> f]
<1>1. BestTyped(none)
  BY DEF BestTyped
<1>2. CalculateRttLinearFit(i, f, c)
        = TryFit(TryFit(TryFit(none, AllPairs), PairsAround(i)), PairsBefore(i, NumSamples))
  BY DEF CalculateRttLinearFit
<1> HIDE DEF none
<1> QED BY <1>1, <1>2, PairsTyped, TryFitTyped

-----------------------------------------------------------------------------
(***************************************************************************)
(* The samples, and what they become without queueing.                     *)
(***************************************************************************)
\* A sample is one of a packet that was acked.
SampleRecords ==
    { s \in [packet : Own, rtt : Nat, acked : SeqNum, next : SeqNum] : ack_packet[s.packet] # 0 }

SamplesTyped == samples \in Seq(SampleRecords)

LEMMA SampleRecordsGrow ==
    ASSUME AckInv, CaptureInv, Next
    PROVE  SampleRecords \subseteq SampleRecords'
<1>1. Own \subseteq Own' /\ Own \subseteq Ids
  <2>1. \A q \in Packets : pkts' = Append(pkts, q) => Own \subseteq Own' /\ Own \subseteq Ids
    BY Captured DEF CaptureInv
  <2>2. ASSUME NEW p \in OwnPackets, AddPacket(p)
        PROVE  Own \subseteq Own' /\ Own \subseteq Ids
    BY <2>1, <2>2, SentIsStored DEF Packets
  <2>3. ASSUME NEW a \in Received, ProcessOldAck(a) \/ ProcessNewAck(a)
        PROVE  Own \subseteq Own' /\ Own \subseteq Ids
    BY <2>1, <2>3, ReceivedIsStored DEF Packets
  <2> QED BY <2>2, <2>3, StepCases DEF CaptureInv
<1>2. \A i \in Own : ack_packet[i] # 0 => ack_packet'[i] # 0
  BY <1>1, AckStep DEF AckKept
<1> SUFFICES ASSUME NEW s \in SampleRecords PROVE s \in SampleRecords'
  OBVIOUS
<1>3. s.packet \in Own /\ ack_packet[s.packet] # 0
  BY DEF SampleRecords
<1>4. s \in [packet : Own', rtt : Nat, acked : SeqNum, next : SeqNum]
  BY <1>1 DEF SampleRecords
<1> QED BY <1>2, <1>3, <1>4 DEF SampleRecords

LEMMA SampleTypes ==
    ASSUME ReadInv, TypesInv, TypesInv', ReadInv', SamplesTyped, Next, NoteSamples
    PROVE  SamplesTyped'
<1>1. /\ Len(pkts) \in Nat /\ SampledPackets \subseteq 0 .. Len(pkts)
      /\ SampledPackets \subseteq Own
  BY CaptureTypes DEF ReadInv, CaptureInv, SampledPackets
<1>2. Own' \subseteq 1 .. Len(pkts')
  BY DEF Own, Ids
<1>3. Own \subseteq Own' /\ samples \in Seq(SampleRecords')
  <2>1. SampleRecords \subseteq SampleRecords'
    BY SampleRecordsGrow DEF ReadInv
  <2>2. samples \in Seq(SampleRecords')
    BY <2>1, SeqGrows DEF SamplesTyped
  <2>3. \A q \in Packets : pkts' = Append(pkts, q) => Own \subseteq Own'
    BY Captured DEF ReadInv, CaptureInv
  <2>4. ASSUME NEW p \in OwnPackets, AddPacket(p)
        PROVE  Own \subseteq Own'
    BY <2>3, <2>4, SentIsStored DEF Packets
  <2>5. ASSUME NEW a \in Received, ProcessOldAck(a) \/ ProcessNewAck(a)
        PROVE  Own \subseteq Own'
    BY <2>3, <2>5, ReceivedIsStored DEF Packets
  <2> QED BY <2>2, <2>4, <2>5, StepCases DEF ReadInv, CaptureInv
<1> SUFFICES ASSUME NEW R, R = SampleRecords' PROVE samples' \in Seq(R)
  BY DEF SamplesTyped
<1>4. ASSUME NEW i \in SampledPackets PROVE Sample(i) \in R
  <2>1. i \in Own' /\ i \in 1 .. Len(pkts') /\ ack_packet'[i] # 0
    BY <1>1, <1>2, <1>3 DEF SampledPackets
  <2>2. delays'[i].ack \in Nat
    BY <2>1 DEF TypesInv, NotesTyped, NotedDelays
  <2>3. seq_acked' \in SeqNum /\ seq_next' \in SeqNum
    BY DEF TypesInv, NumbersTyped
  <2>4. Sample(i) \in [packet : Own', rtt : Nat, acked : SeqNum, next : SeqNum]
    BY <2>1, <2>2, <2>3 DEF Sample
  <2>5. Sample(i).packet = i
    BY DEF Sample
  <2> HIDE DEF Sample
  <2> QED BY <2>1, <2>4, <2>5 DEF SampleRecords
<1> DEFINE T == SampledPackets
           e == [i \in T |-> Sample(i)]
<1>5. PICK h : ListWalk!IsWalk(h, e, samples, T) /\ samples' = h[T]
  BY <1>1, SamplesAreAWalk
<1>6. \A i \in T : e[i] \in R
  BY <1>4
<1> HIDE DEF T, e
<1>7. \A i \in T : \A l \in Seq(R) : ListRound(e, i, l) \in Seq(R)
  BY <1>6, AppendProperties DEF ListRound
<1>8. samples \in Seq(R)
  BY <1>3
<1>9. h[T] \in Seq(R)
  BY ONLY <1>1, <1>5, <1>7, <1>8, ListOneMore, ListWalk!WalkStays DEF T
<1> QED BY <1>5, <1>9

-----------------------------------------------------------------------------
\* The queueing delays of packets.
LEMMA QueueingTyped ==
    ASSUME CaptureInv, TypesInv, NEW f, FitTyped(f), NEW p \in Nat
    PROVE  QueueingDelays(f, p) \in [Own -> Nat]
<1> SUFFICES ASSUME NEW i \in Own PROVE GetQueueingDelay(i, f, p) \in Nat
  BY DEF QueueingDelays
<1> DEFINE before == sent[i].unacked_bytes - pkts[i].len
           expected == f.c_0 + f.c_1 * before
           floor == Larger(f.c_0, p * f.den)
<1>1. i \in Ids /\ i \in 1 .. Len(pkts) /\ pkts[i].out /\ pkts[i] \in Packets
  BY CaptureTypes DEF CaptureInv, Own
<1>2. before \in Int
  <2>1. pkts[i].len \in Nat
    BY <1>1, PacketTypes
  <2>2. sent[i].unacked_bytes \in Nat
    BY <1>1 DEF TypesInv, NotesTyped, Snapshots
  <2> QED BY <2>1, <2>2
<1> HIDE DEF before
<1>3. f.den \in Nat \ {0} /\ f.c_0 \in Int /\ f.c_1 \in Nat
  BY DEF FitTyped
<1>4. expected \in Int /\ floor \in Int
  BY <1>2, <1>3 DEF Larger
<1>5. GetQueueingDelay(i, f, p)
         = IF before <= 0 \/ expected <= floor THEN 0 ELSE (expected - floor) \div f.den
  BY DEF GetQueueingDelay, before
<1> DEFINE d == f.den
<1> HIDE DEF expected, floor, d
<1>6. d \in Nat \ {0}
  BY <1>3 DEF d
<1>7. ASSUME NEW x \in Nat PROVE x \div d \in Nat
  BY <1>6, <1>7
<1>8. ~(expected <= floor) => expected - floor \in Nat
  BY <1>4
<1> QED BY <1>5, <1>7, <1>8 DEF d

\* Samples replayed give an estimator.

LEMMA ReplayTyped ==
    ASSUME NEW list \in Seq(SampleRecords)
    PROVE  Replayed(list) \in Estimators
<1> DEFINE n == Len(list)
<1>1. n \in Nat /\ IsList(list, n)
  BY LenProperties DEF IsList
<1>2. \A k \in 1 .. n : list[k].rtt \in Nat /\ list[k].next \in SeqNum
  <2> \A k \in 1 .. n : list[k] \in SampleRecords
    BY <1>1, ElementOfSeq
  <2> QED BY DEF SampleRecords
<1> HIDE DEF n
<1>3. PICK g : ReplayWalk!IsWalk(g, list, NewTimer, 1 .. n) /\ Replayed(list) = g[1 .. n]
  BY <1>1, ReplayIsAWalk
<1>4. NewTimer \in Estimators
  BY SpaceSizeAssumption DEF NewTimer, Estimators, SeqNum
<1>5. \A k \in 1 .. n : \A tm \in Estimators : ReplayRound(list, k, tm) \in Estimators
  BY <1>2, AddSampleTyped DEF ReplayRound
<1>6. 1 .. n \subseteq 0 .. n
  BY <1>1
<1>7. g[1 .. n] \in Estimators
  BY <1>1, <1>3, <1>4, <1>5, <1>6, ReplayOneMore, ReplayWalk!WalkStays
<1> QED BY <1>3, <1>7

\* The walk that takes queueing out of the samples.
KeepRound(c, k, kept) ==
    IF c.list[k].rtt > c.q[c.list[k].packet]
    THEN Append(kept, [c.list[k] EXCEPT !.rtt = @ - c.q[c.list[k].packet]]) ELSE kept
KeepWalk == INSTANCE Walks WITH Step <- KeepRound

LEMMA KeepOneMore == KeepWalk!OneMoreSuffices
BY OneMoreAtTheEnd DEF KeepWalk!OneMoreSuffices

LEMMA WithoutQueueingTyped ==
    ASSUME NEW list \in Seq(SampleRecords), NEW q \in [Own -> Nat]
    PROVE  WithoutQueueing(list, q) \in Seq(SampleRecords)
<1> DEFINE n == Len(list)
           S == DOMAIN list
           c == [list |-> list, q |-> q]
           G(g) == g = [t \in SUBSET S |-> IF t = {} THEN << >>
                          ELSE KeepRound(c, Max(t), g[t \ {Max(t)}])]
           keep(kept, s) == IF s.rtt > q[s.packet]
                            THEN Append(kept, [s EXCEPT !.rtt = @ - q[s.packet]]) ELSE kept
           G2(g) == g = [t \in SUBSET S |-> IF t = {} THEN << >>
                          ELSE keep(g[t \ {Max(t)}], list[Max(t)])]
           h == CHOOSE g : G2(g)
<1>1. n \in Nat /\ S = 1 .. n /\ S \subseteq 0 .. n /\ \A k \in S : list[k] \in SampleRecords
  BY LenProperties, ElementOfSeq
<1>2. \A g : G(g) <=> G2(g)
  <2>1. c.list = list /\ c.q = q
    OBVIOUS
  <2> HIDE DEF S, c, Max
  <2> QED BY <2>1 DEF KeepRound
<1>3. PICK e : KeepWalk!IsWalk(e, c, << >>, S)
  <2> HIDE DEF S, c, n
  <2> QED BY <1>1, KeepOneMore, KeepWalk!WalkExists
<1>4. G(e)
  <2>1. \A t \in SUBSET S : t # {} => Max(t) \in t /\ \A y \in t : Max(t) >= y
    <3> HIDE DEF S, Max, n
    <3> QED BY <1>1, LastOfEach
  <2> HIDE DEF S, Max, KeepRound, c
  <2>2. e = [t \in SUBSET S |-> e[t]] /\ e[{}] = << >>
    BY <1>3 DEF KeepWalk!IsWalk
  <2>3. \A t \in SUBSET S : t # {} => e[t] = KeepRound(c, Max(t), e[t \ {Max(t)}])
    BY <1>3, <2>1 DEF KeepWalk!IsWalk
  <2> QED BY <2>2, <2>3
<1>5. G2(h)
  <2>1. G2(e)
    <3> HIDE DEF G, G2
    <3> QED BY <1>2, <1>4
  <2> HIDE DEF G2
  <2> QED BY <2>1
<1>6. G(h)
  <2> HIDE DEF G, G2, h
  <2> QED BY <1>2, <1>5
<1>7. WithoutQueueing(list, q) = h[S]
  BY Zenon DEF WithoutQueueing, FoldLeft, MapThenFoldSet
<1> HIDE DEF S, h
<1>8. KeepWalk!IsWalk(h, c, << >>, S)
  <2>1. /\ h = [t \in SUBSET S |-> h[t]] /\ h[{}] = << >>
        /\ \A t \in SUBSET S : t # {} => h[t] = KeepRound(c, Max(t), h[t \ {Max(t)}])
    <3> HIDE DEF c, KeepRound, Max
    <3> QED BY <1>6
  <2>2. \A t \in SUBSET S : \A x \in t : (\A y \in t : x >= y) => x = Max(t)
    <3> HIDE DEF n
    <3> QED BY <1>1, LastOfEach
  <2> HIDE DEF Max, KeepRound, c
  <2> QED BY <2>1, <2>2 DEF KeepWalk!IsWalk
<1>9. ASSUME NEW k \in S, NEW kept \in Seq(SampleRecords)
      PROVE  KeepRound(c, k, kept) \in Seq(SampleRecords)
  <2> DEFINE s == list[k]
             d == s.rtt - q[s.packet]
             r == [s EXCEPT !.rtt = d]
  <2>1. s \in SampleRecords
    BY <1>1
  <2>2. s.packet \in Own /\ s.rtt \in Nat /\ q[s.packet] \in Nat
    <3> HIDE DEF s
    <3> QED BY <2>1 DEF SampleRecords
  <2>3. KeepRound(c, k, kept) = IF s.rtt > q[s.packet] THEN Append(kept, r) ELSE kept
    BY DEF KeepRound
  <2>4. s.rtt > q[s.packet] => d \in Nat
    <3> HIDE DEF s
    <3> QED BY <2>2
  <2>5. d \in Nat => r \in SampleRecords
    <3> HIDE DEF s, d
    <3> QED BY <2>1 DEF SampleRecords
  <2> HIDE DEF s, r, d
  <2>6. r \in SampleRecords => Append(kept, r) \in Seq(SampleRecords)
    BY AppendProperties
  <2> HIDE DEF KeepRound, c
  <2> QED BY <2>3, <2>4, <2>5, <2>6
<1>10. << >> \in Seq(SampleRecords)
  BY EmptySeq
<1> HIDE DEF c, n
<1>11. h[S] \in Seq(SampleRecords)
  BY <1>1, <1>8, <1>9, <1>10, KeepOneMore, KeepWalk!WalkStays
<1> QED BY <1>7, <1>11

-----------------------------------------------------------------------------
\* The queue-free timeouts.
TimeoutRecords == [index : Nat, rto : Nat, tlp : Nat, delayed_tlp : Nat]

LEMMA IndexTyped ==
    ASSUME CaptureInv, NEW i \in Ids
    PROVE  Index(i) \in Nat
BY CaptureTypes DEF CaptureInv, Index

LEMMA AckIndexTyped ==
    ASSUME CaptureInv, AcksTyped(Len(pkts)), NEW s \in SampleRecords
    PROVE  AckIndex(s) \in Nat
<1>1. s.packet \in Own /\ ack_packet[s.packet] # 0
  BY DEF SampleRecords
<1>2. ack_packet[s.packet] \in Ids
  <2>1. Len(pkts) \in Nat /\ Ids = 1 .. Len(pkts) /\ Own \subseteq Ids
    BY CaptureTypes DEF CaptureInv
  <2>2. ack_packet[s.packet] \in 0 .. Len(pkts)
    BY <1>1, <2>1 DEF AcksTyped
  <2> QED BY <1>1, <2>1, <2>2
<1> QED BY <1>2, IndexTyped DEF AckIndex

LEMMA TableTyped ==
    ASSUME CaptureInv, AcksTyped(Len(pkts)), SamplesTyped, NEW q \in [Own -> Nat]
    PROVE  ComputeQueueFreeTimeouts(q) \in Seq(TimeoutRecords)
<1> DEFINE list == WithoutQueueing(samples, q)
           n == Len(list)
           tm(k) == Replayed(SubSeq(list, 1, k))
           entry(k) == [index |-> AckIndex(list[k]), rto |-> GetRTO(tm(k), 0),
                        tlp |-> GetTLP(tm(k), FALSE), delayed_tlp |-> GetTLP(tm(k), TRUE)]
<1>1. list \in Seq(SampleRecords)
  BY WithoutQueueingTyped DEF SamplesTyped
<1>2. ComputeQueueFreeTimeouts(q) = [k \in DOMAIN list |-> entry(k)]
  BY Zenon DEF ComputeQueueFreeTimeouts
<1> HIDE DEF list
<1>3. n \in Nat /\ DOMAIN list = 1 .. n
  BY <1>1, LenProperties
<1>4. ASSUME NEW k \in 1 .. n
      PROVE  entry(k) \in TimeoutRecords
  <2>1. SubSeq(list, 1, k) \in Seq(SampleRecords)
    BY <1>1, <1>3, PartTyped
  <2>2. tm(k) \in Estimators
    BY <2>1, ReplayTyped
  <2> HIDE DEF tm
  <2>3. GetRTO(tm(k), 0) \in Nat /\ GetTLP(tm(k), FALSE) \in Nat /\ GetTLP(tm(k), TRUE) \in Nat
    BY <2>2, TimeoutsTyped
  <2>4. AckIndex(list[k]) \in Nat
    <3> list[k] \in SampleRecords
      BY <1>1, <1>3, ElementOfSeq
    <3> QED BY AckIndexTyped
  <2> QED BY <2>3, <2>4 DEF TimeoutRecords
<1> HIDE DEF entry, n
<1>5. [k \in 1 .. n |-> entry(k)] \in Seq(TimeoutRecords)
  <2> [k \in 1 .. n |-> entry(k)] \in [1 .. n -> TimeoutRecords]
    BY <1>4
  <2> QED BY <1>3, SeqDef
<1> QED BY <1>2, <1>3, <1>5

-----------------------------------------------------------------------------
(***************************************************************************)
(* What GetTriggerDelay returns.                                           *)
(***************************************************************************)
TriggerRecords ==
    [no_queue : Nat, timeout : Nat, arms : Nat, triggers : Nat, for_trigger : Nat,
     endless : BOOLEAN]

LEMMA QueueFreeTyped ==
    ASSUME CaptureInv, TypesInv, NEW i \in Ids, NEW timeouts \in Seq(TimeoutRecords)
    PROVE  NoQueueTimeout(i, timeouts) \in Nat /\ ActualTimeout(i) \in Nat
<1>1. Len(pkts) \in Nat /\ Ids = 1 .. Len(pkts)
  BY CaptureTypes DEF CaptureInv
<1>2. /\ sent[i].rto_info \in Infos(Len(pkts)) /\ sent[i].tlp_info \in Infos(Len(pkts))
  BY <1>1 DEF TypesInv, NotesTyped, Snapshots
<1>3. /\ sent[i].rto_info.backoffs \in Nat /\ sent[i].rto_info.delay \in Nat
      /\ sent[i].tlp_info.delay \in Nat
  BY <1>2, InputAssumption DEF Infos
<1> DEFINE armer == IF "tlp" \in marks[i] THEN sent[i].tlp_info.armed_by
                    ELSE sent[i].rto_info.armed_by
           below == { k \in DOMAIN timeouts : armer # 0 /\ timeouts[k].index < Index(armer) }
           found == GetQueueFreeTimeouts(i, timeouts)
<1>4. found = IF below = {} THEN NoTimeouts ELSE timeouts[Max(below)]
  BY Zenon DEF GetQueueFreeTimeouts
<1>5. found \in TimeoutRecords
  <2>1. NoTimeouts \in TimeoutRecords
    BY DEF NoTimeouts, TimeoutRecords
  <2>2. /\ Len(timeouts) \in Nat /\ DOMAIN timeouts = 1 .. Len(timeouts)
        /\ \A k \in 1 .. Len(timeouts) : timeouts[k] \in TimeoutRecords
    BY LenProperties, ElementOfSeq
  <2>3. below \subseteq 1 .. Len(timeouts) /\ below \subseteq 0 .. Len(timeouts)
    BY <2>2
  <2> HIDE DEF below, found, Max
  <2>4. below # {} => Max(below) \in below
    BY <2>2, <2>3, MaxIsLast
  <2> QED BY <1>4, <2>1, <2>2, <2>3, <2>4
<1>6. found.rto \in Nat /\ found.tlp \in Nat /\ found.delayed_tlp \in Nat
  <2> HIDE DEF found
  <2> QED BY <1>5 DEF TimeoutRecords
<1>7. NoQueueTimeout(i, timeouts)
        = IF "rto" \in marks[i] THEN AdjustRTOForBackoff(found.rto, sent[i].rto_info.backoffs)
          ELSE IF "tlp" \notin marks[i] THEN 0
          ELSE IF sent[i].tlp_info.delayed_ack THEN found.delayed_tlp ELSE found.tlp
  BY Zenon DEF NoQueueTimeout
<1>8. AdjustRTOForBackoff(found.rto, sent[i].rto_info.backoffs) \in Nat
  <2> HIDE DEF found
  <2> QED BY <1>3, <1>6, BackoffTyped
<1>9. NoQueueTimeout(i, timeouts) \in Nat
  <2> HIDE DEF found
  <2> QED BY <1>6, <1>7, <1>8
<1>10. ActualTimeout(i) \in Nat
  BY <1>3 DEF ActualTimeout
<1> QED BY <1>9, <1>10

LEMMA ArmingTyped ==
    ASSUME CaptureInv, TypesInv, TriggerInv, NEW i \in Ids, NEW q \in [Own -> Nat]
    PROVE  GetArmingTimerDelay(i, q) \in Nat
<1>1. Len(pkts) \in Nat /\ Ids = 1 .. Len(pkts)
  BY CaptureTypes DEF CaptureInv
<1>2. /\ sent[i].rto_info \in Infos(Len(pkts)) /\ sent[i].tlp_info \in Infos(Len(pkts))
  BY <1>1 DEF TypesInv, NotesTyped, Snapshots
<1> DEFINE armer == IF "rto" \in marks[i] THEN sent[i].rto_info.armed_by
                    ELSE IF "tlp" \in marks[i] THEN sent[i].tlp_info.armed_by ELSE 0
<1>3. armer \in 0 .. Len(pkts)
  <2>1. /\ sent[i].rto_info.armed_by \in 0 .. Len(pkts)
        /\ sent[i].tlp_info.armed_by \in 0 .. Len(pkts)
    BY <1>2 DEF Infos
  <2> QED BY <1>1, <2>1
<1>4. GetArmingTimerDelay(i, q) = IF armer = 0 THEN 0
                                  ELSE IF pkts[armer].out \/ trigger[armer] = 0 THEN 0
                                  ELSE q[trigger[armer]]
  BY Zenon DEF GetArmingTimerDelay
<1> HIDE DEF armer
<1>5. ASSUME armer # 0, trigger[armer] # 0
      PROVE  trigger[armer] \in Own
  <2> armer \in Ids
    BY <1>1, <1>3, <1>5
  <2> QED BY <1>5 DEF TriggerInv, TriggerLinks
<1> QED BY <1>4, <1>5

LEMMA OwnDelayTyped ==
    ASSUME ReadInv, TypesInv, NEW i \in Ids, NEW q \in [Own -> Nat],
           NEW timeouts \in Seq(TimeoutRecords)
    PROVE  OwnDelay(i, q, timeouts) \in TriggerRecords
<1>1. Len(pkts) \in Nat /\ Ids = 1 .. Len(pkts) /\ Ids \subseteq 0 .. Len(pkts)
  BY CaptureTypes DEF ReadInv, CaptureInv
<1>2. TimedOf(i) \subseteq Ids
  <2>1. LastTx(i) \in Ids
    BY LastTxBounds DEF ReadInv
  <2>2. Line(LastTx(i)) \subseteq Ids
    BY <2>1, LineGoesBack DEF ReadInv
  <2> QED BY <2>2 DEF TimedOf, RtxsOf
<1> DEFINE T == TimedOf(i)
           f == [j \in T |-> NoQueueTimeout(j, timeouts)]
           g == [j \in T |-> Excess(j, timeouts)]
           a == [j \in T |-> GetArmingTimerDelay(j, q)]
           late == IF Cause(i) = 0 THEN 0 ELSE q[trigger[Cause(i)]]
<1>3. \A j \in Ids : NoQueueTimeout(j, timeouts) \in Nat /\ Excess(j, timeouts) \in Nat
                     /\ GetArmingTimerDelay(j, q) \in Nat
  <2> SUFFICES ASSUME NEW j \in Ids
               PROVE  /\ NoQueueTimeout(j, timeouts) \in Nat /\ Excess(j, timeouts) \in Nat
                      /\ GetArmingTimerDelay(j, q) \in Nat
    OBVIOUS
  <2>1. NoQueueTimeout(j, timeouts) \in Nat /\ ActualTimeout(j) \in Nat
    BY QueueFreeTyped DEF ReadInv
  <2>2. Excess(j, timeouts) \in Nat
    BY <2>1 DEF Excess, Larger
  <2>3. GetArmingTimerDelay(j, q) \in Nat
    BY ArmingTyped DEF ReadInv
  <2> QED BY <2>1, <2>2, <2>3
<1>4. f \in [T -> Nat] /\ g \in [T -> Nat] /\ a \in [T -> Nat] /\ T \subseteq 0 .. Len(pkts)
  <2> HIDE DEF T
  <2>1. \A j \in T : j \in Ids
    BY <1>2 DEF T
  <2> QED BY <1>1, <1>3, <2>1
<1>5. SumOf(f) \in Nat /\ SumOf(g) \in Nat /\ SumOf(a) \in Nat
  <2> HIDE DEF f, g, a, T
  <2> QED BY <1>1, <1>4, SumTyped
<1>6. late \in Nat
  <2>1. Cause(i) # 0 => trigger[Cause(i)] \in Own
    <3> SUFFICES ASSUME Cause(i) # 0 PROVE trigger[Cause(i)] \in Own
      OBVIOUS
    <3>1. Cause(i) \in Own /\ trigger[Cause(i)] # 0
      BY CauseInLine DEF ReadInv
    <3>2. Cause(i) \in Ids
      BY <3>1 DEF Own
    <3> QED BY <3>1, <3>2 DEF ReadInv, TriggerInv, TriggerLinks
  <2> QED BY <2>1
<1>7. OwnDelay(i, q, timeouts) = [no_queue |-> SumOf(f), timeout |-> SumOf(g),
                                  arms |-> SumOf(a), triggers |-> late,
                                  for_trigger |-> 0, endless |-> FALSE]
  BY Zenon DEF OwnDelay
<1> HIDE DEF f, g, a, late
<1> QED BY <1>5, <1>6, <1>7 DEF TriggerRecords

LEMMA TriggerDelayTyped ==
    ASSUME ReadInv, TypesInv, NEW i \in Ids, NEW q \in [Own -> Nat],
           NEW timeouts \in Seq(TimeoutRecords), NEW calls, NEW deeper,
           calls # 0 => deeper \in [Ids -> TriggerRecords]
    PROVE  TriggerDelay(i, q, timeouts, calls, deeper) \in TriggerRecords
<1> DEFINE again == deeper[SlowStartTrigger(Cause(i))]
           own == OwnDelay(i, q, timeouts)
           total == Total(again)
           never == [NoTrigger EXCEPT !.endless = TRUE]
           ends == again.endless
           further == [own EXCEPT !.for_trigger = total, !.endless = ends]
<1>1. TriggerDelay(i, q, timeouts, calls, deeper)
        = IF ~Lost(i) THEN NoTrigger
          ELSE IF calls = 0 THEN never
          ELSE IF Cause(i) # 0 /\ "slow_start" \in marks[Cause(i)] THEN further ELSE own
  BY Zenon DEF TriggerDelay
<1>2. NoTrigger \in TriggerRecords /\ never \in TriggerRecords
  BY DEF NoTrigger, TriggerRecords
<1>3. own \in TriggerRecords
  BY OwnDelayTyped
<1>4. ASSUME calls # 0, Cause(i) # 0
      PROVE  further \in TriggerRecords
  <2>1. SlowStartTrigger(Cause(i)) \in Ids
    BY <1>4, CauseInLine DEF ReadInv
  <2>2. again \in TriggerRecords
    BY <1>4, <2>1
  <2> HIDE DEF again, own
  <2>3. total \in Nat /\ ends \in BOOLEAN
    BY <2>2 DEF Total, TriggerRecords
  <2> HIDE DEF total, ends
  <2> QED BY <1>3, <2>3 DEF TriggerRecords
<1> HIDE DEF own, further, never
<1> QED BY <1>1, <1>2, <1>3, <1>4

LEMMA GetTriggerDelayTyped ==
    ASSUME ReadInv, TypesInv, NEW i \in Ids, NEW q \in [Own -> Nat],
           NEW timeouts \in Seq(TimeoutRecords)
    PROVE  GetTriggerDelay(i, q, timeouts) \in TriggerRecords
<1> DEFINE n == Len(pkts)
<1>1. n \in Nat
  BY CaptureTypes DEF ReadInv, CaptureInv
<1>2. PICK d : /\ CallsOf(d, q, timeouts)
               /\ \A k : GetTriggerDelay(k, q, timeouts) = d[n][k]
  BY TriggerEquation DEF ReadInv
<1>3. \A c \in 0 .. n : d[c] = [k \in Ids |-> TriggerDelay(k, q, timeouts, c, d[c - 1])]
  BY <1>2 DEF CallsOf
<1> DEFINE G == { c \in 0 .. n : d[c] \in [Ids -> TriggerRecords] }
<1> HIDE DEF n
<1>4. 0 \in G
  <2> DEFINE e == d[0 - 1]
  <2>1. 0 \in 0 .. n
    BY <1>1
  <2>2. d[0] = [k \in Ids |-> TriggerDelay(k, q, timeouts, 0, e)]
    BY <1>3, <2>1
  <2> HIDE DEF e
  <2>3. \A k \in Ids : TriggerDelay(k, q, timeouts, 0, e) \in TriggerRecords
    BY TriggerDelayTyped
  <2> QED BY <2>1, <2>2, <2>3
<1>5. ASSUME NEW c \in 0 .. n - 1, c \in G
      PROVE  c + 1 \in G
  <2>1. c + 1 \in 0 .. n /\ (c + 1) - 1 = c
    BY <1>1
  <2>2. d[c] \in [Ids -> TriggerRecords]
    BY <1>5
  <2>3. \A k \in Ids : TriggerDelay(k, q, timeouts, c + 1, d[c]) \in TriggerRecords
    BY <2>2, TriggerDelayTyped
  <2> QED BY <1>3, <2>1, <2>3, ZenonT(40)
<1>6. n \in G
  <2> HIDE DEF G
  <2> QED BY <1>1, <1>4, <1>5, CountingUp
<1>7. d[n][i] \in TriggerRecords
  BY <1>6
<1> QED BY <1>2, <1>7

-----------------------------------------------------------------------------
(***************************************************************************)
(* The latest ACK at the time a packet was sent is one that was received.   *)
(***************************************************************************)
LastAckInv ==
    /\ last_ack \in {0} \cup (Ids \ Own)
    /\ \A i \in Ids : sent[i].last_ack \in {0} \cup (Ids \ Own)

LEMMA SentAfter ==
    ASSUME NEW p, NEW sq, NEW tm, NEW num_bytes, NEW info
    PROVE  SentIn(p, sq, tm, num_bytes, info).last_ack \in {0, last_ack}
<1> DEFINE any == [NotSent EXCEPT !.acked_bytes = acked_bytes,
                                  !.rto_info = info.rto, !.tlp_info = info.tlp]
           bytes == GetUnackedBytes(sq.next, sq.acked, num_bytes)
           estimate == GetRTO(tm, 0)
           probe == GetTLP(tm, FALSE)
           late == GetTLP(tm, TRUE)
           all == [any EXCEPT !.unacked_bytes = bytes, !.last_ack = last_ack,
                              !.rto_estimate = estimate, !.tlp_estimate = probe,
                              !.tlp_delayed_ack_estimate = late]
<1>1. SentIn(p, sq, tm, num_bytes, info) \in {any, all}
  BY Zenon DEF SentIn
<1>2. any.last_ack = 0 /\ "last_ack" \in DOMAIN any
  BY DEF NotSent
<1> HIDE DEF any, bytes, estimate, probe, late
<1>3. all.last_ack = last_ack
  BY <1>2
<1> HIDE DEF all
<1> QED BY <1>1, <1>2, <1>3

LEMMA LastAckStep ==
    ASSUME CaptureInv, TypesInv, LastAckInv, [Next]_vars
    PROVE  LastAckInv'
<1> DEFINE Heard == {0} \cup (Ids \ Own)
           n == Len(pkts)
<1>1. CASE UNCHANGED vars
  BY <1>1 DEF vars, noteVars, ackVars, LastAckInv, Ids, Own
<1>2. CASE Next
  <2>1. n \in Nat /\ Ids = 1 .. n /\ New = n + 1 /\ sent = [i \in Ids |-> sent[i]]
        /\ pkts \in Seq(Packets) /\ Own \subseteq Ids
    BY CaptureTypes DEF CaptureInv, New, TypesInv, NotesTyped
  <2>2. ASSUME NEW p \in Packets, pkts' = Append(pkts, p), NEW f, f = [i \in Ids |-> f[i]],
               \A i \in Ids : f[i].last_ack = sent[i].last_ack, NEW e, sent' = Append(f, e),
               e.last_ack \in {0, last_ack}, last_ack' \in {last_ack, New},
               last_ack' = New => ~p.out
        PROVE  LastAckInv'
    <3>1. Ids' = 1 .. New /\ Own' = IF p.out THEN Own \cup {New} ELSE Own
      BY <2>1, <2>2, Captured
    <3>2. \A i \in Ids : sent'[i] = f[i]
      BY <2>1, <2>2, AppendEntry
    <3>3. sent'[New] = e
      BY <2>1, <2>2, AppendEntry
    <3>4. \A i \in Heard : i \in {0} \cup (Ids' \ Own')
      BY <2>1, <3>1
    <3>5. last_ack' \in {0} \cup (Ids' \ Own')
      <4>1. CASE last_ack' = last_ack
        BY <3>4, <4>1 DEF LastAckInv
      <4>2. CASE last_ack' = New
        <5> ~p.out /\ New \in Ids' /\ New \notin Own
          BY <2>1, <2>2, <3>1, <4>2
        <5> QED BY <3>1, <4>2
      <4> QED BY <2>2, <4>1, <4>2
    <3>6. ASSUME NEW i \in 1 .. New
          PROVE  sent'[i].last_ack \in {0} \cup (Ids' \ Own')
      <4>1. CASE i \in Ids
        BY <2>2, <3>2, <3>4, <4>1 DEF LastAckInv
      <4>2. CASE i = New
        BY <2>2, <3>3, <3>4, <4>2 DEF LastAckInv
      <4> QED BY <2>1, <4>1, <4>2
    <3> QED BY <3>1, <3>5, <3>6 DEF LastAckInv
  <2>3. ASSUME NEW p, NEW sq, NoteNew(p, sq)
        PROVE  \E e : sent' = Append(sent, e) /\ e.last_ack \in {0, last_ack}
    BY <2>3, SentAfter, Zenon DEF NoteNew
  <2>4. ASSUME NEW p, NEW sq, NEW in_flight, NEW armed_rto, NEW armed_tlp, NEW tm,
               Push(p, sq, in_flight, armed_rto, armed_tlp, tm)
        PROVE  last_ack' = last_ack
    BY <2>4, Zenon DEF Push
  <2>5. ASSUME NEW p \in OwnPackets, AddPacket(p)
        PROVE  LastAckInv'
    <3>1. p \in Packets /\ pkts' = Append(pkts, p)
      BY <2>5, SentIsStored DEF Packets
    <3>2. CASE \E e : sent' = Append(sent, e) /\ e.last_ack \in {0, last_ack}
               /\ last_ack' = last_ack
      <4> PICK e : sent' = Append(sent, e) /\ e.last_ack \in {0, last_ack}
                   /\ last_ack' = last_ack
        BY <3>2
      <4> last_ack' # New
        BY <2>1 DEF LastAckInv
      <4> QED BY <2>1, <2>2, <3>1
    <3>3. ASSUME NEW sq, NEW high, PushNew(p, sq, high)
          PROVE  LastAckInv'
      <4> NoteNew(p, sq) /\ last_ack' = last_ack
        BY <2>4, <3>3 DEF PushNew
      <4> QED BY <2>3, <3>2
    <3>4. ASSUME NEW sq, NEW high, PushRtx(p, sq, high)
          PROVE  LastAckInv'
      <4> DEFINE ties == TiesOf(p, sq)
                 still == { i \in unacked : ties.by[i] = 0 }
                 t == FindRtxTrigger(p, sq, high, ties, still)
                 e == SentIn(p, sq, ties.timer, ties.sacks.num_bytes, t.info)
                 adjust == ties.adjust
                 f == [i \in Ids |-> IF i \in Own
                                     THEN [sent[i] EXCEPT !.unacked_bytes = @ + adjust]
                                     ELSE sent[i]]
      <4>1. sent' = Append(f, e)
        BY <3>4, Zenon DEF PushRtx, PushTied
      <4>2. last_ack' = last_ack
        <5> Push(p, sq, still, t.rto, t.tlp, ties.timer)
          BY <3>4, Zenon DEF PushRtx, PushTied
        <5> QED BY <2>4
      <4>3. e.last_ack \in {0, last_ack}
        BY SentAfter
      <4>4. f = [i \in Ids |-> f[i]] /\ \A i \in Ids : f[i].last_ack = sent[i].last_ack
        <5> HIDE DEF ties
        <5> HIDE DEF adjust
        <5>1. ASSUME NEW i \in Ids
              PROVE  f[i].last_ack = sent[i].last_ack
          <6> DEFINE b == sent[i].unacked_bytes + adjust
                     u == [sent[i] EXCEPT !.unacked_bytes = b]
          <6>1. f[i] \in {u, sent[i]}
            OBVIOUS
          <6>2. sent[i] \in Snapshots(n)
            BY <2>1 DEF TypesInv, NotesTyped
          <6>3. u.last_ack = sent[i].last_ack
            <7> HIDE DEF b
            <7> QED BY <6>2 DEF Snapshots
          <6> HIDE DEF f, u
          <6> QED BY <6>1, <6>3
        <5>2. f = [i \in Ids |-> f[i]]
          OBVIOUS
        <5> QED BY <5>1, <5>2
      <4> HIDE DEF f, e, t, still, ties
      <4>5. last_ack' # New
        BY <2>1, <4>2 DEF LastAckInv
      <4> QED BY <2>2, <3>1, <4>1, <4>2, <4>3, <4>4, <4>5
    <3>5. CASE AddOther(p)
      <4> NoteNew(p, Sequences(p)) /\ last_ack' = last_ack
        BY <3>5 DEF AddOther
      <4> QED BY <2>3, <3>2
    <3> QED BY <2>5, <3>3, <3>4, <3>5, SendCases
  <2>6. ASSUME NEW a \in Received, ProcessOldAck(a) \/ ProcessNewAck(a)
        PROVE  LastAckInv'
    <3>1. NoteAck(a)
      BY <2>6, Zenon DEF ProcessOldAck, ProcessNewAck
    <3>2. a \in Packets /\ pkts' = Append(pkts, a) /\ ~a.out
      BY <2>6, ReceivedIsStored DEF Packets, Received, AckPacket
    <3>3. sent' = Append(sent, NotSent) /\ last_ack' = New
      BY <3>1, Zenon DEF NoteAck
    <3>4. NotSent.last_ack = 0
      BY DEF NotSent
    <3> QED BY <2>1, <2>2, <3>2, <3>3, <3>4
  <2> QED BY <1>2, <2>1, <2>5, <2>6, StepCases
<1> QED BY <1>1, <1>2

-----------------------------------------------------------------------------
(***************************************************************************)
(* The walk over the ACKs that computes the bytes that have to be buffered. *)
(***************************************************************************)
BufferRound(c, k, b) ==
    LET needed == b.needed + ((c.acks[k].ts - b.ts) * c.goodput) \div RateUnit
        moved == After(c.acks[k].ack, b.ack)
    IN  [needed |-> IF moved THEN needed - SeqMinus(c.acks[k].ack, b.ack) ELSE needed,
         max |-> Larger(b.max, needed), ts |-> c.acks[k].ts,
         ack |-> IF moved THEN c.acks[k].ack ELSE b.ack]
BufferWalk == INSTANCE Walks WITH Step <- BufferRound

LEMMA BufferOneMore == BufferWalk!OneMoreSuffices
BY OneMoreAtTheEnd DEF BufferWalk!OneMoreSuffices

BufferStart(sent_at, acked) == [needed |-> 0, max |-> 0, ts |-> sent_at, ack |-> acked]

LEMMA BufferIsAWalk ==
    ASSUME NEW n \in Nat, NEW acks, DOMAIN acks = 1 .. n, NEW goodput, NEW sent_at, NEW acked
    PROVE  \E h : /\ BufferWalk!IsWalk(h, [acks |-> acks, goodput |-> goodput],
                                       BufferStart(sent_at, acked), 1 .. n)
                  /\ BufferNeeded(sent_at, acked, acks, goodput) = h[1 .. n].max
<1> DEFINE S == 1 .. n
           c == [acks |-> acks, goodput |-> goodput]
           base == BufferStart(sent_at, acked)
           consume(b, a) ==
              LET needed == b.needed + ((a.ts - b.ts) * goodput) \div RateUnit
                  moved == After(a.ack, b.ack)
              IN  [needed |-> IF moved THEN needed - SeqMinus(a.ack, b.ack) ELSE needed,
                   max |-> Larger(b.max, needed), ts |-> a.ts,
                   ack |-> IF moved THEN a.ack ELSE b.ack]
           G(g) == g = [t \in SUBSET S |-> IF t = {} THEN base
                          ELSE BufferRound(c, Max(t), g[t \ {Max(t)}])]
           G2(g) == g = [t \in SUBSET S |-> IF t = {} THEN base
                          ELSE consume(g[t \ {Max(t)}], acks[Max(t)])]
           h == CHOOSE g : G2(g)
<1>1. S \subseteq 0 .. n
  OBVIOUS
<1>2. \A g : G(g) <=> G2(g)
  <2>1. c.acks = acks /\ c.goodput = goodput
    OBVIOUS
  <2>2. ASSUME NEW k, NEW b PROVE BufferRound(c, k, b) = consume(b, acks[k])
    <3> HIDE DEF c
    <3> QED BY <2>1 DEF BufferRound
  <2> HIDE DEF S, c, Max, consume, base
  <2> QED BY <2>2
<1>3. PICK e : BufferWalk!IsWalk(e, c, base, S)
  <2> HIDE DEF S, c, base
  <2> QED BY <1>1, BufferOneMore, BufferWalk!WalkExists
<1>4. G(e)
  <2>1. \A t \in SUBSET S : t # {} => Max(t) \in t /\ \A y \in t : Max(t) >= y
    <3> HIDE DEF S, Max
    <3> QED BY <1>1, LastOfEach
  <2> HIDE DEF S, Max, BufferRound, c, base
  <2>2. e = [t \in SUBSET S |-> e[t]] /\ e[{}] = base
    BY <1>3 DEF BufferWalk!IsWalk
  <2>3. \A t \in SUBSET S : t # {} => e[t] = BufferRound(c, Max(t), e[t \ {Max(t)}])
    BY <1>3, <2>1 DEF BufferWalk!IsWalk
  <2> QED BY <2>2, <2>3
<1>5. G2(h)
  <2>1. G2(e)
    <3> HIDE DEF G, G2
    <3> QED BY <1>2, <1>4
  <2> HIDE DEF G2
  <2> QED BY <2>1
<1>6. G(h)
  <2> HIDE DEF G, G2, h
  <2> QED BY <1>2, <1>5
<1>7. BufferNeeded(sent_at, acked, acks, goodput) = h[S].max
  <2>1. DOMAIN acks = S
    OBVIOUS
  <2> QED BY <2>1, Zenon DEF BufferNeeded, FoldLeft, MapThenFoldSet, BufferStart
<1> HIDE DEF S, h, base
<1>8. BufferWalk!IsWalk(h, c, base, S)
  <2>1. /\ h = [t \in SUBSET S |-> h[t]] /\ h[{}] = base
        /\ \A t \in SUBSET S : t # {} => h[t] = BufferRound(c, Max(t), h[t \ {Max(t)}])
    <3> HIDE DEF c, BufferRound, Max
    <3> QED BY <1>6
  <2>2. \A t \in SUBSET S : \A x \in t : (\A y \in t : x >= y) => x = Max(t)
    BY <1>1, LastOfEach
  <2> HIDE DEF Max, BufferRound, c
  <2> QED BY <2>1, <2>2 DEF BufferWalk!IsWalk
<1> QED BY <1>7, <1>8 DEF S, base

\* The received packets.
AckPackets == { p \in Packets : ~p.out }

LEMMA AckPacketTypes ==
    ASSUME NEW p \in AckPackets
    PROVE  p.ts \in Nat /\ p.ack \in SeqNum
BY PacketTypes DEF AckPackets

LEMMA ReceivedTyped ==
    ASSUME CaptureInv, NEW ids, ids \subseteq Ids \ Own
    PROVE  PacketsAt(ids) \in Seq(AckPackets)
<1> DEFINE order == InOrder(ids)
           n == Len(order)
<1>1. Len(pkts) \in Nat /\ ids \subseteq 0 .. Len(pkts)
  BY CaptureTypes DEF CaptureInv
<1>2. order \in Seq(ids)
  BY ONLY <1>1, InOrderTyped
<1>3. n \in Nat /\ DOMAIN order = 1 .. n /\ \A k \in 1 .. n : order[k] \in ids
  <2> HIDE DEF order
  <2> QED BY <1>2, LenProperties, ElementOfSeq
<1>4. \A i \in ids : pkts[i] \in AckPackets
  BY CaptureTypes DEF CaptureInv, AckPackets, Own
<1>5. PacketsAt(ids) = [k \in DOMAIN order |-> pkts[order[k]]]
  BY Zenon DEF PacketsAt
<1> HIDE DEF order, n
<1>6. PacketsAt(ids) \in [1 .. n -> AckPackets]
  BY <1>3, <1>4, <1>5
<1> QED BY <1>3, <1>6, SeqDef

BufferStates == [needed : Int, max : Nat, ts : Nat, ack : SeqNum]

LEMMA BufferRoundTyped ==
    ASSUME NEW acks \in Seq(AckPackets), NEW goodput \in Nat, NEW k \in 1 .. Len(acks),
           NEW b \in BufferStates
    PROVE  BufferRound([acks |-> acks, goodput |-> goodput], k, b) \in BufferStates
<1> DEFINE c == [acks |-> acks, goodput |-> goodput]
           ts == acks[k].ts
           ack == acks[k].ack
           gap == ((ts - b.ts) * goodput) \div RateUnit
           needed == b.needed + gap
           after == IF After(ack, b.ack) THEN needed - SeqMinus(ack, b.ack) ELSE needed
           max == Larger(b.max, needed)
           latest == IF After(ack, b.ack) THEN ack ELSE b.ack
<1>1. ts \in Nat /\ ack \in SeqNum
  <2> acks[k] \in AckPackets
    BY ElementOfSeq
  <2> QED BY AckPacketTypes
<1>2. b.needed \in Int /\ b.max \in Nat /\ b.ts \in Nat /\ b.ack \in SeqNum
  BY DEF BufferStates
<1>3. BufferRound(c, k, b) = [needed |-> after, max |-> max, ts |-> ts, ack |-> latest]
  BY DEF BufferRound
<1> HIDE DEF ts, ack
<1>4. gap \in Int
  <2> DEFINE x == (ts - b.ts) * goodput
  <2>1. x \in Int
    BY <1>1, <1>2
  <2> HIDE DEF x
  <2> QED BY <2>1, AnalysisAssumption DEF x
<1> HIDE DEF gap
<1>5. needed \in Int /\ max \in Nat
  BY <1>2, <1>4 DEF Larger
<1> HIDE DEF needed, max
<1>6. after \in Int /\ latest \in SeqNum
  <2> SeqMinus(ack, b.ack) \in Int
    <3> SeqMinus(ack, b.ack) \in SeqNum
      BY <1>1, <1>2, Distance
    <3> QED BY SpaceSizeAssumption DEF SeqNum
  <2> QED BY <1>1, <1>2, <1>5
<1> HIDE DEF after, latest, c
<1>7. BufferRound(c, k, b) \in BufferStates
  BY <1>1, <1>3, <1>5, <1>6 DEF BufferStates
<1> QED BY <1>7 DEF c

LEMMA BufferTyped ==
    ASSUME NEW sent_at \in Nat, NEW acked \in SeqNum, NEW acks \in Seq(AckPackets),
           NEW goodput \in Nat
    PROVE  BufferNeeded(sent_at, acked, acks, goodput) \in Nat
<1> DEFINE n == Len(acks)
           c == [acks |-> acks, goodput |-> goodput]
           base == BufferStart(sent_at, acked)
<1>1. n \in Nat /\ DOMAIN acks = 1 .. n /\ \A k \in 1 .. n : acks[k] \in AckPackets
  BY LenProperties, ElementOfSeq
<1> HIDE DEF n
<1>2. PICK h : /\ BufferWalk!IsWalk(h, c, base, 1 .. n)
               /\ BufferNeeded(sent_at, acked, acks, goodput) = h[1 .. n].max
  BY <1>1, BufferIsAWalk
<1>3. base \in BufferStates
  BY DEF BufferStart, BufferStates
<1>4. ASSUME NEW k \in 1 .. n, NEW b \in BufferStates
      PROVE  BufferRound(c, k, b) \in BufferStates
  BY BufferRoundTyped DEF n
<1>5. 1 .. n \subseteq 0 .. n
  BY <1>1
<1> HIDE DEF c, base
<1>6. h[1 .. n] \in BufferStates
  BY <1>1, <1>2, <1>3, <1>4, <1>5, BufferOneMore, BufferWalk!WalkStays
<1> QED BY <1>2, <1>6 DEF BufferStates

-----------------------------------------------------------------------------
(***************************************************************************)
(* The parts of a delay are natural numbers.                               *)
(***************************************************************************)
NatParts(u, parts) == \A part \in parts \ {"breakdown"} : u[part] \in Nat

TailTyped(t) ==
    Parts(t) /\ t.breakdown \in TriggerRecords /\ NatParts(t, DOMAIN NoTail)

LEMMA NoTailTyped == TailTyped(NoTail)
BY DEF TailTyped, NatParts, Parts, NoTail, NoTrigger, TriggerRecords

\* Some parts are replaced.
LEMMA TailReplaced ==
    ASSUME NEW t, TailTyped(t), NEW parts, NEW u, OthersKept(u, t, parts), NatParts(u, parts),
           u.breakdown \in TriggerRecords
    PROVE  TailTyped(u)
BY DEF TailTyped, OthersKept, NatParts, Parts

LEMMA GoodputTyped ==
    ASSUME CaptureInv, TypesInv, LastAckInv, NEW t, TailTyped(t), NEW w \in Own,
           NEW first \in Ids, first <= w
    PROVE  TailTyped(WithGoodput(t, first, w))
<1> DEFINE elapsed == pkts[w].ts - pkts[first].ts
           bytes == sent[w].acked_bytes
           goodput == (bytes * RateUnit) \div elapsed
           before == sent[w].last_ack
           buffered == IF before = 0 \/ ack_packet[w] = 0 THEN 0
                       ELSE BufferNeeded(pkts[w].ts, pkts[before].ack,
                                         PacketsAt(AcksUntil(w)), goodput)
           more == [t EXCEPT !.bytes_acked = bytes, !.goodput = goodput, !.buffered = buffered]
<1>1. w \in Ids /\ Ids = 1 .. Len(pkts) /\ \A i \in Ids : pkts[i] \in Packets /\ pkts[i].ts \in Nat
  BY CaptureTypes DEF CaptureInv
<1>2. elapsed \in Nat
  BY <1>1 DEF CaptureInv, TimeOrdered
<1>3. bytes \in Nat
  BY <1>1 DEF TypesInv, NotesTyped, Snapshots
<1>4. WithGoodput(t, first, w) = IF elapsed = 0 THEN t ELSE more
  BY Zenon DEF WithGoodput
<1>5. CASE elapsed # 0
  <2>1. goodput \in Nat
    <3> DEFINE x == bytes * RateUnit
    <3> HIDE DEF elapsed, bytes
    <3>1. x \in Nat
      BY <1>3, AnalysisAssumption
    <3> HIDE DEF x
    <3> QED BY <1>2, <1>5, <3>1 DEF x
  <2>2. before \in {0} \cup (Ids \ Own)
    BY <1>1 DEF LastAckInv
  <2>3. buffered \in Nat
    <3>1. CASE before = 0
      BY <3>1
    <3>2. CASE before # 0
      <4>1. pkts[before] \in AckPackets
        BY <1>1, <2>2, <3>2 DEF AckPackets, Own
      <4>2. pkts[before].ack \in SeqNum
        BY <4>1, AckPacketTypes
      <4>3. PacketsAt(AcksUntil(w)) \in Seq(AckPackets)
        <5> AcksUntil(w) \subseteq Ids \ Own
          BY DEF AcksUntil
        <5> QED BY ReceivedTyped
      <4> HIDE DEF goodput, before
      <4>4. BufferNeeded(pkts[w].ts, pkts[before].ack, PacketsAt(AcksUntil(w)), goodput) \in Nat
        BY <1>1, <2>1, <4>2, <4>3, BufferTyped
      <4> QED BY <4>4
    <3> QED BY <3>1, <3>2
  <2> HIDE DEF bytes, goodput, buffered
  <2>4. {"bytes_acked", "goodput", "buffered"} \subseteq DOMAIN NoTail
    BY DEF NoTail
  <2>5. /\ OthersKept(more, t, {"bytes_acked", "goodput", "buffered"})
        /\ more.bytes_acked = bytes /\ more.goodput = goodput /\ more.buffered = buffered
    BY <2>4 DEF OthersKept, Parts, TailTyped
  <2>6. "breakdown" \in DOMAIN NoTail
    BY DEF NoTail
  <2> HIDE DEF more
  <2>7. NatParts(more, {"bytes_acked", "goodput", "buffered"}) /\ more.breakdown \in TriggerRecords
    BY <1>3, <2>1, <2>3, <2>5, <2>6 DEF NatParts, TailTyped, OthersKept
  <2>8. TailTyped(more)
    BY <2>5, <2>7, TailReplaced
  <2> QED BY <1>4, <1>5, <2>8
<1> QED BY <1>4, <1>5

LEMMA MeasuredTyped ==
    ASSUME ReadInv, TypesInv, LastAckInv, NEW w \in Own, NEW first \in Ids, first <= w
    PROVE  TailTyped(Measured(first, w))
<1> DEFINE x == sent[w].unacked_bytes
           d == delays[w].ack
           s == [NoTail EXCEPT !.unacked = x, !.overall = d]
           t == WithGoodput(s, first, w)
           p == min_rtt
           base == [t EXCEPT !.propagation = p]
           final == delays[w].final
           gap == pkts[rtx[w]].ts - pkts[w].ts
           lost == [base EXCEPT !.loss = final, !.time_to_first_rtx = gap]
           m == Measured(first, w)
<1>1. m = IF t.overall = 0 THEN t ELSE IF Lost(w) THEN lost ELSE base
  BY Zenon DEF Measured
<1>2. w \in Ids /\ Ids = 1 .. Len(pkts) /\ \A i \in Ids : pkts[i].ts \in Nat
  BY CaptureTypes DEF ReadInv, CaptureInv
<1>3. x \in Nat /\ d \in Nat /\ final \in Nat /\ p \in Nat
  BY <1>2 DEF TypesInv, NotesTyped, Snapshots, NotedDelays, ReadInv, CaptureInv
<1>4. TailTyped(s)
  <2> HIDE DEF x, d
  <2>1. {"unacked", "overall"} \subseteq DOMAIN NoTail /\ "breakdown" \in DOMAIN NoTail
    BY DEF NoTail
  <2>2. OthersKept(s, NoTail, {"unacked", "overall"}) /\ s.unacked = x /\ s.overall = d
    BY <2>1 DEF OthersKept, Parts
  <2>3. NatParts(s, {"unacked", "overall"}) /\ s.breakdown \in TriggerRecords
    <3> HIDE DEF s
    <3> QED BY <1>3, <2>1, <2>2, NoTailTyped DEF NatParts, TailTyped, OthersKept
  <2> HIDE DEF s
  <2> QED BY <2>2, <2>3, NoTailTyped, TailReplaced
<1>5. TailTyped(t)
  <2> HIDE DEF s
  <2> QED BY <1>4, GoodputTyped DEF ReadInv
<1>6. Lost(w) => gap \in Nat
  <2> SUFFICES ASSUME Lost(w) PROVE gap \in Nat
    OBVIOUS
  <2>1. rtx[w] # 0 /\ rtx[w] \in 0 .. Len(pkts) /\ rtx[w] > w
    BY <1>2 DEF ReadInv, LinesInv, LinesOK, Lost, IsLost
  <2>2. rtx[w] \in Ids /\ w <= rtx[w]
    BY <1>2, <2>1
  <2>3. pkts[w].ts <= pkts[rtx[w]].ts
    BY <1>2, <2>2 DEF ReadInv, CaptureInv, TimeOrdered
  <2> QED BY <1>2, <2>2, <2>3
<1> HIDE DEF s, t, p, final, gap
<1>7. {"propagation", "loss", "time_to_first_rtx", "breakdown"} \subseteq DOMAIN NoTail
  BY DEF NoTail
<1>8. OthersKept(base, t, {"propagation"}) /\ base.propagation = p
  BY <1>5, <1>7 DEF OthersKept, Parts, TailTyped
<1> HIDE DEF base
<1>9. TailTyped(base)
  <2> NatParts(base, {"propagation"}) /\ base.breakdown \in TriggerRecords
    BY <1>3, <1>5, <1>7, <1>8 DEF NatParts, TailTyped, OthersKept
  <2> QED BY <1>5, <1>8, TailReplaced
<1>10. /\ OthersKept(lost, base, {"loss", "time_to_first_rtx"})
       /\ lost.loss = final /\ lost.time_to_first_rtx = gap
  BY <1>7, <1>9 DEF OthersKept, Parts, TailTyped
<1> HIDE DEF lost
<1>11. Lost(w) => TailTyped(lost)
  <2> SUFFICES ASSUME Lost(w) PROVE TailTyped(lost)
    OBVIOUS
  <2> NatParts(lost, {"loss", "time_to_first_rtx"}) /\ lost.breakdown \in TriggerRecords
    BY <1>3, <1>6, <1>7, <1>9, <1>10 DEF NatParts, TailTyped, OthersKept
  <2> QED BY <1>9, <1>10, TailReplaced
<1> HIDE DEF m
<1>12. TailTyped(m)
  BY <1>1, <1>5, <1>9, <1>11
<1> QED BY <1>12 DEF m

-----------------------------------------------------------------------------
\* The constraints keep the types: where one delay is taken from another it wraps.
LEMMA NatMinusTyped ==
    \A a, b \in Nat : Minus(a, b) \in Nat /\ Minus(a, b) < WordSize
BY AnalysisAssumption DEF Minus

LEMMA ConstraintsTyped ==
    ASSUME NEW t, TailTyped(t)
    PROVE  TailTyped(SetOtherDelay(Attributed(Constrained(t))))
<1>1. {"overall", "propagation", "queueing", "loss", "loss_trigger", "other", "breakdown"}
         \subseteq DOMAIN NoTail
  BY DEF NoTail
<1>2. ASSUME NEW x, TailTyped(x)
      PROVE  /\ x.overall \in Nat /\ x.propagation \in Nat /\ x.queueing \in Nat
             /\ x.loss \in Nat /\ x.loss_trigger \in Nat /\ x.other \in Nat
             /\ x.breakdown \in TriggerRecords /\ Parts(x)
  BY <1>1, <1>2 DEF TailTyped, NatParts
<1>3. TailTyped(Constrained(t))
  <2> DEFINE u == Constrained(t)
             left == Minus(Minus(t.overall, t.loss), t.propagation)
  <2>1. OthersKept(u, t, {"queueing"}) /\ u.queueing = Smaller(t.queueing, left)
    BY <1>2, ConstrainedParts
  <2>2. left \in Nat
    <3>1. t.overall \in Nat /\ t.loss \in Nat /\ t.propagation \in Nat
      BY <1>2
    <3> DEFINE x == Minus(t.overall, t.loss)
    <3>2. x \in Nat
      BY ONLY <3>1, NatMinusTyped
    <3> HIDE DEF x
    <3> QED BY ONLY <3>1, <3>2, NatMinusTyped
  <2> HIDE DEF u, left
  <2>3. u.queueing \in Nat
    BY <1>2, <2>1, <2>2 DEF Smaller
  <2>4. NatParts(u, {"queueing"}) /\ u.breakdown \in TriggerRecords
    BY <1>1, <1>2, <2>1, <2>3 DEF NatParts, OthersKept
  <2>5. TailTyped(u)
    BY <2>1, <2>4, TailReplaced
  <2> QED BY <2>5 DEF u
<1>4. ASSUME NEW x, TailTyped(x) PROVE TailTyped(Attributed(x))
  <2> DEFINE u == Attributed(x)
             base == LossBase(x)
             pure == PureLoss(x)
  <2>1. /\ OthersKept(u, x, {"loss", "loss_trigger"})
        /\ pure < base => u.loss = base /\ u.loss_trigger = Minus(x.loss_trigger, base - pure)
        /\ ~(pure < base) => u.loss = pure /\ u.loss_trigger = x.loss_trigger
    BY <1>2, <1>4, AttributedParts
  <2>2. x.breakdown.no_queue \in Nat
    BY <1>2, <1>4 DEF TriggerRecords
  <2>3. base \in Nat /\ pure \in Nat
    BY <1>2, <1>4, <2>2 DEF LossBase, PureLoss, Larger
  <2> HIDE DEF u, base, pure
  <2>4. pure < base => Minus(x.loss_trigger, base - pure) \in Nat
    <3> DEFINE more == base - pure
    <3>1. x.loss_trigger \in Nat /\ (pure < base => more \in Nat)
      BY <1>2, <1>4, <2>3
    <3> HIDE DEF more
    <3>2. pure < base => Minus(x.loss_trigger, more) \in Nat
      BY ONLY <3>1, NatMinusTyped
    <3> QED BY <3>2 DEF more
  <2>5. u.loss \in Nat /\ u.loss_trigger \in Nat
    BY <1>2, <1>4, <2>1, <2>3, <2>4
  <2>6. NatParts(u, {"loss", "loss_trigger"}) /\ u.breakdown \in TriggerRecords
    BY <1>1, <1>2, <1>4, <2>1, <2>5 DEF NatParts, OthersKept
  <2>7. TailTyped(u)
    BY <1>4, <2>1, <2>6, TailReplaced
  <2> QED BY <2>7 DEF u
<1>5. ASSUME NEW x, TailTyped(x) PROVE TailTyped(SetOtherDelay(x))
  <2> DEFINE u == SetOtherDelay(x)
             sum == x.propagation + x.loss + x.loss_trigger + x.queueing
             all == sum % WordSize
  <2>1. OthersKept(u, x, {"other"}) /\ u.other = Larger(x.overall - all, 0)
    BY <1>2, <1>5, OtherDelayParts
  <2>2. sum \in Nat
    BY <1>2, <1>5
  <2> HIDE DEF sum
  <2>3. all \in Nat
    BY <2>2, AnalysisAssumption
  <2> HIDE DEF u, all
  <2>4. u.other \in Nat
    BY <1>2, <1>5, <2>1, <2>3 DEF Larger
  <2>5. NatParts(u, {"other"}) /\ u.breakdown \in TriggerRecords
    BY <1>1, <1>2, <1>5, <2>1, <2>4 DEF NatParts, OthersKept
  <2>6. TailTyped(u)
    BY <1>5, <2>1, <2>5, TailReplaced
  <2> QED BY <2>6 DEF u
<1> QED BY <1>3, <1>4, <1>5

-----------------------------------------------------------------------------
(***************************************************************************)
(* A call as a whole.                                                      *)
(***************************************************************************)
\* What the parts of the worst packet's delay come from.
Ready ==
    /\ ReadInv /\ TypesInv /\ AcksTyped(Len(pkts)) /\ LastAckInv /\ SamplesTyped
    /\ FitTyped(fit) /\ no_queue_timeouts \in Seq(TimeoutRecords)

\* The parts before the constraints.
Extended(x, t) ==
    /\ TailTyped(x) /\ OthersKept(x, t, {"queueing", "breakdown", "loss_trigger"})
    /\ x.loss_trigger = Total(x.breakdown)

LEMMA WithFitTyped ==
    ASSUME Ready, NEW w \in Own, NEW t, TailTyped(t), t.loss_trigger = Total(t.breakdown),
           NEW best, NEW q \in [Own -> Nat], NEW table \in Seq(TimeoutRecords)
    PROVE  LET r == WithFit(w, t, best, q, table)
           IN  Extended(r.tail, t) /\ r.timeouts \in Seq(TimeoutRecords)
<1> DEFINE d == q[LastTx(w)]
           b == GetTriggerDelay(w, q, table)
           y == WithBreakdown([t EXCEPT !.queueing = d], b)
           r == WithFit(w, t, best, q, table)
<1>1. w \in Ids
  BY DEF Own
<1>2. d \in Nat
  <2> LastTx(w) \in Own
    BY <1>1, LastTxBounds DEF Ready, ReadInv
  <2> QED OBVIOUS
<1>3. b \in TriggerRecords
  BY <1>1, GetTriggerDelayTyped DEF Ready
<1>4. {"queueing", "breakdown", "loss_trigger"} \subseteq DOMAIN NoTail
  BY DEF NoTail
<1>5. Extended(y, t)
  <2>1. Added(y, t, w, q, table)
    BY DEF Added
  <2>2. /\ OthersKept(y, t, {"queueing", "breakdown", "loss_trigger"})
        /\ y.queueing = d /\ y.breakdown = b /\ y.loss_trigger = Total(b)
    <3> HIDE DEF y
    <3> QED BY <2>1, AddedParts DEF TailTyped
  <2>3. Total(b) \in Nat
    BY <1>3 DEF Total, TriggerRecords
  <2> HIDE DEF y, d, b
  <2>4. NatParts(y, {"queueing", "breakdown", "loss_trigger"})
    BY <1>2, <1>4, <2>2, <2>3 DEF NatParts
  <2>5. TailTyped(y)
    BY <1>3, <2>2, <2>4, TailReplaced
  <2> QED BY <2>2, <2>5 DEF Extended
<1>6. Extended(t, t)
  BY DEF Extended, OthersKept, TailTyped
<1>7. r = [tail |-> y, timeouts |-> table] \/ r = [tail |-> t, timeouts |-> no_queue_timeouts]
  BY Zenon DEF WithFit
<1> HIDE DEF r, y
<1>8. Extended(r.tail, t) /\ r.timeouts \in Seq(TimeoutRecords)
  BY <1>5, <1>6, <1>7 DEF Ready
<1> QED BY <1>8 DEF r

ResultTyped(u) ==
    /\ u.worst \in Own \cup {0} /\ TailTyped(u.tail) /\ FitTyped(u.fit)
    /\ CorrelationTyped(u.correlation) /\ u.timeouts \in Seq(TimeoutRecords)

\* What a call makes of what it measured at packet w.
TailExplained(t, w, m) ==
    \/ (w = 0 \/ m.overall = 0) /\ t = m
    \/ /\ w # 0 /\ m.overall # 0
       /\ \E x : Extended(x, m) /\ t = SetOtherDelay(Attributed(Constrained(x)))

\* What is measured first is typed.
LEMMA MeasuredFirst ==
    ASSUME Ready, NEW max, WorstOf(Candidates(max)) # 0
    PROVE  LET w == WorstOf(Candidates(max))
           IN  w \in Own /\ TailTyped(Measured(Min(Candidates(max)), w))
<1> DEFINE ids == Candidates(max)
           w == WorstOf(ids)
           first == Min(ids)
<1>1. ids # {} /\ w \in ids /\ ids \subseteq Own
  BY WorstIsCandidate DEF Ready, ReadInv
<1>2. Own \subseteq Ids /\ Ids \subseteq 0 .. Len(pkts) /\ Len(pkts) \in Nat
  BY CaptureTypes DEF Ready, ReadInv, CaptureInv
<1> HIDE DEF ids, w
<1>3. first \in ids /\ first <= w
  <2>1. ids \subseteq 0 .. Len(pkts)
    BY <1>1, <1>2
  <2> QED BY <1>1, <1>2, <2>1, MinIsFirst
<1> HIDE DEF first
<1>4. w \in Own /\ first \in Ids
  BY <1>1, <1>2, <1>3
<1>5. TailTyped(Measured(first, w))
  BY <1>3, <1>4, MeasuredTyped DEF Ready
<1> QED BY <1>4, <1>5 DEF ids, w, first

LEMMA CallTyped ==
    ASSUME Ready, NEW max
    PROVE  LET w == WorstOf(Candidates(max))
           IN  /\ ResultTyped(TailLatency(max)) /\ TailLatency(max).worst = w
               /\ TailExplained(TailLatency(max).tail, w, MeasuredAt(w, Min(Candidates(max))))
<1> DEFINE ids == Candidates(max)
           w == WorstOf(ids)
           m == MeasuredAt(w, Min(ids))
           best == CalculateRttLinearFit(w, fit, Cleared)
           q == QueueingDelays(best.fit, min_rtt)
           table == TimeoutTable(w, q)
           r == WithFit(w, m, best, q, table)
           u == TailLatency(max)
<1>1. u = AnalyzedWith(w, m, best)
  BY Zenon DEF TailLatency, Analyzed, MeasuredAt
<1>2. w # 0 => w \in Own
  BY MeasuredFirst
<1>3. TailTyped(m) /\ m.loss_trigger = Total(m.breakdown)
  <2>1. TailTyped(m)
    BY MeasuredFirst, NoTailTyped DEF MeasuredAt
  <2>2. m.loss_trigger = 0 /\ m.breakdown = NoTrigger
    <3> HIDE DEF w, ids
    <3> QED BY MeasuredAtParts
  <2> QED BY <2>1, <2>2 DEF Total, NoTrigger
<1>4. BestTyped(best)
  <2> CorrelationTyped(Cleared)
    BY DEF CorrelationTyped, Cleared
  <2> HIDE DEF w
  <2> QED BY BestFitTyped DEF Ready, ReadInv
<1>5. q \in [Own -> Nat]
  <2> min_rtt \in Nat
    BY DEF Ready, ReadInv, CaptureInv
  <2> HIDE DEF best
  <2> QED BY <1>4, QueueingTyped DEF BestTyped, Ready, ReadInv
<1>6. table \in Seq(TimeoutRecords)
  <2> HIDE DEF q, w
  <2>1. ComputeQueueFreeTimeouts(q) \in Seq(TimeoutRecords)
    BY <1>5, TableTyped DEF Ready, ReadInv
  <2> QED BY <2>1 DEF TimeoutTable, Ready
<1>7. CASE w = 0 \/ m.overall = 0
  <2> HIDE DEF w, m, best, u
  <2>1. u = [worst |-> w, tail |-> m, fit |-> fit, correlation |-> Cleared,
             timeouts |-> no_queue_timeouts]
    BY <1>1, <1>7, Zenon DEF AnalyzedWith
  <2>2. /\ u.worst = w /\ u.tail = m /\ u.fit = fit /\ u.correlation = Cleared
        /\ u.timeouts = no_queue_timeouts
    BY <2>1
  <2>3. w \in Own \cup {0} /\ CorrelationTyped(Cleared)
    BY <1>2 DEF CorrelationTyped, Cleared
  <2> HIDE DEF Cleared
  <2>4. ResultTyped(u) /\ u.worst = w
    BY <1>3, <2>2, <2>3, Zenon DEF ResultTyped, Ready
  <2>5. TailExplained(u.tail, w, m)
    BY <1>7, <2>2 DEF TailExplained
  <2> QED BY <2>4, <2>5 DEF u, w, m, ids
<1>8. CASE ~(w = 0 \/ m.overall = 0)
  <2>1. u = Finished(w, best, r)
    <3> HIDE DEF w, m, best, u, ids, table
    <3> QED BY <1>1, <1>8, Zenon DEF AnalyzedWith, BrokenDown, table
  <2>2. w \in Own
    BY <1>2, <1>8
  <2> HIDE DEF q, table, m, w, u, best, ids
  <2>3. Extended(r.tail, m) /\ r.timeouts \in Seq(TimeoutRecords)
    BY <1>3, <1>5, <1>6, <2>2, WithFitTyped
  <2> HIDE DEF r
  <2> DEFINE tail == SetOtherDelay(Attributed(Constrained(r.tail)))
  <2>4. TailTyped(tail) /\ TailExplained(tail, w, m)
    <3>1. TailTyped(tail)
      BY <2>3, ConstraintsTyped DEF Extended
    <3>2. TailExplained(tail, w, m)
      BY <1>8, <2>3, Zenon DEF TailExplained
    <3> QED BY <3>1, <3>2
  <2> HIDE DEF tail
  <2>5. u = [worst |-> w, tail |-> tail, fit |-> best.fit,
             correlation |-> best.correlation, timeouts |-> r.timeouts]
    BY <2>1, Zenon DEF Finished, tail
  <2>6. ResultTyped(u) /\ u.worst = w /\ TailExplained(u.tail, w, m)
    BY <1>4, <2>2, <2>3, <2>4, <2>5 DEF ResultTyped, BestTyped
  <2> QED BY <2>6 DEF u, w, m, ids
<1> QED BY <1>7, <1>8

-----------------------------------------------------------------------------
(***************************************************************************)
(* The parts add up.                                                       *)
(***************************************************************************)
\* The sum that SetOtherDelay completes.
AllParts(t) == t.propagation + t.loss + t.loss_trigger + t.queueing

\* What DelaysAddUp asks for, of the parts t and a loss delay.
RoomForLoss(t, loss) ==
    /\ loss + t.propagation <= t.overall /\ Total(t.breakdown) <= loss /\ LossBase(t) <= loss
    /\ t.overall < WordSize

\* Where nothing is more than what it is taken from, nothing wraps.
LEMMA MinusFits ==
    \A a, b \in Nat : b <= a /\ a < WordSize => Minus(a, b) = a - b
BY AnalysisAssumption DEF Minus

LEMMA WordFits == \A a \in Nat : a < WordSize => a % WordSize = a
BY AnalysisAssumption

LEMMA ConstraintsAddUp ==
    ASSUME NEW x, TailTyped(x), x.loss_trigger = Total(x.breakdown), RoomForLoss(x, x.loss)
    PROVE  LET t == SetOtherDelay(Attributed(Constrained(x)))
           IN  AllParts(t) + t.other = t.overall
<1> DEFINE y == Constrained(x)
           z == Attributed(y)
           t == SetOtherDelay(z)
           o == x.overall
           p == x.propagation
           l == x.loss
           lt == x.loss_trigger
           base == LossBase(x)
<1>1. {"overall", "propagation", "queueing", "loss", "loss_trigger", "other", "breakdown"}
         \subseteq DOMAIN NoTail
  BY DEF NoTail
<1>2. /\ o \in Nat /\ p \in Nat /\ x.queueing \in Nat /\ l \in Nat /\ lt \in Nat
      /\ x.breakdown.no_queue \in Nat /\ Parts(x)
  BY <1>1 DEF TailTyped, NatParts, TriggerRecords
<1>3. base \in Nat /\ l + p <= o /\ lt <= l /\ base <= l /\ o < WordSize /\ WordSize \in Nat
  BY <1>2, AnalysisAssumption DEF RoomForLoss, LossBase
<1>4. /\ Parts(y) /\ y.overall = o /\ y.propagation = p /\ y.loss = l /\ y.loss_trigger = lt
      /\ LossBase(y) = base /\ y.queueing \in Nat /\ y.queueing <= o - l - p
  <2> DEFINE left == Minus(Minus(o, l), p)
  <2>1. OthersKept(y, x, {"queueing"}) /\ y.queueing = Smaller(x.queueing, left)
    BY <1>2, ConstrainedParts
  <2>2. left = o - l - p
    <3> HIDE DEF o, l, p
    <3>1. Minus(o, l) = o - l
      BY <1>2, <1>3, MinusFits
    <3> DEFINE rest == o - l
    <3>2. rest \in Nat /\ p <= rest /\ rest < WordSize
      BY <1>2, <1>3
    <3> HIDE DEF rest
    <3>3. Minus(rest, p) = rest - p
      BY <3>2, <1>2, MinusFits
    <3> QED BY <3>1, <3>3 DEF rest
  <2> HIDE DEF y, left
  <2>3. /\ Parts(y) /\ y.overall = o /\ y.propagation = p /\ y.loss = l /\ y.loss_trigger = lt
        /\ y.breakdown = x.breakdown
    BY <1>1, <2>1 DEF OthersKept
  <2>4. LossBase(y) = base
    BY <2>3 DEF LossBase
  <2> HIDE DEF o, l, p, lt, base
  <2> QED BY <1>2, <1>3, <2>1, <2>2, <2>3, <2>4 DEF Smaller
<1>5. /\ Parts(z) /\ z.overall = o /\ z.propagation = p /\ z.queueing = y.queueing
      /\ z.loss \in Nat /\ z.loss_trigger \in Nat /\ z.loss + z.loss_trigger = l
  <2> HIDE DEF y, o, l, p, lt, base
  <2> DEFINE pure == PureLoss(y)
  <2>1. /\ OthersKept(z, y, {"loss", "loss_trigger"})
        /\ pure < base => z.loss = base /\ z.loss_trigger = Minus(lt, base - pure)
        /\ ~(pure < base) => z.loss = pure /\ z.loss_trigger = lt
    BY <1>4, AttributedParts
  <2> HIDE DEF z
  <2>2. Parts(z) /\ z.overall = o /\ z.propagation = p /\ z.queueing = y.queueing
    BY <1>1, <1>4, <2>1 DEF OthersKept
  <2>3. pure = l - lt
    BY <1>2, <1>3, <1>4 DEF PureLoss, Larger
  <2> HIDE DEF pure
  <2>4. CASE pure < base
    <3> DEFINE more == base - pure
    <3>1. more \in Nat /\ more <= lt /\ lt < WordSize
      BY <1>2, <1>3, <2>3, <2>4
    <3> HIDE DEF more
    <3>2. Minus(lt, more) = lt - more
      BY <1>2, <3>1, MinusFits
    <3> QED BY <1>2, <1>3, <2>1, <2>2, <2>3, <2>4, <3>1, <3>2 DEF more
  <2>5. CASE ~(pure < base)
    BY <1>2, <1>3, <2>1, <2>2, <2>3, <2>5
  <2> QED BY <2>4, <2>5
<1>6. /\ t.overall = o /\ AllParts(t) = AllParts(z) /\ t.other = Larger(o - (AllParts(z) % WordSize), 0)
  <2> HIDE DEF z, o, p
  <2>1. OthersKept(t, z, {"other"}) /\ t.other = Larger(o - (AllParts(z) % WordSize), 0)
    BY <1>5, OtherDelayParts DEF AllParts
  <2> HIDE DEF t
  <2> QED BY <1>1, <1>5, <2>1 DEF OthersKept, AllParts
<1> HIDE DEF y, z, t, o, l, p, lt, base
<1>7. AllParts(z) \in Nat /\ AllParts(z) <= o
  BY <1>2, <1>3, <1>4, <1>5 DEF AllParts
<1>8. AllParts(z) % WordSize = AllParts(z)
  <2> DEFINE all == AllParts(z)
  <2>1. all \in Nat /\ all < WordSize
    BY <1>2, <1>3, <1>7
  <2> HIDE DEF all
  <2>2. all % WordSize = all
    BY <2>1, WordFits
  <2> QED BY <2>2 DEF all
<1>9. AllParts(t) + t.other = t.overall
  BY <1>2, <1>6, <1>7, <1>8 DEF Larger
<1> QED BY <1>9 DEF t, y, z

LossOf(w) == IF w # 0 /\ Lost(w) THEN delays[w].final ELSE 0

SumHolds(t, loss) == RoomForLoss(t, loss) => AllParts(t) + t.other = t.overall

LEMMA CallAddsUp ==
    ASSUME Ready, NEW max
    PROVE  SumHolds(TailLatency(max).tail, LossOf(TailLatency(max).worst))
<1> DEFINE t == TailLatency(max).tail
           w == WorstOf(Candidates(max))
           m == MeasuredAt(w, Min(Candidates(max)))
<1>1. TailLatency(max).worst = w /\ TailExplained(t, w, m)
  BY CallTyped
<1>2. /\ Parts(m) /\ m.overall = IF w = 0 THEN 0 ELSE delays[w].ack
      /\ m.queueing = 0 /\ m.loss_trigger = 0 /\ m.other = 0
      /\ m.overall = 0 => m.propagation = 0 /\ m.loss = 0
      /\ m.overall # 0 => m.loss = IF Lost(w) THEN delays[w].final ELSE 0
  <2> HIDE DEF w
  <2> QED BY MeasuredAtParts
<1> HIDE DEF t, w, m
<1>3. ASSUME w = 0 \/ m.overall = 0, t = m
      PROVE  SumHolds(t, LossOf(w))
  <2> AllParts(t) + t.other = t.overall
    BY <1>2, <1>3 DEF AllParts
  <2> QED BY DEF SumHolds
<1>4. ASSUME w # 0, m.overall # 0,
             NEW x, Extended(x, m), t = SetOtherDelay(Attributed(Constrained(x)))
      PROVE  SumHolds(t, LossOf(w))
  <2> SUFFICES ASSUME RoomForLoss(t, LossOf(w)) PROVE AllParts(t) + t.other = t.overall
    BY DEF SumHolds
  <2>1. {"overall", "propagation", "loss", "breakdown"} \subseteq DOMAIN NoTail
    BY DEF NoTail
  <2>2. TailTyped(x) /\ x.loss_trigger = Total(x.breakdown) /\ Parts(x)
    BY <1>4 DEF Extended, TailTyped
  <2>3. OthersKept(t, x, {"queueing", "loss", "loss_trigger", "other"})
    BY <1>4, <2>2, ConstraintsKeep
  <2>4. t.overall = x.overall /\ t.propagation = x.propagation /\ t.breakdown = x.breakdown
    BY <2>1, <2>3 DEF OthersKept
  <2>5. x.loss = m.loss
    BY <1>4, <2>1 DEF Extended, OthersKept
  <2>6. x.loss = LossOf(w)
    BY <1>2, <1>4, <2>5 DEF LossOf
  <2>7. RoomForLoss(x, x.loss)
    BY <2>4, <2>6 DEF RoomForLoss, LossBase
  <2> QED BY <1>4, <2>2, <2>7, ConstraintsAddUp
<1>5. SumHolds(t, LossOf(w))
  BY <1>1, <1>3, <1>4, Zenon DEF TailExplained
<1> QED BY <1>1, <1>5 DEF t

-----------------------------------------------------------------------------
(***************************************************************************)
(* The ACK of a packet is one that was received.                           *)
(***************************************************************************)
HeardInv == \A i \in Ids : ack_packet[i] \in {0} \cup (Ids \ Own)

LEMMA HeardStep ==
    ASSUME CaptureInv, AcksTyped(Len(pkts)), HeardInv, [Next]_vars
    PROVE  HeardInv'
<1> DEFINE Heard == {0} \cup (Ids \ Own)
           n == Len(pkts)
<1>1. CASE UNCHANGED vars
  BY <1>1 DEF vars, linkVars, HeardInv, Ids, Own
<1>2. CASE Next
  <2>1. /\ n \in Nat /\ Ids = 1 .. n /\ New = n + 1 /\ pkts \in Seq(Packets) /\ Own \subseteq Ids
        /\ ack_packet = [i \in Ids |-> ack_packet[i]]
    BY CaptureTypes DEF CaptureInv, New, AcksTyped
  <2>2. ASSUME NEW p \in Packets, pkts' = Append(pkts, p), NEW f, f = [i \in Ids |-> f[i]],
               \A i \in Ids : f[i] \in Heard \/ (f[i] = New /\ ~p.out),
               ack_packet' = Append(f, 0)
        PROVE  HeardInv'
    <3>1. Ids' = 1 .. New /\ Own' = IF p.out THEN Own \cup {New} ELSE Own
      BY <2>1, <2>2, Captured
    <3>2. /\ \A i \in Ids : ack_packet'[i] = f[i]
          /\ ack_packet'[New] = 0
      BY <2>1, <2>2, AppendEntry
    <3>3. \A i \in Heard : i \in {0} \cup (Ids' \ Own')
      BY <2>1, <3>1
    <3>4. ~p.out => New \in Ids' \ Own'
      BY <2>1, <3>1
    <3>5. ASSUME NEW i \in 1 .. New
          PROVE  ack_packet'[i] \in {0} \cup (Ids' \ Own')
      <4>1. CASE i \in Ids
        BY <2>2, <3>2, <3>3, <3>4, <4>1
      <4>2. CASE i = New
        BY <3>2, <4>2
      <4> QED BY <2>1, <4>1, <4>2
    <3> QED BY <3>1, <3>5 DEF HeardInv
  <2>3. ASSUME NEW p \in Packets, pkts' = Append(pkts, p), ack_packet' = Append(ack_packet, 0)
        PROVE  HeardInv'
    BY <2>1, <2>2, <2>3 DEF HeardInv
  <2>4. ASSUME NEW p \in OwnPackets, AddPacket(p)
        PROVE  HeardInv'
    <3>1. p \in Packets /\ pkts' = Append(pkts, p)
      BY <2>4, SentIsStored DEF Packets
    <3>2. ASSUME NEW sq, NEW high, PushRtx(p, sq, high)
          PROVE  HeardInv'
      <4> DEFINE ties == TiesOf(p, sq)
                 still == { i \in unacked : ties.by[i] = 0 }
                 f == [i \in Ids |-> IF i \in unacked \ still THEN ties.by[i] ELSE ack_packet[i]]
      <4>1. ack_packet' = Append(f, 0)
        BY <3>2, Zenon DEF PushRtx, PushTied
      <4>2. TiesOK(unacked, ties)
        BY TiesSound
      <4> HIDE DEF ties
      <4>3. \A i \in unacked \ still : ties.by[i] \in Ids \ Own
        BY <4>2 DEF TiesOK, CaptureInv
      <4>4. f = [i \in Ids |-> f[i]] /\ \A i \in Ids : f[i] \in Heard
        <5> HIDE DEF still
        <5> QED BY <4>3 DEF HeardInv
      <4> HIDE DEF f
      <4> QED BY <2>2, <3>1, <4>1, <4>4
    <3>3. CASE ack_packet' = Append(ack_packet, 0)
      BY <2>3, <3>1, <3>3
    <3> QED BY <2>4, <3>2, <3>3, SendCases DEF AddOther, PushNew, NoteNew
  <2>5. ASSUME NEW a \in Received, ProcessOldAck(a) \/ ProcessNewAck(a)
        PROVE  HeardInv'
    <3>1. a \in Packets /\ pkts' = Append(pkts, a) /\ ~a.out
      BY <2>5, ReceivedIsStored DEF Packets, Received, AckPacket
    <3>2. CASE ProcessOldAck(a)
      BY <2>3, <3>1, <3>2 DEF ProcessOldAck
    <3>3. CASE ProcessNewAck(a)
      <4> DEFINE acked == AckedNow(a)
                 f == [i \in Ids |-> IF i \in acked THEN New ELSE ack_packet[i]]
      <4>1. ack_packet' = Append(f, 0)
        BY <3>3, Zenon DEF ProcessNewAck
      <4>2. f = [i \in Ids |-> f[i]] /\ \A i \in Ids : f[i] \in Heard \/ f[i] = New
        <5> HIDE DEF acked
        <5> QED BY DEF HeardInv
      <4> HIDE DEF f
      <4> QED BY <2>2, <3>1, <4>1, <4>2
    <3> QED BY <2>5, <3>2, <3>3
  <2> QED BY <1>2, <2>1, <2>4, <2>5, StepCases
<1> QED BY <1>1, <1>2

-----------------------------------------------------------------------------
(***************************************************************************)
(* The pass of GetTimerEstimates.  It takes in the samples of ACKs before   *)
(* each packet: no ACK of a sample taken in is later than the packets       *)
(* visited, and where the list is in order, the next sample's is.           *)
(***************************************************************************)
VisitRound(c, k, v) ==
    LET i == c.order[k]
        taken == Taken(i, v.taken)
        seq == c.seqs[Len(v.list) + 1]
        tm == QueueFreeTimer(SubSeq(samples, 1, taken), c.q)
    IN  IF Len(v.list) = Len(c.seqs) THEN v
        ELSE IF Before(RelativeSeq(i), seq) THEN [v EXCEPT !.taken = taken]
        ELSE [taken |-> taken, list |-> Append(v.list, EstimateAt(i, seq, tm))]

VisitWalk == INSTANCE Walks WITH Step <- VisitRound

LEMMA VisitOneMore == VisitWalk!OneMoreSuffices
BY OneMoreAtTheEnd DEF VisitWalk!OneMoreSuffices

NothingTaken == [taken |-> 0, list |-> << >>]

\* The list, filled up.
FilledUp(found, seqs) == found \o [k \in 1 .. Len(seqs) - Len(found) |-> NoEstimate]

\* Whatever is given back comes from a walk over the endpoint's packets.
VisitsAre(h, seqs, q, order, n) ==
    /\ VisitWalk!IsWalk(h, [order |-> order, seqs |-> seqs, q |-> q], NothingTaken, 1 .. n)
    /\ EstimatesFor(seqs, q) = FilledUp(h[1 .. n].list, seqs)

LEMMA VisitsAreAWalk ==
    ASSUME NEW n \in Nat, NEW order, order = InOrder(Own), DOMAIN order = 1 .. n, NEW seqs, NEW q
    PROVE  \E h : VisitsAre(h, seqs, q, order, n)
<1> DEFINE S == 1 .. n
           c == [order |-> order, seqs |-> seqs, q |-> q]
           base == NothingTaken
           visit(v, i) ==
              LET taken == Taken(i, v.taken)
                  seq == seqs[Len(v.list) + 1]
                  tm == QueueFreeTimer(SubSeq(samples, 1, taken), q)
              IN  IF Len(v.list) = Len(seqs) THEN v
                  ELSE IF Before(RelativeSeq(i), seq) THEN [v EXCEPT !.taken = taken]
                  ELSE [taken |-> taken, list |-> Append(v.list, EstimateAt(i, seq, tm))]
           G(g) == g = [t \in SUBSET S |-> IF t = {} THEN base
                          ELSE VisitRound(c, Max(t), g[t \ {Max(t)}])]
           G2(g) == g = [t \in SUBSET S |-> IF t = {} THEN base
                          ELSE visit(g[t \ {Max(t)}], order[Max(t)])]
           h == CHOOSE g : G2(g)
<1>1. S \subseteq 0 .. n
  OBVIOUS
<1>2. \A g : G(g) <=> G2(g)
  <2>1. c.order = order /\ c.seqs = seqs /\ c.q = q
    OBVIOUS
  <2>2. ASSUME NEW k, NEW v PROVE VisitRound(c, k, v) = visit(v, order[k])
    <3> HIDE DEF c
    <3> QED BY <2>1, Zenon DEF VisitRound
  <2> HIDE DEF S, c, Max, visit, base
  <2> QED BY <2>2
<1>3. PICK e : VisitWalk!IsWalk(e, c, base, S)
  <2> HIDE DEF S, c, base
  <2> QED BY <1>1, VisitOneMore, VisitWalk!WalkExists
<1>4. G(e)
  <2>1. \A t \in SUBSET S : t # {} => Max(t) \in t /\ \A y \in t : Max(t) >= y
    <3> HIDE DEF S, Max
    <3> QED BY <1>1, LastOfEach
  <2> HIDE DEF S, Max, VisitRound, c, base
  <2>2. e = [t \in SUBSET S |-> e[t]] /\ e[{}] = base
    BY <1>3 DEF VisitWalk!IsWalk
  <2>3. \A t \in SUBSET S : t # {} => e[t] = VisitRound(c, Max(t), e[t \ {Max(t)}])
    BY <1>3, <2>1 DEF VisitWalk!IsWalk
  <2> QED BY <2>2, <2>3
<1>5. G2(h)
  <2>1. G2(e)
    <3> HIDE DEF G, G2
    <3> QED BY <1>2, <1>4
  <2> HIDE DEF G2
  <2> QED BY <2>1
<1>6. G(h)
  <2> HIDE DEF G, G2, h
  <2> QED BY <1>2, <1>5
<1>7. EstimatesFor(seqs, q) = FilledUp(h[S].list, seqs)
  <2> DEFINE found(o) == FoldLeft(visit, base, o).list
  <2>1. EstimatesFor(seqs, q) = FilledUp(found(InOrder(Own)), seqs)
    BY Zenon DEF EstimatesFor, NothingTaken, FilledUp
  <2>2. DOMAIN order = S
    OBVIOUS
  <2>3. found(order) = h[S].list
    BY <2>2, Zenon DEF FoldLeft, MapThenFoldSet
  <2> HIDE DEF found, h, S
  <2> QED BY <2>1, <2>3
<1> HIDE DEF S, h, base
<1>8. VisitWalk!IsWalk(h, c, base, S)
  <2>1. /\ h = [t \in SUBSET S |-> h[t]] /\ h[{}] = base
        /\ \A t \in SUBSET S : t # {} => h[t] = VisitRound(c, Max(t), h[t \ {Max(t)}])
    <3> HIDE DEF c, VisitRound, Max
    <3> QED BY <1>6
  <2>2. \A t \in SUBSET S : \A x \in t : (\A y \in t : x >= y) => x = Max(t)
    BY <1>1, LastOfEach
  <2> HIDE DEF Max, VisitRound, c
  <2> QED BY <2>1, <2>2 DEF VisitWalk!IsWalk
<1> QED BY <1>7, <1>8 DEF S, base, VisitsAre

\* How far the pass gets at packet i.
LEMMA TakenUpTo ==
    ASSUME NEW n \in Nat, Len(samples) = n, NEW taken \in 0 .. n, NEW i
    PROVE  LET m == Taken(i, taken)
           IN  /\ m \in taken .. n
               /\ \A k \in taken + 1 .. m : AckIndex(samples[k]) < Index(i)
               /\ m < n => ~(AckIndex(samples[m + 1]) < Index(i))
<1> DEFINE earlier(k) == AckIndex(samples[k]) < Index(i)
           S == { m \in taken .. n : \A k \in taken + 1 .. m : earlier(k) }
           m == Taken(i, taken)
<1>1. m = Max(S)
  BY DEF Taken
<1> HIDE DEF earlier, m
<1>2. S \subseteq 0 .. n /\ S # {}
  <2> taken \in S
    OBVIOUS
  <2> QED OBVIOUS
<1>3. m \in S /\ \A k \in S : k <= m
  <2> HIDE DEF S
  <2> QED BY <1>1, <1>2, MaxIsLast
<1>4. m < n => ~earlier(m + 1)
  <2> SUFFICES ASSUME m < n, earlier(m + 1) PROVE FALSE
    OBVIOUS
  <2>1. m \in taken .. n /\ \A k \in taken + 1 .. m : earlier(k)
    BY <1>3
  <2>2. m + 1 \in taken .. n
    BY <2>1
  <2>3. \A k \in taken + 1 .. m + 1 : k \in taken + 1 .. m \/ k = m + 1
    BY <2>1
  <2>4. m + 1 \in S
    BY <2>1, <2>2, <2>3
  <2> QED BY <1>3, <2>1, <2>4
<1> QED BY <1>3, <1>4 DEF earlier, m

EstimateRecords == [DOMAIN NoEstimate -> Nat]

LEMMA EstimateTyped ==
    ASSUME CaptureInv, TypesInv, NEW i \in Own, NEW seq \in Nat, NEW tm \in Estimators
    PROVE  /\ EstimateAt(i, seq, tm) \in EstimateRecords
           /\ EstimateAt(i, seq, tm).packet = i /\ EstimateAt(i, seq, tm).seq = seq
<1> DEFINE a == sent[i].rto_estimate
           b == sent[i].tlp_estimate
           c == sent[i].tlp_delayed_ack_estimate
           d == GetRTO(tm, 0)
           e == GetTLP(tm, FALSE)
           f == GetTLP(tm, TRUE)
           r == [packet |-> i, seq |-> seq, rto |-> a, tlp |-> b, tlp_delayed |-> c,
                 queue_free_rto |-> d, queue_free_tlp |-> e, queue_free_tlp_delayed |-> f]
<1>1. i \in Nat /\ a \in Nat /\ b \in Nat /\ c \in Nat
  <2> i \in 1 .. Len(pkts) /\ Len(pkts) \in Nat
    BY CaptureTypes DEF CaptureInv
  <2> QED BY DEF TypesInv, NotesTyped, Snapshots
<1>2. d \in Nat /\ e \in Nat /\ f \in Nat
  BY TimeoutsTyped
<1>3. EstimateAt(i, seq, tm) = r
  BY Zenon DEF EstimateAt
<1> HIDE DEF a, b, c, d, e, f
<1>4. r \in EstimateRecords /\ r.packet = i /\ r.seq = seq
  BY <1>1, <1>2 DEF EstimateRecords, NoEstimate
<1> QED BY <1>3, <1>4

\* Each sample taken in was acked before one of the packets visited.
BehindVisited(taken, order, s) ==
    \A k \in 1 .. taken : \E y \in s : AckIndex(samples[k]) < Index(order[y])

\* How far the pass has got at position x of the order.
PassAt(taken, m, order, x, s) ==
    /\ x \in s /\ \A y \in s : x >= y
    /\ BehindVisited(taken, order, s \ {x})
    /\ m \in taken .. Len(samples)
    /\ \A k \in taken + 1 .. m : AckIndex(samples[k]) < Index(order[x])
    /\ m < Len(samples) => ~(AckIndex(samples[m + 1]) < Index(order[x]))

\* The list of packets of the pass.
OrderOK(order, n) ==
    /\ n \in Nat /\ DOMAIN order = 1 .. n /\ \A k \in 1 .. n : order[k] \in Own
    /\ \A j, k \in 1 .. n : j < k => order[j] < order[k]

LEMMA EarlierAreTaken ==
    ASSUME CaptureInv, AcksTyped(Len(pkts)), HeardInv, SamplesTyped, InAckOrder,
           NEW n, NEW order, OrderOK(order, n), NEW s \in SUBSET (1 .. n), NEW x, NEW taken \in Nat,
           NEW m, PassAt(taken, m, order, x, s), ~IsCopy(order[x])
    PROVE  { k \in DOMAIN samples : ack_packet[samples[k].packet] < order[x] } = 1 .. m
<1> DEFINE i == order[x]
           len == Len(samples)
           ack(k) == ack_packet[samples[k].packet]
<1>1. Ids = 1 .. Len(pkts) /\ Own \subseteq Ids /\ Len(pkts) \in Nat
  BY CaptureTypes DEF CaptureInv
<1>2. len \in Nat /\ DOMAIN samples = 1 .. len /\ m \in taken .. len
  BY LenProperties DEF SamplesTyped, PassAt
<1>0. \A k \in Own : k \in Nat \ {0}
  BY <1>1
<1>3. x \in 1 .. n /\ i \in Own /\ i \in Nat \ {0} /\ Index(i) = i - 1
  <2>1. x \in 1 .. n
    BY DEF PassAt
  <2>2. i \in Own
    BY <2>1 DEF OrderOK
  <2> HIDE DEF i
  <2>3. Index(i) = i - 1
    BY DEF Index, i
  <2> QED BY <1>1, <2>1, <2>2, <2>3
<1>4. ASSUME NEW k \in 1 .. len
      PROVE  ack(k) \in Nat \ {0} /\ AckIndex(samples[k]) = ack(k) - 1
  <2>1. samples[k] \in SampleRecords
    BY <1>2, ElementOfSeq DEF SamplesTyped
  <2>2. samples[k].packet \in Own /\ ack(k) # 0
    BY <2>1 DEF SampleRecords
  <2>3. ack(k) \in Ids \ Own
    BY <1>1, <2>2 DEF HeardInv
  <2> HIDE DEF ack
  <2>4. AckIndex(samples[k]) = Index(ack(k))
    BY DEF AckIndex, ack
  <2>5. Index(ack(k)) = ack(k) - 1
    BY <2>3 DEF Index
  <2> QED BY <1>1, <2>3, <2>4, <2>5
<1> HIDE DEF ack, len, i
<1>5. ASSUME NEW k \in 1 .. taken
      PROVE  ack(k) < i
  <2>1. PICK y \in s \ {x} : AckIndex(samples[k]) < Index(order[y])
    BY DEF PassAt, BehindVisited
  <2>2. y \in 1 .. n /\ y < x
    BY <1>3, <2>1 DEF PassAt
  <2>3. order[y] \in Own /\ order[y] < i
    BY <1>3, <2>2 DEF OrderOK, i
  <2> DEFINE j == order[y]
  <2>4. j \in Own /\ j \in Nat \ {0}
    BY ONLY <1>0, <2>3
  <2> HIDE DEF j
  <2>5. Index(j) \in {0, j - 1}
    BY Zenon DEF Index
  <2>6. k \in 1 .. len
    BY <1>2
  <2> QED BY <1>3, <1>4, <2>1, <2>3, <2>4, <2>5, <2>6 DEF j
<1>6. ASSUME NEW k \in taken + 1 .. m
      PROVE  ack(k) < i
  <2>1. k \in 1 .. len /\ AckIndex(samples[k]) < Index(i)
    BY <1>2 DEF PassAt, i
  <2> QED BY <1>3, <1>4, <2>1
<1>7. ASSUME NEW k \in 1 .. len, k > m
      PROVE  ~(ack(k) < i)
  <2>1. m + 1 \in 1 .. len /\ m + 1 <= k /\ m < len
    BY <1>2, <1>7
  <2>2. ~(AckIndex(samples[m + 1]) < Index(i))
    BY <2>1 DEF PassAt, i, len
  <2>3. AckIndex(samples[m + 1]) <= AckIndex(samples[k])
    BY <1>2, <2>1 DEF InAckOrder
  <2> QED BY <1>3, <1>4, <2>1, <2>2, <2>3
<1>8. \A k \in 1 .. len : ack(k) < i <=> k \in 1 .. m
  BY <1>2, <1>5, <1>6, <1>7
<1>9. 1 .. m \subseteq 1 .. len
  BY <1>2
<1> QED BY <1>2, <1>8, <1>9 DEF ack, i

\* What the pass may have come to after the positions in s.
Visited(order, seqs, f, s) ==
    { v \in [taken : 0 .. Len(samples), list : Seq(EstimateRecords)] :
        /\ Len(v.list) <= Len(seqs)
        /\ BehindVisited(v.taken, order, s)
        /\ \A k \in 1 .. Len(v.list) : UpToDate(v.list[k], f) }

\* The queue-free timer after some of the samples.
LEMMA SomeQueueFreeTyped ==
    ASSUME SamplesTyped, NEW m \in 0 .. Len(samples), NEW q \in [Own -> Nat]
    PROVE  QueueFreeTimer(SubSeq(samples, 1, m), q) \in Estimators
<1>1. SubSeq(samples, 1, m) \in Seq(SampleRecords)
  <2>1. Len(samples) \in Nat /\ m \in Nat /\ m <= Len(samples)
    BY LenProperties DEF SamplesTyped
  <2>2. 1 \in Nat \ {0}
    OBVIOUS
  <2> QED BY <2>1, <2>2, PartTyped DEF SamplesTyped
<1>2. WithoutQueueing(SubSeq(samples, 1, m), q) \in Seq(SampleRecords)
  BY <1>1, WithoutQueueingTyped
<1>3. Replayed(WithoutQueueing(SubSeq(samples, 1, m), q)) \in Estimators
  BY <1>2, ReplayTyped
<1> QED BY <1>3 DEF QueueFreeTimer

LEMMA NewEstimate ==
    ASSUME CaptureInv, TypesInv, AcksTyped(Len(pkts)), HeardInv, SamplesTyped,
           NEW n, NEW order, OrderOK(order, n), NEW s \in SUBSET (1 .. n), NEW x,
           NEW taken \in Nat, NEW m, PassAt(taken, m, order, x, s),
           NEW f, NEW q \in [Own -> Nat], q = QueueingDelays(f, tail_latency.propagation),
           NEW seq \in Nat
    PROVE  LET e == EstimateAt(order[x], seq, QueueFreeTimer(SubSeq(samples, 1, m), q))
           IN  e \in EstimateRecords /\ UpToDate(e, f)
<1> DEFINE i == order[x]
           tm == QueueFreeTimer(SubSeq(samples, 1, m), q)
           e == EstimateAt(i, seq, tm)
<1>1. x \in 1 .. n
  BY DEF PassAt
<1>2. i \in Own
  BY <1>1 DEF OrderOK
<1>3. Len(samples) \in Nat /\ m \in 0 .. Len(samples)
  <2> Len(samples) \in Nat
    BY LenProperties DEF SamplesTyped
  <2> QED BY DEF PassAt
<1>4. tm \in Estimators
  <2> HIDE DEF i, e
  <2> QED BY <1>3, SomeQueueFreeTyped
<1> HIDE DEF tm
<1>5. e \in EstimateRecords /\ e.packet = i /\ e.seq = seq
  <2> HIDE DEF i
  <2> QED BY <1>2, <1>4, EstimateTyped
<1>6. ASSUME ~IsCopy(i), InAckOrder
      PROVE  Cardinality({ k \in DOMAIN samples : ack_packet[samples[k].packet] < i }) = m
  <2>1. { k \in DOMAIN samples : ack_packet[samples[k].packet] < i } = 1 .. m
    BY <1>6, EarlierAreTaken
  <2>2. m \in Int /\ 1 \in Int
    BY <1>3
  <2>3. Cardinality(1 .. m) = m
    <3> Cardinality(1 .. m) = IF m >= 1 THEN m - 1 + 1 ELSE 0
      BY ONLY <2>2, FS_Interval
    <3> QED BY <1>3
  <2> HIDE DEF i
  <2> QED BY <2>1, <2>3
<1> HIDE DEF e, i
<1>7. UpToDate(e, f)
  <2> SUFFICES ASSUME ~IsCopy(i), InAckOrder PROVE e = EstimateAt(i, e.seq, tm)
    BY <1>5, <1>6 DEF UpToDate, tm
  <2> QED BY <1>5 DEF e
<1> QED BY <1>5, <1>7 DEF e, i, tm

LEMMA VisitStep ==
    ASSUME CaptureInv, TypesInv, AcksTyped(Len(pkts)), HeardInv, SamplesTyped,
           NEW n, NEW order, OrderOK(order, n), NEW seqs \in Seq(SeqNum),
           NEW f, NEW q \in [Own -> Nat], q = QueueingDelays(f, tail_latency.propagation),
           NEW s \in SUBSET (1 .. n), NEW x \in s, \A y \in s : x >= y,
           NEW v \in Visited(order, seqs, f, s \ {x})
    PROVE  VisitRound([order |-> order, seqs |-> seqs, q |-> q], x, v)
              \in Visited(order, seqs, f, s)
<1> DEFINE c == [order |-> order, seqs |-> seqs, q |-> q]
           i == order[x]
           len == Len(samples)
           m == Taken(i, v.taken)
           l == Len(v.list)
           seq == seqs[l + 1]
           e == EstimateAt(i, seq, QueueFreeTimer(SubSeq(samples, 1, m), q))
           skipped == [v EXCEPT !.taken = m]
           more == Append(v.list, e)
           noted == [taken |-> m, list |-> more]
<1>1. VisitRound(c, x, v) = IF l = Len(seqs) THEN v
                            ELSE IF Before(RelativeSeq(i), seq) THEN skipped ELSE noted
  <2>1. c.order = order /\ c.seqs = seqs /\ c.q = q
    OBVIOUS
  <2> HIDE DEF c
  <2> QED BY <2>1, Zenon DEF VisitRound
<1>2. /\ v = [taken |-> v.taken, list |-> v.list] /\ v.taken \in 0 .. len
      /\ v.list \in Seq(EstimateRecords) /\ l <= Len(seqs)
      /\ BehindVisited(v.taken, order, s \ {x})
      /\ \A k \in 1 .. l : UpToDate(v.list[k], f)
  BY DEF Visited
<1>3. len \in Nat /\ l \in Nat /\ Len(seqs) \in Nat
  BY <1>2, LenProperties DEF SamplesTyped
<1>4. /\ m \in v.taken .. len
      /\ \A k \in v.taken + 1 .. m : AckIndex(samples[k]) < Index(i)
      /\ m < len => ~(AckIndex(samples[m + 1]) < Index(i))
  <2> HIDE DEF i
  <2> QED BY <1>2, <1>3, TakenUpTo
<1>5. PassAt(v.taken, m, order, x, s)
  <2> HIDE DEF m
  <2> QED BY <1>2, <1>4 DEF PassAt
<1> HIDE DEF m
<1>6. m \in 0 .. len /\ v.taken \in Nat
  BY <1>2, <1>3, <1>4
<1>7. BehindVisited(v.taken, order, s)
  BY <1>2 DEF BehindVisited
<1>8. BehindVisited(m, order, s)
  <2> SUFFICES ASSUME NEW k \in 1 .. m
               PROVE  \E y \in s : AckIndex(samples[k]) < Index(order[y])
    BY DEF BehindVisited
  <2>1. CASE k \in 1 .. v.taken
    BY <1>7, <2>1 DEF BehindVisited
  <2>2. CASE k \in v.taken + 1 .. m
    BY <1>4, <2>2
  <2> QED BY <1>3, <1>6, <2>1, <2>2
<1>9. v \in Visited(order, seqs, f, s)
  BY <1>2, <1>7 DEF Visited
<1>10. skipped \in Visited(order, seqs, f, s)
  <2>1. skipped.taken = m /\ skipped.list = v.list
        /\ skipped \in [taken : 0 .. len, list : Seq(EstimateRecords)]
    BY <1>2, <1>6
  <2> HIDE DEF skipped
  <2> QED BY <1>2, <1>8, <2>1 DEF Visited
<1>11. ASSUME l # Len(seqs)
       PROVE  noted \in Visited(order, seqs, f, s)
  <2>1. seq \in Nat
    <3>1. l + 1 \in 1 .. Len(seqs)
      BY <1>2, <1>3, <1>11
    <3>2. seq \in SeqNum
      BY <3>1, ElementOfSeq
    <3> QED BY <3>2, SpaceSizeAssumption DEF SeqNum
  <2> HIDE DEF seq
  <2>2. e \in EstimateRecords /\ UpToDate(e, f)
    BY <1>5, <1>6, <2>1, NewEstimate
  <2> HIDE DEF e
  <2>3. /\ more \in Seq(EstimateRecords) /\ Len(more) = l + 1 /\ more[l + 1] = e
        /\ \A k \in 1 .. l : more[k] = v.list[k]
    BY <1>2, <2>2, AppendProperties
  <2> HIDE DEF more
  <2>4. Len(more) <= Len(seqs)
    BY <1>2, <1>3, <1>11, <2>3
  <2>5. \A k \in 1 .. Len(more) : UpToDate(more[k], f)
    <3> TAKE k \in 1 .. Len(more)
    <3>1. CASE k = l + 1
      BY <2>2, <2>3, <3>1
    <3>2. CASE k # l + 1
      <4> k \in 1 .. l
        BY <1>3, <2>3, <3>2
      <4> QED BY <1>2, <2>3
    <3> QED BY <3>1, <3>2
  <2>6. noted.taken = m /\ noted.list = more
        /\ noted \in [taken : 0 .. len, list : Seq(EstimateRecords)]
    BY <1>6, <2>3
  <2> HIDE DEF noted
  <2> QED BY <1>8, <2>4, <2>5, <2>6 DEF Visited
<1> HIDE DEF skipped, noted, c
<1>12. VisitRound(c, x, v) \in Visited(order, seqs, f, s)
  BY <1>1, <1>9, <1>10, <1>11
<1> QED BY <1>12 DEF c

LEMMA EstimatesListed ==
    ASSUME CaptureInv, TypesInv, AcksTyped(Len(pkts)), HeardInv, SamplesTyped,
           NEW seqs \in Seq(SeqNum),
           NEW f, NEW q \in [Own -> Nat], q = QueueingDelays(f, tail_latency.propagation)
    PROVE  /\ EstimatesFor(seqs, q) \in Seq(EstimateRecords)
           /\ \A k \in DOMAIN EstimatesFor(seqs, q) : UpToDate(EstimatesFor(seqs, q)[k], f)
<1> DEFINE order == InOrder(Own)
           n == Len(order)
           c == [order |-> order, seqs |-> seqs, q |-> q]
           list == EstimatesFor(seqs, q)
<1>1. OrderOK(order, n)
  <2>1. Own \subseteq 0 .. Len(pkts) /\ Len(pkts) \in Nat
    BY CaptureTypes DEF CaptureInv
  <2>2. order \in Seq(Own) /\ Ascends(order, Own)
    BY <2>1, InOrderTyped
  <2> HIDE DEF order
  <2>3. n \in Nat /\ DOMAIN order = 1 .. n
    BY <2>2, LenProperties
  <2> QED BY <2>2, <2>3 DEF OrderOK, Ascends
<1>2. PICK h : VisitsAre(h, seqs, q, order, n)
  <2> HIDE DEF n
  <2> QED BY <1>1, VisitsAreAWalk DEF OrderOK
<1> HIDE DEF order, n
<1> DEFINE S == 1 .. n
           T == [s \in SUBSET S |-> Visited(order, seqs, f, s)]
<1>3. n \in Nat /\ S \subseteq 0 .. n
  BY <1>1 DEF OrderOK
<1>4. VisitWalk!IsWalk(h, c, NothingTaken, S) /\ list = FilledUp(h[S].list, seqs)
  BY <1>2 DEF VisitsAre
<1>5. NothingTaken \in T[{}]
  <2>1. << >> \in Seq(EstimateRecords) /\ Len(<< >>) = 0 /\ Len(seqs) \in Nat
        /\ Len(samples) \in Nat
    BY EmptySeq, LenProperties DEF SamplesTyped
  <2>2. NothingTaken.taken = 0 /\ NothingTaken.list = << >>
        /\ NothingTaken \in [taken : 0 .. Len(samples), list : Seq(EstimateRecords)]
    BY <2>1 DEF NothingTaken
  <2>3. BehindVisited(0, order, {})
    BY DEF BehindVisited
  <2> QED BY <2>1, <2>2, <2>3 DEF Visited
<1>6. \A s \in SUBSET S : \A x \in s : \A v \in T[s \ {x}] :
         (\A y \in s : x >= y) => VisitRound(c, x, v) \in T[s]
  <2> TAKE s \in SUBSET S
  <2> TAKE x \in s
  <2> TAKE v \in T[s \ {x}]
  <2> SUFFICES ASSUME \A y \in s : x >= y PROVE VisitRound(c, x, v) \in T[s]
    OBVIOUS
  <2> v \in Visited(order, seqs, f, s \ {x})
    OBVIOUS
  <2> VisitRound(c, x, v) \in Visited(order, seqs, f, s)
    <3> HIDE DEF T
    <3> QED BY <1>1, VisitStep
  <2> QED OBVIOUS
<1>7. h[S] \in Visited(order, seqs, f, S)
  <2> h[S] \in T[S]
    <3> HIDE DEF S, T, c
    <3> QED BY <1>3, <1>4, <1>5, <1>6, VisitOneMore, VisitWalk!WalkReaches
  <2> QED OBVIOUS
<1> DEFINE found == h[S].list
           gap == Len(seqs) - Len(found)
           rest == [k \in 1 .. gap |-> NoEstimate]
<1>8. /\ found \in Seq(EstimateRecords) /\ Len(found) <= Len(seqs)
      /\ \A k \in 1 .. Len(found) : UpToDate(found[k], f)
  BY <1>7 DEF Visited
<1>9. list = found \o rest
  BY <1>4 DEF FilledUp
<1> HIDE DEF found, list
<1>10. Len(found) \in Nat /\ Len(seqs) \in Nat /\ gap \in Nat
  BY <1>8, LenProperties
<1>11. NoEstimate \in EstimateRecords /\ NoEstimate.packet = 0
  BY DEF NoEstimate, EstimateRecords
<1> HIDE DEF gap
<1>12. rest \in Seq(EstimateRecords) /\ Len(rest) = gap /\ \A k \in 1 .. gap : rest[k] = NoEstimate
  <2>1. rest \in [1 .. gap -> EstimateRecords]
    BY <1>11
  <2> QED BY <1>10, <2>1, SeqDef, LenProperties
<1> HIDE DEF rest
<1>13. /\ list \in Seq(EstimateRecords) /\ Len(list) = Len(found) + gap
       /\ \A k \in 1 .. Len(list) : list[k] = IF k <= Len(found) THEN found[k]
                                              ELSE rest[k - Len(found)]
  BY <1>8, <1>9, <1>12, ConcatProperties, ZenonT(40)
<1>14. ASSUME NEW k \in 1 .. Len(list)
       PROVE  UpToDate(list[k], f)
  <2>1. CASE k <= Len(found)
    BY <1>8, <1>10, <1>13, <2>1
  <2>2. CASE ~(k <= Len(found))
    <3>1. k - Len(found) \in 1 .. gap
      BY <1>10, <1>13, <2>2
    <3>2. list[k].packet = 0
      BY <1>11, <1>12, <1>13, <2>2, <3>1
    <3> QED BY <3>2 DEF UpToDate
  <2> QED BY <2>1, <2>2
<1>15. DOMAIN list = 1 .. Len(list)
  BY <1>13, LenProperties
<1>16. list \in Seq(EstimateRecords) /\ \A k \in DOMAIN list : UpToDate(list[k], f)
  BY <1>13, <1>14, <1>15
<1> QED BY <1>16 DEF list

-----------------------------------------------------------------------------
(***************************************************************************)
(* What the calls rely on and leave.                                       *)
(***************************************************************************)
\* What they read: the capture, and the samples.
CapturedInv ==
    /\ ReadInv /\ TypesInv /\ AcksTyped(Len(pkts)) /\ LastAckInv /\ HeardInv /\ SamplesTyped

LEMMA CapturedStart == AnalysisInit => CapturedInv
<1> SUFFICES ASSUME AnalysisInit PROVE CapturedInv
  OBVIOUS
<1>1. ReadInv
  BY ReadStart
<1>2. Init /\ samples = << >>
  BY DEF AnalysisInit
<1>3. TypesInv /\ AcksTyped(Len(pkts))
  BY <1>2, TypesStart
<1>4. Ids = {} /\ last_ack = 0
  BY <1>2 DEF Init, Ids
<1>5. SamplesTyped
  BY <1>2, EmptySeq DEF SamplesTyped
<1> QED BY <1>1, <1>3, <1>4, <1>5 DEF CapturedInv, LastAckInv, HeardInv

LEMMA CapturedStep ==
    ASSUME CapturedInv, [AnalysisNext]_analysisVars
    PROVE  CapturedInv'
<1>1. [Next]_vars /\ (phase # "capture" => NothingCaptured)
  BY CaptureOrRead
<1>2. ReadInv' /\ CaptureInv
  BY ReadStep DEF CapturedInv, ReadInv
<1>3. TypesInv' /\ AcksTyped(Len(pkts))' /\ LastAckInv' /\ HeardInv'
  BY <1>1, <1>2, TypesStep, LastAckStep, HeardStep DEF CapturedInv
<1>4. CASE NothingCaptured
  <2>1. Own' = Own /\ ack_packet' = ack_packet /\ samples' = samples
    BY <1>4, SamePackets DEF NothingCaptured, vars, linkVars
  <2>2. SamplesTyped'
    BY <2>1 DEF SamplesTyped, SampleRecords, CapturedInv
  <2> QED BY <1>2, <1>3, <2>2 DEF CapturedInv
<1>5. CASE CapturePacket
  <2> SamplesTyped'
    BY <1>2, <1>3, <1>5, SampleTypes DEF CapturePacket, CapturedInv
  <2> QED BY <1>2, <1>3 DEF CapturedInv
<1>6. CASE UNCHANGED analysisVars \/ EndOfCapture
  <2> NothingCaptured
    BY <1>6 DEF analysisVars, EndOfCapture, NothingCaptured
  <2> QED BY <1>4
<1>7. CASE Analyze
  <2> phase # "capture"
    BY <1>7 DEF Analyze, AnalyzeTailLatency, GetTimerEstimates
  <2> QED BY <1>1, <1>4
<1> QED BY <1>4, <1>5, <1>6, <1>7 DEF AnalysisNext

\* What they leave in the object.
ResultInv ==
    /\ phase \in {"capture", "analysis", "endless"} /\ called \in MaxSeqs \cup {-1}
    /\ worst_packet \in Own \cup {0} /\ (phase = "capture" => worst_packet = 0)
    /\ TailTyped(tail_latency) /\ FitTyped(fit) /\ CorrelationTyped(correlation)
    /\ no_queue_timeouts \in Seq(TimeoutRecords) /\ estimates \in Seq(EstimateRecords)
    /\ SumHolds(tail_latency, LossOf(worst_packet))

LEMMA ResultStart == AnalysisInit => ResultInv
<1> SUFFICES ASSUME AnalysisInit PROVE ResultInv
  OBVIOUS
<1>1. /\ phase = "capture" /\ called = -1 /\ worst_packet = 0 /\ tail_latency = NoTail
      /\ fit = NoFit /\ correlation = NoCorrelation /\ no_queue_timeouts = << >>
      /\ estimates = << >>
  BY DEF AnalysisInit
<1>2. FitTyped(fit) /\ CorrelationTyped(correlation)
  BY <1>1 DEF FitTyped, NoFit, CorrelationTyped
<1>3. SumHolds(tail_latency, LossOf(worst_packet))
  <2> AllParts(NoTail) + NoTail.other = NoTail.overall
    BY DEF AllParts, NoTail
  <2> QED BY <1>1 DEF SumHolds
<1> QED BY <1>1, <1>2, <1>3, NoTailTyped, EmptySeq DEF ResultInv

LEMMA TimerEstimatesListed ==
    ASSUME CapturedInv, ResultInv, NEW seqs \in SeqLists
    PROVE  LET r == TimerEstimates(seqs)
           IN  /\ FitTyped(r.fit) /\ CorrelationTyped(r.correlation)
               /\ r.list \in Seq(EstimateRecords)
               /\ \A k \in DOMAIN r.list : UpToDate(r.list[k], r.fit)
<1> DEFINE missing == correlation = NoCorrelation
           best == CalculateRttLinearFit(worst_packet, fit, correlation)
           refit == worst_packet # 0 /\ missing
           useless == missing /\ (~best.found \/ LessThan(best.correlation, MinCorrelation))
           none == worst_packet = 0 \/ useless \/ samples = << >>
           f == IF refit THEN best.fit ELSE fit
           corr == IF refit THEN best.correlation ELSE correlation
           q == QueueingDelays(f, tail_latency.propagation)
           list == IF none THEN << >> ELSE EstimatesFor(seqs, q)
           r == TimerEstimates(seqs)
<1>1. r = [fit |-> f, correlation |-> corr, list |-> list]
  BY Zenon DEF TimerEstimates
<1>2. CaptureInv /\ TypesInv
  BY DEF CapturedInv, ReadInv
<1>3. BestTyped(best)
  BY <1>2, BestFitTyped DEF ResultInv
<1> HIDE DEF best, refit, none
<1>4. FitTyped(f) /\ CorrelationTyped(corr)
  BY <1>3 DEF BestTyped, ResultInv
<1>5. tail_latency.propagation \in Nat
  <2> "propagation" \in DOMAIN NoTail
    BY DEF NoTail
  <2> QED BY DEF ResultInv, TailTyped, NatParts
<1> HIDE DEF f, corr
<1>6. q \in [Own -> Nat]
  BY <1>2, <1>4, <1>5, QueueingTyped
<1>7. seqs \in Seq(SeqNum)
  BY AnalysisAssumption
<1>8. /\ EstimatesFor(seqs, q) \in Seq(EstimateRecords)
      /\ \A k \in DOMAIN EstimatesFor(seqs, q) : UpToDate(EstimatesFor(seqs, q)[k], f)
  BY <1>2, <1>6, <1>7, EstimatesListed DEF CapturedInv
<1> HIDE DEF q
<1>9. list \in Seq(EstimateRecords) /\ \A k \in DOMAIN list : UpToDate(list[k], f)
  <2>1. << >> \in Seq(EstimateRecords) /\ DOMAIN << >> = {}
    BY EmptySeq
  <2> QED BY <1>8, <2>1
<1> HIDE DEF list, r
<1>10. r.fit = f /\ r.correlation = corr /\ r.list = list
  BY <1>1
<1> QED BY <1>4, <1>9, <1>10 DEF r

LEMMA ResultStep ==
    ASSUME CapturedInv, ResultInv, [AnalysisNext]_analysisVars
    PROVE  ResultInv'
<1>1. CASE UNCHANGED resultVars /\ NothingCaptured /\ phase' \in {phase, "analysis"}
  <2>1. Own' = Own /\ \A i : Lost(i)' = Lost(i)
    BY <1>1, SamePackets
  <2>2. delays' = delays
    BY <1>1 DEF NothingCaptured, vars, noteVars
  <2>3. LossOf(worst_packet)' = LossOf(worst_packet)
    BY <1>1, <2>1, <2>2 DEF LossOf, resultVars
  <2> QED BY <1>1, <2>1, <2>3 DEF ResultInv, resultVars
<1>2. CASE UNCHANGED analysisVars
  <2> UNCHANGED resultVars /\ NothingCaptured /\ phase' = phase
    BY <1>2 DEF analysisVars, NothingCaptured
  <2> QED BY <1>1
<1>3. CASE EndOfCapture
  <2> UNCHANGED resultVars /\ NothingCaptured /\ phase' = "analysis"
    BY <1>3 DEF EndOfCapture, NothingCaptured
  <2> QED BY <1>1
<1>4. CASE CapturePacket
  <2>1. phase = "capture" /\ phase' = phase /\ UNCHANGED resultVars
    BY <1>4 DEF CapturePacket
  <2>2. worst_packet = 0 /\ worst_packet' = 0
    BY <2>1 DEF ResultInv, resultVars
  <2>3. LossOf(worst_packet)' = 0 /\ LossOf(worst_packet) = 0
    BY <2>2 DEF LossOf
  <2> QED BY <2>1, <2>2, <2>3 DEF ResultInv, resultVars
<1>5. ASSUME NEW max \in MaxSeqs, AnalyzeTailLatency(max)
      PROVE  ResultInv'
  <2> DEFINE u == TailLatency(max)
  <2>1. /\ NothingCaptured /\ called' = max /\ phase = "analysis"
        /\ phase' \in {"analysis", "endless"}
        /\ worst_packet' = u.worst /\ tail_latency' = u.tail /\ fit' = u.fit
        /\ correlation' = u.correlation /\ no_queue_timeouts' = u.timeouts
        /\ estimates' = estimates
    <3> HIDE DEF TailLatency
    <3> QED BY <1>5, Zenon DEF AnalyzeTailLatency, NothingCaptured
  <2>2. Ready
    BY DEF Ready, CapturedInv, ResultInv
  <2>3. ResultTyped(u) /\ SumHolds(u.tail, LossOf(u.worst))
    BY <2>2, CallTyped, CallAddsUp
  <2> HIDE DEF u
  <2>4. Own' = Own /\ \A i : Lost(i)' = Lost(i)
    BY <2>1, SamePackets
  <2>5. delays' = delays
    BY <2>1 DEF NothingCaptured, vars, noteVars
  <2>6. LossOf(worst_packet)' = LossOf(u.worst)
    BY <2>1, <2>4, <2>5 DEF LossOf
  <2>7. /\ worst_packet' \in Own' \cup {0} /\ TailTyped(tail_latency') /\ FitTyped(fit')
        /\ CorrelationTyped(correlation') /\ no_queue_timeouts' \in Seq(TimeoutRecords)
        /\ estimates' \in Seq(EstimateRecords)
    BY <2>1, <2>3, <2>4 DEF ResultTyped, ResultInv
  <2> QED BY <2>1, <2>3, <2>6, <2>7 DEF ResultInv
<1>6. ASSUME NEW seqs \in SeqLists, GetTimerEstimates(seqs)
      PROVE  ResultInv'
  <2> DEFINE r == TimerEstimates(seqs)
  <2>1. /\ NothingCaptured /\ fit' = r.fit /\ correlation' = r.correlation /\ estimates' = r.list
        /\ phase' = phase /\ called' = called /\ worst_packet' = worst_packet
        /\ tail_latency' = tail_latency /\ no_queue_timeouts' = no_queue_timeouts
    <3> HIDE DEF TimerEstimates
    <3> QED BY <1>6, Zenon DEF GetTimerEstimates, NothingCaptured
  <2>2. /\ FitTyped(r.fit) /\ CorrelationTyped(r.correlation)
        /\ r.list \in Seq(EstimateRecords)
    BY TimerEstimatesListed
  <2> HIDE DEF r
  <2>3. Own' = Own /\ \A i : Lost(i)' = Lost(i)
    BY <2>1, SamePackets
  <2>4. delays' = delays
    BY <2>1 DEF NothingCaptured, vars, noteVars
  <2>5. LossOf(worst_packet)' = LossOf(worst_packet)
    BY <2>1, <2>3, <2>4 DEF LossOf
  <2> QED BY <2>1, <2>2, <2>3, <2>5 DEF ResultInv
<1> QED BY <1>2, <1>3, <1>4, <1>5, <1>6 DEF AnalysisNext, Analyze

LEMMA TypesOfResults ==
    ASSUME CapturedInv, ResultInv
    PROVE  AnalysisTypeOK
<1>1. samples \in Seq([packet : Own, rtt : Nat, acked : SeqNum, next : SeqNum])
  <2>1. SampleRecords \subseteq [packet : Own, rtt : Nat, acked : SeqNum, next : SeqNum]
    BY DEF SampleRecords
  <2> QED BY <2>1, SeqGrows DEF CapturedInv, SamplesTyped
<1>2. /\ DOMAIN tail_latency = DOMAIN NoTail
      /\ \A part \in DOMAIN NoTail \ {"breakdown"} : tail_latency[part] \in Nat
      /\ tail_latency.breakdown \in TriggerRecords
  BY DEF ResultInv, TailTyped, Parts, NatParts
<1>3. \A part \in DOMAIN NoTrigger \ {"endless"} : tail_latency.breakdown[part] \in Nat
  <2> DEFINE b == tail_latency.breakdown
  <2> b \in TriggerRecords
    BY <1>2
  <2> HIDE DEF b
  <2> \A part \in DOMAIN NoTrigger \ {"endless"} : b[part] \in Nat
    BY DEF TriggerRecords, NoTrigger
  <2> QED BY DEF b
<1>4. fit.den \in Nat \ {0} /\ fit.c_0 \in Int /\ fit.c_1 \in Nat
  BY DEF ResultInv, FitTyped
<1>5. correlation = NoCorrelation \/ correlation.num <= correlation.den
  BY DEF ResultInv, CorrelationTyped
<1>6. /\ no_queue_timeouts \in Seq([index : Nat, rto : Nat, tlp : Nat, delayed_tlp : Nat])
      /\ estimates \in Seq([DOMAIN NoEstimate -> Nat])
  BY DEF ResultInv, TimeoutRecords, EstimateRecords
<1>7. /\ phase \in {"capture", "analysis", "endless"} /\ called \in MaxSeqs \cup {-1}
      /\ worst_packet \in Own \cup {0}
  BY DEF ResultInv
<1> QED BY <1>1, <1>2, <1>3, <1>4, <1>5, <1>6, <1>7, Zenon DEF AnalysisTypeOK

(***************************************************************************)
(* On every capture, and after any calls: the parts of a delay are natural   *)
(* numbers, every fit that is used rises and divides by no zero, its         *)
(* correlation is within one, and the timeouts of the table and of the      *)
(* estimates are natural numbers.                                          *)
(***************************************************************************)
THEOREM AnalysisTyped == AnalysisSpec => []AnalysisTypeOK
<1>1. AnalysisInit => CapturedInv /\ ResultInv
  BY CapturedStart, ResultStart
<1>2. CapturedInv /\ ResultInv /\ [AnalysisNext]_analysisVars => CapturedInv' /\ ResultInv'
  BY CapturedStep, ResultStep
<1>3. CapturedInv /\ ResultInv => AnalysisTypeOK
  BY TypesOfResults
<1> QED BY <1>1, <1>2, <1>3, PTL DEF AnalysisSpec

(***************************************************************************)
(* On every capture, and after any calls: where the loss delay leaves room   *)
(* for propagation and covers its trigger, the parts add up.               *)
(***************************************************************************)
THEOREM DelaysCombine == AnalysisSpec => []DelaysAddUp
<1>1. AnalysisInit => CapturedInv /\ ResultInv
  BY CapturedStart, ResultStart
<1>2. CapturedInv /\ ResultInv /\ [AnalysisNext]_analysisVars => CapturedInv' /\ ResultInv'
  BY CapturedStep, ResultStep
<1>3. ResultInv => DelaysAddUp
  <2> SUFFICES ASSUME SumHolds(tail_latency, LossOf(worst_packet)) PROVE DelaysAddUp
    BY DEF ResultInv
  <2>1. ASSUME RoomForLoss(tail_latency, LossOf(worst_packet))
        PROVE  AllParts(tail_latency) + tail_latency.other = tail_latency.overall
    BY <2>1 DEF SumHolds
  <2> QED BY <2>1 DEF DelaysAddUp, RoomForLoss, AllParts, LossOf, LossBase
<1> QED BY <1>1, <1>2, <1>3, PTL DEF AnalysisSpec

(***************************************************************************)
(* On every capture, and whatever was called before: the pass of a call of   *)
(* GetTimerEstimates has taken in, at each packet that it stops at, the      *)
(* samples of earlier ACKs and no other.                                   *)
(***************************************************************************)
THEOREM PassIsUpToDate == AnalysisSpec => EstimatesUpToDate
<1>1. AnalysisInit => CapturedInv /\ ResultInv
  BY CapturedStart, ResultStart
<1>2. CapturedInv /\ ResultInv /\ [AnalysisNext]_analysisVars => CapturedInv' /\ ResultInv'
  BY CapturedStep, ResultStep
<1>3. CapturedInv /\ ResultInv /\ [AnalysisNext]_analysisVars
         => [\A seqs \in SeqLists : GetTimerEstimates(seqs)
                => \A k \in DOMAIN estimates' : UpToDate(estimates'[k], fit')]_analysisVars
  <2> SUFFICES ASSUME CapturedInv, ResultInv, NEW seqs \in SeqLists, GetTimerEstimates(seqs)
               PROVE  \A k \in DOMAIN estimates' : UpToDate(estimates'[k], fit')
    OBVIOUS
  <2> DEFINE r == TimerEstimates(seqs)
  <2>1. fit' = r.fit /\ estimates' = r.list
    <3> HIDE DEF TimerEstimates
    <3> QED BY Zenon DEF GetTimerEstimates
  <2>2. \A k \in DOMAIN r.list : UpToDate(r.list[k], r.fit)
    BY TimerEstimatesListed
  <2> HIDE DEF r
  <2> QED BY <2>1, <2>2
<1> QED BY <1>1, <1>2, <1>3, PTL DEF AnalysisSpec, EstimatesUpToDate

-----------------------------------------------------------------------------
(***************************************************************************)
(* The buffer.  What was got before an ACK, beyond what was acked before.   *)
(***************************************************************************)
GotBefore(acks, acked, m) ==
    {0} \cup { SeqMinus(acks[j].ack, acked) : j \in { j \in 1 .. m - 1 : After(acks[j].ack, acked) } }

\* With max bytes in store and what it has got, consumption has not run dry at an ACK,
\* but for what was rounded down.
EnoughAt(m, max, acks, acked, sent_at, goodput) ==
    \E got \in GotBefore(acks, acked, m) :
        (max + got + m) * RateUnit >= (acks[m].ts - sent_at) * goodput

\* What the fold keeps.
Consumed(b, m, acks, acked, sent_at, goodput) ==
    /\ b.ts = IF m = 0 THEN sent_at ELSE acks[m].ts
    /\ SeqMinus(b.ack, acked) \in GotBefore(acks, acked, m + 1)
    /\ (b.needed + SeqMinus(b.ack, acked) + m) * RateUnit >= (b.ts - sent_at) * goodput
    /\ \A k \in 1 .. m : EnoughAt(k, b.max, acks, acked, sent_at, goodput)

\* Numbers that are compared lie in a window.
AckWindow(acks, acked, base) ==
    /\ SeqMinus(acked, base) < MaxForward
    /\ \A k \in 1 .. Len(acks) : SeqMinus(acks[k].ack, base) < MaxForward

\* Within a window distances add up.
LEMMA DistancesAdd ==
    \A base, first, a, b \in SeqNum :
        /\ SeqMinus(first, base) < MaxForward /\ SeqMinus(a, base) < MaxForward
        /\ SeqMinus(b, base) < MaxForward /\ SeqMinus(first, base) <= SeqMinus(b, base)
        /\ After(a, b)
        => /\ After(a, first) /\ SeqMinus(first, base) <= SeqMinus(a, base)
           /\ SeqMinus(a, first) = SeqMinus(a, b) + SeqMinus(b, first)
BY SpaceSizeAssumption DEF SeqNum, SeqMinus, After, MaxForward, HalfSpace

\* What an interval takes is rounded down by less than a byte.
LEMMA RoundedDown ==
    \A x \in Int : ((x \div RateUnit) + 1) * RateUnit >= x
<1> TAKE x \in Int
<1> DEFINE R == RateUnit
<1>1. R \in Nat \ {0}
  BY AnalysisAssumption
<1> HIDE DEF R
<1>2. x = R * (x \div R) + (x % R) /\ x % R \in 0 .. R - 1 /\ x \div R \in Int
  BY <1>1
<1> DEFINE d == x \div R
           e == x % R
<1> HIDE DEF d, e
<1>3. x = R * d + e /\ e \in 0 .. R - 1 /\ d \in Int
  BY <1>2 DEF d, e
<1>4. (d + 1) * R >= x
  BY <1>1, <1>3
<1> QED BY <1>4 DEF d, R

LEMMA MoreIsEnough ==
    \A a, b \in Int : a >= b => a * RateUnit >= b * RateUnit
<1> TAKE a, b \in Int
<1> DEFINE R == RateUnit
<1>1. R \in Nat
  BY AnalysisAssumption
<1> HIDE DEF R
<1> SUFFICES ASSUME a >= b PROVE a * R >= b * R
  BY DEF R
<1>2. (a - b) * R >= 0 /\ (a - b) * R = a * R - b * R
  BY <1>1
<1> QED BY <1>1, <1>2

LEMMA GotAreDistances ==
    ASSUME NEW acks \in Seq(AckPackets), NEW acked \in SeqNum, NEW m \in Nat, m <= Len(acks) + 1
    PROVE  GotBefore(acks, acked, m) \subseteq Nat
<1>1. \A j \in 1 .. Len(acks) : SeqMinus(acks[j].ack, acked) \in Nat
  <2> TAKE j \in 1 .. Len(acks)
  <2> acks[j].ack \in SeqNum
    BY AckPacketTypes, ElementOfSeq
  <2> SeqMinus(acks[j].ack, acked) \in SeqNum
    BY Distance
  <2> QED BY SpaceSizeAssumption DEF SeqNum
<1>2. Len(acks) \in Nat
  BY LenProperties
<1>3. 1 .. m - 1 \subseteq 1 .. Len(acks)
  BY <1>2
<1> QED BY <1>1, <1>3 DEF GotBefore

\* A round of the fold.
LEMMA RoundSuffices ==
    ASSUME NEW acks \in Seq(AckPackets), NEW acked \in SeqNum, NEW sent_at \in Nat, NEW goodput \in Nat,
           NEW base \in SeqNum, AckWindow(acks, acked, base), NEW m \in 1 .. Len(acks),
           NEW b \in BufferStates, SeqMinus(acked, base) <= SeqMinus(b.ack, base),
           SeqMinus(b.ack, base) < MaxForward,
           Consumed(b, m - 1, acks, acked, sent_at, goodput)
    PROVE  LET d == BufferRound([acks |-> acks, goodput |-> goodput], m, b)
           IN  /\ SeqMinus(acked, base) <= SeqMinus(d.ack, base)
               /\ SeqMinus(d.ack, base) < MaxForward
               /\ Consumed(d, m, acks, acked, sent_at, goodput)
<1> DEFINE n == Len(acks)
           c == [acks |-> acks, goodput |-> goodput]
           d == BufferRound(c, m, b)
           ts == acks[m].ts
           ack == acks[m].ack
           x == (ts - b.ts) * goodput
           gap == x \div RateUnit
           needed == b.needed + gap
           went == SeqMinus(b.ack, acked)
           moved == After(ack, b.ack)
           step == SeqMinus(ack, b.ack)
           got(k) == GotBefore(acks, acked, k)
           due(t) == (t - sent_at) * goodput
<1>1. n \in Nat /\ m \in Nat /\ m <= n /\ 0 < m /\ m - 1 \in Nat /\ m - 1 + 1 = m
  BY LenProperties
<1>2. /\ ts \in Nat /\ ack \in SeqNum
      /\ b.needed \in Int /\ b.max \in Nat /\ b.ts \in Nat /\ b.ack \in SeqNum
  <2> acks[m] \in AckPackets
    BY ElementOfSeq
  <2> QED BY AckPacketTypes DEF BufferStates
<1>3. /\ d.needed = IF moved THEN needed - step ELSE needed
      /\ d.max = Larger(b.max, needed) /\ d.ts = ts
      /\ d.ack = IF moved THEN ack ELSE b.ack
  <2>1. c.acks = acks /\ c.goodput = goodput
    OBVIOUS
  <2> HIDE DEF c
  <2> QED BY <2>1 DEF BufferRound
<1>4. /\ went \in got(m)
      /\ (b.needed + went + (m - 1)) * RateUnit >= due(b.ts)
      /\ \A k \in 1 .. m - 1 : EnoughAt(k, b.max, acks, acked, sent_at, goodput)
  BY <1>1 DEF Consumed
<1>5. /\ x \in Int /\ gap \in Int /\ needed \in Int /\ (gap + 1) * RateUnit >= x
      /\ due(ts) = due(b.ts) + x /\ due(b.ts) \in Int
  <2>1. x \in Int
    BY <1>2
  <2>2. due(ts) = due(b.ts) + x /\ due(b.ts) \in Int
    <3> HIDE DEF ts
    <3> DEFINE p == ts - b.ts
               q == b.ts - sent_at
    <3>1. p \in Int /\ q \in Int /\ ts - sent_at = q + p
      BY <1>2, SMTT(40)
    <3> HIDE DEF p, q
    <3>2. (q + p) * goodput = q * goodput + p * goodput /\ q * goodput \in Int
      BY <3>1
    <3> QED BY <3>1, <3>2 DEF p, q
  <2> HIDE DEF x
  <2>3. gap \in Int
    BY <2>1, AnalysisAssumption
  <2>4. (gap + 1) * RateUnit >= x
    BY <2>1, RoundedDown
  <2> HIDE DEF gap, due
  <2>5. needed \in Int
    BY <1>2, <2>3
  <2> HIDE DEF needed
  <2> QED BY <2>1, <2>2, <2>3, <2>4, <2>5
<1>6. /\ got(m) \subseteq Nat /\ got(m + 1) \subseteq Nat /\ \A k \in 1 .. m : got(k) \subseteq Nat
      /\ got(m) \subseteq got(m + 1)
  <2>1. \A k \in Nat : k <= n + 1 => got(k) \subseteq Nat
    BY GotAreDistances
  <2>2. 1 .. m - 1 \subseteq 1 .. m + 1 - 1
    BY <1>1
  <2>3. got(m) \subseteq got(m + 1)
    BY <2>2 DEF GotBefore
  <2> QED BY <1>1, <2>1, <2>3
<1>7. went \in Nat
  BY <1>4, <1>6
<1> HIDE DEF d, c, ts, ack, x, gap
<1>8. (needed + went + m) * RateUnit >= due(ts)
  <2> DEFINE R == RateUnit
             before == b.needed + went + (m - 1)
             dt == due(b.ts)
  <2>1. R \in Nat /\ before \in Int
    BY <1>1, <1>2, <1>7, AnalysisAssumption
  <2>2. before * R >= dt /\ (gap + 1) * R >= x /\ due(ts) = dt + x /\ dt \in Int
    BY <1>4, <1>5
  <2>3. needed + went + m = before + (gap + 1)
    <3> DEFINE i == b.needed
    <3>1. gap \in Int /\ i \in Int /\ went \in Int /\ m \in Int
      BY <1>1, <1>2, <1>5, <1>7
    <3>2. needed = i + gap /\ before = i + went + (m - 1)
      OBVIOUS
    <3> HIDE DEF i, gap, went, needed, before
    <3> QED BY ONLY <3>1, <3>2
  <2> HIDE DEF R, before, dt, needed, went, due
  <2>4. (before + (gap + 1)) * R = before * R + (gap + 1) * R
    BY <1>5, <2>1
  <2>5. (before + (gap + 1)) * R >= dt + x
    <3> DEFINE u == before * R
               v == (gap + 1) * R
    <3>1. u \in Int /\ v \in Int
      BY <1>5, <2>1
    <3> HIDE DEF u, v
    <3>2. u + v >= dt + x
      BY <1>5, <2>2, <3>1 DEF u, v
    <3> QED BY <2>4, <3>2 DEF u, v
  <2> QED BY <2>2, <2>3, <2>5 DEF R
<1>9. /\ SeqMinus(acked, base) <= SeqMinus(d.ack, base)
      /\ SeqMinus(d.ack, base) < MaxForward
      /\ SeqMinus(d.ack, acked) \in got(m + 1)
      /\ d.needed + SeqMinus(d.ack, acked) = needed + went
  <2>1. CASE moved
    <3>1. SeqMinus(ack, base) < MaxForward /\ SeqMinus(acked, base) < MaxForward
      BY DEF AckWindow, ack
    <3>2. /\ After(ack, acked) /\ SeqMinus(acked, base) <= SeqMinus(ack, base)
          /\ SeqMinus(ack, acked) = step + went
      BY <1>2, <2>1, <3>1, DistancesAdd
    <3>3. SeqMinus(ack, acked) \in got(m + 1)
      <4> m \in 1 .. m + 1 - 1
        BY <1>1
      <4> QED BY <3>2 DEF GotBefore, ack
    <3>4. d.ack = ack /\ d.needed = needed - step
      BY <1>3, <2>1
    <3>5. step \in Int
      <4> step \in SeqNum
        BY <1>2, Distance
      <4> QED BY SpaceSizeAssumption DEF SeqNum
    <3> HIDE DEF needed, went, step
    <3> QED BY <1>5, <1>7, <3>1, <3>2, <3>3, <3>4, <3>5
  <2>2. CASE ~moved
    <3>1. d.ack = b.ack /\ d.needed = needed
      BY <1>3, <2>2
    <3>2. went \in got(m + 1)
      BY <1>4, <1>6
    <3> HIDE DEF needed
    <3> QED BY <3>1, <3>2
  <2> QED BY <2>1, <2>2
<1>10. d.max \in Nat /\ d.max >= b.max /\ d.max >= needed
  <2>1. needed \in Int
    BY <1>5
  <2> HIDE DEF needed
  <2> QED BY <1>2, <1>3, <2>1 DEF Larger
<1>11. ASSUME NEW k \in 1 .. m
       PROVE  EnoughAt(k, d.max, acks, acked, sent_at, goodput)
  <2>1. CASE k = m
    <3> DEFINE more == d.max + went + m
               less == needed + went + m
    <3>1. more \in Int /\ less \in Int /\ more >= less
      <4> HIDE DEF needed, went
      <4> QED BY <1>1, <1>5, <1>7, <1>10, SMTT(40)
    <3> HIDE DEF needed, went
    <3>2. more * RateUnit >= less * RateUnit
      <4> HIDE DEF more, less
      <4> QED BY <3>1, MoreIsEnough
    <3>3. more * RateUnit >= due(ts)
      <4> DEFINE u == more * RateUnit
                 v == less * RateUnit
      <4>1. u \in Int /\ v \in Int /\ due(ts) \in Int
        <5> due(ts) \in Int
          BY <1>5
        <5> HIDE DEF more, less, due
        <5> QED BY <3>1, AnalysisAssumption
      <4>2. u >= v /\ v >= due(ts)
        BY <1>8, <3>2
      <4> HIDE DEF u, v, due
      <4>3. u >= due(ts)
        BY <4>1, <4>2
      <4> QED BY <4>3 DEF u
    <3> QED BY <1>4, <2>1, <3>3 DEF EnoughAt, ts
  <2>2. CASE k # m
    <3>1. k \in 1 .. m - 1
      BY <1>1, <2>2
    <3>2. PICK g \in got(k) : (b.max + g + k) * RateUnit >= (acks[k].ts - sent_at) * goodput
      BY <1>4, <3>1 DEF EnoughAt
    <3> DEFINE more == d.max + g + k
               less == b.max + g + k
               t == (acks[k].ts - sent_at) * goodput
    <3>3. more \in Int /\ less \in Int /\ more >= less
      <4> g \in Nat
        BY <1>6
      <4> QED BY <1>2, <1>10, SMTT(40)
    <3>4. t \in Int
      <4> acks[k].ts \in Nat
        <5> k \in 1 .. Len(acks)
          BY <1>1
        <5> QED BY ElementOfSeq, AckPacketTypes
      <4> QED OBVIOUS
    <3> HIDE DEF more, less, t, got
    <3>5. more * RateUnit >= less * RateUnit
      BY <3>3, MoreIsEnough
    <3>6. more * RateUnit >= t
      <4> DEFINE u == more * RateUnit
                 v == less * RateUnit
      <4>1. u \in Int /\ v \in Int /\ u >= v /\ v >= t
        BY <3>2, <3>3, <3>5, AnalysisAssumption DEF less, t
      <4> HIDE DEF u, v
      <4>2. u >= t
        BY <3>4, <4>1
      <4> QED BY <4>2 DEF u
    <3> QED BY <3>6 DEF EnoughAt, more, t, got
  <2> QED BY <2>1, <2>2
<1>12. (d.needed + SeqMinus(d.ack, acked) + m) * RateUnit >= (d.ts - sent_at) * goodput
  BY <1>3, <1>8, <1>9
<1>13. d.ts = IF m = 0 THEN sent_at ELSE acks[m].ts
  BY <1>1, <1>3 DEF ts
<1> HIDE DEF got
<1>14. Consumed(d, m, acks, acked, sent_at, goodput)
  BY <1>9, <1>11, <1>12, <1>13 DEF Consumed, got
<1> QED BY <1>9, <1>14 DEF d, c

\* What the fold finds is enough at each of the ACKs.
LEMMA BufferIsEnough ==
    ASSUME NEW acks \in Seq(AckPackets), NEW acked \in SeqNum, NEW sent_at \in Nat, NEW goodput \in Nat,
           NEW base \in SeqNum, AckWindow(acks, acked, base), NEW k \in 1 .. Len(acks)
    PROVE  EnoughAt(k, BufferNeeded(sent_at, acked, acks, goodput), acks, acked, sent_at, goodput)
<1> DEFINE n == Len(acks)
           S == 1 .. n
           c == [acks |-> acks, goodput |-> goodput]
           start == BufferStart(sent_at, acked)
           D(b) == SeqMinus(b, base)
           Held(b, m) == /\ D(acked) <= D(b.ack) /\ D(b.ack) < MaxForward
                         /\ Consumed(b, m, acks, acked, sent_at, goodput)
           T == [s \in SUBSET S |-> { b \in BufferStates : \A m \in 0 .. n : s = 1 .. m => Held(b, m) }]
<1>1. n \in Nat /\ DOMAIN acks = 1 .. n /\ S \subseteq 0 .. n
  BY LenProperties
<1>2. PICK h : /\ BufferWalk!IsWalk(h, c, start, S)
               /\ BufferNeeded(sent_at, acked, acks, goodput) = h[S].max
  <2> HIDE DEF n, c, start
  <2>1. PICK h : /\ BufferWalk!IsWalk(h, [acks |-> acks, goodput |-> goodput],
                                      BufferStart(sent_at, acked), 1 .. n)
                 /\ BufferNeeded(sent_at, acked, acks, goodput) = h[1 .. n].max
    BY <1>1, BufferIsAWalk
  <2> QED BY <2>1 DEF c, start
<1>3. start \in BufferStates /\ Held(start, 0)
  <2>1. start \in BufferStates
    BY DEF BufferStart, BufferStates
  <2>2. start.ts = sent_at /\ start.ack = acked /\ start.needed = 0
    BY DEF BufferStart
  <2>3. SeqMinus(acked, acked) = 0 /\ D(acked) \in Int
    BY SpaceSizeAssumption DEF SeqNum, SeqMinus
  <2>4. 0 \in GotBefore(acks, acked, 0 + 1)
    BY DEF GotBefore
  <2>5. (0 + 0 + 0) * RateUnit >= (sent_at - sent_at) * goodput
    BY AnalysisAssumption
  <2>6. Consumed(start, 0, acks, acked, sent_at, goodput)
    <3> HIDE DEF start
    <3> QED BY <2>2, <2>3, <2>4, <2>5 DEF Consumed
  <2> HIDE DEF start
  <2> QED BY <2>1, <2>2, <2>3, <2>6 DEF AckWindow
<1>4. start \in T[{}]
  <2>1. ASSUME NEW m \in 0 .. n, {} = 1 .. m PROVE m = 0
    <3> 1 \notin 1 .. m
      BY <2>1
    <3> QED BY <1>1
  <2> HIDE DEF Held, start, n
  <2> QED BY <1>3, <2>1
<1>5. ASSUME NEW s \in SUBSET S, NEW x \in s, NEW b \in T[s \ {x}], \A y \in s : x >= y
      PROVE  BufferRound(c, x, b) \in T[s]
  <2> DEFINE d == BufferRound(c, x, b)
  <2>1. b \in BufferStates /\ \A m \in 0 .. n : s \ {x} = 1 .. m => Held(b, m)
    BY <1>5
  <2>2. d \in BufferStates
    BY <1>1, <2>1, BufferRoundTyped
  <2>3. ASSUME NEW m \in 0 .. n, s = 1 .. m PROVE Held(d, m)
    <3>1. m \in 1 .. n /\ m - 1 \in 0 .. n /\ x = m /\ s \ {x} = 1 .. m - 1
      <4>1. x \in 1 .. m /\ m \in Nat /\ n \in Nat
        BY <1>1, <2>3
      <4>2. m \in s
        BY <2>3, <4>1
      <4>3. x = m
        BY <1>5, <4>1, <4>2
      <4> QED BY <2>3, <4>1, <4>3
    <3>2. Held(b, m - 1)
      <4> HIDE DEF Held
      <4> QED BY <2>1, <3>1
    <3> QED BY <2>1, <3>1, <3>2, RoundSuffices
  <2> HIDE DEF Held, d
  <2> QED BY <2>2, <2>3 DEF d
<1> HIDE DEF T, start, c, S, Held
<1>6. h[S] \in T[S]
  BY <1>1, <1>2, <1>4, <1>5, BufferOneMore, BufferWalk!WalkReaches
<1>7. Held(h[S], n)
  <2>1. T[S] = { b \in BufferStates : \A m \in 0 .. n : S = 1 .. m => Held(b, m) }
    BY DEF T
  <2>2. n \in 0 .. n /\ S = 1 .. n
    BY <1>1 DEF S
  <2> HIDE DEF n
  <2> QED BY <1>6, <2>1, <2>2
<1>8. EnoughAt(k, h[S].max, acks, acked, sent_at, goodput)
  BY <1>7 DEF Held, Consumed
<1> QED BY <1>2, <1>8

\* Positions in their order: each has its place, and no fewer than its place come up to it.
LEMMA OrderIsComplete ==
    ASSUME NEW n \in Nat, NEW S, S \subseteq 0 .. n
    PROVE  LET order == InOrder(S)
           IN  /\ \A a \in S : \E k \in 1 .. Len(order) : order[k] = a
               /\ \A k \in 1 .. Len(order) :
                     /\ Cardinality({ b \in S : b <= order[k] }) \in Nat
                     /\ Cardinality({ b \in S : b <= order[k] }) >= k
<1> DEFINE order == InOrder(S)
           m == Len(order)
<1>1. order \in Seq(S) /\ m = Cardinality(S) /\ IsFiniteSet(S) /\ Ascends(order, S)
  BY InOrderTyped
<1>2. m \in Nat /\ order \in [1 .. m -> S]
  BY <1>1, LenProperties
<1> HIDE DEF order, m
<1>3. \A j, k \in 1 .. m : j < k => order[j] < order[k]
  BY <1>1 DEF Ascends, m
<1>4. \A j, k \in 1 .. m : order[j] = order[k] => j = k
  <2> SUFFICES ASSUME NEW j \in 1 .. m, NEW k \in 1 .. m, order[j] = order[k]
               PROVE  j = k
    OBVIOUS
  <2> order[j] \in 0 .. n
    BY <1>2
  <2> ~(order[j] < order[k]) /\ ~(order[k] < order[j])
    BY <1>2
  <2> QED BY <1>2, <1>3
<1>5. IsFiniteSet(1 .. m) /\ Cardinality(1 .. m) = m
  <2>1. 1 \in Int /\ m \in Int
    BY <1>2
  <2>2. IsFiniteSet(1 .. m) /\ Cardinality(1 .. m) = IF 1 > m THEN 0 ELSE m - 1 + 1
    BY ONLY <2>1, FS_Interval
  <2> QED BY <1>2, <2>2
<1>6. order \in Injection(1 .. m, S)
  BY <1>2, <1>4 DEF Injection, IsInjective
<1>7. order \in Surjection(1 .. m, S)
  <2>1. Cardinality(1 .. m) = Cardinality(S) <=> order \in Surjection(1 .. m, S)
    BY ONLY <1>1, <1>6, FS_Injection
  <2> QED BY <1>1, <1>5, <2>1
<1>8. ASSUME NEW k \in 1 .. m
      PROVE  /\ Cardinality({ b \in S : b <= order[k] }) \in Nat
             /\ Cardinality({ b \in S : b <= order[k] }) >= k
  <2> DEFINE upto == { b \in S : b <= order[k] }
             f == [j \in 1 .. k |-> order[j]]
  <2>1. IsFiniteSet(upto)
    <3> upto \subseteq S
      OBVIOUS
    <3> HIDE DEF upto
    <3> QED BY ONLY <1>1, upto \subseteq S, FS_Subset
  <2>2. k \in Int /\ 1 <= k /\ 1 .. k \subseteq 1 .. m
    BY <1>2
  <2>3. \A j \in 1 .. k : order[j] \in upto
    <3> TAKE j \in 1 .. k
    <3>1. j \in 1 .. m /\ order[j] \in S /\ order[k] \in S
      BY <1>2, <2>2
    <3>2. order[j] <= order[k]
      <4>1. order[j] \in 0 .. n /\ order[k] \in 0 .. n
        BY <3>1
      <4>2. j = k \/ j < k
        BY <2>2
      <4> QED BY <1>3, <3>1, <4>1, <4>2
    <3> QED BY <3>1, <3>2
  <2>4. f \in Injection(1 .. k, upto)
    <3>1. f \in [1 .. k -> upto]
      BY <2>3
    <3>2. IsInjective(f)
      BY <1>4, <2>2 DEF IsInjective
    <3> QED BY <3>1, <3>2 DEF Injection
  <2>5. Cardinality(1 .. k) = k
    <3>1. 1 \in Int
      OBVIOUS
    <3>2. Cardinality(1 .. k) = IF 1 > k THEN 0 ELSE k - 1 + 1
      BY ONLY <2>2, <3>1, FS_Interval
    <3> QED BY <2>2, <3>2
  <2> HIDE DEF upto, f
  <2>6. Cardinality(1 .. k) <= Cardinality(upto)
    BY ONLY <2>1, <2>4, FS_Injection
  <2>7. Cardinality(upto) \in Nat
    BY ONLY <2>1, FS_CardinalityType
  <2>8. Cardinality(upto) \in Nat /\ Cardinality(upto) >= k
    BY <2>2, <2>5, <2>6, <2>7
  <2> QED BY <2>8 DEF upto
<1>9. \A a \in S : \E k \in 1 .. m : order[k] = a
  BY <1>7 DEF Surjection
<1> QED BY <1>8, <1>9 DEF order, m

\* The buffer that BufferSuffices asks for, of the parts t with the worst packet w.
GotUntil(w, a) ==
    Max({0} \cup { SeqMinus(pkts[b].ack, pkts[sent[w].last_ack].ack) :
                     b \in { b \in AcksUntil(w) : b < a /\ After(pkts[b].ack,
                                                  pkts[sent[w].last_ack].ack) } })

RoundedUntil(w, a) == Cardinality({ b \in AcksUntil(w) : b <= a }) * RateUnit

BufferHolds(w, buffered, goodput) ==
    w # 0 /\ sent[w].last_ack # 0 =>
        \A a \in AcksUntil(w) :
            (buffered + GotUntil(w, a)) * RateUnit + RoundedUntil(w, a)
                >= (pkts[a].ts - pkts[w].ts) * goodput

\* The ACKs from the latest one before the packet was sent to its own one lie in a window.
AcksWithin(w) ==
    w # 0 /\ sent[w].last_ack # 0 =>
        \E base \in SeqNum :
            /\ SeqMinus(pkts[sent[w].last_ack].ack, base) < MaxForward
            /\ \A a \in AcksUntil(w) : SeqMinus(pkts[a].ack, base) < MaxForward

\* What was got before an ACK, and the largest of it.
LEMMA GotIsMost ==
    ASSUME CaptureInv, LastAckInv, NEW w \in Own, sent[w].last_ack # 0, NEW a
    PROVE  /\ GotUntil(w, a) \in Nat
           /\ \A b \in AcksUntil(w) :
                 b < a /\ After(pkts[b].ack, pkts[sent[w].last_ack].ack)
                 => SeqMinus(pkts[b].ack, pkts[sent[w].last_ack].ack) <= GotUntil(w, a)
<1> DEFINE L == pkts[sent[w].last_ack].ack
           G == {0} \cup { SeqMinus(pkts[b].ack, L) :
                             b \in { b \in AcksUntil(w) : b < a /\ After(pkts[b].ack, L) } }
<1>1. w \in Ids /\ \A i \in Ids : pkts[i] \in Packets
  BY CaptureTypes DEF CaptureInv
<1>2. \A i \in Ids \ Own : pkts[i].ack \in SeqNum
  <2> TAKE i \in Ids \ Own
  <2> pkts[i] \in AckPackets
    BY <1>1 DEF AckPackets, Own
  <2> QED BY AckPacketTypes
<1>3. L \in SeqNum
  <2> sent[w].last_ack \in Ids \ Own
    BY <1>1 DEF LastAckInv
  <2> QED BY <1>2
<1> HIDE DEF L
<1>4. \A b \in AcksUntil(w) : SeqMinus(pkts[b].ack, L) \in 0 .. SpaceSize - 1
  <2> AcksUntil(w) \subseteq Ids \ Own
    BY DEF AcksUntil
  <2> QED BY <1>2, <1>3, Distance DEF SeqNum
<1>5. SpaceSize - 1 \in Nat
  BY SpaceSizeAssumption
<1>6. G \subseteq 0 .. SpaceSize - 1 /\ G # {} /\ 0 \in G
  BY <1>4, <1>5
<1>7. \A b \in AcksUntil(w) : b < a /\ After(pkts[b].ack, L) => SeqMinus(pkts[b].ack, L) \in G
  OBVIOUS
<1>8. GotUntil(w, a) = Max(G)
  BY Zenon DEF GotUntil, L
<1> HIDE DEF G, Max
<1>9. Max(G) \in G /\ \A g \in G : g <= Max(G)
  BY <1>5, <1>6, MaxIsLast
<1>10. Max(G) \in Nat
  <2> 0 .. SpaceSize - 1 \subseteq Nat
    BY <1>5
  <2> QED BY ONLY 0 .. SpaceSize - 1 \subseteq Nat, <1>6, <1>9
<1>11. \A b \in AcksUntil(w) : b < a /\ After(pkts[b].ack, L) => SeqMinus(pkts[b].ack, L) <= Max(G)
  BY <1>7, <1>9
<1> QED BY ONLY <1>8, <1>10, <1>11 DEF L

LEMMA BufferOfPacket ==
    ASSUME CaptureInv, LastAckInv, NEW w \in Own, sent[w].last_ack # 0, AcksWithin(w),
           NEW goodput \in Nat
    PROVE  BufferHolds(w, BufferNeeded(pkts[w].ts, pkts[sent[w].last_ack].ack,
                                       PacketsAt(AcksUntil(w)), goodput), goodput)
<1> DEFINE A == AcksUntil(w)
           order == InOrder(A)
           acks == PacketsAt(A)
           acked == pkts[sent[w].last_ack].ack
           sent_at == pkts[w].ts
           enough == BufferNeeded(sent_at, acked, acks, goodput)
           R == RateUnit
<1>1. /\ w \in Ids /\ \A i \in Ids : pkts[i] \in Packets /\ pkts[i].ts \in Nat
      /\ Len(pkts) \in Nat /\ Ids \subseteq 0 .. Len(pkts)
  BY CaptureTypes DEF CaptureInv
<1>2. A \subseteq Ids \ Own /\ A \subseteq 0 .. Len(pkts)
  BY <1>1 DEF AcksUntil
<1>3. acks \in Seq(AckPackets)
  <2> HIDE DEF A
  <2> QED BY <1>2, ReceivedTyped
<1>4. acked \in SeqNum /\ sent_at \in Nat
  <2>1. sent[w].last_ack \in Ids \ Own
    BY <1>1 DEF LastAckInv
  <2>2. pkts[sent[w].last_ack] \in AckPackets
    BY <1>1, <2>1 DEF AckPackets, Own
  <2> QED BY <1>1, <2>2, AckPacketTypes
<1>5. /\ order \in Seq(A) /\ Ascends(order, A)
      /\ \A a \in A : \E k \in 1 .. Len(order) : order[k] = a
      /\ \A k \in 1 .. Len(order) : /\ Cardinality({ b \in A : b <= order[k] }) \in Nat
                                    /\ Cardinality({ b \in A : b <= order[k] }) >= k
  <2> HIDE DEF A
  <2> QED BY <1>1, <1>2, InOrderTyped, OrderIsComplete, ZenonT(40)
<1>6. Len(order) \in Nat /\ DOMAIN order = 1 .. Len(order)
  <2> HIDE DEF A, order
  <2> QED BY <1>5, LenProperties
<1>7. Len(acks) = Len(order) /\ \A k \in 1 .. Len(order) : acks[k] = pkts[order[k]]
  <2>1. acks = [k \in DOMAIN order |-> pkts[order[k]]]
    BY Zenon DEF PacketsAt
  <2> HIDE DEF A, order, acks
  <2>2. DOMAIN acks = 1 .. Len(order) /\ DOMAIN acks = 1 .. Len(acks) /\ Len(acks) \in Nat
    BY <1>3, <1>6, <2>1, LenProperties
  <2>3. Len(acks) = Len(order)
    BY <1>6, <2>2
  <2> QED BY <1>6, <2>1, <2>3
<1> HIDE DEF order, acks, acked, sent_at
<1>8. PICK base \in SeqNum : AckWindow(acks, acked, base)
  <2>1. PICK base \in SeqNum : /\ SeqMinus(acked, base) < MaxForward
                               /\ \A a \in A : SeqMinus(pkts[a].ack, base) < MaxForward
    <3> w # 0
      BY <1>1, CaptureTypes DEF CaptureInv
    <3> QED BY DEF AcksWithin, acked
  <2>2. \A k \in 1 .. Len(acks) : SeqMinus(acks[k].ack, base) < MaxForward
    BY <1>5, <1>7, <2>1 DEF Ascends
  <2> QED BY <2>1, <2>2 DEF AckWindow
<1>9. enough \in Nat
  <2> HIDE DEF A
  <2> QED BY <1>3, <1>4, BufferTyped
<1>10. R \in Nat \ {0}
  BY AnalysisAssumption
<1>11. ASSUME NEW a \in A
       PROVE  (enough + GotUntil(w, a)) * R + RoundedUntil(w, a) >= (pkts[a].ts - sent_at) * goodput
  <2>1. PICK k \in 1 .. Len(order) : order[k] = a
    BY <1>5
  <2>2. EnoughAt(k, enough, acks, acked, sent_at, goodput)
    <3> HIDE DEF A
    <3> QED BY <1>3, <1>4, <1>7, <1>8, <2>1, BufferIsEnough
  <2>3. PICK got \in GotBefore(acks, acked, k) :
           (enough + got + k) * RateUnit >= (acks[k].ts - sent_at) * goodput
    BY <2>2 DEF EnoughAt
  <2> HIDE DEF enough
  <2>4. got \in Nat /\ got <= GotUntil(w, a) /\ GotUntil(w, a) \in Nat
    <3>1. GotUntil(w, a) \in Nat
      BY GotIsMost
    <3>2. k \in Nat /\ k <= Len(acks) + 1
      BY <1>6, <1>7
    <3>3. got \in Nat
      BY <1>3, <1>4, <3>2, GotAreDistances
    <3>4. CASE got = 0
      BY <3>1, <3>4
    <3>5. ASSUME NEW j \in 1 .. k - 1, After(acks[j].ack, acked), got = SeqMinus(acks[j].ack, acked)
          PROVE  got <= GotUntil(w, a)
      <4>1. j \in 1 .. Len(order) /\ j < k
        BY <1>6
      <4>2. order[j] \in A /\ order[j] < a /\ acks[j] = pkts[order[j]]
        BY <1>5, <1>7, <2>1, <4>1 DEF Ascends
      <4> QED BY <3>5, <4>2, GotIsMost DEF acked
    <3> QED BY <3>1, <3>3, <3>4, <3>5 DEF GotBefore
  <2> DEFINE count == Cardinality({ b \in A : b <= a })
  <2>5. count \in Nat /\ count >= k
    BY <1>5, <2>1
  <2>6. RoundedUntil(w, a) = count * R
    BY DEF RoundedUntil
  <2> HIDE DEF count, A
  <2> DEFINE all == enough + GotUntil(w, a)
             some == enough + got
             due == (pkts[a].ts - sent_at) * goodput
  <2>7. all \in Nat /\ some \in Nat /\ k \in Nat /\ some + k <= all + count
    BY <1>6, <1>9, <2>4, <2>5
  <2>8. (some + k) * RateUnit >= due
    BY <1>7, <2>1, <2>3
  <2>9. due \in Int
    <3> pkts[a].ts \in Nat
      BY <1>1, <1>2 DEF A
    <3> QED BY <1>4
  <2> HIDE DEF all, some, due, R
  <2>10. (all + count) * RateUnit >= (some + k) * RateUnit
    <3> DEFINE x == all + count
               y == some + k
    <3>1. x \in Int /\ y \in Int /\ x >= y
      BY <2>5, <2>7
    <3> HIDE DEF x, y
    <3> QED BY <3>1, MoreIsEnough DEF x, y
  <2>11. (all + count) * R = all * R + count * R
    BY <1>10, <2>5, <2>7
  <2>12. all * R + count * R >= due
    <3> DEFINE x == (all + count) * R
               y == (some + k) * R
    <3>1. x \in Int /\ y \in Int /\ x >= y /\ y >= due
      BY <1>10, <2>5, <2>7, <2>8, <2>10 DEF R
    <3> HIDE DEF x, y
    <3>2. x >= due
      BY <2>9, <3>1
    <3> QED BY <2>11, <3>2 DEF x
  <2> QED BY <2>6, <2>12 DEF all, due
<1>12. \A a \in A : (enough + GotUntil(w, a)) * RateUnit + RoundedUntil(w, a)
                       >= (pkts[a].ts - pkts[w].ts) * goodput
  BY <1>11 DEF sent_at
<1>13. BufferHolds(w, enough, goodput)
  <2> HIDE DEF enough
  <2> QED BY <1>12 DEF BufferHolds
<1> QED BY <1>13 DEF acked, acks, sent_at

\* Nothing is consumed where no rate was achieved.
LEMMA NoGoodput ==
    ASSUME CaptureInv, LastAckInv, NEW w \in Own, sent[w].last_ack # 0, NEW buffered \in Nat
    PROVE  BufferHolds(w, buffered, 0)
<1>1. w \in Ids /\ Len(pkts) \in Nat /\ Ids = 1 .. Len(pkts) /\ \A i \in Ids : pkts[i].ts \in Nat
  BY CaptureTypes DEF CaptureInv
<1>2. ASSUME NEW a \in AcksUntil(w)
      PROVE  (buffered + GotUntil(w, a)) * RateUnit + RoundedUntil(w, a)
                 >= (pkts[a].ts - pkts[w].ts) * 0
  <2> DEFINE heard == { b \in AcksUntil(w) : b <= a }
             got == GotUntil(w, a)
             count == Cardinality(heard)
             gap == pkts[a].ts - pkts[w].ts
             R == RateUnit
  <2>1. got \in Nat
    BY GotIsMost
  <2>2. count \in Nat
    <3>1. heard \subseteq 1 .. Len(pkts)
      BY <1>1 DEF AcksUntil
    <3>2. 1 \in Int /\ Len(pkts) \in Int
      BY <1>1
    <3> HIDE DEF heard
    <3>3. IsFiniteSet(1 .. Len(pkts))
      BY ONLY <3>2, FS_Interval
    <3>4. IsFiniteSet(heard)
      BY ONLY <3>1, <3>3, FS_Subset
    <3> QED BY ONLY <3>4, FS_CardinalityType DEF count
  <2>3. gap \in Int
    BY <1>1 DEF AcksUntil
  <2>4. R \in Nat
    BY AnalysisAssumption
  <2>5. RoundedUntil(w, a) = count * R
    BY DEF RoundedUntil
  <2> HIDE DEF got, heard, count, gap, R
  <2> DEFINE all == buffered + got
  <2>6. all \in Nat
    BY <2>1
  <2> HIDE DEF all
  <2>7. all * R + count * R >= gap * 0
    <3>1. all * R \in Nat /\ count * R \in Nat
      BY <2>2, <2>4, <2>6
    <3>2. gap * 0 = 0
      BY <2>3
    <3> QED BY <3>1, <3>2
  <2> QED BY <2>5, <2>7 DEF all, got, gap, R
<1> QED BY <1>2 DEF BufferHolds

\* The rate before a packet, and the buffer for it.
LEMMA BufferOfGoodput ==
    ASSUME CaptureInv, TypesInv, LastAckInv, NEW w \in Own, AcksWithin(w),
           NEW t, TailTyped(t), t.goodput = 0, t.buffered = 0, NEW first \in Ids, first <= w
    PROVE  LET u == WithGoodput(t, first, w) IN BufferHolds(w, u.buffered, u.goodput)
<1> DEFINE elapsed == pkts[w].ts - pkts[first].ts
           bytes == sent[w].acked_bytes
           goodput == (bytes * RateUnit) \div elapsed
           before == sent[w].last_ack
           buffered == IF before = 0 \/ ack_packet[w] = 0 THEN 0
                       ELSE BufferNeeded(pkts[w].ts, pkts[before].ack,
                                         PacketsAt(AcksUntil(w)), goodput)
           more == [t EXCEPT !.bytes_acked = bytes, !.goodput = goodput, !.buffered = buffered]
           u == WithGoodput(t, first, w)
<1>1. w \in Ids /\ Ids = 1 .. Len(pkts) /\ \A i \in Ids : pkts[i] \in Packets /\ pkts[i].ts \in Nat
  BY CaptureTypes DEF CaptureInv
<1>2. elapsed \in Nat
  BY <1>1 DEF CaptureInv, TimeOrdered
<1>3. bytes \in Nat
  BY <1>1 DEF TypesInv, NotesTyped, Snapshots
<1>4. u = IF elapsed = 0 THEN t ELSE more
  BY Zenon DEF WithGoodput
<1> HIDE DEF u
<1>5. ASSUME before = 0 PROVE BufferHolds(w, u.buffered, u.goodput)
  BY <1>5 DEF BufferHolds
<1>6. ASSUME before # 0, elapsed = 0 PROVE BufferHolds(w, u.buffered, u.goodput)
  <2> 0 \in Nat
    OBVIOUS
  <2> BufferHolds(w, 0, 0)
    BY <1>6, NoGoodput
  <2> QED BY <1>4, <1>6
<1>7. ASSUME before # 0, elapsed # 0 PROVE BufferHolds(w, u.buffered, u.goodput)
  <2>1. goodput \in Nat
    <3> DEFINE x == bytes * RateUnit
    <3> HIDE DEF elapsed, bytes
    <3>1. x \in Nat
      BY <1>3, AnalysisAssumption
    <3> HIDE DEF x
    <3> QED BY <1>2, <1>7, <3>1 DEF x
  <2> HIDE DEF goodput
  <2>2. BufferHolds(w, buffered, goodput)
    <3>1. CASE ack_packet[w] = 0
      <4> AcksUntil(w) = {}
        BY <1>1, <3>1 DEF AcksUntil
      <4> QED BY DEF BufferHolds
    <3>2. CASE ack_packet[w] # 0
      <4>1. BufferHolds(w, BufferNeeded(pkts[w].ts, pkts[sent[w].last_ack].ack,
                                        PacketsAt(AcksUntil(w)), goodput), goodput)
        BY <1>7, <2>1, BufferOfPacket
      <4> QED BY <1>7, <3>2, <4>1
    <3> QED BY <3>1, <3>2
  <2> HIDE DEF bytes, buffered
  <2>3. {"bytes_acked", "goodput", "buffered"} \subseteq DOMAIN NoTail
    BY DEF NoTail
  <2>4. more.goodput = goodput /\ more.buffered = buffered
    BY <2>3 DEF Parts, TailTyped
  <2> QED BY <1>4, <1>7, <2>2, <2>4
<1>8. BufferHolds(w, u.buffered, u.goodput)
  BY <1>5, <1>6, <1>7
<1> QED BY <1>8 DEF u

\* What is measured keeps both.
LEMMA MeasuredBuffers ==
    ASSUME ReadInv, TypesInv, LastAckInv, NEW w \in Own, AcksWithin(w),
           NEW first \in Ids, first <= w
    PROVE  LET m == Measured(first, w) IN BufferHolds(w, m.buffered, m.goodput)
<1> DEFINE x == sent[w].unacked_bytes
           d == delays[w].ack
           s == [NoTail EXCEPT !.unacked = x, !.overall = d]
           t == WithGoodput(s, first, w)
           p == min_rtt
           base == [t EXCEPT !.propagation = p]
           final == delays[w].final
           gap == pkts[rtx[w]].ts - pkts[w].ts
           lost == [base EXCEPT !.loss = final, !.time_to_first_rtx = gap]
           m == Measured(first, w)
<1>1. m = IF t.overall = 0 THEN t ELSE IF Lost(w) THEN lost ELSE base
  BY Zenon DEF Measured
<1>2. w \in Ids /\ Ids = 1 .. Len(pkts)
  BY CaptureTypes DEF ReadInv, CaptureInv
<1>3. x \in Nat /\ d \in Nat
  BY <1>2 DEF TypesInv, NotesTyped, Snapshots, NotedDelays
<1>4. TailTyped(s) /\ s.goodput = 0 /\ s.buffered = 0
  <2> HIDE DEF x, d
  <2>1. {"unacked", "overall"} \subseteq DOMAIN NoTail /\ "breakdown" \in DOMAIN NoTail
    BY DEF NoTail
  <2>2. OthersKept(s, NoTail, {"unacked", "overall"}) /\ s.unacked = x /\ s.overall = d
    BY <2>1 DEF OthersKept, Parts
  <2>3. s.goodput = 0 /\ s.buffered = 0
    BY DEF NoTail
  <2>4. NatParts(s, {"unacked", "overall"}) /\ s.breakdown \in TriggerRecords
    <3> HIDE DEF s
    <3> QED BY <1>3, <2>1, <2>2, NoTailTyped DEF NatParts, TailTyped, OthersKept
  <2> HIDE DEF s
  <2> QED BY <2>2, <2>3, <2>4, NoTailTyped, TailReplaced
<1>5. TailTyped(t) /\ BufferHolds(w, t.buffered, t.goodput)
  <2> HIDE DEF s
  <2> QED BY <1>4, GoodputTyped, BufferOfGoodput DEF ReadInv
<1> HIDE DEF s, t, p, final, gap
<1>6. {"propagation", "loss", "time_to_first_rtx", "goodput", "buffered"} \subseteq DOMAIN NoTail
  BY DEF NoTail
<1>7. base.goodput = t.goodput /\ base.buffered = t.buffered /\ DOMAIN base = DOMAIN NoTail
  BY <1>5, <1>6 DEF Parts, TailTyped
<1> HIDE DEF base
<1>8. lost.goodput = t.goodput /\ lost.buffered = t.buffered
  BY <1>6, <1>7
<1> HIDE DEF lost, m
<1>9. m.goodput = t.goodput /\ m.buffered = t.buffered
  BY <1>1, <1>7, <1>8
<1>10. BufferHolds(w, m.buffered, m.goodput)
  BY <1>5, <1>9
<1> QED BY <1>10 DEF m

LEMMA CallBuffers ==
    ASSUME Ready, NEW max, AcksWithin(TailLatency(max).worst)
    PROVE  LET u == TailLatency(max) IN BufferHolds(u.worst, u.tail.buffered, u.tail.goodput)
<1> DEFINE ids == Candidates(max)
           first == Min(ids)
           t == TailLatency(max).tail
           w == WorstOf(ids)
           m == MeasuredAt(w, first)
<1>1. TailLatency(max).worst = w /\ TailExplained(t, w, m)
  BY CallTyped
<1>2. AcksWithin(w)
  BY <1>1
<1> HIDE DEF t
<1>3. CASE w = 0
  <2> HIDE DEF w
  <2> QED BY <1>1, <1>3 DEF BufferHolds, t
<1>4. CASE w # 0
  <2>1. ids # {} /\ w \in ids /\ ids \subseteq Own
    BY <1>4, WorstIsCandidate DEF Ready, ReadInv
  <2>2. Own \subseteq Ids /\ Ids \subseteq 0 .. Len(pkts) /\ Len(pkts) \in Nat
    BY CaptureTypes DEF Ready, ReadInv, CaptureInv
  <2>3. m = Measured(first, w) /\ Parts(m)
    <3> HIDE DEF w, first
    <3> QED BY <1>4, MeasuredAtParts DEF MeasuredAt
  <2> HIDE DEF ids, w, m
  <2>4. first \in ids /\ first <= w
    <3> ids \subseteq 0 .. Len(pkts)
      BY <2>1, <2>2
    <3> QED BY <2>1, <2>2, MinIsFirst
  <2> HIDE DEF first
  <2>5. w \in Own /\ first \in Ids
    BY <2>1, <2>2, <2>4
  <2>6. BufferHolds(w, m.buffered, m.goodput)
    BY <1>2, <2>3, <2>4, <2>5, MeasuredBuffers DEF Ready
  <2>7. t.buffered = m.buffered /\ t.goodput = m.goodput
    <3>1. {"buffered", "goodput"} \subseteq
             DOMAIN NoTail \ {"queueing", "loss", "loss_trigger", "other", "breakdown"}
      BY DEF NoTail
    <3>2. ASSUME NEW x, Extended(x, m), t = SetOtherDelay(Attributed(Constrained(x)))
          PROVE  t.buffered = m.buffered /\ t.goodput = m.goodput
      <4>1. OthersKept(t, x, {"queueing", "loss", "loss_trigger", "other"})
        BY <3>2, ConstraintsKeep DEF Extended, TailTyped
      <4>2. OthersKept(x, m, {"queueing", "breakdown", "loss_trigger"})
        BY <3>2 DEF Extended
      <4> QED BY <3>1, <4>1, <4>2 DEF OthersKept
    <3> QED BY <1>1, <3>2, Zenon DEF TailExplained
  <2> QED BY <1>1, <2>6, <2>7 DEF t
<1> QED BY <1>3, <1>4

\* The buffer of the last call.
BufferInv ==
    AcksWithin(worst_packet) =>
        BufferHolds(worst_packet, tail_latency.buffered, tail_latency.goodput)

LEMMA BufferStays ==
    ASSUME NothingCaptured, worst_packet' = worst_packet, tail_latency' = tail_latency, BufferInv
    PROVE  BufferInv'
<1>1. pkts' = pkts /\ sent' = sent /\ ack_packet' = ack_packet /\ Own' = Own /\ Ids' = Ids
  BY SamePackets DEF NothingCaptured, vars, linkVars, noteVars, Ids
<1>2. \A w : AcksUntil(w)' = AcksUntil(w)
  BY <1>1 DEF AcksUntil
<1>3. AcksWithin(worst_packet)' <=> AcksWithin(worst_packet)
  BY <1>1, <1>2 DEF AcksWithin
<1>4. BufferHolds(worst_packet, tail_latency.buffered, tail_latency.goodput)'
         <=> BufferHolds(worst_packet, tail_latency.buffered, tail_latency.goodput)
  BY <1>1, <1>2 DEF BufferHolds, GotUntil, RoundedUntil
<1> QED BY <1>3, <1>4 DEF BufferInv

LEMMA BufferStep ==
    ASSUME CapturedInv, ResultInv, BufferInv, [AnalysisNext]_analysisVars
    PROVE  BufferInv'
<1>1. CASE UNCHANGED analysisVars \/ EndOfCapture
  <2> NothingCaptured /\ worst_packet' = worst_packet /\ tail_latency' = tail_latency
    BY <1>1 DEF analysisVars, EndOfCapture, NothingCaptured, resultVars
  <2> QED BY BufferStays
<1>2. CASE CapturePacket
  <2> worst_packet' = 0
    BY <1>2 DEF CapturePacket, ResultInv, resultVars
  <2> QED BY DEF BufferInv, BufferHolds
<1>3. ASSUME NEW max \in MaxSeqs, AnalyzeTailLatency(max)
      PROVE  BufferInv'
  <2> DEFINE u == TailLatency(max)
  <2>1. NothingCaptured /\ worst_packet' = u.worst /\ tail_latency' = u.tail
    <3> HIDE DEF TailLatency
    <3> QED BY <1>3, Zenon DEF AnalyzeTailLatency, NothingCaptured
  <2>2. AcksWithin(u.worst) => BufferHolds(u.worst, u.tail.buffered, u.tail.goodput)
    <3> Ready
      BY DEF Ready, CapturedInv, ResultInv
    <3> QED BY CallBuffers
  <2> HIDE DEF u
  <2>3. pkts' = pkts /\ sent' = sent /\ ack_packet' = ack_packet /\ Ids' = Ids /\ Own' = Own
    BY <2>1, SamePackets DEF NothingCaptured, vars, linkVars, noteVars, Ids
  <2>4. \A w : AcksUntil(w)' = AcksUntil(w)
    BY <2>3 DEF AcksUntil
  <2>5. AcksWithin(worst_packet)' <=> AcksWithin(u.worst)
    BY <2>1, <2>3, <2>4 DEF AcksWithin
  <2>6. BufferHolds(worst_packet, tail_latency.buffered, tail_latency.goodput)'
           <=> BufferHolds(u.worst, u.tail.buffered, u.tail.goodput)
    BY <2>1, <2>3, <2>4 DEF BufferHolds, GotUntil, RoundedUntil
  <2> QED BY <2>2, <2>5, <2>6 DEF BufferInv
<1>4. ASSUME NEW seqs \in SeqLists, GetTimerEstimates(seqs)
      PROVE  BufferInv'
  <2> NothingCaptured /\ worst_packet' = worst_packet /\ tail_latency' = tail_latency
    <3> HIDE DEF TimerEstimates
    <3> QED BY <1>4, Zenon DEF GetTimerEstimates, NothingCaptured
  <2> QED BY BufferStays
<1> QED BY <1>1, <1>2, <1>3, <1>4 DEF AnalysisNext, Analyze

(***************************************************************************)
(* On every capture, and after any calls: where the ACKs while the worst     *)
(* packet was outstanding lie within a window of half the sequence space,    *)
(* with bytes_needed_buffered_ in store consumption never runs dry at one.   *)
(***************************************************************************)
THEOREM BufferIsSufficient ==
    AnalysisSpec => [](AcksWithin(worst_packet) => BufferSuffices)
<1>1. AnalysisInit => CapturedInv /\ ResultInv /\ BufferInv
  <2> AnalysisInit => BufferInv
    BY DEF AnalysisInit, BufferInv, BufferHolds
  <2> QED BY CapturedStart, ResultStart
<1>2. CapturedInv /\ ResultInv /\ BufferInv /\ [AnalysisNext]_analysisVars
         => CapturedInv' /\ ResultInv' /\ BufferInv'
  BY CapturedStep, ResultStep, BufferStep
<1>3. BufferInv => (AcksWithin(worst_packet) => BufferSuffices)
  <2> SUFFICES ASSUME BufferHolds(worst_packet, tail_latency.buffered, tail_latency.goodput)
               PROVE  BufferSuffices
    BY DEF BufferInv
  <2> QED BY Zenon DEF BufferSuffices, BufferHolds, GotUntil, RoundedUntil
<1> QED BY <1>1, <1>2, <1>3, PTL DEF AnalysisSpec
=============================================================================
