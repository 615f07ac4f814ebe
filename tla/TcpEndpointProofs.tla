-------------------------- MODULE TcpEndpointProofs --------------------------
(***************************************************************************)
(* Proofs about the endpoint: whatever it sends and receives, in captures    *)
(* of any length, with any timer constants and any sequence space.          *)
(*                                                                         *)
(* What the ties to lookalikes and the RTT samples amount to is the result  *)
(* of folds over the packets in flight.  The first proofs hold for whatever *)
(* those results are, the later ones say what they are.                     *)
(***************************************************************************)
EXTENDS TcpEndpoint, CaptureLemmas

(***************************************************************************)
(* Lists of any values grow by one entry (packets_.push_back).              *)
(***************************************************************************)
LEMMA AppendEntry ==
    ASSUME NEW n \in Nat, NEW s, s = [i \in 1 .. n |-> s[i]], NEW e
    PROVE  /\ Append(s, e) = [i \in 1 .. n + 1 |-> Append(s, e)[i]]
           /\ \A i \in 1 .. n : Append(s, e)[i] = s[i]
           /\ Append(s, e)[n + 1] = e
<1> DEFINE S == { s[i] : i \in 1 .. n } \cup {e}
<1>1. s \in [1 .. n -> S]
  OBVIOUS
<1>2. s \in Seq(S) /\ Len(s) = n
  BY <1>1, SeqDef, LenProperties
<1>3. /\ Append(s, e) \in Seq(S) /\ Len(Append(s, e)) = n + 1
      /\ \A i \in 1 .. n : Append(s, e)[i] = s[i]
      /\ Append(s, e)[n + 1] = e
  <2> HIDE DEF S
  <2> e \in S
    BY DEF S
  <2> QED BY <1>2, AppendProperties
<1>4. Append(s, e) = [i \in 1 .. n + 1 |-> Append(s, e)[i]]
  <2> HIDE DEF S
  <2> QED BY <1>3, LenProperties
<1> QED BY <1>3, <1>4

OwnPackets == { OwnPacket(s, ts) : s \in Sends, ts \in Nat }
Received == { AckPacket(a, ts) : a \in Acks, ts \in Nat }
Packets == OwnPackets \cup Received

\* A value for every packet captured so far.
Entries(s) == s = [i \in Ids |-> s[i]]

IsTimer(t) == "armed_by" \in DOMAIN t

-----------------------------------------------------------------------------
(***************************************************************************)
(* A captured packet joins the list, all others stay.                      *)
(***************************************************************************)
LEMMA Captured ==
    ASSUME pkts \in Seq(Packets), NEW p \in Packets, pkts' = Append(pkts, p)
    PROVE  /\ pkts' \in Seq(Packets) /\ Len(pkts) \in Nat /\ Len(pkts') = New
           /\ Ids = 1 .. Len(pkts) /\ Ids' = 1 .. New
           /\ \A i \in Ids : pkts'[i] = pkts[i]
           /\ pkts'[New] = p
           /\ Own' = IF p.out THEN Own \cup {New} ELSE Own
           /\ Own \subseteq Ids
<1>1. /\ pkts' \in Seq(Packets) /\ Len(pkts) \in Nat /\ Len(pkts') = New
      /\ Ids = 1 .. Len(pkts) /\ Ids' = 1 .. New
      /\ \A i \in Ids : pkts'[i] = pkts[i]
      /\ pkts'[New] = p
  <2>1. /\ Append(pkts, p) \in Seq(Packets)
        /\ Len(Append(pkts, p)) = Len(pkts) + 1
        /\ \A i \in 1 .. Len(pkts) : Append(pkts, p)[i] = pkts[i]
        /\ Append(pkts, p)[Len(pkts) + 1] = p
    BY AppendProperties
  <2>2. /\ Len(pkts) \in Nat /\ DOMAIN pkts = 1 .. Len(pkts)
        /\ DOMAIN Append(pkts, p) = 1 .. Len(pkts) + 1
    BY <2>1, LenProperties
  <2> QED BY <2>1, <2>2 DEF Ids, New
<1> QED BY <1>1 DEF Own

(***************************************************************************)
(* AddPacket is one of three things: a packet from which nothing is        *)
(* inferred, a retransmission, or one that is only stored.                 *)
(***************************************************************************)
LEMMA SendCases ==
    ASSUME NEW p, AddPacket(p)
    PROVE  \/ /\ RequiresAck(p)
              /\ \E sq, high : PushNew(p, sq, high) \/ PushRtx(p, sq, high)
           \/ AddOther(p)
BY DEF AddPacket, AddNewData, AddRtxData, AddFirstSyn, AddRtxSyn, RequiresAck

\* Whatever it is, the packet is stored last.
LEMMA SentIsStored ==
    ASSUME NEW p, AddPacket(p)
    PROVE  pkts' = Append(pkts, p)
<1>1. ASSUME NEW sq, NEW in_flight, NEW armed_rto, NEW armed_tlp, NEW tm,
             Push(p, sq, in_flight, armed_rto, armed_tlp, tm)
      PROVE  pkts' = Append(pkts, p)
  BY <1>1 DEF Push
<1>2. ASSUME NEW sq, NEW high, PushNew(p, sq, high)
      PROVE  pkts' = Append(pkts, p)
  BY <1>1, <1>2 DEF PushNew
<1>3. ASSUME NEW sq, NEW high, PushRtx(p, sq, high)
      PROVE  pkts' = Append(pkts, p)
  BY <1>1, <1>3 DEF PushRtx, PushTied
<1>4. CASE AddOther(p)
  BY <1>4 DEF AddOther
<1> QED BY <1>2, <1>3, <1>4, SendCases

\* A received packet joins the capture as well (it is what ProcessAck is called with).
LEMMA ReceivedIsStored ==
    ASSUME NEW a, ProcessOldAck(a) \/ ProcessNewAck(a)
    PROVE  pkts' = Append(pkts, a)
<1>1. NoteAck(a)
  BY Zenon DEF ProcessOldAck, ProcessNewAck
<1> QED BY <1>1 DEF NoteAck

\* The first packet of a capture is one that a capture may begin with.
FromStart(p) == pkts = << >> => \E s \in Opening : p.seq = s.seq

\* Packets are captured in the order of their time stamps.
InTime(p) == pkts = << >> \/ pkts[Len(pkts)].ts <= p.ts

(***************************************************************************)
(* A step of the endpoint handles one packet that it sent or received, no    *)
(* earlier than the ones before; it exists only from a packet on that it    *)
(* sent.                                                                   *)
(***************************************************************************)
LEMMA StepCases ==
    ASSUME pkts \in Seq(Packets), Next
    PROVE  \/ \E p \in OwnPackets : FromStart(p) /\ InTime(p) /\ AddPacket(p)
           \/ \E a \in Received : /\ pkts # << >> /\ InTime(a)
                                  /\ ProcessOldAck(a) \/ ProcessNewAck(a)
<1>1. \A p \in Packets : p.ts \in Nat
  BY DEF Packets, OwnPackets, Received, OwnPacket, AckPacket
<1>3. CASE Open
  <2> PICK s \in Opening : AddPacket(OwnPacket(s, 1))
    BY <1>3 DEF Open
  <2> OwnPacket(s, 1) \in OwnPackets
    BY InputAssumption DEF OwnPackets
  <2> FromStart(OwnPacket(s, 1)) /\ InTime(OwnPacket(s, 1))
    BY <1>3 DEF Open, FromStart, InTime, OwnPacket
  <2> QED OBVIOUS
<1>4. CASE pkts # << >> /\ \E gap \in Gaps :
             LET ts == pkts[Len(pkts)].ts + gap
             IN  \/ \E s \in Sends : AddPacket(OwnPacket(s, ts))
                 \/ \E a \in Acks : ProcessAck(AckPacket(a, ts))
  <2>1. pkts[Len(pkts)] \in Packets
    <3> Len(pkts) \in 1 .. Len(pkts)
      BY <1>4, EmptySeq, LenProperties
    <3> QED BY ElementOfSeq
  <2> PICK gap \in Gaps :
             LET ts == pkts[Len(pkts)].ts + gap
             IN  \/ \E s \in Sends : AddPacket(OwnPacket(s, ts))
                 \/ \E a \in Acks : ProcessAck(AckPacket(a, ts))
    BY <1>4
  <2> DEFINE ts == pkts[Len(pkts)].ts + gap
  <2>2. ts \in Nat /\ pkts[Len(pkts)].ts <= ts
    BY <1>1, <2>1, InputAssumption
  <2>3. CASE \E s \in Sends : AddPacket(OwnPacket(s, ts))
    <3> PICK s \in Sends : AddPacket(OwnPacket(s, ts))
      BY <2>3
    <3>1. OwnPacket(s, ts) \in OwnPackets
      BY <2>2 DEF OwnPackets
    <3>2. InTime(OwnPacket(s, ts))
      BY <2>2 DEF InTime, OwnPacket
    <3> QED BY <1>4, <3>1, <3>2 DEF FromStart
  <2>4. CASE \E a \in Acks : ProcessAck(AckPacket(a, ts))
    <3> PICK a \in Acks : ProcessAck(AckPacket(a, ts))
      BY <2>4
    <3>1. AckPacket(a, ts) \in Received
      BY <2>2 DEF Received
    <3>2. InTime(AckPacket(a, ts))
      BY <2>2 DEF InTime, AckPacket
    <3> QED BY <1>4, <3>1, <3>2 DEF ProcessAck
  <2> QED BY <2>3, <2>4
<1> QED BY <1>3, <1>4 DEF Next

-----------------------------------------------------------------------------
(***************************************************************************)
(* The state in which FindRtxTrigger works keeps its fields, and its probe  *)
(* timer is off or armed by the packet that armed the other one.            *)
(***************************************************************************)
Verdict(t) ==
    /\ {"rto", "tlp", "high"} \subseteq DOMAIN t
    /\ IsTimer(t.rto) /\ IsTimer(t.tlp)
    /\ t.tlp.armed_by \in {0, t.rto.armed_by}

\* A timer that ArmTimers sets is one, and armed by the packet it is given.
LEMMA Armed ==
    ASSUME NEW id, NEW tm, NEW backoffs, NEW delayed
    PROVE  /\ IsTimer(ArmedRTO(id, tm, backoffs)) /\ ArmedRTO(id, tm, backoffs).armed_by = id
           /\ IsTimer(ArmedTLP(id, tm, delayed)) /\ ArmedTLP(id, tm, delayed).armed_by = id
           /\ IsTimer(NoTimer) /\ NoTimer.armed_by = 0
BY DEF IsTimer, ArmedRTO, ArmedTLP, NoTimer

\* A matched timer keeps the packet that armed it.
LEMMA DelayReplaced ==
    ASSUME NEW x, IsTimer(x), NEW d
    PROVE  IsTimer([x EXCEPT !.delay = d]) /\ [x EXCEPT !.delay = d].armed_by = x.armed_by
BY DEF IsTimer

\* A matched probe changes neither timer's origin nor the recovery mark.
LEMMA TLPKeepsVerdict ==
    ASSUME NEW t, Verdict(t), NEW p, NEW sq
    PROVE  Verdict(CheckForTLP(t, p, sq)) /\ CheckForTLP(t, p, sq).high = t.high
<1> DEFINE u == CheckForTLP(t, p, sq)
           d == Elapsed(t.tlp, p)
<1>1. CASE u = t
  <2> HIDE DEF u
  <2>1. Verdict(u) /\ u.high = t.high
    BY <1>1
  <2> QED BY <2>1 DEF u
<1>2. CASE u # t
  <2> u = [t EXCEPT !.tlp.delay = d, !.mk[New] = @ \cup {"tlp"},
                    !.info.tlp = [t.tlp EXCEPT !.delay = d], !.found = TRUE]
    BY <1>2 DEF CheckForTLP
  <2>1. /\ DOMAIN u = DOMAIN t
        /\ u.rto = t.rto /\ u.high = t.high
        /\ u.tlp = [t.tlp EXCEPT !.delay = d]
    <3> HIDE DEF d
    <3> QED BY Zenon DEF Verdict
  <2>2. IsTimer(u.tlp) /\ u.tlp.armed_by = t.tlp.armed_by
    <3> HIDE DEF u, d
    <3> QED BY <2>1, DelayReplaced, Zenon DEF Verdict
  <2>3. DOMAIN u = DOMAIN t /\ u.rto = t.rto /\ u.high = t.high
    BY <2>1
  <2>4. Verdict(u) /\ u.high = t.high
    <3> HIDE DEF u
    <3> QED BY <2>2, <2>3 DEF Verdict
  <2> QED BY <2>4
<1> QED BY <1>1, <1>2

\* A timeout puts the recovery mark at the highest sequence sent.
LEMMA TiedKeepsVerdict ==
    ASSUME NEW t, Verdict(t), NEW p, NEW sq
    PROVE  Verdict(TieToRTO(t, p, sq)) /\ TieToRTO(t, p, sq).high = sq.next
<1> DEFINE u == TieToRTO(t, p, sq)
           fired == [t.rto EXCEPT !.delay = Elapsed(t.rto, p)]
<1>1. IsTimer(fired) /\ fired.armed_by = t.rto.armed_by
  BY DelayReplaced DEF Verdict
<1>2. /\ DOMAIN u = DOMAIN t
      /\ u.rto = fired /\ u.tlp = t.tlp /\ u.high = sq.next
  <2> HIDE DEF fired
  <2> QED BY Zenon DEF Verdict, TieToRTO, fired
<1>3. IsTimer(u.rto) /\ u.rto.armed_by = t.rto.armed_by
  <2> HIDE DEF u, fired
  <2> QED BY <1>1, <1>2
<1>4. Verdict(u) /\ u.high = sq.next
  <2> HIDE DEF u, fired
  <2> QED BY <1>2, <1>3 DEF Verdict
<1> QED BY <1>4

\* A timeout that is undone switches the mark off and arms both timers at once.
LEMMA UndoKeepsVerdict ==
    ASSUME NEW t, Verdict(t), NEW tm, NEW ids
    PROVE  Verdict(UndoRTO(t, tm, ids)) /\ UndoRTO(t, tm, ids).high = 0
<1> DEFINE u == UndoRTO(t, tm, ids)
<1>1. /\ DOMAIN u = DOMAIN t
      /\ u.rto = ArmedRTO(t.rto.armed_by, tm, 0)
      /\ u.tlp = ArmedTLP(t.rto.armed_by, tm, DelayedAck(ids, rtx, t.mk))
      /\ u.high = 0
  BY Zenon DEF Verdict, UndoRTO
<1>2. Verdict(u) /\ u.high = 0
  <2> HIDE DEF u
  <2> QED BY <1>1, Armed DEF Verdict
<1> QED BY <1>2

\* CheckForRTO as a whole: at most a verdict undone and another one found.
LEMMA RTOKeepsVerdict ==
    ASSUME NEW t, NEW p, NEW sq, NEW tm, NEW ids, Verdict(t)
    PROVE  /\ Verdict(CheckForRTO(t, p, sq, tm, ids))
           /\ CheckForRTO(t, p, sq, tm, ids).high \in {t.high, 0, sq.next}
<1> DEFINE undone == UndoRTO(t, tm, ids)
<1>1. Verdict(undone) /\ undone.high = 0
  BY UndoKeepsVerdict
<1>2. Verdict(TieToRTO(t, p, sq)) /\ TieToRTO(t, p, sq).high = sq.next
  BY TiedKeepsVerdict
<1>3. Verdict(TieToRTO(undone, p, sq)) /\ TieToRTO(undone, p, sq).high = sq.next
  BY <1>1, TiedKeepsVerdict
<1> HIDE DEF undone
<1>4. CheckForRTO(t, p, sq, tm, ids) \in
        {t, undone, TieToRTO(t, p, sq), TieToRTO(undone, p, sq)}
  BY DEF CheckForRTO, undone
<1> QED BY <1>1, <1>2, <1>3, <1>4

(***************************************************************************)
(* FindRtxTrigger leaves the probe timer off or beside the other one, and   *)
(* the recovery mark as it was, off, or at the highest sequence sent.       *)
(***************************************************************************)
LEMMA TriggerKeepsVerdict ==
    ASSUME NEW p, NEW sq, NEW high, NEW ties, NEW ids,
           IsTimer(rto), IsTimer(tlp), tlp.armed_by \in {0, rto.armed_by}
    PROVE  /\ Verdict(FindRtxTrigger(p, sq, high, ties, ids))
           /\ FindRtxTrigger(p, sq, high, ties, ids).high \in {high, 0, sq.next}
<1> DEFINE t0 == [rto |-> TiedRTO(ties), tlp |-> TiedTLP(ties), num_rtos |-> num_rtos,
                  high |-> high, enabled |-> is_tlp_enabled,
                  mk |-> Append(marks, {"rtx"}), found |-> FALSE,
                  info |-> [rto |-> NoTimer, tlp |-> NoTimer]]
           t1 == CheckForRTO(CheckForTLP(t0, p, sq), p, sq, ties.timer, ids)
           prompt == [t0 EXCEPT !.mk[New] = @ \cup {IF high # 0 THEN "slow_start" ELSE "fast"}]
           armed == [t1 EXCEPT !.rto = ArmedRTO(New, ties.timer, t1.num_rtos), !.tlp = NoTimer]
           t == FindRtxTrigger(p, sq, high, ties, ids)
<1>1. Verdict(t0) /\ t0.high = high
  <2>1. /\ IsTimer(TiedRTO(ties)) /\ IsTimer(TiedTLP(ties))
        /\ TiedTLP(ties).armed_by \in {0, TiedRTO(ties).armed_by}
    BY Armed DEF TiedRTO, TiedTLP
  <2> QED BY <2>1 DEF Verdict
<1>2. Verdict(prompt) /\ prompt.high = high
  <2>1. /\ DOMAIN prompt = DOMAIN t0
        /\ prompt.rto = t0.rto /\ prompt.tlp = t0.tlp /\ prompt.high = t0.high
    <3> HIDE DEF t0
    <3> QED BY <1>1, Zenon DEF Verdict
  <2> HIDE DEF prompt, t0
  <2> QED BY <1>1, <2>1 DEF Verdict
<1>3. Verdict(t1) /\ t1.high \in {high, 0, sq.next}
  <2> HIDE DEF t0
  <2>1. Verdict(CheckForTLP(t0, p, sq)) /\ CheckForTLP(t0, p, sq).high = high
    BY <1>1, TLPKeepsVerdict
  <2> QED BY <2>1, RTOKeepsVerdict
<1>4. Verdict(armed) /\ armed.high = t1.high
  <2>1. /\ DOMAIN armed = DOMAIN t1
        /\ armed.rto = ArmedRTO(New, ties.timer, t1.num_rtos)
        /\ armed.tlp = NoTimer /\ armed.high = t1.high
    <3> HIDE DEF t1
    <3> QED BY <1>3, Zenon DEF Verdict
  <2> HIDE DEF armed, t1
  <2> QED BY <1>3, <2>1, Armed DEF Verdict
<1>5. t \in {prompt, armed, t1}
  BY DEF FindRtxTrigger
<1>6. Verdict(t) /\ t.high \in {high, 0, sq.next}
  <2> HIDE DEF t, prompt, armed, t1
  <2> QED BY <1>2, <1>3, <1>4, <1>5
<1> QED BY <1>6

-----------------------------------------------------------------------------
\* The inductive invariant about the timers.
TimerInv ==
    /\ pkts \in Seq(Packets)
    /\ IsTimer(rto) /\ IsTimer(tlp)
    /\ TimersFollowUnacked

\* A packet that joins the ones in flight finds the timer running or starts it.
LEMMA PushTimers ==
    ASSUME pkts \in Seq(Packets),
           NEW p, NEW sq, NEW in_flight, NEW armed_rto, NEW armed_tlp, NEW tm,
           IsTimer(armed_rto), IsTimer(armed_tlp),
           armed_tlp.armed_by \in {0, armed_rto.armed_by},
           Push(p, sq, in_flight, armed_rto, armed_tlp, tm)
    PROVE  IsTimer(rto)' /\ IsTimer(tlp)' /\ TimersFollowUnacked'
<1>1. New # 0
  BY LenProperties DEF New
<1>2. unacked' # {}
  BY DEF Push
<1>3. CASE armed_rto.armed_by = 0
  <2> PICK backoffs, delayed : /\ rto' = ArmedRTO(New, tm, backoffs)
                               /\ tlp' = ArmedTLP(New, tm, delayed)
    BY <1>3 DEF Push
  <2> QED BY <1>1, <1>2, Armed DEF TimersFollowUnacked, IsTimer
<1>4. CASE armed_rto.armed_by # 0
  <2> rto' = armed_rto /\ tlp' = armed_tlp
    BY <1>4 DEF Push
  <2> QED BY <1>2, <1>4 DEF TimersFollowUnacked, IsTimer
<1> QED BY <1>3, <1>4

\* Every step keeps it: packets in flight and timers change together.
LEMMA TimerStep ==
    ASSUME TimerInv, [Next]_vars
    PROVE  TimerInv'
<1>1. CASE UNCHANGED vars
  BY <1>1 DEF TimerInv, TimersFollowUnacked, IsTimer, vars, timerVars
<1>2. ASSUME NEW p \in OwnPackets, AddPacket(p)
      PROVE  TimerInv'
  <2>1. pkts' \in Seq(Packets)
    <3> pkts' = Append(pkts, p)
      BY <1>2, SentIsStored
    <3> QED BY Captured DEF TimerInv, Packets
  <2>2. ASSUME NEW sq, NEW high, PushNew(p, sq, high)
        PROVE  TimerInv'
    <3> Push(p, sq, unacked, rto, tlp, timer)
      BY <2>2 DEF PushNew
    <3> IsTimer(rto)' /\ IsTimer(tlp)' /\ TimersFollowUnacked'
      BY PushTimers DEF TimerInv, TimersFollowUnacked
    <3> QED BY <2>1 DEF TimerInv
  <2>3. ASSUME NEW sq, NEW high, PushRtx(p, sq, high)
        PROVE  TimerInv'
    <3> DEFINE ties  == TiesOf(p, sq)
               still == { i \in unacked : ties.by[i] = 0 }
               t     == FindRtxTrigger(p, sq, high, ties, still)
    <3>1. Push(p, sq, still, t.rto, t.tlp, ties.timer)
      BY <2>3 DEF PushRtx, PushTied
    <3>2. IsTimer(t.rto) /\ IsTimer(t.tlp) /\ t.tlp.armed_by \in {0, t.rto.armed_by}
      BY TriggerKeepsVerdict DEF Verdict, TimerInv, TimersFollowUnacked
    <3>3. IsTimer(rto)' /\ IsTimer(tlp)' /\ TimersFollowUnacked'
      <4> HIDE DEF ties, still, t
      <4> QED BY <3>1, <3>2, PushTimers DEF TimerInv
    <3> QED BY <2>1, <3>3 DEF TimerInv
  <2>4. CASE AddOther(p)
    BY <2>1, <2>4 DEF AddOther, NoteNew, TimerInv, TimersFollowUnacked, IsTimer
  <2> QED BY <1>2, <2>2, <2>3, <2>4, SendCases
<1>3. ASSUME NEW a \in Received, ProcessOldAck(a) \/ ProcessNewAck(a)
      PROVE  TimerInv'
  <2>1. pkts' \in Seq(Packets) /\ New # 0
    <3> pkts' = Append(pkts, a)
      BY <1>3, ReceivedIsStored
    <3> QED BY Captured DEF TimerInv, Packets, New
  <2>2. CASE ProcessOldAck(a)
    BY <2>1, <2>2 DEF ProcessOldAck, TimerInv, TimersFollowUnacked, IsTimer
  <2>3. CASE ProcessNewAck(a)
    <3> DEFINE acked == AckedNow(a)
               still == unacked \ acked
    <3>1. PICK tm, delayed :
             /\ unacked' = still
             /\ rto' = AfterAck(still, acked, rto, ArmedRTO(New, tm, num_rtos))
             /\ tlp' = AfterAck(still, acked, tlp, ArmedTLP(New, tm, delayed))
      BY <2>3, Zenon DEF ProcessNewAck
    <3>2. acked = {} => still = unacked
      OBVIOUS
    <3> HIDE DEF acked, still
    <3> QED BY <2>1, <3>1, <3>2, Armed DEF AfterAck, TimerInv, TimersFollowUnacked, IsTimer
  <2> QED BY <1>3, <2>2, <2>3
<1> QED BY <1>1, <1>2, <1>3, StepCases DEF TimerInv

(***************************************************************************)
(* In every capture the retransmission timer runs exactly while packets are *)
(* in flight, and the probe timer only beside it.                          *)
(***************************************************************************)
THEOREM TimersFollow == Spec => []TimersFollowUnacked
<1>1. Init => TimerInv
  BY Armed, EmptySeq DEF Init, TimerInv, TimersFollowUnacked
<1>2. TimerInv => TimersFollowUnacked
  BY DEF TimerInv
<1> QED BY <1>1, <1>2, TimerStep, PTL DEF Spec

-----------------------------------------------------------------------------
\* The inductive invariant about ACKs: a packet in flight has none.
AckInv ==
    /\ pkts \in Seq(Packets)
    /\ unacked \subseteq Own
    /\ Entries(ack_packet)
    /\ \A i \in unacked : ack_packet[i] = 0
    /\ AckedOnce

\* One ACK for each packet, and for good.
AckKept == \A i \in Ids : ack_packet[i] # 0 => ack_packet'[i] = ack_packet[i]

(***************************************************************************)
(* How a step may treat ACKs: some packets in flight get one and leave, the *)
(* new packet joins them if it needs an ACK.                               *)
(***************************************************************************)
LEMMA AckPreserved ==
    ASSUME AckInv, NEW q \in Packets, pkts' = Append(pkts, q),
           NEW f, f = [i \in Ids |-> f[i]], ack_packet' = Append(f, 0),
           NEW still, still \subseteq unacked,
           \A i \in Ids : IF i \in unacked \ still THEN f[i] # 0 ELSE f[i] = ack_packet[i],
           unacked' = IF q.out /\ RequiresAck(q) THEN still \cup {New} ELSE still
    PROVE  AckInv' /\ AckKept
<1>1. /\ pkts' \in Seq(Packets) /\ Len(pkts) \in Nat /\ Len(pkts') = New
      /\ Ids = 1 .. Len(pkts) /\ Ids' = 1 .. New
      /\ \A i \in Ids : pkts'[i] = pkts[i]
      /\ pkts'[New] = q
      /\ Own' = IF q.out THEN Own \cup {New} ELSE Own
      /\ Own \subseteq Ids
  BY Captured DEF AckInv
<1>2. /\ ack_packet' = [i \in 1 .. Len(pkts) + 1 |-> ack_packet'[i]]
      /\ \A i \in Ids : ack_packet'[i] = f[i]
      /\ ack_packet'[New] = 0
  BY <1>1, AppendEntry DEF New
<1>3. Entries(ack_packet)'
  BY <1>1, <1>2 DEF Entries, New
<1>4. New \notin Ids /\ unacked \subseteq Ids
  BY <1>1 DEF New, AckInv
<1>5. unacked' \subseteq Own'
  BY <1>1 DEF AckInv
<1>6. \A i \in unacked' : ack_packet'[i] = 0
  BY <1>2, <1>4 DEF AckInv
<1>7. AckedOnce'
  <2> SUFFICES ASSUME NEW i \in Own', RequiresAck(pkts'[i])
               PROVE  i \in unacked' <=> ack_packet'[i] = 0
    BY DEF AckedOnce
  <2>1. CASE i = New
    <3> q.out
      BY <1>1, <1>4, <2>1
    <3> QED BY <1>1, <1>2, <2>1
  <2>2. CASE i # New
    <3>1. i \in Own /\ i \in Ids /\ RequiresAck(pkts[i])
      BY <1>1, <2>2
    <3>2. i \in unacked <=> ack_packet[i] = 0
      BY <3>1 DEF AckInv, AckedOnce
    <3> QED BY <1>2, <2>2, <3>1, <3>2
  <2> QED BY <2>1, <2>2
<1>8. AckKept
  BY <1>2 DEF AckKept, AckInv
<1> QED BY <1>1, <1>3, <1>5, <1>6, <1>7, <1>8 DEF AckInv

\* Every step keeps it and the ACKs found before.
LEMMA AckStep ==
    ASSUME AckInv, [Next]_vars
    PROVE  AckInv' /\ (AckKept \/ UNCHANGED ack_packet)
<1> USE DEF Entries
<1>1. CASE UNCHANGED vars
  BY <1>1 DEF AckInv, AckedOnce, Own, Ids, vars, linkVars
<1>2. ASSUME NEW p \in OwnPackets, AddPacket(p)
      PROVE  AckInv' /\ AckKept
  <2>1. /\ pkts' = Append(pkts, p) /\ p \in Packets /\ p.out
        /\ ack_packet = [i \in Ids |-> ack_packet[i]]
    BY <1>2, SentIsStored DEF AckInv, Packets, OwnPackets, OwnPacket
  <2>2. ASSUME NEW sq, NEW high, PushNew(p, sq, high), RequiresAck(p)
        PROVE  AckInv' /\ AckKept
    <3> ack_packet' = Append(ack_packet, 0) /\ unacked' = unacked \cup {New}
      BY <2>2 DEF PushNew, NoteNew, Push
    <3> QED BY <2>1, <2>2, AckPreserved
  <2>3. ASSUME NEW sq, NEW high, PushRtx(p, sq, high), RequiresAck(p)
        PROVE  AckInv' /\ AckKept
    <3> DEFINE by(i) == TiesOf(p, sq).by[i]
               still == { i \in unacked : by(i) = 0 }
               f == [i \in Ids |-> IF i \in unacked \ still THEN by(i) ELSE ack_packet[i]]
    <3>1. ack_packet' = Append(f, 0) /\ unacked' = still \cup {New}
      BY <2>3, Zenon DEF PushRtx, PushTied, Push
    <3>2. /\ still \subseteq unacked
          /\ f = [i \in Ids |-> f[i]]
          /\ \A i \in Ids : IF i \in unacked \ still THEN f[i] # 0 ELSE f[i] = ack_packet[i]
      <4> HIDE DEF by
      <4> QED OBVIOUS
    <3> HIDE DEF still, f
    <3> QED BY <2>1, <2>3, <3>1, <3>2, AckPreserved, ZenonT(40)
  <2>4. CASE AddOther(p)
    <3> /\ ack_packet' = Append(ack_packet, 0) /\ unacked' = unacked
        /\ ~RequiresAck(p)
      BY <2>4 DEF AddOther, NoteNew
    <3> QED BY <2>1, AckPreserved
  <2> QED BY <1>2, <2>2, <2>3, <2>4, SendCases
<1>3. ASSUME NEW a \in Received, ProcessOldAck(a) \/ ProcessNewAck(a)
      PROVE  AckInv' /\ AckKept
  <2>1. /\ pkts' = Append(pkts, a) /\ a \in Packets /\ ~a.out
        /\ ack_packet = [i \in Ids |-> ack_packet[i]]
    <3> pkts' = Append(pkts, a)
      BY <1>3, ReceivedIsStored
    <3> QED BY DEF AckInv, Packets, Received, AckPacket
  <2>2. CASE ProcessOldAck(a)
    <3> ack_packet' = Append(ack_packet, 0) /\ unacked' = unacked
      BY <2>2 DEF ProcessOldAck
    <3> QED BY <2>1, AckPreserved
  <2>3. CASE ProcessNewAck(a)
    <3> DEFINE acked == AckedNow(a)
               still == unacked \ acked
               f == [i \in Ids |-> IF i \in acked THEN New ELSE ack_packet[i]]
    <3>1. ack_packet' = Append(f, 0) /\ unacked' = still
      BY <2>3, Zenon DEF ProcessNewAck
    <3>2. New # 0 /\ acked \subseteq unacked
      BY Captured, <2>1 DEF AckedNow, AckInv, New
    <3>3. /\ still \subseteq unacked
          /\ f = [i \in Ids |-> f[i]]
          /\ \A i \in Ids : IF i \in unacked \ still THEN f[i] # 0 ELSE f[i] = ack_packet[i]
      BY <3>2
    <3> HIDE DEF still, f
    <3> QED BY <2>1, <3>1, <3>3, AckPreserved, ZenonT(40)
  <2> QED BY <1>3, <2>2, <2>3
<1> QED BY <1>1, <1>2, <1>3, StepCases DEF AckInv, vars, linkVars

\* Nothing is in flight at first.
LEMMA AckStart == Init => AckInv
<1> SUFFICES ASSUME Init PROVE AckInv
  OBVIOUS
<1>1. pkts \in Seq(Packets) /\ Ids = {} /\ Own = {} /\ unacked = {}
  BY EmptySeq DEF Init, Ids, Own
<1>2. ack_packet = [i \in Ids |-> ack_packet[i]]
  BY <1>1 DEF Init
<1> QED BY <1>1, <1>2 DEF AckInv, AckedOnce, Entries

(***************************************************************************)
(* A packet that needs an ACK is either in flight or has one.               *)
(***************************************************************************)
THEOREM AckedExactlyOnce == Spec => []AckedOnce
<1>1. Init => AckInv
  BY AckStart
<1>2. AckInv => AckedOnce
  BY DEF AckInv
<1>3. AckInv /\ [Next]_vars => AckInv'
  BY AckStep
<1> QED BY <1>1, <1>2, <1>3, PTL DEF Spec

(***************************************************************************)
(* No later ACK, tie or duplicate SACK replaces the ACK of a packet.        *)
(***************************************************************************)
THEOREM AcksAreFinal == Spec => AckIsFinal
<1>1. Init => AckInv
  BY AckStart
<1>2. AckInv /\ [Next]_vars =>
        /\ AckInv'
        /\ [\A i \in Ids : ack_packet[i] # 0 => ack_packet'[i] = ack_packet[i]]_vars
  BY AckStep DEF AckKept
<1> QED BY <1>1, <1>2, PTL DEF Spec, AckIsFinal

-----------------------------------------------------------------------------
(***************************************************************************)
(* The sequence numbers an endpoint keeps: the recovery mark and the number *)
(* of bytes acked, in sequence spaces of any size and across any number of   *)
(* wraps.  These proofs need captures that do not begin at number 0, which   *)
(* the code takes for "not found yet".                                     *)
(***************************************************************************)
OpensPastZero == \A s \in Opening : s.seq # 0

\* acked_bytes_ as a number of whole turns and a rest.
Turns ==
    \E k \in Nat : acked_bytes = k * SpaceSize + SeqMinus(seq_acked, seq_init)

\* The inductive invariant: the numbers are found with the first packet.
SequenceInv ==
    /\ pkts \in Seq(Packets)
    /\ seq_init \in SeqNum /\ seq_acked \in SeqNum
    /\ pkts = << >> => seq_init = 0 /\ seq_acked = 0 /\ rto_high_seq = 0
    /\ pkts # << >> => seq_init # 0
    /\ Turns
    /\ RecoveryMark

-----------------------------------------------------------------------------
\* What is left of whole turns and a rest is the rest.
LEMMA RestOfTurns ==
    ASSUME NEW n \in Nat \ {0}, NEW k \in Nat, NEW r \in 0 .. n - 1
    PROVE  (k * n + r) % n = r
OBVIOUS

\* Distances add up, but for a turn.
LEMMA Onward ==
    ASSUME NEW i \in SeqNum, NEW a \in SeqNum, NEW b \in SeqNum
    PROVE  \/ SeqMinus(a, i) + SeqMinus(b, a) = SeqMinus(b, i)
           \/ SeqMinus(a, i) + SeqMinus(b, a) = SeqMinus(b, i) + SpaceSize
BY SpaceSizeAssumption DEF SeqNum, SeqMinus

\* A distance is less than a turn.
LEMMA Distance ==
    ASSUME NEW i \in SeqNum, NEW a \in SeqNum
    PROVE  SeqMinus(a, i) \in SeqNum
BY SpaceSizeAssumption DEF SeqNum, SeqMinus

\* Sequence numbers that are not 0 are set once (SetInitialSequenceNumbers).
LEMMA NumbersFound ==
    ASSUME SequenceInv, OpensPastZero, NEW p \in OwnPackets, FromStart(p)
    PROVE  /\ Sequences(p).init \in SeqNum \ {0} /\ Sequences(p).acked \in SeqNum
           /\ SeqMinus(Sequences(p).acked, Sequences(p).init) = SeqMinus(seq_acked, seq_init)
           /\ rto_high_seq \in {0, Sequences(p).next}
<1>1. p.seq \in SeqNum
  BY InputAssumption DEF OwnPackets, OwnPacket
<1>2. CASE pkts = << >>
  <2>1. seq_init = 0 /\ seq_acked = 0 /\ rto_high_seq = 0 /\ p.seq # 0
    BY <1>2, InputAssumption DEF SequenceInv, FromStart, OpensPastZero
  <2>2. SeqMinus(p.seq, p.seq) = 0 /\ SeqMinus(0, 0) = 0
    BY <1>1 DEF SeqMinus, SeqNum
  <2> QED BY <1>1, <2>1, <2>2 DEF Sequences
<1>3. CASE pkts # << >>
  BY <1>3 DEF SequenceInv, Sequences, RecoveryMark
<1> QED BY <1>2, <1>3

\* The mark that a data packet leaves is at the new highest sequence.
LEMMA MarkWithData ==
    ASSUME NEW p, rto_high_seq \in {0, Sequences(p).next}
    PROVE  /\ WithData(p).init = Sequences(p).init
           /\ WithData(p).acked = Sequences(p).acked
           /\ HighWithData(p) \in {0, WithData(p).next}
<1>1. CASE Moved(p)
  <2>1. /\ WithData(p).init = Sequences(p).init
        /\ WithData(p).acked = Sequences(p).acked
        /\ WithData(p).next = SeqEnd(p)
    BY <1>1 DEF WithData, Sequences
  <2>2. HighWithData(p) = 0
    BY <1>1, <2>1 DEF HighWithData, Moved
  <2> QED BY <2>1, <2>2
<1>2. CASE ~Moved(p)
  BY <1>2 DEF WithData, HighWithData
<1> QED BY <1>1, <1>2

\* Transmitting counts no bytes and leaves the mark off or at the new highest
\* sequence, whatever explains a retransmission.
LEMMA SendKeepsNumbers ==
    ASSUME NEW p \in OwnPackets, AddPacket(p),
           IsTimer(rto), IsTimer(tlp), tlp.armed_by \in {0, rto.armed_by},
           rto_high_seq \in {0, Sequences(p).next}
    PROVE  /\ acked_bytes' = acked_bytes
           /\ seq_init' = Sequences(p).init /\ seq_acked' = Sequences(p).acked
           /\ rto_high_seq' \in {0, seq_next'}
<1> DEFINE Kept(sq) == /\ acked_bytes' = acked_bytes
                       /\ seq_init' = sq.init /\ seq_acked' = sq.acked
                       /\ rto_high_seq' \in {0, seq_next'}
<1>1. ASSUME NEW sq, NEW high, high \in {0, sq.next}, PushNew(p, sq, high)
      PROVE  Kept(sq)
  BY <1>1 DEF PushNew, Push
<1>2. ASSUME NEW sq, NEW high, high \in {0, sq.next}, PushRtx(p, sq, high)
      PROVE  Kept(sq)
  <2> DEFINE ties  == TiesOf(p, sq)
             still == { i \in unacked : ties.by[i] = 0 }
             t     == FindRtxTrigger(p, sq, high, ties, still)
  <2>1. rto_high_seq' = t.high /\ Push(p, sq, still, t.rto, t.tlp, ties.timer)
    BY <1>2, Zenon DEF PushRtx, PushTied
  <2>2. t.high \in {high, 0, sq.next}
    BY TriggerKeepsVerdict
  <2>3. /\ acked_bytes' = acked_bytes
        /\ seq_init' = sq.init /\ seq_acked' = sq.acked /\ seq_next' = sq.next
    BY <2>1 DEF Push
  <2> HIDE DEF ties, still, t
  <2> QED BY <1>2, <2>1, <2>2, <2>3
<1>3. CASE AddNewData(p) \/ AddRtxData(p)
  <2>1. /\ WithData(p).init = Sequences(p).init
        /\ WithData(p).acked = Sequences(p).acked
        /\ HighWithData(p) \in {0, WithData(p).next}
    BY MarkWithData
  <2>2. \/ PushNew(p, WithData(p), HighWithData(p))
        \/ PushRtx(p, WithData(p), HighWithData(p))
    BY <1>3 DEF AddNewData, AddRtxData
  <2>3. Kept(WithData(p))
    BY <1>1, <1>2, <2>1, <2>2
  <2> QED BY <2>1, <2>3
<1>4. CASE AddFirstSyn(p) \/ AddRtxSyn(p)
  <2>1. \/ PushNew(p, Sequences(p), rto_high_seq)
        \/ PushRtx(p, Sequences(p), rto_high_seq)
    BY <1>4 DEF AddFirstSyn, AddRtxSyn
  <2>2. Kept(Sequences(p))
    BY <1>1, <1>2, <2>1
  <2> QED BY <2>2
<1>5. CASE AddOther(p)
  BY <1>5 DEF AddOther
<1> QED BY <1>3, <1>4, <1>5 DEF AddPacket

\* Receiving moves the count and the ACK number by the same distance.
LEMMA AckKeepsNumbers ==
    ASSUME SequenceInv, NEW a \in Received, NoteAck(a)
    PROVE  seq_acked' \in SeqNum /\ Turns' /\ RecoveryMark'
<1>1. a.ack \in SeqNum
  BY InputAssumption DEF Received, AckPacket
<1>2. PICK k \in Nat : acked_bytes = k * SpaceSize + SeqMinus(seq_acked, seq_init)
  BY DEF SequenceInv, Turns
<1>3. RecoveryMark'
  BY DEF NoteAck, SequenceInv, RecoveryMark
<1>4. CASE AckMoved(a)
  <2>1. /\ acked_bytes' = acked_bytes + SeqMinus(a.ack, seq_acked)
        /\ seq_acked' = a.ack /\ seq_init' = seq_init
    BY <1>4 DEF NoteAck, AckedAfter
  <2>2. \/ SeqMinus(seq_acked, seq_init) + SeqMinus(a.ack, seq_acked)
             = SeqMinus(a.ack, seq_init)
        \/ SeqMinus(seq_acked, seq_init) + SeqMinus(a.ack, seq_acked)
             = SeqMinus(a.ack, seq_init) + SpaceSize
    BY <1>1, Onward DEF SequenceInv
  <2>3. /\ SeqMinus(seq_acked, seq_init) \in Nat /\ SeqMinus(a.ack, seq_acked) \in Nat
        /\ SeqMinus(a.ack, seq_init) \in Nat
    <3>1. /\ SeqMinus(seq_acked, seq_init) \in SeqNum
          /\ SeqMinus(a.ack, seq_acked) \in SeqNum
          /\ SeqMinus(a.ack, seq_init) \in SeqNum
      BY <1>1, Distance DEF SequenceInv
    <3>2. \A d \in SeqNum : d \in Nat
      BY DEF SeqNum
    <3> QED BY <3>1, <3>2
  <2>4. k * SpaceSize \in Nat /\ (k + 1) * SpaceSize = k * SpaceSize + SpaceSize
    BY SpaceSizeAssumption
  <2>5. \/ acked_bytes' = k * SpaceSize + SeqMinus(a.ack, seq_init)
        \/ acked_bytes' = (k + 1) * SpaceSize + SeqMinus(a.ack, seq_init)
    <3> DEFINE t == k * SpaceSize
               turned == (k + 1) * SpaceSize
    <3>1. /\ acked_bytes' = t + SeqMinus(seq_acked, seq_init) + SeqMinus(a.ack, seq_acked)
          /\ t \in Nat /\ turned = t + SpaceSize
      BY <1>2, <2>1, <2>4
    <3> HIDE DEF t, turned
    <3>2. \/ acked_bytes' = t + SeqMinus(a.ack, seq_init)
          \/ acked_bytes' = turned + SeqMinus(a.ack, seq_init)
      BY <2>2, <2>3, <3>1, SpaceSizeAssumption
    <3> QED BY <3>2 DEF t, turned
  <2> QED BY <1>1, <1>3, <2>1, <2>5 DEF Turns
<1>5. CASE ~AckMoved(a)
  BY <1>2, <1>3, <1>5 DEF NoteAck, AckedAfter, SequenceInv, Turns
<1> QED BY <1>4, <1>5

\* The sequence numbers stay consistent while the timers do.
LEMMA SequenceStep ==
    ASSUME SequenceInv, TimerInv, OpensPastZero, [Next]_vars
    PROVE  SequenceInv'
<1>1. CASE UNCHANGED vars
  BY <1>1 DEF SequenceInv, Turns, RecoveryMark, vars, seqVars, timerVars
<1>2. ASSUME NEW q \in Packets, pkts' = Append(pkts, q)
      PROVE  pkts' \in Seq(Packets) /\ pkts' # << >>
  <2>1. pkts' \in Seq(Packets) /\ Len(pkts') = New /\ New # 0
    BY <1>2, Captured DEF SequenceInv, New
  <2> QED BY <2>1, EmptySeq
<1>3. ASSUME NEW p \in OwnPackets, FromStart(p), AddPacket(p)
      PROVE  SequenceInv'
  <2>1. pkts' \in Seq(Packets) /\ pkts' # << >>
    BY <1>2, <1>3, SentIsStored DEF Packets
  <2>2. /\ Sequences(p).init \in SeqNum \ {0} /\ Sequences(p).acked \in SeqNum
        /\ SeqMinus(Sequences(p).acked, Sequences(p).init) = SeqMinus(seq_acked, seq_init)
        /\ rto_high_seq \in {0, Sequences(p).next}
    BY <1>3, NumbersFound
  <2>3. /\ acked_bytes' = acked_bytes
        /\ seq_init' = Sequences(p).init /\ seq_acked' = Sequences(p).acked
        /\ rto_high_seq' \in {0, seq_next'}
    BY <1>3, <2>2, SendKeepsNumbers DEF TimerInv, TimersFollowUnacked
  <2>4. Turns'
    BY <2>2, <2>3 DEF SequenceInv, Turns
  <2> QED BY <2>1, <2>2, <2>3, <2>4 DEF SequenceInv, RecoveryMark
<1>4. ASSUME NEW a \in Received, pkts # << >>, ProcessOldAck(a) \/ ProcessNewAck(a)
      PROVE  SequenceInv'
  <2>1. NoteAck(a)
    BY <1>4, Zenon DEF ProcessOldAck, ProcessNewAck
  <2>2. pkts' = Append(pkts, a) /\ seq_init' = seq_init
    BY <2>1 DEF NoteAck
  <2>3. pkts' \in Seq(Packets) /\ pkts' # << >>
    BY <1>2, <2>2 DEF Packets
  <2>4. seq_acked' \in SeqNum /\ Turns' /\ RecoveryMark'
    BY <2>1, AckKeepsNumbers
  <2> QED BY <1>4, <2>2, <2>3, <2>4 DEF SequenceInv
<1> QED BY <1>1, <1>3, <1>4, StepCases DEF SequenceInv

\* The invariants of the timers and of the numbers hold from the start.
LEMMA SequenceStart == Init => SequenceInv /\ TimerInv
<1> SUFFICES ASSUME Init PROVE SequenceInv /\ TimerInv
  OBVIOUS
<1>1. TimerInv
  BY Armed, EmptySeq DEF Init, TimerInv, TimersFollowUnacked
<1>2. 0 \in SeqNum /\ SeqMinus(0, 0) = 0 /\ 0 = 0 * SpaceSize + 0
  BY SpaceSizeAssumption DEF SeqNum, SeqMinus
<1>3. Turns
  BY <1>2 DEF Init, Turns
<1> QED BY <1>1, <1>2, <1>3, EmptySeq DEF Init, SequenceInv, RecoveryMark

(***************************************************************************)
(* In a capture that does not begin at 0, the recovery mark is off or at    *)
(* the highest sequence sent, after timeouts that were undone, too.         *)
(***************************************************************************)
THEOREM MarkFollowsData ==
    ASSUME OpensPastZero
    PROVE  Spec => []RecoveryMark
<1>1. SequenceInv => RecoveryMark
  BY DEF SequenceInv
<1>2. SequenceInv /\ TimerInv /\ [Next]_vars => SequenceInv' /\ TimerInv'
  BY SequenceStep, TimerStep
<1> QED BY <1>1, <1>2, SequenceStart, PTL DEF Spec

(***************************************************************************)
(* In such a capture acked_bytes_ is the distance the ACK number has gone,  *)
(* however often it wrapped around.                                        *)
(***************************************************************************)
THEOREM BytesAreCounted ==
    ASSUME OpensPastZero
    PROVE  Spec => []BytesCounted
<1>1. SequenceInv => BytesCounted
  <2> SUFFICES ASSUME SequenceInv PROVE BytesCounted
    OBVIOUS
  <2>1. PICK k \in Nat : acked_bytes = k * SpaceSize + SeqMinus(seq_acked, seq_init)
    BY DEF SequenceInv, Turns
  <2>2. SeqMinus(seq_acked, seq_init) \in 0 .. SpaceSize - 1
    BY Distance DEF SequenceInv, SeqNum
  <2> QED BY <2>1, <2>2, RestOfTurns, SpaceSizeAssumption DEF BytesCounted
<1>2. SequenceInv /\ TimerInv /\ [Next]_vars => SequenceInv' /\ TimerInv'
  BY SequenceStep, TimerStep
<1> QED BY <1>1, <1>2, SequenceStart, PTL DEF Spec

-----------------------------------------------------------------------------
(***************************************************************************)
(* The lines of transmissions: data may be retransmitted whole, in part or  *)
(* beyond its end, any number of times, and the links between the            *)
(* transmissions stay consistent.                                          *)
(***************************************************************************)
\* What a packet repeats, and where the links of the capture lead.
Repeated(i, prev) ==
    \/ pkts[i].seq = pkts[prev].seq
    \/ Between(pkts[i].seq, pkts[prev].seq, SeqEnd(pkts[prev]))

\* The inductive invariant: LinesOK, and links that stay within the capture and its
\* own packets.
LinesInv ==
    /\ pkts \in Seq(Packets)
    /\ Entries(previous_tx) /\ Entries(first_tx) /\ Entries(rtx)
    /\ \A i \in Ids : /\ previous_tx[i] \in Nat /\ rtx[i] \in 0 .. Len(pkts)
                      /\ previous_tx[i] # 0 => i \in Own
    /\ LinesOK

(***************************************************************************)
(* A new packet that repeats an earlier one of its line, or starts a line.  *)
(***************************************************************************)
LEMMA LinePreserved ==
    ASSUME LinesInv, NEW q \in Packets, pkts' = Append(pkts, q),
           NEW prev \in {0} \cup Own, prev # 0 => q.out,
           prev # 0 => \/ q.seq = pkts[prev].seq
                       \/ Between(q.seq, pkts[prev].seq, SeqEnd(pkts[prev])),
           NEW links, links = [i \in Ids |-> links[i]],
           \A i \in Ids : links[i] = IF i = prev THEN New ELSE rtx[i],
           previous_tx' = Append(previous_tx, prev),
           first_tx' = Append(first_tx, IF prev = 0 THEN New ELSE first_tx[prev]),
           rtx' = Append(links, 0)
    PROVE  LinesInv'
<1>1. /\ pkts' \in Seq(Packets) /\ Len(pkts) \in Nat /\ Len(pkts') = New
      /\ Ids = 1 .. Len(pkts) /\ Ids' = 1 .. New
      /\ \A i \in Ids : pkts'[i] = pkts[i]
      /\ pkts'[New] = q
      /\ Own' = IF q.out THEN Own \cup {New} ELSE Own
      /\ Own \subseteq Ids
  BY Captured DEF LinesInv
<1>2. New = Len(pkts) + 1 /\ New \notin Ids /\ Ids' = Ids \cup {New} /\ New # 0
  BY <1>1 DEF New
<1>3. /\ Entries(previous_tx)'
      /\ \A i \in Ids : previous_tx'[i] = previous_tx[i]
      /\ previous_tx'[New] = prev
  BY <1>1, <1>2, AppendEntry DEF LinesInv, Entries
<1>4. /\ Entries(first_tx)'
      /\ \A i \in Ids : first_tx'[i] = first_tx[i]
      /\ first_tx'[New] = IF prev = 0 THEN New ELSE first_tx[prev]
  BY <1>1, <1>2, AppendEntry DEF LinesInv, Entries
<1>5. /\ Entries(rtx)'
      /\ \A i \in Ids : rtx'[i] = links[i]
      /\ rtx'[New] = 0
  BY <1>1, <1>2, AppendEntry DEF Entries
<1>A. prev \in Nat /\ (prev # 0 => prev \in Ids) /\ New \in Nat
  BY <1>1, <1>2
<1>C. Len(pkts') = New /\ Len(pkts) = New - 1
  BY <1>1, <1>2
<1>B. \A i \in Ids : i \in Nat /\ i < New
  BY <1>1, <1>2
<1>6. ASSUME NEW i \in Ids'
      PROVE  /\ previous_tx'[i] \in Nat /\ rtx'[i] \in 0 .. Len(pkts')
             /\ previous_tx'[i] # 0 => i \in Own'
  <2>1. 0 \in 0 .. New /\ New \in 0 .. New /\ \A x \in 0 .. Len(pkts) : x \in 0 .. New
    BY <1>1, <1>2
  <2>2. CASE i = New
    <3>1. previous_tx'[i] \in Nat
      BY <1>3, <1>A, <2>2
    <3>2. rtx'[i] \in 0 .. New
      BY <1>5, <2>1, <2>2, Zenon
    <3>3. previous_tx'[i] # 0 => i \in Own'
      BY <1>1, <1>3, <2>2
    <3> QED BY <1>C, <3>1, <3>2, <3>3
  <2>3. CASE i \in Ids
    <3>1. previous_tx'[i] \in Nat
      BY <1>3, <2>3 DEF LinesInv
    <3>2. rtx[i] \in 0 .. Len(pkts) /\ rtx'[i] = IF i = prev THEN New ELSE rtx[i]
      BY <1>5, <2>3 DEF LinesInv
    <3>3. rtx'[i] \in 0 .. New
      BY <2>1, <3>2, Zenon
    <3>4. previous_tx'[i] # 0 => i \in Own'
      BY <1>1, <1>3, <2>3 DEF LinesInv
    <3> QED BY <1>C, <3>1, <3>3, <3>4
  <2> QED BY <1>2, <2>2, <2>3
<1>7. ASSUME NEW i \in Ids', previous_tx'[i] # 0
      PROVE  /\ previous_tx'[i] < i /\ previous_tx'[i] \in Own'
             /\ Repeated(i, previous_tx[i])'
             /\ first_tx'[i] = first_tx'[previous_tx'[i]]
             /\ rtx'[previous_tx'[i]] >= i
  <2>1. CASE i = New
    <3>1. previous_tx'[i] = prev /\ prev # 0 /\ prev \in Own /\ prev \in Ids
      BY <1>1, <1>3, <1>7, <2>1
    <3>2. prev < i /\ prev \in Own'
      BY <1>1, <1>B, <2>1, <3>1
    <3>3. Repeated(i, previous_tx[i])'
      BY <1>1, <2>1, <3>1 DEF Repeated
    <3>4. first_tx'[i] = first_tx'[prev]
      BY <1>4, <2>1, <3>1
    <3>5. rtx'[prev] = New /\ New >= i
      BY <1>5, <1>A, <2>1, <3>1
    <3> QED BY <3>1, <3>2, <3>3, <3>4, <3>5
  <2>2. CASE i # New
    <3>1. i \in Ids /\ previous_tx'[i] = previous_tx[i]
      BY <1>2, <1>3, <2>2
    <3>2. /\ previous_tx[i] < i /\ previous_tx[i] \in Own
          /\ Repeated(i, previous_tx[i])
          /\ first_tx[i] = first_tx[previous_tx[i]]
          /\ rtx[previous_tx[i]] >= i
      BY <1>7, <3>1 DEF LinesInv, LinesOK, Repeated
    <3>3. /\ previous_tx'[i] < i /\ previous_tx'[i] \in Own'
          /\ first_tx'[i] = first_tx'[previous_tx'[i]]
      <4>1. previous_tx[i] \in Ids
        BY <1>1, <3>2
      <4>2. previous_tx[i] \in Own'
        BY <1>1, <3>2
      <4>3. first_tx'[previous_tx[i]] = first_tx[previous_tx[i]] /\ first_tx'[i] = first_tx[i]
        BY <1>4, <3>1, <4>1
      <4> QED BY ONLY <3>1, <3>2, <4>2, <4>3
    <3>4. Repeated(i, previous_tx[i])'
      BY <1>1, <3>1, <3>2 DEF Repeated
    <3>5. rtx'[previous_tx'[i]] >= i
      <4>1. previous_tx[i] \in Ids
        BY <1>1, <3>2
      <4>2. rtx'[previous_tx[i]] = New \/ rtx'[previous_tx[i]] = rtx[previous_tx[i]]
        BY <1>5, <4>1
      <4>3. New >= i
        BY <1>A, <1>B, <3>1
      <4> QED BY <3>1, <3>2, <4>2, <4>3
    <3> QED BY <3>3, <3>4, <3>5
  <2> QED BY <2>1, <2>2
<1>8. \A i \in Ids' : previous_tx'[i] = 0 => first_tx'[i] = i
  <2>1. \A i \in Ids : previous_tx[i] = 0 => first_tx[i] = i
    BY DEF LinesInv, LinesOK
  <2>2. previous_tx'[New] = 0 => first_tx'[New] = New
    BY <1>3, <1>4
  <2> QED BY <1>2, <1>3, <1>4, <2>1, <2>2, ZenonT(40)
<1>9. ASSUME NEW i \in Ids', rtx'[i] # 0
      PROVE  rtx'[i] > i /\ previous_tx'[rtx'[i]] = i
  <2>1. i \in Ids /\ rtx'[i] = IF i = prev THEN New ELSE rtx[i]
    BY <1>2, <1>5, <1>9
  <2>2. CASE i = prev
    <3> rtx'[i] = New /\ New > i
      BY <1>A, <1>B, <2>1, <2>2
    <3> QED BY <1>3, <2>2
  <2>3. CASE i # prev
    <3> rtx[i] \in Ids /\ rtx[i] > i /\ previous_tx[rtx[i]] = i
      BY <1>1, <1>9, <2>1, <2>3 DEF LinesInv, LinesOK
    <3> QED BY <1>3, <2>1, <2>3, ZenonT(40)
  <2> QED BY <2>2, <2>3
<1>10. LinesOK'
  BY <1>7, <1>8, <1>9 DEF LinesOK, Repeated
<1> QED BY <1>1, <1>3, <1>4, <1>5, <1>6, <1>10 DEF LinesInv

\* Every step keeps them: only a retransmission gets a link, to the latest packet
\* with its first byte.
LEMMA LineStep ==
    ASSUME LinesInv, [Next]_vars
    PROVE  LinesInv'
<1>1. CASE UNCHANGED vars
  BY <1>1 DEF LinesInv, LinesOK, Entries, Own, Ids, vars, linkVars
<1>2. ASSUME NEW q \in Packets, pkts' = Append(pkts, q),
             previous_tx' = Append(previous_tx, 0), first_tx' = Append(first_tx, New),
             rtx' = Append(rtx, 0)
      PROVE  LinesInv'
  <2>1. rtx = [i \in Ids |-> rtx[i]]
    BY DEF LinesInv, Entries
  <2>2. \A i \in Ids : rtx[i] = IF i = 0 THEN New ELSE rtx[i]
    BY Captured, <1>2 DEF LinesInv
  <2> QED BY <1>2, <2>1, <2>2, LinePreserved
<1>3. ASSUME NEW p \in OwnPackets, AddPacket(p)
      PROVE  LinesInv'
  <2>1. pkts' = Append(pkts, p) /\ p \in Packets
    BY <1>3, SentIsStored DEF Packets
  <2>2. ASSUME NEW sq, NEW high, PushNew(p, sq, high)
        PROVE  LinesInv'
    BY <1>2, <2>1, <2>2 DEF PushNew, NoteNew
  <2>3. ASSUME NEW sq, NEW high, PushRtx(p, sq, high)
        PROVE  LinesInv'
    <3> DEFINE prev == PreviousTx(p)
               links == [i \in Ids |-> IF i = prev THEN New ELSE rtx[i]]
               S == {0} \cup { i \in Own : \/ p.seq = pkts[i].seq
                                           \/ Between(p.seq, pkts[i].seq, SeqEnd(pkts[i])) }
    <3>1. /\ previous_tx' = Append(previous_tx, prev)
          /\ first_tx' = Append(first_tx, IF prev = 0 THEN New ELSE first_tx[prev])
          /\ rtx' = Append(links, 0)
      BY <2>3, Zenon DEF PushRtx, PushTied
    <3>2. prev \in S
      <4>1. Len(pkts) \in Nat /\ S \subseteq 0 .. Len(pkts) /\ S # {}
        BY Captured, <2>1 DEF LinesInv
      <4>2. Max(S) \in S
        <5> HIDE DEF S
        <5> QED BY <4>1, MaxIsLast
      <4> QED BY <4>2 DEF PreviousTx
    <3>3. /\ prev \in {0} \cup Own
          /\ prev # 0 => \/ p.seq = pkts[prev].seq
                         \/ Between(p.seq, pkts[prev].seq, SeqEnd(pkts[prev]))
      <4> HIDE DEF prev
      <4> QED BY <3>2
    <3>4. /\ links = [i \in Ids |-> links[i]]
          /\ \A i \in Ids : links[i] = IF i = prev THEN New ELSE rtx[i]
      <4> HIDE DEF prev
      <4> QED OBVIOUS
    <3>5. p.out
      BY DEF OwnPackets, OwnPacket
    <3> HIDE DEF prev, links, S
    <3> QED BY <2>1, <3>1, <3>3, <3>4, <3>5, LinePreserved
  <2>4. CASE AddOther(p)
    BY <1>2, <2>1, <2>4 DEF AddOther, NoteNew
  <2> QED BY <1>3, <2>2, <2>3, <2>4, SendCases
<1>4. ASSUME NEW a \in Received, ProcessOldAck(a) \/ ProcessNewAck(a)
      PROVE  LinesInv'
  <2> NoteAck(a)
    BY <1>4, Zenon DEF ProcessOldAck, ProcessNewAck
  <2> a \in Packets
    BY DEF Packets
  <2> QED BY <1>2 DEF NoteAck
<1> QED BY <1>1, <1>3, <1>4, StepCases DEF LinesInv

\* There are no lines at first.
LEMMA LinesStart == Init => LinesInv
<1> SUFFICES ASSUME Init PROVE LinesInv
  OBVIOUS
<1>1. pkts \in Seq(Packets) /\ Ids = {}
  BY EmptySeq DEF Init, Ids
<1>2. Entries(previous_tx) /\ Entries(first_tx) /\ Entries(rtx)
  BY <1>1 DEF Init, Entries
<1> QED BY <1>1, <1>2 DEF LinesInv, LinesOK

(***************************************************************************)
(* Every capture's lines are consistent: a retransmission repeats a byte    *)
(* that was sent before in the same line, and rtx() of a packet is the      *)
(* latest transmission that repeats it.                                    *)
(***************************************************************************)
THEOREM LinesConsistent == Spec => []LinesOK
<1>1. Init => LinesInv
  BY LinesStart
<1>2. LinesInv => LinesOK
  BY DEF LinesInv
<1>3. LinesInv /\ [Next]_vars => LinesInv'
  BY LineStep
<1> QED BY <1>1, <1>2, <1>3, PTL DEF Spec

-----------------------------------------------------------------------------
(***************************************************************************)
(* What the endpoint infers: which lookalike saw a packet, which packet      *)
(* triggered an ACK, which timer made the sender retransmit, how short the   *)
(* path is.  The proofs rest on what the loops over packets in flight and    *)
(* over SACK blocks make of the endpoint's state, round by round            *)
(* (CaptureLemmas).                                                         *)
(***************************************************************************)
\* The loops: the ties of the packets in flight, the estimates from the packets
\* that an ACK covers, the duplicates that its SACK blocks report.
TieRound(c, i, ties) == TieStep(ties, i, c[1], c[2])
TieWalk == INSTANCE Walks WITH Step <- TieRound

LEMMA TieOneMore == TieWalk!OneMoreSuffices
BY OneMoreAtTheEnd DEF TieWalk!OneMoreSuffices

EstimateRound(a, i, est) == Estimate(est, i, a)
EstimateWalk == INSTANCE Walks WITH Step <- EstimateRound

LEMMA EstimateOneMore == EstimateWalk!OneMoreSuffices
BY OneMoreAtTheEnd DEF EstimateWalk!OneMoreSuffices

DSackRound(a, k, mk) ==
    LET b == BlocksOf(a)[k]
    IN  IF Before(b.start, a.ack) /\ ~After(b.end, a.ack) /\ Spurious(mk, b) # 0
        THEN [mk EXCEPT ![Spurious(mk, b)] = @ \cup {"spurious"}] ELSE mk
DSackWalk == INSTANCE Walks WITH Step <- DSackRound

LEMMA DSackOneMore == DSackWalk!OneMoreSuffices
BY OneMoreAtTheEnd DEF DSackWalk!OneMoreSuffices

\* The walk of the packets in flight (CheckForSacksFromLookalikes).
LEMMA TiesAreAWalk ==
    ASSUME NEW n \in Nat, unacked \subseteq 0 .. n, lookalikes # {}, NEW p, NEW sq
    PROVE  \E g : /\ TieWalk!IsWalk(g, <<p, sq>>, NoTies, unacked)
                  /\ TiesOf(p, sq) = g[unacked]
<1> DEFINE S == unacked
           c == <<p, sq>>
           G(g) == g = [s \in SUBSET S |-> IF s = {} THEN NoTies
                          ELSE TieRound(c, Max(s), g[s \ {Max(s)}])]
           G2(g) == g = [s \in SUBSET S |-> IF s = {} THEN NoTies
                          ELSE TieStep(g[s \ {Max(s)}], Max(s), p, sq)]
           h == CHOOSE g : G2(g)
<1>1. S \subseteq 0 .. n
  OBVIOUS
<1>0. c[1] = p /\ c[2] = sq
  OBVIOUS
<1>2. PICK f : TieWalk!IsWalk(f, c, NoTies, S)
  <2> HIDE DEF S, c
  <2> QED BY <1>1, TieOneMore, TieWalk!WalkExists
<1>3. G(f)
  <2> HIDE DEF S, c
  <2> QED BY <1>1, <1>2, LastOfEach DEF TieWalk!IsWalk
<1>4. G2(h)
  <2> HIDE DEF c
  <2>1. \A g : G(g) <=> G2(g)
    BY <1>0 DEF TieRound
  <2> HIDE DEF G, G2
  <2>2. G2(f)
    BY <1>3, <2>1
  <2> QED BY <2>2
<1>5. TiesOf(p, sq) = h[S]
  BY Zenon DEF TiesOf, FoldInOrder, MapThenFoldSet
<1>6. G(h)
  <2> HIDE DEF c, h
  <2> QED BY <1>0, <1>4 DEF TieRound
<1>7. TieWalk!IsWalk(h, c, NoTies, S)
  <2> HIDE DEF S, h, c
  <2> QED BY <1>1, <1>6, LastOfEach DEF TieWalk!IsWalk
<1> QED BY <1>5, <1>7

\* The walk of the packets that an ACK covers (AckPackets, HandleAckedPacket).
LEMMA EstimatesAreAWalk ==
    ASSUME NEW n \in Nat, NEW S, S \subseteq 0 .. n, NEW a
    PROVE  \E g : /\ EstimateWalk!IsWalk(g, a, [min_rtt |-> min_rtt, timer |-> timer], S)
                  /\ EstimatesOf(a, S) = g[S]
<1> DEFINE start == [min_rtt |-> min_rtt, timer |-> timer]
           G(g) == g = [s \in SUBSET S |-> IF s = {} THEN start
                          ELSE EstimateRound(a, Max(s), g[s \ {Max(s)}])]
           h == CHOOSE g : G(g)
<1>2. PICK f : EstimateWalk!IsWalk(f, a, start, S)
  <2> HIDE DEF start
  <2> QED BY EstimateOneMore, EstimateWalk!WalkExists
<1>3. G(f)
  <2> HIDE DEF start
  <2> QED BY <1>2, LastOfEach DEF EstimateWalk!IsWalk
<1>4. G(h)
  <2> HIDE DEF G
  <2> QED BY <1>3
<1>5. EstimatesOf(a, S) = h[S]
  BY Zenon DEF EstimatesOf, FoldInOrder, MapThenFoldSet, EstimateRound
<1>6. EstimateWalk!IsWalk(h, a, start, S)
  <2> HIDE DEF h, start
  <2> QED BY <1>4, LastOfEach DEF EstimateWalk!IsWalk
<1> QED BY <1>5, <1>6

\* The walk of the SACK blocks of an ACK (DSackPackets).
LEMMA DSacksAreAWalk ==
    ASSUME NEW a, NEW n \in Nat, DOMAIN BlocksOf(a) = 1 .. n, NEW mk
    PROVE  \E g : /\ DSackWalk!IsWalk(g, a, mk, 1 .. n)
                  /\ WithDSacks(mk, a) = g[1 .. n]
<1> DEFINE S == DOMAIN BlocksOf(a)
           G(g) == g = [s \in SUBSET S |-> IF s = {} THEN mk
                          ELSE DSackRound(a, Max(s), g[s \ {Max(s)}])]
           h == CHOOSE g : G(g)
<1>1. S \subseteq 0 .. n
  OBVIOUS
<1>2. PICK f : DSackWalk!IsWalk(f, a, mk, S)
  <2> HIDE DEF S
  <2> QED BY <1>1, DSackOneMore, DSackWalk!WalkExists
<1>3. G(f)
  <2> HIDE DEF S
  <2> QED BY <1>1, <1>2, LastOfEach DEF DSackWalk!IsWalk
<1>4. G(h)
  <2> HIDE DEF G
  <2> QED BY <1>3
<1>5. WithDSacks(mk, a) = h[S]
  BY Zenon DEF WithDSacks, FoldLeft, MapThenFoldSet, DSackRound
<1>6. DSackWalk!IsWalk(h, a, mk, S)
  <2> HIDE DEF S, h
  <2> QED BY <1>1, <1>4, LastOfEach DEF DSackWalk!IsWalk
<1> QED BY <1>5, <1>6

-----------------------------------------------------------------------------
\* Packets are captured in the order of their time stamps.
TimeOrdered == \A i \in Ids : \A j \in Ids : i <= j => pkts[i].ts <= pkts[j].ts

\* What all that follows needs to know of the capture: what waits for an ACK was
\* sent, what may have acked it was received.
CaptureInv ==
    /\ pkts \in Seq(Packets)
    /\ TimeOrdered
    /\ unacked \subseteq Own
    /\ lookalikes \subseteq Ids \ Own
    /\ last_ack_with_trigger \in {0} \cup (Ids \ Own)
    /\ min_rtt \in Nat

\* Positions and times are numbers.
LEMMA CaptureTypes ==
    ASSUME pkts \in Seq(Packets)
    PROVE  /\ Len(pkts) \in Nat /\ Ids = 1 .. Len(pkts) /\ Own \subseteq Ids
           /\ Ids \subseteq 0 .. Len(pkts)
           /\ \A i \in Ids : i \in Nat /\ i # 0 /\ pkts[i].ts \in Nat /\ pkts[i] \in Packets
<1>1. Len(pkts) \in Nat /\ Ids = 1 .. Len(pkts)
  BY LenProperties DEF Ids
<1>2. \A i \in Ids : pkts[i] \in Packets
  BY <1>1, ElementOfSeq
<1>3. \A p \in Packets : p.ts \in Nat
  BY DEF Packets, OwnPackets, Received, OwnPacket, AckPacket
<1> QED BY <1>1, <1>2, <1>3 DEF Own

-----------------------------------------------------------------------------
(***************************************************************************)
(* The smallest of a set of delays; 0 stands for none.                      *)
(***************************************************************************)
LeastOf(r, D) == IF D = {} THEN r = 0 ELSE r \in D /\ \A d \in D : r <= d

\* One more delay.
LEMMA OneMoreDelay ==
    ASSUME NEW D, D \subseteq Nat \ {0}, NEW r, LeastOf(r, D), NEW i, NEW d \in Nat \ {0}
    PROVE  /\ previous_tx[i] = 0 => LeastOf(LowerMinRTT(r, i, d), D \cup {d})
           /\ previous_tx[i] # 0 => LowerMinRTT(r, i, d) = r
<1>1. ASSUME previous_tx[i] = 0
      PROVE  LeastOf(LowerMinRTT(r, i, d), D \cup {d})
  <2>1. CASE D = {}
    BY <1>1, <2>1 DEF LeastOf, LowerMinRTT
  <2>2. CASE D # {}
    <3>1. r \in D /\ r # 0 /\ r \in Nat /\ \A e \in D : r <= e /\ e \in Nat
      BY <2>2 DEF LeastOf
    <3>2. CASE d < r
      <4> LowerMinRTT(r, i, d) = d /\ \A e \in D : d <= e
        BY <1>1, <3>1, <3>2 DEF LowerMinRTT
      <4> QED BY DEF LeastOf
    <3>3. CASE ~(d < r)
      <4> LowerMinRTT(r, i, d) = r /\ r <= d
        BY <3>1, <3>3 DEF LowerMinRTT
      <4> QED BY <3>1 DEF LeastOf
    <3> QED BY <3>2, <3>3
  <2> QED BY <2>1, <2>2
<1> QED BY <1>1 DEF LowerMinRTT

\* The delays that an earlier minimum stands for.
LEMMA EarlierDelays ==
    ASSUME NEW D, D \subseteq Nat \ {0}, NEW m, LeastOf(m, D),
           NEW E, E \subseteq Nat, NEW r, LeastOf(r, ({m} \ {0}) \cup E)
    PROVE  LeastOf(r, D \cup E)
<1>1. CASE D = {}
  <2> D \cup E = ({m} \ {0}) \cup E
    BY <1>1 DEF LeastOf
  <2> QED OBVIOUS
<1>2. CASE D # {}
  <2>1. m \in D /\ m # 0 /\ m \in Nat /\ \A d \in D : m <= d /\ d \in Nat
    BY <1>2 DEF LeastOf
  <2>2. /\ r \in {m} \cup E /\ r \in Nat
        /\ \A d \in {m} \cup E : r <= d
    BY <2>1 DEF LeastOf
  <2>3. \A d \in D : r <= d
    BY <2>1, <2>2
  <2> QED BY <2>1, <2>2, <2>3 DEF LeastOf
<1> QED BY <1>1, <1>2

-----------------------------------------------------------------------------
\* The delays of the packets tied so far.
TiedDelays(t) ==
    { pkts[t.by[i]].ts - pkts[i].ts : i \in { j \in unacked : t.by[j] # 0 } }

(***************************************************************************)
(* What the ties to lookalikes may have come to when the packets of s were  *)
(* looked at: originals only, each tied to a lookalike captured later; what *)
(* became of the latest ACK, of the packet that armed the timers and of the *)
(* smallest delay goes back to lookalikes and ties as well.                 *)
(***************************************************************************)
TiesOK(s, t) ==
    /\ DOMAIN t = DOMAIN NoTies
    /\ t.queue \subseteq lookalikes
    /\ t.by = [i \in unacked |-> t.by[i]]
    /\ \A i \in unacked : t.by[i] # 0 =>
          /\ i \in s /\ previous_tx[i] = 0
          /\ t.by[i] \in lookalikes /\ pkts[i].ts < pkts[t.by[i]].ts
    /\ t.last \in {last_ack_with_trigger} \cup lookalikes
    /\ t.armer \in {0} \cup lookalikes
    /\ LeastOf(t.min_rtt, ({min_rtt} \ {0}) \cup TiedDelays(t))

\* What one tie changes.
TiedFields(u, t, i, a, sq) ==
    LET delay == pkts[a].ts - pkts[i].ts
        tm == Sampled(t.timer, i, delay, sq.acked, sq.next)
        left == { j \in unacked : t.by[j] = 0 }
    IN  /\ DOMAIN u = DOMAIN NoTies
        /\ u.queue = { q \in t.queue : q > a }
        /\ u.by = [t.by EXCEPT ![i] = a]
        /\ u.min_rtt = LowerMinRTT(t.min_rtt, i, delay)
        /\ u.last \in {a, t.last} /\ u.armer \in {a, t.armer}
        /\ u.sacks = Add(t.sacks, [start |-> pkts[i].seq, end |-> SeqEnd(pkts[i])])
        /\ u.timer = tm /\ u.armed_with \in {tm, t.armed_with}
        /\ u.adjust \in {t.adjust, t.adjust + pkts[i].len}
        /\ u.delayed \in {t.delayed, DelayedAck(left, rtx, marks)}

LEMMA TieFields ==
    ASSUME NEW t, DOMAIN t = DOMAIN NoTies, NEW i, NEW a, NEW sq
    PROVE  TiedFields(Tie(t, i, a, sq), t, i, a, sq)
<1> DEFINE tm == Sampled(t.timer, i, pkts[a].ts - pkts[i].ts, sq.acked, sq.next)
           rtt == LowerMinRTT(t.min_rtt, i, pkts[a].ts - pkts[i].ts)
           rest == { q \in t.queue : q > a }
           by == [t.by EXCEPT ![i] = a]
           list == Add(t.sacks, [start |-> pkts[i].seq, end |-> SeqEnd(pkts[i])])
           tied == [t EXCEPT !.queue = rest, !.by = by, !.min_rtt = rtt, !.timer = tm,
                             !.sacks = list]
           len == pkts[i].len
           delayed == DelayedAck({ j \in unacked : t.by[j] = 0 }, rtx, marks)
           newer == [tied EXCEPT !.last = a, !.adjust = @ + len, !.armer = a,
                                 !.armed_with = tm, !.delayed = delayed]
           u == Tie(t, i, a, sq)
<1>1. u = newer \/ u = tied
  BY DEF Tie
<1>2. DOMAIN NoTies = {"queue", "by", "min_rtt", "timer", "sacks", "last", "adjust", "done",
                       "armer", "armed_with", "delayed"}
  BY DEF NoTies
<1>3. /\ DOMAIN tied = DOMAIN NoTies
      /\ tied.queue = rest /\ tied.by = by /\ tied.min_rtt = rtt
      /\ tied.last = t.last /\ tied.armer = t.armer
      /\ tied.sacks = list /\ tied.timer = tm /\ tied.armed_with = t.armed_with
      /\ tied.adjust = t.adjust /\ tied.delayed = t.delayed
  <2> HIDE DEF rest, by, rtt, tm, list
  <2> QED BY <1>2
<1>4. /\ DOMAIN newer = DOMAIN NoTies
      /\ newer.queue = rest /\ newer.by = by /\ newer.min_rtt = rtt
      /\ newer.last = a /\ newer.armer = a
      /\ newer.sacks = list /\ newer.timer = tm /\ newer.armed_with = tm
      /\ newer.adjust = t.adjust + len /\ newer.delayed = delayed
  <2> HIDE DEF rest, by, rtt, tm, list, len, delayed, tied
  <2> QED BY <1>2, <1>3
<1>5. /\ DOMAIN u = DOMAIN NoTies
      /\ u.queue = rest /\ u.by = by /\ u.min_rtt = rtt
      /\ u.last \in {a, t.last} /\ u.armer \in {a, t.armer}
      /\ u.sacks = list /\ u.timer = tm /\ u.armed_with \in {tm, t.armed_with}
      /\ u.adjust \in {t.adjust, t.adjust + len} /\ u.delayed \in {t.delayed, delayed}
  <2> HIDE DEF rest, by, rtt, tm, list, len, delayed, tied, newer, u
  <2> QED BY <1>1, <1>3, <1>4
<1>6. TiedFields(u, t, i, a, sq)
  <2> HIDE DEF u
  <2> QED BY <1>5 DEF TiedFields
<1> QED BY <1>6

\* The delays of tied packets are positive numbers.
LEMMA TiedDelaysTyped ==
    ASSUME CaptureInv, NEW s, NEW t, TiesOK(s, t)
    PROVE  /\ TiedDelays(t) \subseteq Nat \ {0}
           /\ ({min_rtt} \ {0}) \cup TiedDelays(t) \subseteq Nat \ {0}
           /\ t.min_rtt \in Nat
<1>1. \A i \in Ids : \A a \in Ids : pkts[i].ts < pkts[a].ts => pkts[a].ts - pkts[i].ts \in Nat \ {0}
  <2> \A i \in Ids : pkts[i].ts \in Nat
    BY CaptureTypes DEF CaptureInv
  <2> QED OBVIOUS
<1>2. TiedDelays(t) \subseteq Nat \ {0}
  <2> SUFFICES ASSUME NEW i \in unacked, t.by[i] # 0
               PROVE  pkts[t.by[i]].ts - pkts[i].ts \in Nat \ {0}
    BY DEF TiedDelays
  <2>1. t.by[i] \in lookalikes /\ pkts[i].ts < pkts[t.by[i]].ts
    BY DEF TiesOK
  <2>2. i \in Ids /\ t.by[i] \in Ids
    BY <2>1, CaptureTypes DEF CaptureInv
  <2> QED BY <1>1, <2>1, <2>2
<1>3. t.min_rtt \in Nat
  <2> LeastOf(t.min_rtt, ({min_rtt} \ {0}) \cup TiedDelays(t))
    BY DEF TiesOK
  <2> QED BY <1>2 DEF LeastOf, CaptureInv
<1> QED BY <1>2, <1>3 DEF CaptureInv

\* One tie: the packet is an original that was not tied before, the lookalike one
\* that can have seen it.
LEMMA TieKeeps ==
    ASSUME CaptureInv, NEW s, NEW t, TiesOK(s, t), NEW i \in unacked, i \notin s,
           previous_tx[i] = 0, NEW a \in CanHaveSeen(t, i), NEW sq
    PROVE  TiesOK(s \cup {i}, Tie(t, i, a, sq))
<1> DEFINE u == Tie(t, i, a, sq)
           d == pkts[a].ts - pkts[i].ts
<1>1. /\ DOMAIN u = DOMAIN NoTies
      /\ u.queue = { q \in t.queue : q > a }
      /\ u.by = [t.by EXCEPT ![i] = a]
      /\ u.min_rtt = LowerMinRTT(t.min_rtt, i, d)
      /\ u.last \in {a, t.last} /\ u.armer \in {a, t.armer}
  <2>1. DOMAIN t = DOMAIN NoTies
    BY DEF TiesOK
  <2>2. TiedFields(u, t, i, a, sq)
    BY <2>1, TieFields
  <2> HIDE DEF u
  <2> QED BY <2>2 DEF TiedFields
<1>2. a \in lookalikes /\ pkts[i].ts + t.min_rtt < pkts[a].ts
  BY DEF CanHaveSeen, TiesOK
<1>3. pkts[i].ts < pkts[a].ts /\ d \in Nat \ {0} /\ a # 0
  <2> i \in Ids /\ a \in Ids
    BY <1>2, CaptureTypes DEF CaptureInv
  <2> pkts[i].ts \in Nat /\ pkts[a].ts \in Nat /\ a # 0
    BY CaptureTypes DEF CaptureInv
  <2> t.min_rtt \in Nat
    BY TiedDelaysTyped
  <2> QED BY <1>2
<1>4. /\ u.by = [j \in unacked |-> u.by[j]] /\ u.by[i] = a
      /\ \A j \in unacked : j # i => u.by[j] = t.by[j]
      /\ t.by[i] = 0
  <2> HIDE DEF u
  <2> QED BY <1>1 DEF TiesOK
<1>5. TiedDelays(u) = TiedDelays(t) \cup {d}
  <2> HIDE DEF u
  <2>1. \A j \in unacked : j # i => u.by[j] = t.by[j]
    BY <1>4
  <2>2. ASSUME NEW e \in TiedDelays(u)
        PROVE  e \in TiedDelays(t) \cup {d}
    <3> PICK j \in unacked : u.by[j] # 0 /\ e = pkts[u.by[j]].ts - pkts[j].ts
      BY DEF TiedDelays
    <3> QED BY <1>4, <2>1 DEF TiedDelays
  <2>3. ASSUME NEW e \in TiedDelays(t)
        PROVE  e \in TiedDelays(u)
    <3> PICK j \in unacked : t.by[j] # 0 /\ e = pkts[t.by[j]].ts - pkts[j].ts
      BY DEF TiedDelays
    <3> QED BY <1>4, <2>1 DEF TiedDelays
  <2>4. d \in TiedDelays(u)
    BY <1>3, <1>4 DEF TiedDelays
  <2> QED BY <2>2, <2>3, <2>4
<1>6. LeastOf(u.min_rtt, ({min_rtt} \ {0}) \cup TiedDelays(u))
  <2> DEFINE D == ({min_rtt} \ {0}) \cup TiedDelays(t)
  <2>1. D \subseteq Nat \ {0} /\ LeastOf(t.min_rtt, D)
    BY TiedDelaysTyped DEF TiesOK
  <2>2. ({min_rtt} \ {0}) \cup TiedDelays(u) = D \cup {d}
    BY <1>5
  <2> HIDE DEF u, d, D
  <2>3. LeastOf(LowerMinRTT(t.min_rtt, i, d), D \cup {d})
    BY <1>3, <2>1, OneMoreDelay
  <2> QED BY <1>1, <2>2, <2>3
<1>7. \A j \in unacked : u.by[j] # 0 =>
          /\ j \in s \cup {i} /\ previous_tx[j] = 0
          /\ u.by[j] \in lookalikes /\ pkts[j].ts < pkts[u.by[j]].ts
  <2> SUFFICES ASSUME NEW j \in unacked, u.by[j] # 0
               PROVE  /\ j \in s \cup {i} /\ previous_tx[j] = 0
                      /\ u.by[j] \in lookalikes /\ pkts[j].ts < pkts[u.by[j]].ts
    OBVIOUS
  <2> HIDE DEF u
  <2>1. CASE j = i
    BY <1>2, <1>3, <1>4, <2>1
  <2>2. CASE j # i
    BY <1>4, <2>2 DEF TiesOK
  <2> QED BY <2>1, <2>2
<1>8. TiesOK(s \cup {i}, u)
  <2> HIDE DEF u
  <2> QED BY <1>1, <1>2, <1>4, <1>6, <1>7 DEF TiesOK
<1> QED BY <1>8

\* One round of the walk.
LEMMA TieRoundKeeps ==
    ASSUME CaptureInv, NEW s, NEW t, TiesOK(s, t), NEW i \in unacked, i \notin s,
           NEW p, NEW sq
    PROVE  TiesOK(s \cup {i}, TieStep(t, i, p, sq))
<1>1. TiesOK(s \cup {i}, t)
  BY DEF TiesOK
<1>2. TiesOK(s \cup {i}, [t EXCEPT !.done = TRUE])
  <2> DEFINE u == [t EXCEPT !.done = TRUE]
  <2>1. /\ DOMAIN u = DOMAIN t
        /\ u.queue = t.queue /\ u.by = t.by /\ u.min_rtt = t.min_rtt
        /\ u.last = t.last /\ u.armer = t.armer
    OBVIOUS
  <2> HIDE DEF u
  <2>2. TiedDelays(u) = TiedDelays(t)
    BY <2>1 DEF TiedDelays
  <2>3. TiesOK(s \cup {i}, u)
    BY <1>1, <2>1, <2>2 DEF TiesOK
  <2> QED BY <2>3 DEF u
<1>3. TiesOK(s \cup {i}, [t EXCEPT !.queue = {}])
  <2> DEFINE u == [t EXCEPT !.queue = {}]
  <2>1. /\ DOMAIN u = DOMAIN t
        /\ u.queue \subseteq t.queue /\ u.by = t.by /\ u.min_rtt = t.min_rtt
        /\ u.last = t.last /\ u.armer = t.armer
    BY DEF TiesOK, NoTies
  <2> HIDE DEF u
  <2>2. TiedDelays(u) = TiedDelays(t)
    BY <2>1 DEF TiedDelays
  <2>3. TiesOK(s \cup {i}, u)
    BY <1>1, <2>1, <2>2 DEF TiesOK
  <2> QED BY <2>3 DEF u
<1>4. ASSUME previous_tx[i] = 0, CanHaveSeen(t, i) # {}
      PROVE  TiesOK(s \cup {i}, Tie(t, i, Min(CanHaveSeen(t, i)), sq))
  <2>1. Len(pkts) \in Nat /\ CanHaveSeen(t, i) \subseteq 0 .. Len(pkts)
    BY CaptureTypes DEF CanHaveSeen, TiesOK, CaptureInv
  <2>2. Min(CanHaveSeen(t, i)) \in CanHaveSeen(t, i)
    <3> HIDE DEF CanHaveSeen
    <3> QED BY <1>4, <2>1, MinIsFirst
  <2> QED BY <1>4, <2>2, TieKeeps
<1> QED BY <1>1, <1>2, <1>3, <1>4, Zenon DEF TieStep

\* Before the walk nothing is tied.
LEMMA NoTiesOK ==
    ASSUME CaptureInv, NEW s
    PROVE  TiesOK(s, NoTies)
<1>1. /\ NoTies.queue = lookalikes /\ NoTies.by = [i \in unacked |-> 0]
      /\ NoTies.min_rtt = min_rtt /\ NoTies.last = last_ack_with_trigger
      /\ NoTies.armer = 0
  BY DEF NoTies
<1>2. TiedDelays(NoTies) = {}
  BY <1>1 DEF TiedDelays
<1>3. LeastOf(min_rtt, {min_rtt} \ {0})
  BY DEF LeastOf, CaptureInv
<1> QED BY <1>1, <1>2, <1>3 DEF TiesOK

\* Round by round the ties are sound.
LEMMA TieWalkSound ==
    ASSUME CaptureInv, NEW p, NEW sq, NEW c, c = <<p, sq>>,
           NEW g, TieWalk!IsWalk(g, c, NoTies, unacked), NEW S \in SUBSET unacked
    PROVE  TiesOK(S, g[S])
<1> DEFINE n == Len(pkts)
           Good == { s \in SUBSET S : TiesOK(s, g[s]) }
<1>1. n \in Nat /\ S \subseteq 0 .. n
  BY CaptureTypes DEF CaptureInv
<1>2. {} \in Good
  BY NoTiesOK DEF TieWalk!IsWalk
<1>3. ASSUME NEW s \in SUBSET S, NEW i \in s, \A j \in s : i >= j, s \ {i} \in Good
      PROVE  s \in Good
  <2>1. g[s] = TieRound(c, i, g[s \ {i}])
    BY <1>3 DEF TieWalk!IsWalk
  <2>2. TieRound(c, i, g[s \ {i}]) = TieStep(g[s \ {i}], i, p, sq)
    BY DEF TieRound
  <2>3. TiesOK(s \ {i}, g[s \ {i}])
    BY <1>3
  <2>4. TiesOK((s \ {i}) \cup {i}, g[s])
    <3> i \in unacked /\ i \notin s \ {i}
      OBVIOUS
    <3> QED BY <2>1, <2>2, <2>3, TieRoundKeeps
  <2>5. (s \ {i}) \cup {i} = s
    OBVIOUS
  <2> QED BY <2>4, <2>5
<1>4. S \in Good
  <2> HIDE DEF Good, n
  <2> QED BY <1>1, <1>2, <1>3, OneMoreAtTheEnd
<1> QED BY <1>4

(***************************************************************************)
(* Whatever is retransmitted, and whatever is in flight then: the ties are  *)
(* sound.                                                                  *)
(***************************************************************************)
LEMMA TiesSound ==
    ASSUME CaptureInv, NEW p, NEW sq
    PROVE  TiesOK(unacked, TiesOf(p, sq))
<1>1. CASE lookalikes = {}
  BY <1>1, NoTiesOK DEF TiesOf
<1>2. CASE lookalikes # {}
  <2>1. Len(pkts) \in Nat /\ unacked \subseteq 0 .. Len(pkts)
    BY CaptureTypes DEF CaptureInv
  <2>2. PICK g : TieWalk!IsWalk(g, <<p, sq>>, NoTies, unacked) /\ TiesOf(p, sq) = g[unacked]
    BY <1>2, <2>1, TiesAreAWalk
  <2> QED BY <2>2, TieWalkSound
<1> QED BY <1>1, <1>2

-----------------------------------------------------------------------------
\* The delays of the originals among the packets that an ACK covers.
CoveredDelays(a, s) == { a.ts - pkts[i].ts : i \in { j \in s : previous_tx[j] = 0 } }

EstimateOK(a, s, est) ==
    /\ est.min_rtt \in Nat
    /\ 0 \notin CoveredDelays(a, s) =>
          LeastOf(est.min_rtt, ({min_rtt} \ {0}) \cup CoveredDelays(a, s))

\* No packet was captured after the one that is handled.
LEMMA NoneLater ==
    ASSUME CaptureInv, NEW q \in Packets, InTime(q)
    PROVE  \A i \in Ids : pkts[i].ts <= q.ts /\ q.ts - pkts[i].ts \in Nat
<1> SUFFICES ASSUME NEW i \in Ids
             PROVE  pkts[i].ts <= q.ts /\ q.ts - pkts[i].ts \in Nat
  OBVIOUS
<1>1. Len(pkts) \in Ids /\ i <= Len(pkts)
  BY CaptureTypes DEF CaptureInv
<1>2. pkts[i].ts <= pkts[Len(pkts)].ts /\ pkts[Len(pkts)].ts <= q.ts
  <2> pkts # << >>
    BY DEF Ids
  <2> QED BY <1>1 DEF CaptureInv, TimeOrdered, InTime
<1>3. pkts[i].ts \in Nat /\ pkts[Len(pkts)].ts \in Nat /\ q.ts \in Nat
  <2> q.ts \in Nat
    BY DEF Packets, OwnPackets, Received, OwnPacket, AckPacket
  <2> QED BY <1>1, CaptureTypes DEF CaptureInv
<1> QED BY <1>2, <1>3

\* One packet more that the ACK covers.
LEMMA EstimateKeeps ==
    ASSUME CaptureInv, NEW a \in Packets, InTime(a), NEW s \in SUBSET unacked, NEW i \in s,
           NEW est, EstimateOK(a, s \ {i}, est)
    PROVE  EstimateOK(a, s, Estimate(est, i, a))
<1> DEFINE d == a.ts - pkts[i].ts
           u == Estimate(est, i, a)
           D == ({min_rtt} \ {0}) \cup CoveredDelays(a, s \ {i})
<1>1. u.min_rtt = LowerMinRTT(est.min_rtt, i, d)
  BY DEF Estimate
<1>2. \A j \in unacked : a.ts - pkts[j].ts \in Nat
  BY NoneLater, CaptureTypes DEF CaptureInv
<1>3. d \in Nat
  BY <1>2
<1>4. u.min_rtt \in Nat
  BY <1>1, <1>3 DEF EstimateOK, LowerMinRTT
<1>5. /\ previous_tx[i] = 0 => CoveredDelays(a, s) = CoveredDelays(a, s \ {i}) \cup {d}
      /\ previous_tx[i] # 0 => CoveredDelays(a, s) = CoveredDelays(a, s \ {i})
  <2>1. previous_tx[i] = 0 => { j \in s : previous_tx[j] = 0 }
                                = { j \in s \ {i} : previous_tx[j] = 0 } \cup {i}
    OBVIOUS
  <2>2. previous_tx[i] # 0 => { j \in s : previous_tx[j] = 0 }
                                = { j \in s \ {i} : previous_tx[j] = 0 }
    OBVIOUS
  <2> QED BY <2>1, <2>2 DEF CoveredDelays
<1>6. ASSUME 0 \notin CoveredDelays(a, s)
      PROVE  LeastOf(u.min_rtt, ({min_rtt} \ {0}) \cup CoveredDelays(a, s))
  <2>1. LeastOf(est.min_rtt, D)
    BY <1>5, <1>6 DEF EstimateOK
  <2>2. D \subseteq Nat \ {0}
    BY <1>2, <1>5, <1>6 DEF CoveredDelays, CaptureInv
  <2> HIDE DEF d, u, D
  <2>3. CASE previous_tx[i] = 0
    <3>1. d # 0 /\ ({min_rtt} \ {0}) \cup CoveredDelays(a, s) = D \cup {d}
      BY <1>5, <1>6, <2>3 DEF D
    <3>2. LeastOf(LowerMinRTT(est.min_rtt, i, d), D \cup {d})
      BY <1>3, <2>1, <2>2, <2>3, <3>1, OneMoreDelay
    <3> QED BY <1>1, <3>1, <3>2
  <2>4. CASE previous_tx[i] # 0
    <3>1. u.min_rtt = est.min_rtt
      BY <1>1, <2>4 DEF LowerMinRTT
    <3> QED BY <1>5, <2>1, <2>4, <3>1 DEF D
  <2> QED BY <2>3, <2>4
<1> QED BY <1>4, <1>6 DEF EstimateOK

(***************************************************************************)
(* All that an ACK covers, from front to back.                              *)
(***************************************************************************)
LEMMA EstimatesSound ==
    ASSUME CaptureInv, NEW a \in Packets, InTime(a), NEW S \in SUBSET unacked
    PROVE  EstimateOK(a, S, EstimatesOf(a, S))
<1> DEFINE n == Len(pkts)
           start == [min_rtt |-> min_rtt, timer |-> timer]
<1>1. n \in Nat /\ S \subseteq 0 .. n
  BY CaptureTypes DEF CaptureInv
<1>2. PICK g : EstimateWalk!IsWalk(g, a, start, S) /\ EstimatesOf(a, S) = g[S]
  <2> HIDE DEF n
  <2> QED BY <1>1, EstimatesAreAWalk
<1> DEFINE Good == { s \in SUBSET S : EstimateOK(a, s, g[s]) }
<1>3. {} \in Good
  <2>1. CoveredDelays(a, {}) = {} /\ LeastOf(min_rtt, {min_rtt} \ {0})
    BY DEF CoveredDelays, LeastOf, CaptureInv
  <2>2. g[{}] = start /\ start.min_rtt = min_rtt
    BY <1>2 DEF EstimateWalk!IsWalk
  <2>3. ({min_rtt} \ {0}) \cup {} = {min_rtt} \ {0}
    OBVIOUS
  <2>4. EstimateOK(a, {}, g[{}])
    <3> HIDE DEF start
    <3> QED BY <2>1, <2>2, <2>3 DEF EstimateOK, CaptureInv
  <2> QED BY <2>4
<1>4. ASSUME NEW s \in SUBSET S, NEW i \in s, \A j \in s : i >= j, s \ {i} \in Good
      PROVE  s \in Good
  <2>1. g[s] = Estimate(g[s \ {i}], i, a)
    BY <1>2, <1>4 DEF EstimateWalk!IsWalk, EstimateRound
  <2>2. EstimateOK(a, s \ {i}, g[s \ {i}])
    BY <1>4
  <2>3. EstimateOK(a, s, g[s])
    <3> s \in SUBSET unacked
      OBVIOUS
    <3> QED BY <2>1, <2>2, EstimateKeeps
  <2> QED BY <2>3
<1>5. S \in Good
  <2> HIDE DEF Good, n
  <2> QED BY <1>1, <1>3, <1>4, OneMoreAtTheEnd
<1> QED BY <1>2, <1>5

-----------------------------------------------------------------------------
\* What a step may do to what CaptureInv speaks of.
LEMMA CapturePreserved ==
    ASSUME CaptureInv, NEW q \in Packets, InTime(q), pkts' = Append(pkts, q),
           unacked' \subseteq Own', min_rtt' \in Nat,
           NEW received, received = IF q.out THEN {} ELSE {New},
           lookalikes' \subseteq lookalikes \cup received,
           last_ack_with_trigger' \in {last_ack_with_trigger} \cup lookalikes \cup received
    PROVE  CaptureInv'
<1>1. /\ pkts' \in Seq(Packets) /\ Len(pkts) \in Nat /\ Len(pkts') = New
      /\ Ids = 1 .. Len(pkts) /\ Ids' = 1 .. New
      /\ \A i \in Ids : pkts'[i] = pkts[i]
      /\ pkts'[New] = q
      /\ Own' = IF q.out THEN Own \cup {New} ELSE Own
      /\ Own \subseteq Ids
  BY Captured DEF CaptureInv
<1>2. New = Len(pkts) + 1 /\ New \notin Ids /\ Ids' = Ids \cup {New}
  BY <1>1 DEF New
<1>3. Ids \ Own \subseteq Ids' \ Own' /\ received \subseteq Ids' \ Own'
  BY <1>1, <1>2
<1>4. TimeOrdered'
  <2> SUFFICES ASSUME NEW i \in Ids', NEW j \in Ids', i <= j
               PROVE  pkts'[i].ts <= pkts'[j].ts
    BY DEF TimeOrdered
  <2>1. CASE i \in Ids /\ j \in Ids
    BY <1>1, <2>1 DEF CaptureInv, TimeOrdered
  <2>2. CASE i \in Ids /\ j = New
    BY <1>1, <2>2, NoneLater
  <2>3. CASE i = New
    <3> j = New
      BY <1>1, <1>2, <2>3
    <3> q.ts \in Nat
      BY DEF Packets, OwnPackets, Received, OwnPacket, AckPacket
    <3> QED BY <1>1, <2>3
  <2> QED BY <1>2, <2>1, <2>2, <2>3
<1> QED BY <1>1, <1>3, <1>4 DEF CaptureInv

\* Every step keeps it.
LEMMA CaptureStep ==
    ASSUME AckInv, CaptureInv, [Next]_vars
    PROVE  CaptureInv'
<1>0. unacked' \subseteq Own'
  BY AckStep DEF AckInv
<1>1. CASE UNCHANGED vars
  BY <1>1 DEF CaptureInv, TimeOrdered, Own, Ids, vars, ackVars
<1>2. ASSUME NEW p \in OwnPackets, InTime(p), AddPacket(p)
      PROVE  CaptureInv'
  <2>1. pkts' = Append(pkts, p) /\ p \in Packets /\ p.out
    BY <1>2, SentIsStored DEF Packets, OwnPackets, OwnPacket
  <2>2. CASE UNCHANGED <<lookalikes, min_rtt, last_ack_with_trigger>>
    BY <1>0, <1>2, <2>1, <2>2, CapturePreserved DEF CaptureInv
  <2>3. ASSUME NEW sq, NEW high, PushRtx(p, sq, high)
        PROVE  CaptureInv'
    <3> DEFINE ties == TiesOf(p, sq)
    <3>1. /\ lookalikes' = ties.queue /\ min_rtt' = ties.min_rtt
          /\ last_ack_with_trigger' = ties.last
      BY <2>3, Zenon DEF PushRtx, PushTied
    <3>2. TiesOK(unacked, ties)
      BY TiesSound
    <3> HIDE DEF ties
    <3>3. ties.min_rtt \in Nat
      BY <3>2, TiedDelaysTyped
    <3>4. ties.queue \subseteq lookalikes /\ ties.last \in {last_ack_with_trigger} \cup lookalikes
      BY <3>2 DEF TiesOK
    <3> QED BY <1>0, <1>2, <2>1, <3>1, <3>3, <3>4, CapturePreserved
  <2> QED BY <1>2, <2>2, <2>3, SendCases DEF AddOther, PushNew, NoteNew
<1>3. ASSUME NEW a \in Received, InTime(a), ProcessOldAck(a) \/ ProcessNewAck(a)
      PROVE  CaptureInv'
  <2>1. pkts' = Append(pkts, a) /\ a \in Packets /\ ~a.out
    BY <1>3, ReceivedIsStored DEF Packets, Received, AckPacket
  <2>2. NoteAck(a)
    BY <1>3, Zenon DEF ProcessOldAck, ProcessNewAck
  <2>3. lookalikes' \subseteq lookalikes \cup {New}
    BY <2>2 DEF NoteAck
  <2>4. CASE ProcessOldAck(a)
    <3> UNCHANGED <<min_rtt, last_ack_with_trigger>>
      BY <2>4 DEF ProcessOldAck
    <3> QED BY <1>0, <1>3, <2>1, <2>3, CapturePreserved DEF CaptureInv
  <2>5. CASE ProcessNewAck(a)
    <3> DEFINE acked == AckedNow(a)
               est == EstimatesOf(a, acked)
    <3>1. min_rtt' = est.min_rtt /\ last_ack_with_trigger' \in {last_ack_with_trigger, New}
      BY <2>5, Zenon DEF ProcessNewAck
    <3>2. EstimateOK(a, acked, est)
      <4> acked \in SUBSET unacked
        BY DEF AckedNow
      <4> HIDE DEF acked
      <4> QED BY <1>3, <2>1, EstimatesSound
    <3>3. est.min_rtt \in Nat
      BY <3>2 DEF EstimateOK
    <3> HIDE DEF est
    <3> QED BY <1>0, <1>3, <2>1, <2>3, <3>1, <3>3, CapturePreserved
  <2> QED BY <1>3, <2>4, <2>5
<1> QED BY <1>1, <1>2, <1>3, StepCases DEF CaptureInv

-----------------------------------------------------------------------------
\* What this endpoint set the triggers to, whatever the other one set them to.
TriggerLinks ==
    \A i \in Ids : trigger[i] # 0 =>
        /\ trigger[i] < i /\ trigger[i] \in Own
        /\ IF pkts[i].out THEN ack_packet[trigger[i]] \in 1 .. i - 1
           ELSE ack_packet[trigger[i]] = i

TriggerInv == Entries(trigger) /\ TriggerLinks

\* Some received packets get a new trigger, which they acked, and so does the
\* packet that is captured.
LEMMA TriggerPreserved ==
    ASSUME AckInv, TriggerInv, AckKept, NEW q \in Packets, pkts' = Append(pkts, q),
           NEW f, f = [i \in Ids |-> f[i]], NEW e, trigger' = Append(f, e),
           \A i \in Ids : \/ f[i] = trigger[i]
                          \/ /\ i \notin Own /\ f[i] \in Own /\ f[i] < i
                             /\ ack_packet'[f[i]] = i,
           e # 0 => /\ e \in Own
                    /\ IF q.out THEN ack_packet'[e] \in Ids ELSE ack_packet'[e] = New
    PROVE  TriggerInv'
<1>1. /\ pkts' \in Seq(Packets) /\ Len(pkts) \in Nat /\ Len(pkts') = New
      /\ Ids = 1 .. Len(pkts) /\ Ids' = 1 .. New
      /\ \A i \in Ids : pkts'[i] = pkts[i]
      /\ pkts'[New] = q
      /\ Own' = IF q.out THEN Own \cup {New} ELSE Own
      /\ Own \subseteq Ids
  BY Captured DEF AckInv
<1>2. /\ New = Len(pkts) + 1 /\ New \notin Ids /\ Ids' = Ids \cup {New}
      /\ Own \subseteq Own' /\ 1 .. New - 1 = Ids
      /\ \A i \in Ids : i < New /\ i \in Nat /\ i # 0
  BY <1>1 DEF New
<1>3. /\ Entries(trigger)'
      /\ \A i \in Ids : trigger'[i] = f[i]
      /\ trigger'[New] = e
  BY <1>1, <1>2, AppendEntry DEF Entries
<1>4. ASSUME NEW i \in Ids', trigger'[i] # 0
      PROVE  /\ trigger'[i] < i /\ trigger'[i] \in Own'
             /\ IF pkts'[i].out THEN ack_packet'[trigger'[i]] \in 1 .. i - 1
                ELSE ack_packet'[trigger'[i]] = i
  <2>1. CASE i = New
    BY <1>1, <1>2, <1>3, <1>4, <2>1
  <2>2. CASE i # New /\ f[i] = trigger[i]
    <3>1. i \in Ids /\ trigger'[i] = trigger[i] /\ pkts'[i] = pkts[i]
      BY <1>1, <1>2, <1>3, <2>2
    <3>2. /\ trigger[i] < i /\ trigger[i] \in Own
          /\ IF pkts[i].out THEN ack_packet[trigger[i]] \in 1 .. i - 1
             ELSE ack_packet[trigger[i]] = i
      BY <1>4, <3>1 DEF TriggerInv, TriggerLinks
    <3>3. ack_packet[trigger[i]] # 0
      BY <1>2, <3>1, <3>2
    <3>4. ack_packet'[trigger[i]] = ack_packet[trigger[i]]
      BY <1>1, <3>2, <3>3 DEF AckKept
    <3> QED BY <1>2, <3>1, <3>2, <3>4
  <2>3. CASE i # New /\ f[i] # trigger[i]
    <3>1. i \in Ids /\ trigger'[i] = f[i] /\ pkts'[i] = pkts[i]
      BY <1>1, <1>2, <1>3, <2>3
    <3>2. ~pkts[i].out /\ f[i] \in Own /\ f[i] < i /\ ack_packet'[f[i]] = i
      BY <2>3, <3>1 DEF Own
    <3> QED BY <1>2, <3>1, <3>2
  <2> QED BY <2>1, <2>2, <2>3
<1> QED BY <1>3, <1>4 DEF TriggerInv, TriggerLinks

\* The triggers that ties give to lookalikes (PushTied), and the one that the
\* retransmission takes over.
LEMMA TiedTriggers ==
    ASSUME AckInv, CaptureInv, TriggerInv, AckKept, NEW ties, TiesOK(unacked, ties),
           NEW p \in OwnPackets, pkts' = Append(pkts, p),
           \A i \in unacked : ties.by[i] # 0 => ack_packet'[i] = ties.by[i],
           NEW trig,
           trig = [a \in Ids |-> IF \E i \in unacked : ties.by[i] = a
                                 THEN Max({ i \in unacked : ties.by[i] = a }) ELSE trigger[a]],
           trigger' = Append(trig, TriggerOf(p, ties.last, trig))
    PROVE  TriggerInv'
<1>1. /\ Len(pkts) \in Nat /\ Own \subseteq Ids /\ Ids \subseteq 0 .. Len(pkts)
      /\ unacked \subseteq Own
      /\ \A i \in Ids : i \in Nat /\ i # 0 /\ pkts[i].ts \in Nat
  BY CaptureTypes DEF CaptureInv
<1>2. ASSUME NEW a \in Ids, \E i \in unacked : ties.by[i] = a
      PROVE  /\ a \notin Own /\ trig[a] \in Own /\ trig[a] < a
             /\ ack_packet'[trig[a]] = a
  <2> DEFINE I == { i \in unacked : ties.by[i] = a }
  <2>1. I \subseteq 0 .. Len(pkts) /\ I # {}
    BY <1>1, <1>2
  <2>2. Max(I) \in I
    <3> HIDE DEF I
    <3> QED BY <1>1, <2>1, MaxIsLast
  <2>3. trig[a] = Max(I)
    BY <1>2
  <2> DEFINE m == Max(I)
  <2>4. m \in unacked /\ ties.by[m] = a /\ trig[a] = m
    <3> HIDE DEF m
    <3> QED BY <2>2, <2>3 DEF m
  <2> HIDE DEF m, I
  <2>5. a # 0 /\ a \in lookalikes /\ pkts[m].ts < pkts[a].ts
    BY <1>1, <2>4 DEF TiesOK
  <2>6. m < a
    <3>1. m \in Ids /\ m \in Nat /\ a \in Nat /\ pkts[m].ts \in Nat /\ pkts[a].ts \in Nat
      BY <1>1, <2>4
    <3>2. a <= m => pkts[a].ts <= pkts[m].ts
      BY <3>1 DEF CaptureInv, TimeOrdered
    <3> QED BY <2>5, <3>1, <3>2
  <2> QED BY <1>1, <2>4, <2>5, <2>6 DEF CaptureInv
<1>3. /\ trig = [a \in Ids |-> trig[a]]
      /\ \A a \in Ids : (~\E i \in unacked : ties.by[i] = a) => trig[a] = trigger[a]
  OBVIOUS
<1>4. \A a \in Ids : \/ trig[a] = trigger[a]
                     \/ /\ a \notin Own /\ trig[a] \in Own /\ trig[a] < a
                        /\ ack_packet'[trig[a]] = a
  BY <1>2, <1>3
<1> DEFINE e == TriggerOf(p, ties.last, trig)
<1>5. ASSUME e # 0
      PROVE  e \in Own /\ ack_packet'[e] \in Ids
  <2>1. ties.last \in Ids \ Own /\ e = trig[ties.last]
    BY <1>5 DEF TriggerOf, TiesOK, CaptureInv
  <2> DEFINE l == ties.last
  <2> HIDE DEF l, e
  <2>2. CASE \E i \in unacked : ties.by[i] = l
    BY <1>2, <2>1, <2>2 DEF l
  <2>3. CASE ~\E i \in unacked : ties.by[i] = l
    <3>1. e = trigger[l] /\ l \in Ids /\ ~pkts[l].out /\ l # 0
      BY <1>1, <1>3, <2>1, <2>3 DEF l, Own
    <3>2. e \in Own /\ ack_packet[e] = l
      BY <1>5, <3>1 DEF TriggerInv, TriggerLinks
    <3>3. ack_packet'[e] = l
      BY <1>1, <3>1, <3>2 DEF AckKept
    <3> QED BY <3>1, <3>2, <3>3
  <2> QED BY <2>2, <2>3
<1>6. p \in Packets /\ p.out
  BY DEF Packets, OwnPackets, OwnPacket
<1>7. trigger' = Append(trig, e)
  OBVIOUS
<1> HIDE DEF e
<1>8. e # 0 => /\ e \in Own
               /\ IF p.out THEN ack_packet'[e] \in Ids ELSE ack_packet'[e] = New
  BY <1>5, <1>6
<1>9. trig = [a \in Ids |-> trig[a]]
  BY <1>3
<1>10. pkts' = Append(pkts, p) /\ AckInv /\ TriggerInv /\ AckKept
  OBVIOUS
<1> QED BY ONLY <1>4, <1>6, <1>7, <1>8, <1>9, <1>10, TriggerPreserved

\* Every step keeps the triggers sound.
LEMMA TriggerStep ==
    ASSUME AckInv, CaptureInv, TriggerInv, [Next]_vars
    PROVE  TriggerInv'
<1>1. CASE UNCHANGED vars
  BY <1>1 DEF TriggerInv, TriggerLinks, Entries, Own, Ids, vars, linkVars
<1>2. ASSUME NEW q \in Packets, pkts' = Append(pkts, q), AckKept,
             trigger' = Append(trigger, 0)
      PROVE  TriggerInv'
  <2>1. trigger = [i \in Ids |-> trigger[i]] /\ \A i \in Ids : trigger[i] = trigger[i]
    BY DEF TriggerInv, Entries
  <2> QED BY <1>2, <2>1, TriggerPreserved
<1>3. ASSUME AckKept \/ UNCHANGED ack_packet
      PROVE  AckKept
  BY <1>3 DEF AckKept
<1>4. AckKept
  BY <1>3, AckStep
<1>5. ASSUME NEW p \in OwnPackets, AddPacket(p)
      PROVE  TriggerInv'
  <2>1. pkts' = Append(pkts, p) /\ p \in Packets
    BY <1>5, SentIsStored DEF Packets
  <2>2. CASE trigger' = Append(trigger, 0)
    BY <1>2, <1>4, <2>1, <2>2
  <2>3. ASSUME NEW sq, NEW high, PushRtx(p, sq, high)
        PROVE  TriggerInv'
    <3> DEFINE ties  == TiesOf(p, sq)
               still == { i \in unacked : ties.by[i] = 0 }
               trig  == [a \in Ids |-> IF \E i \in unacked : ties.by[i] = a
                                       THEN Max({ i \in unacked : ties.by[i] = a })
                                       ELSE trigger[a]]
               acks  == [i \in Ids |-> IF i \in unacked \ still
                                       THEN ties.by[i] ELSE ack_packet[i]]
    <3>1. /\ trigger' = Append(trig, TriggerOf(p, ties.last, trig))
          /\ ack_packet' = Append(acks, 0)
      BY <2>3, Zenon DEF PushRtx, PushTied
    <3>2. TiesOK(unacked, ties)
      BY TiesSound
    <3> HIDE DEF ties
    <3>3. \A i \in unacked : ties.by[i] # 0 => ack_packet'[i] = ties.by[i]
      <4>1. Len(pkts) \in Nat /\ Ids = 1 .. Len(pkts) /\ unacked \subseteq Ids
        BY CaptureTypes DEF CaptureInv
      <4>2. acks = [i \in 1 .. Len(pkts) |-> acks[i]]
        BY <4>1
      <4>3. \A i \in Ids : ack_packet'[i] = acks[i]
        <5> HIDE DEF acks
        <5> QED BY <3>1, <4>1, <4>2, AppendEntry
      <4> QED BY <4>1, <4>3
    <3> DEFINE from == trig
    <3>4. /\ from = [a \in Ids |-> IF \E i \in unacked : ties.by[i] = a
                                   THEN Max({ i \in unacked : ties.by[i] = a })
                                   ELSE trigger[a]]
          /\ trigger' = Append(from, TriggerOf(p, ties.last, from))
      BY <3>1
    <3> HIDE DEF from, still, trig, acks
    <3> QED BY ONLY AckInv, CaptureInv, TriggerInv, <1>4, <1>5, <2>1, <3>2, <3>3, <3>4,
                    TiedTriggers
  <2> QED BY <1>5, <2>2, <2>3, SendCases DEF AddOther, PushNew, NoteNew
<1>6. ASSUME NEW a \in Received, ProcessOldAck(a) \/ ProcessNewAck(a)
      PROVE  TriggerInv'
  <2>1. pkts' = Append(pkts, a) /\ a \in Packets /\ ~a.out
    BY <1>6, ReceivedIsStored DEF Packets, Received, AckPacket
  <2>2. CASE ProcessOldAck(a)
    <3> trigger' = Append(trigger, 0)
      BY <2>2 DEF ProcessOldAck
    <3> QED BY <1>2, <1>4, <2>1
  <2>3. CASE ProcessNewAck(a)
    <3> DEFINE acked == AckedNow(a)
               acks  == [i \in Ids |-> IF i \in acked THEN New ELSE ack_packet[i]]
               e     == IF acked = {} THEN 0 ELSE Max(acked)
    <3>1. trigger' = Append(trigger, e) /\ ack_packet' = Append(acks, 0)
      BY <2>3, Zenon DEF ProcessNewAck
    <3>2. Len(pkts) \in Nat /\ Ids = 1 .. Len(pkts) /\ acked \subseteq Own /\ Own \subseteq Ids
      BY CaptureTypes DEF CaptureInv, AckedNow
    <3>3. e # 0 => e \in acked
      <4> Ids \subseteq 0 .. Len(pkts)
        BY CaptureTypes DEF CaptureInv
      <4> HIDE DEF acked
      <4> acked \subseteq 0 .. Len(pkts)
        BY <3>2
      <4> QED BY <3>2, MaxIsLast
    <3>4. \A i \in acked : ack_packet'[i] = New
      <4>1. acks = [i \in 1 .. Len(pkts) |-> acks[i]]
        BY <3>2
      <4>2. \A i \in Ids : ack_packet'[i] = acks[i]
        <5> HIDE DEF acks
        <5> QED BY <3>1, <3>2, <4>1, AppendEntry
      <4> QED BY <3>2, <4>2
    <3>5. e # 0 => /\ e \in Own
                   /\ IF a.out THEN ack_packet'[e] \in Ids ELSE ack_packet'[e] = New
      BY <2>1, <3>2, <3>3, <3>4
    <3>6. trigger = [i \in Ids |-> trigger[i]] /\ \A i \in Ids : trigger[i] = trigger[i]
      BY DEF TriggerInv, Entries
    <3> DEFINE last == e
    <3>7. /\ trigger' = Append(trigger, last)
          /\ last # 0 => /\ last \in Own
                         /\ IF a.out THEN ack_packet'[last] \in Ids ELSE ack_packet'[last] = New
      BY <3>1, <3>5
    <3> HIDE DEF last, e, acked, acks
    <3> QED BY ONLY AckInv, TriggerInv, <1>4, <2>1, <3>6, <3>7, TriggerPreserved
  <2> QED BY <1>6, <2>2, <2>3
<1> QED BY <1>1, <1>5, <1>6, StepCases DEF CaptureInv

\* The invariants of the ACKs, of the capture and of the triggers hold at first.
LEMMA CaptureStart == Init => AckInv /\ CaptureInv /\ TriggerInv
<1> SUFFICES ASSUME Init PROVE CaptureInv /\ TriggerInv
  BY AckStart
<1>1. pkts \in Seq(Packets) /\ Ids = {} /\ Own = {}
  BY EmptySeq DEF Init, Ids, Own
<1> QED BY <1>1 DEF Init, CaptureInv, TimeOrdered, TriggerInv, TriggerLinks, Entries

-----------------------------------------------------------------------------
(***************************************************************************)
(* An ACK that settled something has got a trigger from this endpoint.      *)
(***************************************************************************)
SettledInv ==
    \A j \in Own : ack_packet[j] # 0 => ack_packet[j] \in Ids \ Own /\ trigger[ack_packet[j]] # 0

\* A step takes no trigger away,
KeepsTriggers(g) ==
    /\ g = [i \in Ids |-> g[i]]
    /\ \A i \in Ids : trigger[i] # 0 => g[i] # 0

\* and gives one to each ACK that settles something, which is an old or the new one.
CoversSettled(f, g, e, q) ==
    \A j \in Own : f[j] # 0 => \/ f[j] = ack_packet[j]
                               \/ f[j] \in Ids \ Own /\ g[f[j]] # 0
                               \/ f[j] = New /\ ~q.out /\ e # 0

LEMMA SettledPreserved ==
    ASSUME pkts \in Seq(Packets), SettledInv, NEW q \in Packets, pkts' = Append(pkts, q),
           NEW f, f = [i \in Ids |-> f[i]], ack_packet' = Append(f, 0),
           NEW g, NEW e, KeepsTriggers(g), trigger' = Append(g, e), CoversSettled(f, g, e, q)
    PROVE  SettledInv'
<1>1. /\ pkts' \in Seq(Packets) /\ Len(pkts) \in Nat /\ Len(pkts') = New
      /\ Ids = 1 .. Len(pkts) /\ Ids' = 1 .. New
      /\ Own' = IF q.out THEN Own \cup {New} ELSE Own
      /\ Own \subseteq Ids
  BY Captured
<1>2. New = Len(pkts) + 1 /\ New \notin Ids /\ Ids' = Ids \cup {New} /\ New # 0
  BY <1>1 DEF New
<1>3. /\ \A i \in Ids : ack_packet'[i] = f[i] /\ trigger'[i] = g[i]
      /\ ack_packet'[New] = 0 /\ trigger'[New] = e
  BY <1>1, <1>2, AppendEntry DEF KeepsTriggers
<1>4. ASSUME NEW j \in Own', ack_packet'[j] # 0
      PROVE  ack_packet'[j] \in Ids' \ Own' /\ trigger'[ack_packet'[j]] # 0
  <2>1. j \in Own /\ j \in Ids /\ ack_packet'[j] = f[j] /\ f[j] # 0
    BY <1>1, <1>2, <1>3, <1>4
  <2>2. CASE f[j] = ack_packet[j]
    <3>1. f[j] \in Ids \ Own /\ trigger[f[j]] # 0
      BY <2>1, <2>2 DEF SettledInv
    <3>2. g[f[j]] # 0
      BY <3>1 DEF KeepsTriggers
    <3> QED BY <1>1, <1>2, <1>3, <2>1, <3>1, <3>2
  <2>3. CASE f[j] \in Ids \ Own /\ g[f[j]] # 0
    BY <1>1, <1>2, <1>3, <2>1, <2>3
  <2>4. CASE f[j] = New /\ ~q.out /\ e # 0
    BY <1>1, <1>2, <1>3, <2>1, <2>4
  <2> QED BY <2>1, <2>2, <2>3, <2>4 DEF CoversSettled
<1> QED BY <1>4 DEF SettledInv

\* A step that settles nothing.
LEMMA NothingSettled ==
    ASSUME AckInv, TriggerInv, SettledInv, NEW q \in Packets, pkts' = Append(pkts, q),
           ack_packet' = Append(ack_packet, 0), trigger' = Append(trigger, 0)
    PROVE  SettledInv'
<1>1. ack_packet = [i \in Ids |-> ack_packet[i]] /\ pkts \in Seq(Packets)
  BY DEF AckInv, Entries
<1>2. KeepsTriggers(trigger)
  BY DEF TriggerInv, Entries, KeepsTriggers
<1>3. CoversSettled(ack_packet, trigger, 0, q)
  BY DEF CoversSettled
<1> QED BY <1>1, <1>2, <1>3, SettledPreserved

\* The packets that a retransmission settles by ties.
LEMMA SettledByTies ==
    ASSUME AckInv, CaptureInv, TriggerInv, SettledInv, NEW p \in OwnPackets, NEW sq, NEW high,
           PushRtx(p, sq, high), pkts' = Append(pkts, p)
    PROVE  SettledInv'
<1> DEFINE ties  == TiesOf(p, sq)
           still == { i \in unacked : ties.by[i] = 0 }
           g == [a \in Ids |-> IF \E i \in unacked : ties.by[i] = a
                               THEN Max({ i \in unacked : ties.by[i] = a }) ELSE trigger[a]]
           f == [i \in Ids |-> IF i \in unacked \ still THEN ties.by[i] ELSE ack_packet[i]]
           e == TriggerOf(p, ties.last, g)
<1>1. trigger' = Append(g, e) /\ ack_packet' = Append(f, 0)
  BY Zenon DEF PushRtx, PushTied
<1>2. TiesOK(unacked, ties)
  BY TiesSound
<1> HIDE DEF ties
<1>3. /\ Len(pkts) \in Nat /\ Own \subseteq Ids /\ Ids \subseteq 0 .. Len(pkts)
      /\ unacked \subseteq Own /\ 0 \notin Ids
  BY CaptureTypes DEF CaptureInv
<1>4. ASSUME NEW a \in Ids, \E i \in unacked : ties.by[i] = a
      PROVE  g[a] # 0
  <2> DEFINE I == { i \in unacked : ties.by[i] = a }
  <2>1. I \subseteq 0 .. Len(pkts) /\ I # {} /\ 0 \notin I
    BY <1>3, <1>4
  <2>2. Max(I) \in I
    <3> HIDE DEF I
    <3> QED BY <1>3, <2>1, MaxIsLast
  <2>3. g[a] = Max(I)
    BY <1>4
  <2> HIDE DEF I, g
  <2> QED BY <2>1, <2>2, <2>3
<1>5. \A a \in Ids : (~\E i \in unacked : ties.by[i] = a) => g[a] = trigger[a]
  OBVIOUS
<1>6. g = [i \in Ids |-> g[i]]
  OBVIOUS
<1>7. KeepsTriggers(g)
  <2> HIDE DEF g
  <2> QED BY <1>4, <1>5, <1>6 DEF KeepsTriggers
<1>8. \A i \in unacked \ still : ties.by[i] \in Ids \ Own
  BY <1>2 DEF TiesOK, CaptureInv
<1>9. /\ f = [i \in Ids |-> f[i]]
      /\ \A i \in Ids : f[i] = ack_packet[i] \/ (i \in unacked \ still /\ f[i] = ties.by[i])
  <2> HIDE DEF still
  <2> QED OBVIOUS
<1>10. CoversSettled(f, g, e, p)
  <2> SUFFICES ASSUME NEW j \in Own, f[j] # ack_packet[j]
               PROVE  f[j] \in Ids \ Own /\ g[f[j]] # 0
    <3> HIDE DEF f, g, e, still
    <3> QED BY DEF CoversSettled
  <2>1. j \in unacked \ still /\ f[j] = ties.by[j]
    <3> HIDE DEF f, still
    <3> QED BY <1>3, <1>9
  <2> HIDE DEF f, g
  <2>2. f[j] \in Ids \ Own
    BY <1>8, <2>1
  <2> QED BY <1>4, <2>1, <2>2
<1>11. p \in Packets /\ pkts \in Seq(Packets) /\ f = [i \in Ids |-> f[i]]
  BY <1>9 DEF Packets, CaptureInv
<1> HIDE DEF f, g, e, still
<1> QED BY <1>1, <1>7, <1>10, <1>11, SettledPreserved

\* The packets that an ACK settles.
LEMMA SettledByAck ==
    ASSUME AckInv, CaptureInv, TriggerInv, SettledInv, NEW a \in Received,
           ProcessNewAck(a), pkts' = Append(pkts, a)
    PROVE  SettledInv'
<1> DEFINE acked == AckedNow(a)
           f == [i \in Ids |-> IF i \in acked THEN New ELSE ack_packet[i]]
           e == IF acked = {} THEN 0 ELSE Max(acked)
<1>1. trigger' = Append(trigger, e) /\ ack_packet' = Append(f, 0)
  BY Zenon DEF ProcessNewAck
<1>2. /\ Len(pkts) \in Nat /\ Ids \subseteq 0 .. Len(pkts) /\ 0 \notin Ids
      /\ acked \subseteq Own /\ Own \subseteq Ids
  BY CaptureTypes DEF CaptureInv, AckedNow
<1> HIDE DEF acked
<1>3. acked # {} => e # 0
  <2> acked \subseteq 0 .. Len(pkts)
    BY <1>2
  <2> QED BY <1>2, MaxIsLast
<1>4. KeepsTriggers(trigger)
  BY DEF TriggerInv, Entries, KeepsTriggers
<1>5. f = [i \in Ids |-> f[i]] /\ \A i \in Ids : f[i] = ack_packet[i] \/ (i \in acked /\ f[i] = New)
  OBVIOUS
<1>6. ~a.out /\ a \in Packets /\ pkts \in Seq(Packets)
  BY DEF Packets, Received, AckPacket, CaptureInv
<1> HIDE DEF f, e
<1>7. CoversSettled(f, trigger, e, a)
  BY <1>2, <1>3, <1>5, <1>6 DEF CoversSettled
<1> QED BY <1>1, <1>4, <1>5, <1>6, <1>7, SettledPreserved

LEMMA SettledStep ==
    ASSUME AckInv, CaptureInv, TriggerInv, SettledInv, [Next]_vars
    PROVE  SettledInv'
<1>1. CASE UNCHANGED vars
  BY <1>1 DEF SettledInv, Own, Ids, vars, linkVars
<1>2. ASSUME NEW p \in OwnPackets, AddPacket(p)
      PROVE  SettledInv'
  <2>1. pkts' = Append(pkts, p) /\ p \in Packets
    BY <1>2, SentIsStored DEF Packets
  <2>2. CASE ack_packet' = Append(ack_packet, 0) /\ trigger' = Append(trigger, 0)
    BY <2>1, <2>2, NothingSettled
  <2>3. ASSUME NEW sq, NEW high, PushRtx(p, sq, high)
        PROVE  SettledInv'
    BY <2>1, <2>3, SettledByTies
  <2> QED BY <1>2, <2>2, <2>3, SendCases DEF AddOther, PushNew, NoteNew
<1>3. ASSUME NEW a \in Received, ProcessOldAck(a) \/ ProcessNewAck(a)
      PROVE  SettledInv'
  <2>1. pkts' = Append(pkts, a) /\ a \in Packets
    BY <1>3, ReceivedIsStored DEF Packets
  <2>2. CASE ProcessOldAck(a)
    BY <2>1, <2>2, NothingSettled DEF ProcessOldAck
  <2>3. CASE ProcessNewAck(a)
    BY <2>1, <2>3, SettledByAck
  <2> QED BY <1>3, <2>2, <2>3
<1> QED BY <1>1, <1>2, <1>3, StepCases DEF CaptureInv

-----------------------------------------------------------------------------
(***************************************************************************)
(* What the other endpoint set the triggers to: earlier packets of its own. *)
(***************************************************************************)
PeerFound(i, t) == t \in {0, Unseen} \/ (t \in PeerData /\ t < i)

FoundBefore(f) ==
    /\ f = [i \in Ids |-> f[i]]
    /\ \A i \in Ids : PeerFound(i, f[i])

PeerInv == FoundBefore(peer_trigger)

LEMMA PeerPreserved ==
    ASSUME pkts \in Seq(Packets), NEW q \in Packets, pkts' = Append(pkts, q),
           NEW f, FoundBefore(f), NEW e, e \in {0, Unseen} \cup PeerData,
           peer_trigger' = Append(f, e)
    PROVE  PeerInv'
<1>1. /\ Len(pkts) \in Nat /\ Len(pkts') = New
      /\ Ids = 1 .. Len(pkts) /\ Ids' = 1 .. New
      /\ \A i \in Ids : pkts'[i] = pkts[i]
      /\ Own' = IF q.out THEN Own \cup {New} ELSE Own
      /\ Own \subseteq Ids
  BY Captured
<1>2. /\ New = Len(pkts) + 1 /\ New \notin Ids /\ Ids' = Ids \cup {New}
      /\ PeerData \subseteq Ids /\ PeerData \subseteq PeerData' /\ \A i \in Ids : i < New
  BY <1>1 DEF New, PeerData
<1>3. /\ peer_trigger' = [i \in Ids' |-> peer_trigger'[i]]
      /\ \A i \in Ids : peer_trigger'[i] = f[i]
      /\ peer_trigger'[New] = e
  BY <1>1, <1>2, AppendEntry DEF FoundBefore
<1>4. ASSUME NEW i \in Ids'
      PROVE  \/ peer_trigger'[i] \in {0, Unseen}
             \/ peer_trigger'[i] \in PeerData' /\ peer_trigger'[i] < i
  <2>1. CASE i = New
    BY <1>2, <1>3, <2>1
  <2>2. CASE i \in Ids
    BY <1>2, <1>3, <2>2 DEF FoundBefore, PeerFound
  <2> QED BY <1>2, <2>1, <2>2
<1> QED BY <1>3, <1>4 DEF PeerInv, FoundBefore, PeerFound, Unseen

LEMMA PeerStep ==
    ASSUME CaptureInv, PeerInv, [Next]_vars
    PROVE  PeerInv'
<1>1. CASE UNCHANGED vars
  BY <1>1 DEF PeerInv, FoundBefore, PeerFound, PeerData, Unseen, Own, Ids, vars
<1>2. CASE Next
  <2>1. pkts \in Seq(Packets)
    BY DEF CaptureInv
  <2>2. PICK q \in Packets : pkts' = Append(pkts, q)
    <3>1. ASSUME NEW p \in OwnPackets, AddPacket(p)
          PROVE  \E q \in Packets : pkts' = Append(pkts, q)
      BY <3>1, SentIsStored DEF Packets
    <3>2. ASSUME NEW a \in Received, ProcessOldAck(a) \/ ProcessNewAck(a)
          PROVE  \E q \in Packets : pkts' = Append(pkts, q)
      BY <3>2, ReceivedIsStored DEF Packets
    <3> QED BY <1>2, <2>1, <3>1, <3>2, StepCases
  <2>3. FoundBefore(peer_trigger) /\ NotYetAcked \subseteq {Unseen} \cup PeerData
    BY DEF PeerInv, NotYetAcked
  <2>4. CASE PeerProcessAck
    <3> PICK t \in {0} \cup NotYetAcked : peer_trigger' = Append(peer_trigger, t)
      BY <2>4 DEF PeerProcessAck
    <3> t \in {0, Unseen} \cup PeerData
      BY <2>3
    <3> QED BY <2>1, <2>2, <2>3, PeerPreserved
  <2>5. CASE PeerAddPacket
    <3>1. PICK by \in [Own -> {0} \cup NotYetAcked] :
             LET tied == [i \in Ids |-> IF i \in Own /\ by[i] # 0 THEN by[i] ELSE peer_trigger[i]]
             IN  /\ \A i \in Own : by[i] < i
                 /\ \E t \in {0} \cup { tied[i] : i \in Own } : peer_trigger' = Append(tied, t)
      BY <2>5 DEF PeerAddPacket
    <3> DEFINE tied == [i \in Ids |-> IF i \in Own /\ by[i] # 0 THEN by[i] ELSE peer_trigger[i]]
    <3>2. FoundBefore(tied)
      <4>1. \A i \in Own : by[i] \in {0, Unseen} \cup PeerData /\ by[i] < i
        BY <2>3, <3>1
      <4>2. \A i \in Ids : tied[i] = IF i \in Own /\ by[i] # 0 THEN by[i] ELSE peer_trigger[i]
        OBVIOUS
      <4>3. tied = [i \in Ids |-> tied[i]]
        OBVIOUS
      <4> HIDE DEF tied
      <4> QED BY <2>3, <4>1, <4>2, <4>3 DEF FoundBefore, PeerFound
    <3>3. PICK t \in {0} \cup { tied[i] : i \in Own } : peer_trigger' = Append(tied, t)
      BY <3>1
    <3> HIDE DEF tied
    <3>4. t \in {0, Unseen} \cup PeerData
      <4> Own \subseteq Ids
        BY DEF Own
      <4> QED BY <3>2, <3>3 DEF FoundBefore, PeerFound
    <3> QED BY <2>1, <2>2, <3>2, <3>3, <3>4, PeerPreserved
  <2>6. CASE peer_trigger' = Append(peer_trigger, 0)
    BY <2>1, <2>2, <2>3, <2>6, PeerPreserved
  <2> QED BY <1>2, <2>4, <2>5, <2>6 DEF Next, PeerSide
<1> QED BY <1>1, <1>2

LEMMA SharedStart == Init => SettledInv /\ PeerInv
<1> SUFFICES ASSUME Init PROVE SettledInv /\ PeerInv
  OBVIOUS
<1>1. Ids = {} /\ Own = {} /\ peer_trigger = << >>
  BY DEF Init, Ids, Own
<1>2. << >> = [i \in {} |-> peer_trigger[i]]
  OBVIOUS
<1> QED BY <1>1, <1>2 DEF SettledInv, PeerInv, FoundBefore

(***************************************************************************)
(* What the two endpoints leave in trigger_packet_ of a packet they share,   *)
(* in every capture, with any lookalikes and ties on either side: an ACK     *)
(* that settled something has one of the packets it settled as its trigger,  *)
(* and the trigger of a retransmission was settled before it, unless the     *)
(* retransmission itself acks data of the other endpoint.                   *)
(***************************************************************************)
THEOREM TriggersAreSound == Spec => []TriggerSound
<1>1. CaptureInv /\ TriggerInv /\ SettledInv /\ PeerInv => TriggerSound
  <2> SUFFICES ASSUME CaptureInv, TriggerInv, SettledInv, PeerInv PROVE TriggerSound
    OBVIOUS
  <2>1. \A i \in Ids : trigger[i] # 0 => /\ trigger[i] < i /\ trigger[i] \in Own
                                        /\ IF pkts[i].out THEN ack_packet[trigger[i]] \in 1 .. i - 1
                                           ELSE ack_packet[trigger[i]] = i
    BY DEF TriggerInv, TriggerLinks
  <2>2. \A i \in Ids : peer_trigger[i] # 0 =>
           /\ peer_trigger[i] < i
           /\ peer_trigger[i] \in {Unseen} \cup PeerData /\ peer_trigger[i] \notin Own
    <3> \A i \in Ids : i \in Nat
      BY CaptureTypes DEF CaptureInv
    <3> Unseen \notin Own /\ \A i \in Ids : Unseen < i
      BY DEF Unseen, Own
    <3> QED BY DEF PeerInv, FoundBefore, PeerFound, PeerData
  <2>3. ASSUME NEW i \in Ids, TriggerPacket(i) # 0
        PROVE  /\ TriggerPacket(i) < i
               /\ IF TriggerPacket(i) \notin Own THEN TriggerPacket(i) \in {Unseen} \cup PeerData
                  ELSE IF pkts[i].out THEN ack_packet[TriggerPacket(i)] \in 1 .. i - 1
                  ELSE ack_packet[TriggerPacket(i)] = i
    <3>1. \/ TriggerPacket(i) = trigger[i] /\ trigger[i] # 0
          \/ TriggerPacket(i) = peer_trigger[i] /\ peer_trigger[i] # 0
      BY <2>3 DEF TriggerPacket
    <3> QED BY <2>1, <2>2, <3>1
  <2>4. ASSUME NEW j \in Own, ack_packet[j] # 0
        PROVE  TriggerPacket(ack_packet[j]) \in Own
    <3>1. ack_packet[j] \in Ids \ Own /\ trigger[ack_packet[j]] # 0
      BY <2>4 DEF SettledInv
    <3>2. TriggerPacket(ack_packet[j]) = trigger[ack_packet[j]]
      BY <3>1 DEF TriggerPacket, Own
    <3> QED BY <2>1, <3>1, <3>2
  <2> QED BY <2>3, <2>4 DEF TriggerSound
<1>2. AckInv /\ CaptureInv /\ TriggerInv /\ SettledInv /\ PeerInv /\ [Next]_vars
        => AckInv' /\ CaptureInv' /\ TriggerInv' /\ SettledInv' /\ PeerInv'
  BY AckStep, CaptureStep, TriggerStep, SettledStep, PeerStep
<1> QED BY <1>1, <1>2, CaptureStart, SharedStart, PTL DEF Spec

-----------------------------------------------------------------------------
\* The ACK delays of all originals that were acked.
Settled == { delays[i].ack : i \in { j \in Own : ack_packet[j] # 0 /\ previous_tx[j] = 0 } }

\* The inductive invariant about the smallest of them.
MinInv ==
    /\ Entries(delays)
    /\ \A i \in Ids : DOMAIN delays[i] = DOMAIN NoDelays /\ delays[i].ack \in Nat
    /\ 0 \notin Settled => LeastOf(min_rtt, Settled)

\* The delays f of the originals in a set of packets.
DelaysIn(f, s) == { f[i].ack : i \in { j \in s : previous_tx[j] = 0 } }

\* A step in which the packets of S get their ACKs; f are the delays after it.
Settles(f, S) ==
    /\ S \subseteq unacked
    /\ f = [i \in Ids |-> f[i]] /\ delays' = Append(f, NoDelays)
    /\ \A i \in Ids :
          /\ DOMAIN f[i] = DOMAIN NoDelays
          /\ previous_tx'[i] = previous_tx[i]
          /\ i \in S => f[i].ack \in Nat /\ ack_packet'[i] # 0
          /\ i \notin S => f[i].ack = delays[i].ack /\ ack_packet'[i] = ack_packet[i]
    /\ ack_packet'[New] = 0
    /\ 0 \notin DelaysIn(f, S) =>
          LeastOf(min_rtt', ({min_rtt} \ {0}) \cup DelaysIn(f, S))

\* Their delays join the settled ones.
LEMMA MinPreserved ==
    ASSUME AckInv, MinInv, NEW q \in Packets, pkts' = Append(pkts, q),
           NEW f, NEW S, Settles(f, S)
    PROVE  MinInv'
<1> DEFINE E == DelaysIn(f, S)
<1> S \subseteq unacked
  BY DEF Settles
<1> f = [i \in Ids |-> f[i]] /\ delays' = Append(f, NoDelays)
  BY DEF Settles
<1> \A i \in Ids :
       /\ DOMAIN f[i] = DOMAIN NoDelays
       /\ previous_tx'[i] = previous_tx[i]
       /\ i \in S => f[i].ack \in Nat /\ ack_packet'[i] # 0
       /\ i \notin S => f[i].ack = delays[i].ack /\ ack_packet'[i] = ack_packet[i]
  BY DEF Settles
<1> ack_packet'[New] = 0
  BY DEF Settles
<1> 0 \notin E => LeastOf(min_rtt', ({min_rtt} \ {0}) \cup E)
  BY DEF Settles
<1>1. /\ pkts' \in Seq(Packets) /\ Len(pkts) \in Nat /\ Len(pkts') = New
      /\ Ids = 1 .. Len(pkts) /\ Ids' = 1 .. New
      /\ Own' = IF q.out THEN Own \cup {New} ELSE Own
      /\ Own \subseteq Ids
  BY Captured DEF AckInv
<1>2. New = Len(pkts) + 1 /\ New \notin Ids /\ Ids' = Ids \cup {New} /\ S \subseteq Own
  BY <1>1 DEF New, AckInv
<1>3. /\ Entries(delays)'
      /\ \A i \in Ids : delays'[i] = f[i]
      /\ delays'[New] = NoDelays
  BY <1>1, <1>2, AppendEntry DEF Entries
<1>4. \A i \in Ids' : DOMAIN delays'[i] = DOMAIN NoDelays /\ delays'[i].ack \in Nat
  <2>1. \A i \in Ids : DOMAIN f[i] = DOMAIN NoDelays /\ f[i].ack \in Nat
    BY DEF MinInv
  <2>2. DOMAIN delays'[New] = DOMAIN NoDelays /\ delays'[New].ack \in Nat
    <3>1. NoDelays.ack \in Nat
      BY DEF NoDelays
    <3>2. delays'[New] = NoDelays
      BY <1>3
    <3> QED BY ONLY <3>1, <3>2
  <2>3. \A i \in Ids : DOMAIN delays'[i] = DOMAIN NoDelays /\ delays'[i].ack \in Nat
    BY <1>3, <2>1
  <2> QED BY ONLY <1>2, <2>2, <2>3
<1>5. \A i \in Own' : ack_packet'[i] # 0 => i \in Own
  BY <1>1
<1>6. Settled' = Settled \cup E
  <2>1. ASSUME NEW i \in Own', ack_packet'[i] # 0, previous_tx'[i] = 0
        PROVE  delays'[i].ack \in Settled \cup E
    <3>1. i \in Own /\ i \in Ids /\ delays'[i] = f[i] /\ previous_tx[i] = 0
      BY <1>1, <1>3, <1>5, <2>1
    <3>2. CASE i \in S
      BY <3>1, <3>2 DEF DelaysIn
    <3>3. CASE i \notin S
      <4> f[i].ack = delays[i].ack /\ ack_packet[i] # 0
        BY <2>1, <3>1, <3>3
      <4> QED BY <3>1 DEF Settled
    <3> QED BY <3>2, <3>3
  <2>2. ASSUME NEW i \in Own, ack_packet[i] # 0, previous_tx[i] = 0
        PROVE  delays[i].ack \in Settled'
    <3>1. i \in Ids /\ i \notin S /\ i \in Own'
      BY <1>1, <2>2 DEF AckInv
    <3>2. delays'[i].ack = delays[i].ack /\ ack_packet'[i] # 0 /\ previous_tx'[i] = 0
      BY <1>3, <2>2, <3>1
    <3> QED BY <3>1, <3>2, Zenon DEF Settled
  <2>3. ASSUME NEW i \in S, previous_tx[i] = 0
        PROVE  f[i].ack \in Settled'
    <3>1. i \in Ids /\ i \in Own'
      BY <1>1, <1>2
    <3>2. delays'[i].ack = f[i].ack /\ ack_packet'[i] # 0 /\ previous_tx'[i] = 0
      BY <1>3, <2>3, <3>1
    <3> QED BY <3>1, <3>2, Zenon DEF Settled
  <2>4. Settled' \subseteq Settled \cup E
    BY <2>1 DEF Settled
  <2>5. Settled \subseteq Settled'
    BY <2>2, Zenon DEF Settled
  <2>6. E \subseteq Settled'
    BY <2>3 DEF DelaysIn
  <2> QED BY <2>4, <2>5, <2>6
<1>7. ASSUME 0 \notin Settled'
      PROVE  LeastOf(min_rtt', Settled')
  <2>1. Settled \subseteq Nat \ {0} /\ LeastOf(min_rtt, Settled)
    <3>1. Settled \subseteq Nat
      BY <1>1 DEF MinInv, Settled
    <3> QED BY <1>6, <1>7, <3>1 DEF MinInv
  <2>2. E \subseteq Nat /\ LeastOf(min_rtt', ({min_rtt} \ {0}) \cup E)
    <3>1. \A i \in S : f[i].ack \in Nat
      BY <1>1, <1>2
    <3>2. E \subseteq Nat
      BY <3>1 DEF DelaysIn
    <3>3. 0 \notin E
      BY <1>6, <1>7
    <3> QED BY <3>2, <3>3
  <2>3. LeastOf(min_rtt', Settled \cup E)
    BY ONLY <2>1, <2>2, EarlierDelays
  <2> QED BY <1>6, <2>3
<1> QED BY <1>3, <1>4, <1>5, <1>7 DEF MinInv

\* What a retransmission records of the delays of its line leaves their ACK delays.
LEMMA RtxKeepsAckDelays ==
    ASSUME NEW p, NEW prev, NEW ds, \A i \in Ids : DOMAIN ds[i] = DOMAIN NoDelays
    PROVE  LET new == RtxDelays(p, prev, ds)
           IN  /\ new = [i \in Ids |-> new[i]]
               /\ \A i \in Ids : DOMAIN new[i] = DOMAIN NoDelays /\ new[i].ack = ds[i].ack
<1> DEFINE new == RtxDelays(p, prev, ds)
<1>1. DOMAIN NoDelays = {"ack", "rtx", "final", "attempts"}
  BY DEF NoDelays
<1>2. new = [i \in Ids |-> new[i]]
  BY DEF RtxDelays
<1>3. ASSUME NEW i \in Ids
      PROVE  DOMAIN new[i] = DOMAIN NoDelays /\ new[i].ack = ds[i].ack
  <2> DEFINE r == IF ds[i].rtx = 0 THEN p.ts - pkts[i].ts ELSE ds[i].rtx
             fin == IF previous_tx[i] = 0 THEN p.ts - pkts[i].ts ELSE ds[i].final
             n == IF previous_tx[i] = 0 THEN ds[i].attempts + 1 ELSE ds[i].attempts
  <2>1. new[i] = ds[i] \/ new[i] = [ds[i] EXCEPT !.rtx = r, !.final = fin, !.attempts = n]
    BY <1>1 DEF RtxDelays
  <2> HIDE DEF new, r, fin, n
  <2> QED BY <1>1, <2>1
<1> HIDE DEF new
<1> QED BY <1>2, <1>3 DEF new

\* Every step keeps the smallest delay.
LEMMA MinStep ==
    ASSUME AckInv, CaptureInv, LinesInv, MinInv, [Next]_vars
    PROVE  MinInv'
<1>0. /\ Len(pkts) \in Nat /\ Ids = 1 .. Len(pkts) /\ Own \subseteq Ids /\ unacked \subseteq Ids
      /\ New = Len(pkts) + 1
  BY CaptureTypes DEF CaptureInv, New
<1>1. CASE UNCHANGED vars
  <2>1. /\ Ids' = Ids /\ Own' = Own /\ Settled' = Settled
        /\ delays' = delays /\ ack_packet' = ack_packet /\ min_rtt' = min_rtt
    BY <1>1 DEF Settled, Own, Ids, vars, linkVars, noteVars, ackVars
  <2> QED BY <2>1 DEF MinInv, Entries
<1>2. ASSUME NEW e, previous_tx' = Append(previous_tx, e)
      PROVE  \A i \in Ids : previous_tx'[i] = previous_tx[i]
  BY <1>0, <1>2, AppendEntry DEF LinesInv, Entries
<1>3. ASSUME NEW f, f = [i \in Ids |-> f[i]], ack_packet' = Append(f, 0)
      PROVE  (\A i \in Ids : ack_packet'[i] = f[i]) /\ ack_packet'[New] = 0
  BY <1>0, <1>3, AppendEntry
<1>4. ASSUME NEW q \in Packets, pkts' = Append(pkts, q), min_rtt' = min_rtt,
             previous_tx' = Append(previous_tx, 0), ack_packet' = Append(ack_packet, 0),
             delays' = Append(delays, NoDelays)
      PROVE  MinInv'
  <2>1. /\ \A i \in Ids : ack_packet'[i] = ack_packet[i]
        /\ ack_packet'[New] = 0
    BY <1>3, <1>4 DEF AckInv, Entries
  <2>2. \A i \in Ids : previous_tx'[i] = previous_tx[i]
    BY <1>2, <1>4
  <2> DEFINE S == {}
             f == delays
  <2>3. DelaysIn(f, S) = {} /\ S \in SUBSET unacked /\ \A i \in Ids : i \notin S
    BY DEF DelaysIn
  <2>4. LeastOf(min_rtt', ({min_rtt} \ {0}) \cup DelaysIn(f, S))
    BY <1>4, <2>3 DEF LeastOf, CaptureInv
  <2>5. f = [i \in Ids |-> f[i]] /\ \A i \in Ids : DOMAIN f[i] = DOMAIN NoDelays
    BY DEF MinInv, Entries
  <2>6. delays' = Append(f, NoDelays) /\ \A i \in Ids : f[i].ack = delays[i].ack
    BY <1>4
  <2> HIDE DEF S, f
  <2>7. Settles(f, S)
    BY <2>1, <2>2, <2>3, <2>4, <2>5, <2>6 DEF Settles
  <2> QED BY <1>4, <2>7, MinPreserved
<1>5. ASSUME NEW p \in OwnPackets, AddPacket(p)
      PROVE  MinInv'
  <2>1. pkts' = Append(pkts, p) /\ p \in Packets
    BY <1>5, SentIsStored DEF Packets
  <2>2. ASSUME NEW sq, NEW high, PushNew(p, sq, high)
        PROVE  MinInv'
    BY <1>4, <2>1, <2>2 DEF PushNew, NoteNew
  <2>3. ASSUME NEW sq, NEW high, PushRtx(p, sq, high)
        PROVE  MinInv'
    <3> DEFINE ties  == TiesOf(p, sq)
               still == { i \in unacked : ties.by[i] = 0 }
               S     == unacked \ still
               prev  == PreviousTx(p)
               acks  == [i \in Ids |-> IF i \in S THEN ties.by[i] ELSE ack_packet[i]]
               delay(i) == pkts[ties.by[i]].ts - pkts[i].ts
               tied  == [i \in Ids |-> IF i \in S THEN [delays[i] EXCEPT !.ack = delay(i)]
                                       ELSE delays[i]]
               f     == RtxDelays(p, prev, tied)
               E     == TiedDelays(ties)
    <3>1. /\ ack_packet' = Append(acks, 0) /\ previous_tx' = Append(previous_tx, prev)
          /\ delays' = Append(f, NoDelays) /\ min_rtt' = ties.min_rtt
      BY <2>3, Zenon DEF PushRtx, PushTied
    <3>2. TiesOK(unacked, ties)
      BY TiesSound
    <3>3. E \subseteq Nat \ {0} /\ LeastOf(min_rtt', ({min_rtt} \ {0}) \cup E)
      <4> HIDE DEF ties
      <4> QED BY <3>1, <3>2, TiedDelaysTyped DEF TiesOK
    <3>4. /\ \A i \in S : i \in unacked /\ ties.by[i] # 0 /\ delay(i) \in E
                          /\ previous_tx[i] = 0
      <4> HIDE DEF ties
      <4> QED BY <3>2 DEF TiesOK, TiedDelays
    <3>5. /\ \A i \in Ids : ack_packet'[i] = IF i \in S THEN ties.by[i] ELSE ack_packet[i]
          /\ ack_packet'[New] = 0
      <4>1. /\ acks = [i \in Ids |-> acks[i]]
            /\ \A i \in Ids : acks[i] = IF i \in S THEN ties.by[i] ELSE ack_packet[i]
        <5> HIDE DEF ties, S
        <5> QED OBVIOUS
      <4> HIDE DEF acks
      <4> QED BY <1>3, <3>1, <4>1
    <3>6. \A i \in Ids : previous_tx'[i] = previous_tx[i]
      BY <1>2, <3>1
    <3>7. \A i \in Ids : /\ DOMAIN tied[i] = DOMAIN NoDelays
                         /\ tied[i].ack = IF i \in S THEN delay(i) ELSE delays[i].ack
      <4> HIDE DEF S, delay
      <4> QED BY DEF MinInv, NoDelays
    <3>8. /\ f = [i \in Ids |-> f[i]]
          /\ \A i \in Ids : /\ DOMAIN f[i] = DOMAIN NoDelays
                            /\ f[i].ack = IF i \in S THEN delay(i) ELSE delays[i].ack
      <4> HIDE DEF tied, S, delay
      <4> QED BY <3>7, RtxKeepsAckDelays
    <3>9. E = DelaysIn(f, S)
      <4>1. \A i \in S : f[i].ack = delay(i) /\ previous_tx[i] = 0
        <5> HIDE DEF f, S, delay, ties
        <5> QED BY <1>0, <3>4, <3>8
      <4>2. E = { delay(i) : i \in S }
        <5> S = { j \in unacked : ties.by[j] # 0 }
          OBVIOUS
        <5> HIDE DEF ties
        <5> QED BY DEF TiedDelays
      <4> HIDE DEF f, S, delay, ties, E
      <4> QED BY <4>1, <4>2 DEF DelaysIn
    <3>10. S \subseteq unacked
      OBVIOUS
    <3> HIDE DEF f, S, delay, ties, E, acks, tied, still
    <3>11. \A i \in S : f[i].ack \in Nat /\ ack_packet'[i] # 0
      BY <1>0, <3>3, <3>4, <3>5, <3>8, <3>10
    <3>12. Settles(f, S)
      BY <3>1, <3>3, <3>5, <3>6, <3>8, <3>9, <3>10, <3>11 DEF Settles
    <3> QED BY <2>1, <3>12, MinPreserved
  <2>4. CASE AddOther(p)
    BY <1>4, <2>1, <2>4 DEF AddOther, NoteNew
  <2> QED BY <1>5, <2>2, <2>3, <2>4, SendCases
<1>6. ASSUME NEW a \in Received, InTime(a), ProcessOldAck(a) \/ ProcessNewAck(a)
      PROVE  MinInv'
  <2>1. pkts' = Append(pkts, a) /\ a \in Packets
    BY <1>6, ReceivedIsStored DEF Packets
  <2>2. previous_tx' = Append(previous_tx, 0)
    <3> NoteAck(a)
      BY <1>6, Zenon DEF ProcessOldAck, ProcessNewAck
    <3> QED BY DEF NoteAck
  <2>3. CASE ProcessOldAck(a)
    BY <1>4, <2>1, <2>2, <2>3 DEF ProcessOldAck
  <2>4. CASE ProcessNewAck(a)
    <3> DEFINE S    == AckedNow(a)
               acks == [i \in Ids |-> IF i \in S THEN New ELSE ack_packet[i]]
               delay(i) == a.ts - pkts[i].ts
               f    == [i \in Ids |-> IF i \in S THEN [delays[i] EXCEPT !.ack = delay(i)]
                                      ELSE delays[i]]
               est  == EstimatesOf(a, S)
    <3>1. /\ ack_packet' = Append(acks, 0) /\ delays' = Append(f, NoDelays)
          /\ min_rtt' = est.min_rtt
      BY <2>4, Zenon DEF ProcessNewAck
    <3>2. S \in SUBSET unacked
      BY DEF AckedNow
    <3>3. /\ \A i \in Ids : ack_packet'[i] = IF i \in S THEN New ELSE ack_packet[i]
          /\ ack_packet'[New] = 0 /\ New # 0
      <4>1. /\ acks = [i \in Ids |-> acks[i]]
            /\ \A i \in Ids : acks[i] = IF i \in S THEN New ELSE ack_packet[i]
        <5> HIDE DEF S
        <5> QED OBVIOUS
      <4> HIDE DEF acks
      <4> QED BY <1>0, <1>3, <3>1, <4>1
    <3>4. \A i \in Ids : previous_tx'[i] = previous_tx[i]
      BY <1>2, <2>2
    <3>5. /\ f = [i \in Ids |-> f[i]]
          /\ \A i \in Ids : /\ DOMAIN f[i] = DOMAIN NoDelays
                            /\ f[i].ack = IF i \in S THEN delay(i) ELSE delays[i].ack
      <4> HIDE DEF S, delay
      <4> QED BY DEF MinInv, NoDelays
    <3>6. \A i \in S : delay(i) \in Nat
      BY <1>0, <1>6, <2>1, <3>2, NoneLater
    <3>7. DelaysIn(f, S) = CoveredDelays(a, S)
      <4>1. \A i \in S : f[i].ack = delay(i)
        BY <1>0, <3>2, <3>5
      <4> HIDE DEF f, S
      <4> QED BY <4>1 DEF DelaysIn, CoveredDelays
    <3>8. EstimateOK(a, S, est)
      <4> HIDE DEF S
      <4> QED BY <1>6, <2>1, <3>2, EstimatesSound
    <3> HIDE DEF S, acks, delay, f, est
    <3>9. 0 \notin DelaysIn(f, S) =>
             LeastOf(min_rtt', ({min_rtt} \ {0}) \cup DelaysIn(f, S))
      BY <3>1, <3>7, <3>8 DEF EstimateOK
    <3>10. \A i \in S : f[i].ack \in Nat /\ ack_packet'[i] # 0
      BY <1>0, <3>2, <3>3, <3>5, <3>6
    <3>11. Settles(f, S)
      BY <3>1, <3>2, <3>3, <3>4, <3>5, <3>9, <3>10 DEF Settles
    <3> QED BY <2>1, <3>11, MinPreserved
  <2> QED BY <1>6, <2>3, <2>4
<1> QED BY <1>1, <1>5, <1>6, StepCases DEF CaptureInv

(***************************************************************************)
(* min_rtt_us_ is the smallest delay of any original that was acked, however *)
(* ACKs, SACKs and ties settled them (but for delays of 0, which the code    *)
(* takes for "no delay yet").                                              *)
(***************************************************************************)
THEOREM MinRTTIsSmallest == Spec => []MinRTTIsMin
<1>1. Init => MinInv /\ LinesInv
  <2> SUFFICES ASSUME Init PROVE MinInv
    BY LinesStart
  <2>1. pkts \in Seq(Packets) /\ Ids = {} /\ Own = {}
    BY EmptySeq DEF Init, Ids, Own
  <2>2. Settled = {}
    BY <2>1 DEF Settled
  <2> QED BY <2>1, <2>2 DEF Init, MinInv, LeastOf, Entries
<1>2. MinInv /\ LinesInv => MinRTTIsMin
  <2> SUFFICES ASSUME MinInv, LinesInv, 0 \notin Settled
               PROVE  min_rtt = IF Settled = {} THEN 0 ELSE Min(Settled)
    BY DEF MinRTTIsMin, Settled
  <2>1. CASE Settled = {}
    BY <2>1 DEF MinInv, LeastOf
  <2>2. CASE Settled # {}
    <3>1. min_rtt \in Settled /\ \A d \in Settled : min_rtt <= d
      BY <2>2 DEF MinInv, LeastOf
    <3>2. \A d \in Settled : d \in Nat
      BY CaptureTypes DEF MinInv, Settled, LinesInv
    <3>3. Min(Settled) \in Settled /\ \A d \in Settled : Min(Settled) <= d
      <4> HIDE DEF Settled
      <4> QED BY <3>1 DEF Min
    <3>4. Min(Settled) <= min_rtt /\ min_rtt <= Min(Settled)
      BY <3>1, <3>3
    <3>5. Min(Settled) \in Nat /\ min_rtt \in Nat
      BY <3>1, <3>2, <3>3
    <3> QED BY <2>2, <3>4, <3>5
  <2> QED BY <2>1, <2>2
<1>3. /\ AckInv /\ CaptureInv /\ LinesInv /\ MinInv /\ [Next]_vars
            => AckInv' /\ CaptureInv' /\ LinesInv' /\ MinInv'
  BY AckStep, CaptureStep, LineStep, MinStep
<1> QED BY <1>1, <1>2, <1>3, CaptureStart, PTL DEF Spec

-----------------------------------------------------------------------------
(***************************************************************************)
(* The verdicts.  FindRtxTrigger leaves every flag of an earlier packet     *)
(* alone but for one of the packet that armed the timer, when a single       *)
(* timeout passed for a probe; the timer stays with that packet or goes to   *)
(* the new one.                                                            *)
(***************************************************************************)
Revised(m, i, armer) ==
    /\ i = armer /\ num_rtos = 1 /\ "tlp" \in marks[i]
    /\ m \in {marks[i] \ {"rto"}, marks[i] \ {"tlp"}}

Explained(t, armer) ==
    /\ {"rto", "tlp", "num_rtos", "high", "enabled", "mk", "found", "info"} \subseteq DOMAIN t
    /\ IsTimer(t.rto)
    /\ t.rto.armed_by \in {armer, New}
    /\ t.mk = [i \in 1 .. New |-> t.mk[i]]
    /\ \A i \in Ids : t.mk[i] = marks[i] \/ Revised(t.mk[i], i, armer)

\* Before CheckForRTO nothing is revised yet.
Untouched(t, armer) ==
    /\ Explained(t, armer)
    /\ t.rto.armed_by = armer /\ t.num_rtos = num_rtos
    /\ \A i \in Ids : t.mk[i] = marks[i]

\* A probe that is found is a flag of the new packet.
LEMMA TLPExplains ==
    ASSUME New \in Nat, Ids = 1 .. New - 1, NEW t, NEW armer, Untouched(t, armer), NEW p, NEW sq
    PROVE  Untouched(CheckForTLP(t, p, sq), armer)
<1> DEFINE u == CheckForTLP(t, p, sq)
           d == Elapsed(t.tlp, p)
           v == [t EXCEPT !.tlp.delay = d, !.mk[New] = @ \cup {"tlp"},
                          !.info.tlp = [t.tlp EXCEPT !.delay = d], !.found = TRUE]
<1>1. u \in {t, v}
  BY DEF CheckForTLP
<1>2. /\ DOMAIN v = DOMAIN t /\ v.rto = t.rto /\ v.num_rtos = t.num_rtos
      /\ v.mk = [t.mk EXCEPT ![New] = @ \cup {"tlp"}]
  <2> HIDE DEF d
  <2> QED BY Zenon DEF Untouched, Explained
<1>3. v.mk = [i \in 1 .. New |-> v.mk[i]] /\ \A i \in Ids : v.mk[i] = t.mk[i]
  <2> DEFINE was == t.mk
  <2>1. was = [i \in 1 .. New |-> was[i]] /\ v.mk = [was EXCEPT ![New] = @ \cup {"tlp"}]
    BY <1>2 DEF Untouched, Explained
  <2>2. \A i \in Ids : i \in 1 .. New /\ i # New
    OBVIOUS
  <2> HIDE DEF v, was
  <2>3. \A i \in Ids : v.mk[i] = was[i]
    BY <2>1, <2>2
  <2> QED BY <2>1, <2>3 DEF was
<1>4. Untouched(v, armer)
  <2> HIDE DEF v
  <2> QED BY <1>2, <1>3 DEF Untouched, Explained
<1> HIDE DEF u, v
<1>5. Untouched(u, armer)
  BY <1>1, <1>4
<1> QED BY <1>5 DEF u

\* What a timeout that matches changes: t is what there is before it.
Timed(t) ==
    /\ {"rto", "num_rtos", "high", "enabled", "mk", "found", "info"} \subseteq DOMAIN t
    /\ IsTimer(t.rto) /\ t.rto.armed_by \in Ids
    /\ t.mk = [i \in 1 .. New |-> t.mk[i]]

Again(t) == t.num_rtos = 1 /\ "tlp" \in t.mk[t.rto.armed_by]

TimedOut(u, t) ==
    /\ DOMAIN u = DOMAIN t
    /\ IsTimer(u.rto) /\ u.rto.armed_by = t.rto.armed_by
    /\ u.mk = [i \in 1 .. New |-> u.mk[i]]
    /\ \A i \in Ids : i # t.rto.armed_by => u.mk[i] = t.mk[i]
    /\ u.mk[t.rto.armed_by] = IF Again(t) THEN t.mk[t.rto.armed_by] \ {"tlp"}
                              ELSE t.mk[t.rto.armed_by]

LEMMA TieFieldsOfRTO ==
    ASSUME New \in Nat, Ids = 1 .. New - 1, NEW t, Timed(t), NEW p, NEW sq
    PROVE  TimedOut(TieToRTO(t, p, sq), t)
<1> USE DEF Timed
<1> DEFINE armer == t.rto.armed_by
           again == t.num_rtos = 1 /\ "tlp" \in t.mk[armer]
           fired == [t.rto EXCEPT !.delay = Elapsed(t.rto, p)]
           mk == [t.mk EXCEPT ![armer] = IF again THEN @ \ {"tlp"} ELSE @,
                              ![New]   = @ \cup {"rto"}]
           u == TieToRTO(t, p, sq)
<1>1. IsTimer(fired) /\ fired.armed_by = armer
  BY DelayReplaced
<1>2. DOMAIN u = DOMAIN t /\ u.rto = fired /\ u.mk = mk
  <2>1. DOMAIN u = DOMAIN t /\ u.rto = fired
    <3> HIDE DEF fired
    <3> QED BY Zenon DEF TieToRTO, fired
  <2>2. u.mk = mk
    BY Zenon DEF TieToRTO
  <2> QED BY <2>1, <2>2
<1>3. /\ mk = [i \in 1 .. New |-> mk[i]]
      /\ \A i \in Ids : i # armer => mk[i] = t.mk[i]
      /\ mk[armer] = IF again THEN t.mk[armer] \ {"tlp"} ELSE t.mk[armer]
  <2> DEFINE was == t.mk
  <2>1. was = [i \in 1 .. New |-> was[i]] /\ armer \in 1 .. New /\ armer # New
    OBVIOUS
  <2>2. \A i \in Ids : i \in 1 .. New /\ i # New
    OBVIOUS
  <2> HIDE DEF armer, again
  <2> QED BY <2>1, <2>2
<1> HIDE DEF u, fired, mk, again, armer, Timed
<1>4. /\ DOMAIN u = DOMAIN t
      /\ IsTimer(u.rto) /\ u.rto.armed_by = armer
      /\ u.mk = [i \in 1 .. New |-> u.mk[i]]
      /\ \A i \in Ids : i # armer => u.mk[i] = t.mk[i]
      /\ u.mk[armer] = IF again THEN t.mk[armer] \ {"tlp"} ELSE t.mk[armer]
  BY <1>1, <1>2, <1>3
<1> QED BY <1>4 DEF u, again, armer, TimedOut, Again

\* A timeout that matches at once: the probe verdict of the packet that armed the
\* timer may go.
LEMMA TieExplains ==
    ASSUME New \in Nat, Ids = 1 .. New - 1, NEW armer \in Ids, NEW t, Untouched(t, armer),
           NEW p, NEW sq
    PROVE  Explained(TieToRTO(t, p, sq), armer)
<1> DEFINE u == TieToRTO(t, p, sq)
           again == t.num_rtos = 1 /\ "tlp" \in t.mk[armer]
<1>1. /\ DOMAIN u = DOMAIN t
      /\ IsTimer(u.rto) /\ u.rto.armed_by = armer
      /\ u.mk = [i \in 1 .. New |-> u.mk[i]]
      /\ \A i \in Ids : i # armer => u.mk[i] = t.mk[i]
      /\ u.mk[armer] = IF again THEN t.mk[armer] \ {"tlp"} ELSE t.mk[armer]
  <2>1. Timed(t) /\ t.rto.armed_by = armer
    BY DEF Untouched, Explained, Timed
  <2>2. TimedOut(u, t)
    BY <2>1, TieFieldsOfRTO
  <2> HIDE DEF u
  <2> QED BY <2>1, <2>2 DEF TimedOut, Again
<1> HIDE DEF u
<1>2. \A i \in Ids : u.mk[i] = marks[i] \/ Revised(u.mk[i], i, armer)
  BY <1>1 DEF Untouched, Revised
<1>3. Explained(u, armer)
  BY <1>1, <1>2 DEF Untouched, Explained
<1> QED BY <1>3 DEF u

\* A timeout that is undone: the other verdict goes.  If the timer that is armed
\* anew matches, nothing else does.
LEMMA UndoExplains ==
    ASSUME New \in Nat, Ids = 1 .. New - 1, NEW armer \in Ids, NEW t, Untouched(t, armer),
           t.num_rtos = 1, "tlp" \in t.mk[armer], NEW tm, NEW ids, NEW p, NEW sq
    PROVE  LET undone == UndoRTO(t, tm, ids)
           IN  Explained(undone, armer) /\ Explained(TieToRTO(undone, p, sq), armer)
<1> DEFINE v == UndoRTO(t, tm, ids)
           u == TieToRTO(v, p, sq)
           new_rto == ArmedRTO(armer, tm, 0)
           new_tlp == ArmedTLP(armer, tm, DelayedAck(ids, rtx, t.mk))
<1>1. /\ DOMAIN v = DOMAIN t /\ v.rto = new_rto /\ v.num_rtos = 0
      /\ v.mk = [t.mk EXCEPT ![armer] = @ \ {"rto"}]
  <2> t.rto.armed_by = armer
    BY DEF Untouched
  <2> v = [t EXCEPT !.num_rtos = 0, !.high = 0, !.mk[armer] = @ \ {"rto"},
                    !.rto = new_rto, !.tlp = new_tlp]
    BY DEF UndoRTO
  <2> HIDE DEF new_rto, new_tlp, v
  <2> QED BY DEF Untouched, Explained
<1>2. IsTimer(v.rto) /\ v.rto.armed_by = armer
  <2> HIDE DEF v
  <2> QED BY <1>1, Armed
<1>3. /\ v.mk = [i \in 1 .. New |-> v.mk[i]]
      /\ \A i \in Ids : i # armer => v.mk[i] = marks[i]
      /\ v.mk[armer] = marks[armer] \ {"rto"}
  <2> DEFINE was == t.mk
  <2>1. /\ was = [i \in 1 .. New |-> was[i]] /\ v.mk = [was EXCEPT ![armer] = @ \ {"rto"}]
        /\ \A i \in Ids : was[i] = marks[i]
    BY <1>1 DEF Untouched, Explained
  <2>2. \A i \in Ids : i \in 1 .. New
    OBVIOUS
  <2> HIDE DEF v, was
  <2> QED BY <2>1, <2>2
<1>4. num_rtos = 1 /\ "tlp" \in marks[armer]
  BY DEF Untouched
<1>5. Explained(v, armer)
  <2> HIDE DEF v
  <2> \A i \in Ids : v.mk[i] = marks[i] \/ Revised(v.mk[i], i, armer)
    BY <1>3, <1>4 DEF Revised
  <2> QED BY <1>1, <1>2, <1>3 DEF Untouched, Explained
<1>6. /\ DOMAIN u = DOMAIN v
      /\ IsTimer(u.rto) /\ u.rto.armed_by = armer
      /\ u.mk = [i \in 1 .. New |-> u.mk[i]]
      /\ \A i \in Ids : i # armer => u.mk[i] = v.mk[i]
      /\ u.mk[armer] = v.mk[armer]
  <2> HIDE DEF v
  <2>1. Timed(v) /\ ~Again(v)
    <3>1. {"rto", "num_rtos", "high", "enabled", "mk", "found", "info"} \subseteq DOMAIN v
      BY <1>5 DEF Explained
    <3>2. Timed(v)
      BY ONLY <1>2, <1>3, <3>1, armer \in Ids DEF Timed
    <3>3. v.num_rtos # 1
      BY <1>1
    <3> QED BY ONLY <3>2, <3>3 DEF Again
  <2>2. TimedOut(u, v)
    BY <2>1, TieFieldsOfRTO
  <2> HIDE DEF u
  <2> QED BY <1>2, <2>1, <2>2 DEF TimedOut
<1>7. Explained(u, armer)
  <2> HIDE DEF u, v
  <2> \A i \in Ids : u.mk[i] = marks[i] \/ Revised(u.mk[i], i, armer)
    BY <1>3, <1>4, <1>6 DEF Revised
  <2> QED BY <1>5, <1>6 DEF Explained
<1> QED BY <1>5, <1>7

\* CheckForRTO as a whole.
LEMMA RTOExplains ==
    ASSUME New \in Nat, Ids = 1 .. New - 1, NEW armer \in {0} \cup Ids, NEW t,
           Untouched(t, armer), NEW p, NEW sq, NEW tm, NEW ids
    PROVE  Explained(CheckForRTO(t, p, sq, tm, ids), armer)
<1> DEFINE u == CheckForRTO(t, p, sq, tm, ids)
           undone == UndoRTO(t, tm, ids)
           tied == TieToRTO(t, p, sq)
           retied == TieToRTO(undone, p, sq)
<1>1. Explained(t, armer) /\ t.rto.armed_by = armer
  BY DEF Untouched
<1>2. CASE armer = 0
  <2> u = t
    BY <1>1, <1>2 DEF CheckForRTO
  <2> QED BY <1>1
<1>3. CASE armer # 0
  <2>1. armer \in Ids
    BY <1>3
  <2>2. Explained(tied, armer)
    BY <2>1, TieExplains
  <2>3. CASE t.num_rtos = 1 /\ "tlp" \in t.mk[armer]
    <3>1. Explained(undone, armer) /\ Explained(retied, armer)
      BY <2>1, <2>3, UndoExplains
    <3>2. u \in {t, tied, undone, retied}
      BY DEF CheckForRTO
    <3> HIDE DEF u, undone, tied, retied
    <3>3. Explained(u, armer)
      BY <1>1, <2>2, <3>1, <3>2
    <3> QED BY <3>3 DEF u
  <2>4. CASE ~(t.num_rtos = 1 /\ "tlp" \in t.mk[armer])
    <3>1. u \in {t, tied}
      BY <1>1, <2>4 DEF CheckForRTO
    <3> HIDE DEF u, tied
    <3>2. Explained(u, armer)
      BY <1>1, <2>2, <3>1
    <3> QED BY <3>2 DEF u
  <2> QED BY <2>3, <2>4
<1> QED BY <1>2, <1>3

(***************************************************************************)
(* FindRtxTrigger after ties that are sound.  A lookalike that armed the    *)
(* timers is not a packet that passed for a probe: nothing is revised then, *)
(* and otherwise the timers are those of before.                            *)
(***************************************************************************)
VerdictInv ==
    /\ pkts \in Seq(Packets)
    /\ Entries(marks)
    /\ IsTimer(rto) /\ rto.armed_by \in {0} \cup Ids
    /\ \A i \in Ids \ Own : "tlp" \notin marks[i]

LEMMA TriggerExplains ==
    ASSUME VerdictInv, NEW p, NEW sq, NEW high, NEW ties, NEW ids,
           ties.armer \in {0} \cup (Ids \ Own)
    PROVE  LET t == FindRtxTrigger(p, sq, high, ties, ids)
           IN  /\ Entries(marks) /\ t.mk = [i \in 1 .. New |-> t.mk[i]]
               /\ IsTimer(t.rto) /\ t.rto.armed_by \in {0} \cup Ids \cup {New}
               /\ \A i \in Ids : t.mk[i] = marks[i] \/ Revised(t.mk[i], i, rto.armed_by)
<1> DEFINE t0 == [rto |-> TiedRTO(ties), tlp |-> TiedTLP(ties), num_rtos |-> num_rtos,
                  high |-> high, enabled |-> is_tlp_enabled,
                  mk |-> Append(marks, {"rtx"}), found |-> FALSE,
                  info |-> [rto |-> NoTimer, tlp |-> NoTimer]]
           t1 == CheckForRTO(CheckForTLP(t0, p, sq), p, sq, ties.timer, ids)
           prompt == [t0 EXCEPT !.mk[New] = @ \cup {IF high # 0 THEN "slow_start" ELSE "fast"}]
           armed == [t1 EXCEPT !.rto = ArmedRTO(New, ties.timer, t1.num_rtos), !.tlp = NoTimer]
           t == FindRtxTrigger(p, sq, high, ties, ids)
           armer == TiedRTO(ties).armed_by
<1>0. /\ New \in Nat /\ Ids = 1 .. New - 1 /\ New - 1 \in Nat /\ New \notin Ids
      /\ Ids = 1 .. Len(pkts) /\ New = Len(pkts) + 1 /\ Len(pkts) \in Nat
  BY CaptureTypes DEF VerdictInv, New
<1>1. IsTimer(TiedRTO(ties)) /\ armer \in {0} \cup Ids
  <2>1. CASE ties.armer = 0
    BY <2>1 DEF TiedRTO, VerdictInv
  <2>2. CASE ties.armer # 0
    BY <2>2, Armed DEF TiedRTO
  <2> QED BY <2>1, <2>2
<1>2. /\ t0.mk = [i \in 1 .. New |-> t0.mk[i]]
      /\ \A i \in Ids : t0.mk[i] = marks[i]
  <2> marks = [i \in 1 .. Len(pkts) |-> marks[i]]
    BY <1>0 DEF VerdictInv, Entries
  <2> QED BY <1>0, AppendEntry
<1>3. Untouched(t0, armer)
  <2> DOMAIN t0 = {"rto", "tlp", "num_rtos", "high", "enabled", "mk", "found", "info"}
    OBVIOUS
  <2> t0.rto = TiedRTO(ties) /\ t0.num_rtos = num_rtos
    OBVIOUS
  <2> HIDE DEF t0
  <2> QED BY <1>1, <1>2 DEF Untouched, Explained
<1> HIDE DEF armer
<1>4. Explained(prompt, armer)
  <2>1. /\ DOMAIN prompt = DOMAIN t0 /\ prompt.rto = t0.rto
        /\ prompt.mk = [t0.mk EXCEPT ![New] = @ \cup {IF high # 0 THEN "slow_start" ELSE "fast"}]
    <3> DOMAIN t0 = {"rto", "tlp", "num_rtos", "high", "enabled", "mk", "found", "info"}
      OBVIOUS
    <3> HIDE DEF t0
    <3> QED BY Zenon
  <2> DEFINE was == t0.mk
             why == {IF high # 0 THEN "slow_start" ELSE "fast"}
  <2>2. was = [i \in 1 .. New |-> was[i]] /\ prompt.mk = [was EXCEPT ![New] = @ \cup why]
    BY <1>2, <2>1
  <2>3. \A i \in Ids : i \in 1 .. New /\ i # New /\ was[i] = marks[i]
    BY <1>0, <1>2
  <2> HIDE DEF was, why, prompt
  <2>4. /\ prompt.mk = [i \in 1 .. New |-> prompt.mk[i]]
        /\ \A i \in Ids : prompt.mk[i] = marks[i]
    BY <2>2, <2>3
  <2> HIDE DEF t0
  <2> QED BY <1>3, <2>1, <2>4 DEF Untouched, Explained
<1>5. Explained(t1, armer)
  <2> HIDE DEF t0
  <2>1. Untouched(CheckForTLP(t0, p, sq), armer)
    BY <1>0, <1>3, TLPExplains
  <2> QED BY <1>0, <1>1, <2>1, RTOExplains DEF armer
<1>6. Explained(armed, armer)
  <2> HIDE DEF t1
  <2>1. /\ DOMAIN armed = DOMAIN t1 /\ armed.mk = t1.mk
        /\ armed.rto = ArmedRTO(New, ties.timer, t1.num_rtos)
    BY <1>5, Zenon DEF Explained
  <2> HIDE DEF armed
  <2> QED BY <1>5, <2>1, Armed DEF Explained
<1>7. t \in {prompt, armed, t1}
  BY DEF FindRtxTrigger
<1>8. Explained(t, armer)
  <2> HIDE DEF t, prompt, armed, t1
  <2> QED BY <1>4, <1>5, <1>6, <1>7
<1> HIDE DEF t
<1>9. ASSUME NEW i \in Ids, Revised(t.mk[i], i, armer)
      PROVE  Revised(t.mk[i], i, rto.armed_by)
  <2>1. ties.armer = 0
    <3> SUFFICES ASSUME ties.armer # 0 PROVE FALSE
      OBVIOUS
    <3>1. armer = ties.armer
      BY Armed DEF armer, TiedRTO
    <3> QED BY <1>9, <3>1 DEF Revised, VerdictInv
  <2> QED BY <1>9, <2>1 DEF armer, TiedRTO
<1>10. /\ Entries(marks) /\ t.mk = [i \in 1 .. New |-> t.mk[i]]
       /\ IsTimer(t.rto) /\ t.rto.armed_by \in {0} \cup Ids \cup {New}
       /\ \A i \in Ids : t.mk[i] = marks[i] \/ Revised(t.mk[i], i, rto.armed_by)
  BY <1>1, <1>8, <1>9 DEF Explained, VerdictInv, armer
<1> QED BY <1>10 DEF t

-----------------------------------------------------------------------------
\* DSackPackets only finds retransmissions of this endpoint to be spurious.
Widened(m) ==
    /\ m = [i \in Ids |-> m[i]]
    /\ \A i \in Ids : /\ marks[i] \subseteq m[i]
                      /\ m[i] \subseteq marks[i] \cup (IF i \in Own THEN {"spurious"} ELSE {})

LEMMA DSackRoundWidens ==
    ASSUME pkts \in Seq(Packets), NEW a, NEW k, NEW m, Widened(m)
    PROVE  Widened(DSackRound(a, k, m))
<1> DEFINE b == BlocksOf(a)[k]
           j == Spurious(m, b)
           u == DSackRound(a, k, m)
<1>1. j \in {0} \cup Own
  <2> DEFINE S == { i \in Own : /\ "rtx" \in m[i] /\ "spurious" \notin m[i]
                                /\ RangeIncluded(b.start, b.end, pkts[i].seq, SeqEnd(pkts[i])) }
  <2>1. j = Max({0} \cup S) /\ S \subseteq Own
    BY DEF Spurious
  <2>2. Len(pkts) \in Nat /\ {0} \cup S \subseteq 0 .. Len(pkts)
    BY <2>1, CaptureTypes
  <2> HIDE DEF S, j
  <2> QED BY <2>1, <2>2, MaxIsLast
<1>2. u = m \/ (j # 0 /\ u = [m EXCEPT ![j] = @ \cup {"spurious"}])
  BY DEF DSackRound
<1> HIDE DEF j, u
<1>3. CASE u = m
  <2> Widened(u)
    BY <1>3
  <2> QED BY DEF u
<1>4. CASE j # 0 /\ u = [m EXCEPT ![j] = @ \cup {"spurious"}]
  <2>1. j \in Own /\ j \in Ids
    BY <1>1, <1>4 DEF Own
  <2>2. m = [i \in Ids |-> m[i]]
    BY DEF Widened
  <2>3. /\ u = [i \in Ids |-> u[i]]
        /\ \A i \in Ids : u[i] = IF i = j THEN m[i] \cup {"spurious"} ELSE m[i]
    BY <1>4, <2>1, <2>2
  <2> Widened(u)
    BY <2>1, <2>3 DEF Widened
  <2> QED BY DEF u
<1> QED BY <1>2, <1>3, <1>4

LEMMA DSacksWiden ==
    ASSUME pkts \in Seq(Packets), Entries(marks), NEW a \in Received
    PROVE  Widened(WithDSacks(marks, a))
<1>1. PICK n \in Nat : DOMAIN BlocksOf(a) = 1 .. n
  <2>1. a.blocks \in Lists
    BY InputAssumption DEF Received, AckPacket, Lists
  <2>2. BlocksOf(a) \in Lists
    BY <2>1, ParseTyped DEF BlocksOf, SackLists
  <2> QED BY <2>2, LenProperties DEF Lists
<1>2. PICK g : /\ DSackWalk!IsWalk(g, a, marks, 1 .. n)
               /\ WithDSacks(marks, a) = g[1 .. n]
  BY <1>1, DSacksAreAWalk
<1> DEFINE Good == { s \in SUBSET (1 .. n) : Widened(g[s]) }
<1>3. {} \in Good
  <2> Widened(marks)
    BY DEF Widened, Entries
  <2> QED BY <1>2 DEF DSackWalk!IsWalk
<1>4. ASSUME NEW s \in SUBSET (1 .. n), NEW k \in s, \A j \in s : k >= j, s \ {k} \in Good
      PROVE  s \in Good
  <2>1. g[s] = DSackRound(a, k, g[s \ {k}])
    BY <1>2, <1>4 DEF DSackWalk!IsWalk
  <2>2. Widened(g[s \ {k}])
    BY <1>4
  <2>3. Widened(g[s])
    BY <2>1, <2>2, DSackRoundWidens
  <2> QED BY <2>3
<1>5. 1 .. n \in Good
  <2> 1 .. n \subseteq 0 .. n
    OBVIOUS
  <2> HIDE DEF Good
  <2> QED BY <1>3, <1>4, OneMoreAtTheEnd
<1> QED BY <1>2, <1>5

(***************************************************************************)
(* What a step may do to the flags: those of earlier packets grow, or are    *)
(* revised as VerdictRevised allows; only own packets pass for probes.       *)
(***************************************************************************)
Final == \A i \in Ids : marks[i] \subseteq marks'[i]
                        \/ /\ i = rto.armed_by /\ num_rtos = 1 /\ "tlp" \in marks[i]
                           /\ marks[i] \ marks'[i] \in {{"rto"}, {"tlp"}}

LEMMA VerdictPreserved ==
    ASSUME VerdictInv, NEW q \in Packets, pkts' = Append(pkts, q),
           NEW f, NEW e, marks' = Append(f, e), f = [i \in Ids |-> f[i]],
           q.out \/ "tlp" \notin e,
           \A i \in Ids \ Own : "tlp" \notin f[i],
           \A i \in Ids : marks[i] \subseteq f[i]
                          \/ /\ i = rto.armed_by /\ num_rtos = 1 /\ "tlp" \in marks[i]
                             /\ marks[i] \ f[i] \in {{"rto"}, {"tlp"}},
           IsTimer(rto'), rto'.armed_by \in {0} \cup Ids \cup {New}
    PROVE  VerdictInv' /\ Final
<1>1. /\ pkts' \in Seq(Packets) /\ Len(pkts) \in Nat /\ Len(pkts') = New
      /\ Ids = 1 .. Len(pkts) /\ Ids' = 1 .. New
      /\ \A i \in Ids : pkts'[i] = pkts[i]
      /\ pkts'[New] = q
      /\ Own' = IF q.out THEN Own \cup {New} ELSE Own
      /\ Own \subseteq Ids
  BY Captured DEF VerdictInv
<1>2. New = Len(pkts) + 1 /\ New \notin Ids /\ Ids' = Ids \cup {New}
  BY <1>1 DEF New
<1>3. /\ Entries(marks)'
      /\ \A i \in Ids : marks'[i] = f[i]
      /\ marks'[New] = e
  BY <1>1, <1>2, AppendEntry DEF Entries
<1>4. \A i \in Ids' \ Own' : "tlp" \notin marks'[i]
  BY <1>1, <1>2, <1>3
<1>5. Final
  BY <1>3 DEF Final
<1> QED BY <1>1, <1>2, <1>3, <1>4, <1>5 DEF VerdictInv

\* Every step keeps the flags' invariant and what is final.
LEMMA VerdictStep ==
    ASSUME CaptureInv, VerdictInv, [Next]_vars
    PROVE  VerdictInv' /\ Final
<1>0. marks = [i \in Ids |-> marks[i]] /\ IsTimer(rto) /\ rto.armed_by \in {0} \cup Ids
  BY DEF VerdictInv, Entries
<1>1. CASE UNCHANGED vars
  <2> UNCHANGED <<pkts, marks, rto>>
    BY <1>1 DEF vars, noteVars, timerVars
  <2> QED BY DEF VerdictInv, Final, Entries, Own, Ids
<1>2. ASSUME NEW p \in OwnPackets, AddPacket(p)
      PROVE  VerdictInv' /\ Final
  <2>1. pkts' = Append(pkts, p) /\ p \in Packets /\ p.out
    BY <1>2, SentIsStored DEF Packets, OwnPackets, OwnPacket
  <2>2. CASE marks' = Append(marks, {}) /\ IsTimer(rto') /\ rto'.armed_by \in {rto.armed_by, New}
    <3>1. \A i \in Ids \ Own : "tlp" \notin marks[i]
      BY DEF VerdictInv
    <3> QED BY <1>0, <2>1, <2>2, <3>1, VerdictPreserved
  <2>3. ASSUME NEW sq, NEW in_flight, NEW x, NEW y, NEW tm, Push(p, sq, in_flight, x, y, tm),
               IsTimer(x)
        PROVE  IsTimer(rto') /\ rto'.armed_by \in {x.armed_by, New}
    <3> rto' = IF x.armed_by = 0 THEN ArmedRTO(New, tm, num_rtos') ELSE x
      BY <2>3 DEF Push
    <3> QED BY <2>3, Armed
  <2>4. ASSUME NEW sq, NEW high, PushNew(p, sq, high)
        PROVE  VerdictInv' /\ Final
    <3> Push(p, sq, unacked, rto, tlp, timer) /\ marks' = Append(marks, {})
      BY <2>4 DEF PushNew, NoteNew
    <3> QED BY <1>0, <2>2, <2>3
  <2>5. CASE AddOther(p)
    BY <1>0, <2>2, <2>5 DEF AddOther, NoteNew
  <2>6. ASSUME NEW sq, NEW high, PushRtx(p, sq, high)
        PROVE  VerdictInv' /\ Final
    <3> DEFINE ties  == TiesOf(p, sq)
               still == { i \in unacked : ties.by[i] = 0 }
               t     == FindRtxTrigger(p, sq, high, ties, still)
               prev  == PreviousTx(p)
               m     == WithOutOfOrder(t.mk, prev)
               f     == [i \in Ids |-> m[i]]
    <3>1. Push(p, sq, still, t.rto, t.tlp, ties.timer) /\ marks' = m
      BY <2>6, Zenon DEF PushRtx, PushTied
    <3>2. ties.armer \in {0} \cup (Ids \ Own)
      <4> TiesOK(unacked, ties)
        BY TiesSound
      <4> HIDE DEF ties
      <4> QED BY DEF TiesOK, CaptureInv
    <3>3. /\ t.mk = [i \in 1 .. New |-> t.mk[i]]
          /\ IsTimer(t.rto) /\ t.rto.armed_by \in {0} \cup Ids \cup {New}
          /\ \A i \in Ids : t.mk[i] = marks[i] \/ Revised(t.mk[i], i, rto.armed_by)
      <4> HIDE DEF ties, still
      <4> QED BY <3>2, TriggerExplains
    <3>4. IsTimer(rto') /\ rto'.armed_by \in {0} \cup Ids \cup {New}
      <4> HIDE DEF ties, still, t, m
      <4> QED BY <2>3, <3>1, <3>3
    <3> HIDE DEF t
    <3>5. /\ m = [i \in 1 .. New |-> m[i]]
          /\ \A i \in 1 .. New : m[i] \in {t.mk[i], t.mk[i] \cup {"out_of_order"}}
      <4> DEFINE mk == t.mk
      <4>1. DOMAIN mk = 1 .. New
        BY <3>3
      <4>2. m = [i \in 1 .. New |-> IF i \in Own /\ i > prev /\ pkts[i].len > 0
                                    THEN mk[i] \cup {"out_of_order"} ELSE mk[i]]
        <5> m = [i \in DOMAIN mk |-> IF i \in Own /\ i > prev /\ pkts[i].len > 0
                                    THEN mk[i] \cup {"out_of_order"} ELSE mk[i]]
          BY DEF WithOutOfOrder
        <5> HIDE DEF mk, prev, m
        <5> QED BY <4>1
      <4> HIDE DEF mk, prev, m
      <4>3. /\ m = [i \in 1 .. New |-> m[i]]
            /\ \A i \in 1 .. New : m[i] \in {mk[i], mk[i] \cup {"out_of_order"}}
        BY <4>2
      <4> QED BY <4>3 DEF mk
    <3> HIDE DEF m
    <3>6. /\ New \in Nat /\ Len(pkts) \in Nat /\ New = Len(pkts) + 1
          /\ Ids = 1 .. Len(pkts) /\ \A i \in Ids : i \in 1 .. New
      BY CaptureTypes DEF CaptureInv, New
    <3>7. m = Append(f, m[New]) /\ f = [i \in Ids |-> f[i]]
      <4>1. f = [i \in 1 .. Len(pkts) |-> f[i]]
        BY <3>6
      <4>2. \A i \in Ids : f[i] = m[i]
        OBVIOUS
      <4> HIDE DEF f
      <4>3. /\ Append(f, m[New]) = [i \in 1 .. New |-> Append(f, m[New])[i]]
            /\ \A i \in 1 .. Len(pkts) : Append(f, m[New])[i] = f[i]
            /\ Append(f, m[New])[New] = m[New]
        BY <3>6, <4>1, AppendEntry
      <4>4. \A i \in 1 .. New : Append(f, m[New])[i] = m[i]
        BY <3>6, <4>2, <4>3
      <4> QED BY <3>5, <3>6, <4>1, <4>3, <4>4
    <3>8. ASSUME NEW i \in Ids
          PROVE  /\ f[i] \in {t.mk[i], t.mk[i] \cup {"out_of_order"}}
                 /\ \/ t.mk[i] = marks[i]
                    \/ /\ i = rto.armed_by /\ num_rtos = 1 /\ "tlp" \in marks[i]
                       /\ t.mk[i] \in {marks[i] \ {"rto"}, marks[i] \ {"tlp"}}
      BY <3>3, <3>5, <3>6 DEF Revised
    <3> HIDE DEF f
    <3>9. \A i \in Ids \ Own : "tlp" \notin f[i]
      BY <3>8 DEF VerdictInv
    <3>10. \A i \in Ids : marks[i] \subseteq f[i]
                          \/ /\ i = rto.armed_by /\ num_rtos = 1 /\ "tlp" \in marks[i]
                             /\ marks[i] \ f[i] \in {{"rto"}, {"tlp"}}
      BY <3>8
    <3>11. marks' = Append(f, m[New])
      BY <3>1, <3>7
    <3> QED BY ONLY VerdictInv, <2>1, <3>4, <3>7, <3>9, <3>10, <3>11, VerdictPreserved
  <2> QED BY <1>2, <2>4, <2>5, <2>6, SendCases
<1>3. ASSUME NEW a \in Received, ProcessOldAck(a) \/ ProcessNewAck(a)
      PROVE  VerdictInv' /\ Final
  <2>1. pkts' = Append(pkts, a) /\ a \in Packets /\ ~a.out
    BY <1>3, ReceivedIsStored DEF Packets, Received, AckPacket
  <2>2. NoteAck(a)
    BY <1>3, Zenon DEF ProcessOldAck, ProcessNewAck
  <2> DEFINE f == IF HasSacks(a) THEN WithDSacks(marks, a) ELSE marks
             e == IF a.ack = seq_acked THEN {"dupack"} ELSE {}
  <2>3. marks' = Append(f, e) /\ "tlp" \notin e
    BY <2>2 DEF NoteAck
  <2>4. Widened(f)
    <3>1. Widened(marks)
      BY <1>0 DEF Widened
    <3>2. Widened(WithDSacks(marks, a))
      BY <1>3, DSacksWiden DEF VerdictInv
    <3> QED BY <3>1, <3>2
  <2> HIDE DEF f, e
  <2>5. IsTimer(rto') /\ rto'.armed_by \in {0} \cup Ids \cup {New}
    <3>1. rto' = rto \/ rto' = NoTimer \/ \E tm : rto' = ArmedRTO(New, tm, num_rtos)
      BY <1>3, Zenon DEF ProcessOldAck, ProcessNewAck, AfterAck
    <3> QED BY <1>0, <3>1, Armed
  <2>6. /\ f = [i \in Ids |-> f[i]]
        /\ \A i \in Ids \ Own : "tlp" \notin f[i]
        /\ \A i \in Ids : marks[i] \subseteq f[i]
    BY <2>4 DEF Widened, VerdictInv
  <2> QED BY ONLY VerdictInv, <2>1, <2>3, <2>5, <2>6, VerdictPreserved
<1> QED BY <1>1, <1>2, <1>3, StepCases DEF VerdictInv

(***************************************************************************)
(* Whatever ACKs, ties, DSACKs, timeouts and probes follow: a verdict about  *)
(* a packet is final, but for the one revision of a timeout or a probe of    *)
(* the packet that armed the timer.                                        *)
(***************************************************************************)
THEOREM VerdictsAreFinal == Spec => VerdictRevised
<1>1. Init => VerdictInv
  <2> SUFFICES ASSUME Init PROVE VerdictInv
    OBVIOUS
  <2> pkts \in Seq(Packets) /\ Ids = {}
    BY EmptySeq DEF Init, Ids
  <2> QED BY Armed DEF Init, VerdictInv, Entries
<1>2. Final => \A i \in Ids : ~(marks[i] \subseteq marks'[i]) =>
          /\ i = rto.armed_by /\ num_rtos = 1 /\ "tlp" \in marks[i]
          /\ marks[i] \ marks'[i] \in {{"rto"}, {"tlp"}}
  BY DEF Final
<1>3. AckInv /\ CaptureInv /\ VerdictInv /\ [Next]_vars
        => AckInv' /\ CaptureInv' /\ VerdictInv' /\ Final
  BY AckStep, CaptureStep, VerdictStep
<1> QED BY <1>1, <1>2, <1>3, CaptureStart, PTL DEF Spec, VerdictRevised

-----------------------------------------------------------------------------
(***************************************************************************)
(* The lines from a retransmission back to the original.                    *)
(***************************************************************************)
\* What holds of a packet once it holds of what the packet repeats holds of all.
LEMMA AlongLines ==
    ASSUME LinesInv, NEW G,
           \A i \in Ids : previous_tx[i] = 0 \/ previous_tx[i] \in G => i \in G
    PROVE  Ids \subseteq G
<1>1. /\ Len(pkts) \in Nat /\ Ids = 1 .. Len(pkts)
      /\ \A i \in Ids : i \in Nat /\ i # 0
  BY CaptureTypes DEF LinesInv
<1> DEFINE K == { k \in 0 .. Len(pkts) : \A i \in Ids : i <= k => i \in G }
<1>2. 0 \in K
  BY <1>1
<1>3. ASSUME NEW k \in 0 .. Len(pkts) - 1, k \in K
      PROVE  k + 1 \in K
  <2> SUFFICES ASSUME NEW i \in Ids, i <= k + 1 PROVE i \in G
    BY <1>1
  <2>1. CASE i <= k
    BY <1>3, <2>1
  <2>2. CASE previous_tx[i] = 0
    BY <2>2
  <2>3. CASE ~(i <= k) /\ previous_tx[i] # 0
    <3>1. i = k + 1
      BY <1>1, <2>3
    <3>2. previous_tx[i] < i /\ previous_tx[i] \in Ids /\ previous_tx[i] \in Nat
      BY <1>1, <2>3 DEF LinesInv, LinesOK, Own
    <3>3. previous_tx[i] <= k
      BY <1>1, <3>1, <3>2
    <3>4. previous_tx[i] \in G
      BY <1>3, <3>2, <3>3
    <3> QED BY <3>4
  <2> QED BY <2>1, <2>2, <2>3
<1>4. Len(pkts) \in K
  <2> HIDE DEF K
  <2> QED BY <1>1, <1>2, <1>3, CountingUp
<1> QED BY <1>1, <1>4

\* Every line begins with an original, an own packet in a line of own packets.
LEMMA OriginalOf ==
    ASSUME LinesInv
    PROVE  \A i \in Ids : /\ first_tx[i] \in Ids /\ previous_tx[first_tx[i]] = 0
                          /\ i \in Own => first_tx[i] \in Own
<1> DEFINE G == { i \in Ids : /\ first_tx[i] \in Ids /\ previous_tx[first_tx[i]] = 0
                              /\ i \in Own => first_tx[i] \in Own }
<1>1. ASSUME NEW i \in Ids, previous_tx[i] = 0
      PROVE  i \in G
  <2> first_tx[i] = i
    BY <1>1 DEF LinesInv, LinesOK
  <2> QED BY <1>1
<1>2. ASSUME NEW i \in Ids, previous_tx[i] # 0, previous_tx[i] \in G
      PROVE  i \in G
  <2> first_tx[i] = first_tx[previous_tx[i]] /\ previous_tx[i] \in Own
    BY <1>2 DEF LinesInv, LinesOK
  <2> QED BY <1>2
<1>3. Ids \subseteq G
  <2> HIDE DEF G
  <2> QED BY <1>1, <1>2, AlongLines
<1> QED BY <1>3

\* The walk along previous_tx (Line) is defined for every packet.
LEMMA LineEquation ==
    ASSUME LinesInv
    PROVE  /\ Line(0) = {}
           /\ \A i \in Ids : Line(i) = {i} \cup Line(previous_tx[i])
<1> DEFINE n == Len(pkts)
           F(f, k) == f = [j \in 0 .. k |-> IF j = 0 THEN {} ELSE {j} \cup f[previous_tx[j]]]
           K == { k \in 0 .. n : \E f : F(f, k) }
           L(f) == f = [j \in Ids \cup {0} |-> IF j = 0 THEN {} ELSE {j} \cup f[previous_tx[j]]]
           h == CHOOSE f : L(f)
<1>1. n \in Nat /\ Ids = 1 .. n /\ Ids \cup {0} = 0 .. n
  BY CaptureTypes DEF LinesInv
<1>2. ASSUME NEW i \in Ids
      PROVE  previous_tx[i] < i /\ previous_tx[i] \in Ids \cup {0}
  <2>1. CASE previous_tx[i] = 0
    BY <1>1, <2>1
  <2>2. CASE previous_tx[i] # 0
    BY <2>2 DEF LinesInv, LinesOK, Own
  <2> QED BY <2>1, <2>2
<1>3. 0 \in K
  <2>1. F([j \in 0 .. 0 |-> {}], 0)
    OBVIOUS
  <2> HIDE DEF F
  <2> QED BY <1>1, <2>1
<1>4. ASSUME NEW k \in 0 .. n - 1, k \in K
      PROVE  k + 1 \in K
  <2>1. PICK f : F(f, k)
    BY <1>4
  <2> DEFINE g == [j \in 0 .. k + 1 |-> IF j = k + 1 THEN {j} \cup f[previous_tx[j]] ELSE f[j]]
  <2>2. \A j \in 0 .. k + 1 : j # 0 => /\ previous_tx[j] \in 0 .. k
                                       /\ j # k + 1 => j \in 0 .. k
    <3> SUFFICES ASSUME NEW j \in 0 .. k + 1, j # 0
                 PROVE  previous_tx[j] \in 0 .. k /\ (j # k + 1 => j \in 0 .. k)
      OBVIOUS
    <3> j \in Ids
      BY <1>1
    <3> previous_tx[j] < j /\ previous_tx[j] \in 0 .. n
      BY <1>1, <1>2
    <3> QED BY <1>1
  <2>3. \A j \in 0 .. k : g[j] = f[j]
    OBVIOUS
  <2>4. ASSUME NEW j \in 0 .. k + 1
        PROVE  g[j] = IF j = 0 THEN {} ELSE {j} \cup g[previous_tx[j]]
    <3>1. CASE j = 0
      BY <2>1, <3>1
    <3>2. CASE j = k + 1
      <4>1. previous_tx[j] \in 0 .. k /\ j # 0
        BY <2>2, <3>2
      <4>2. g[previous_tx[j]] = f[previous_tx[j]]
        BY <2>3, <4>1
      <4>3. g[j] = {j} \cup f[previous_tx[j]]
        BY <3>2
      <4> QED BY <4>1, <4>2, <4>3
    <3>3. CASE j # 0 /\ j # k + 1
      <4>1. previous_tx[j] \in 0 .. k /\ j \in 0 .. k
        BY <2>2, <3>3
      <4>2. f[j] = {j} \cup f[previous_tx[j]]
        BY <2>1, <3>3, <4>1
      <4> QED BY <2>3, <3>3, <4>1, <4>2
    <3> QED BY <3>1, <3>2, <3>3
  <2>5. F(g, k + 1)
    <3>1. g = [j \in 0 .. k + 1 |-> g[j]]
      OBVIOUS
    <3> HIDE DEF g
    <3> QED BY <2>4, <3>1
  <2> HIDE DEF F, g
  <2> QED BY <1>1, <2>5
<1>5. \E f : L(f)
  <2>1. n \in K
    <3> HIDE DEF K, n
    <3> QED BY <1>1, <1>3, <1>4, CountingUp
  <2> QED BY <1>1, <2>1
<1>6. L(h)
  <2> HIDE DEF L
  <2> QED BY <1>5
<1>7. \A i : Line(i) = h[i]
  BY Zenon DEF Line
<1> HIDE DEF h
<1>8. h[0] = {} /\ \A i \in Ids : h[i] = {i} \cup h[previous_tx[i]]
  <2> 0 \notin Ids
    BY <1>1
  <2> QED BY <1>6
<1> QED BY <1>7, <1>8

\* The one original of a line is where it begins.
LEMMA LineMembers ==
    ASSUME LinesInv
    PROVE  \A i \in Ids : /\ \A j \in Line(i) : j \in Ids /\ first_tx[j] = first_tx[i]
                          /\ first_tx[i] \in Line(i)
<1> DEFINE G == { i \in Ids : /\ \A j \in Line(i) : j \in Ids /\ first_tx[j] = first_tx[i]
                              /\ first_tx[i] \in Line(i) }
<1>1. ASSUME NEW i \in Ids, previous_tx[i] = 0
      PROVE  i \in G
  <2>1. first_tx[i] = i
    BY <1>1 DEF LinesInv, LinesOK
  <2>2. Line(i) = {i}
    BY <1>1, LineEquation
  <2> QED BY <2>1, <2>2
<1>2. ASSUME NEW i \in Ids, previous_tx[i] # 0, previous_tx[i] \in G
      PROVE  i \in G
  <2>1. first_tx[i] = first_tx[previous_tx[i]]
    BY <1>2 DEF LinesInv, LinesOK
  <2>2. Line(i) = {i} \cup Line(previous_tx[i])
    BY LineEquation
  <2> QED BY <1>2, <2>1, <2>2
<1>3. Ids \subseteq G
  <2> HIDE DEF G
  <2> QED BY <1>1, <1>2, AlongLines
<1> QED BY <1>3

\* A retransmission counts with the original of its line and with no other packet.
Counted(new, ds, p, prev, ids) ==
    \A i \in ids :
       IF prev # 0 /\ i = first_tx[prev]
       THEN new[i].attempts = ds[i].attempts + 1 /\ new[i].final = p.ts - pkts[i].ts
       ELSE new[i].attempts = ds[i].attempts /\ new[i].final = ds[i].final

FieldsOf(ds) == \A i \in Ids : DOMAIN ds[i] = DOMAIN NoDelays

LEMMA RtxCounts ==
    ASSUME LinesInv, NEW p, NEW prev \in {0} \cup Ids, NEW ds, FieldsOf(ds)
    PROVE  Counted(RtxDelays(p, prev, ds), ds, p, prev, Ids)
<1> \A i \in Ids : DOMAIN ds[i] = DOMAIN NoDelays
  BY DEF FieldsOf
<1> DEFINE new == RtxDelays(p, prev, ds)
<1>1. DOMAIN NoDelays = {"ack", "rtx", "final", "attempts"}
  BY DEF NoDelays
<1>2. \A i \in Ids : i \in Line(prev) /\ previous_tx[i] = 0 <=> prev # 0 /\ i = first_tx[prev]
  <2>1. CASE prev = 0
    BY <2>1, LineEquation
  <2>2. CASE prev # 0
    <3>1. \A i \in Ids : previous_tx[i] = 0 => first_tx[i] = i
      BY DEF LinesInv, LinesOK
    <3>2. prev \in Ids
      BY <2>2
    <3> QED BY <2>2, <3>1, <3>2, LineMembers, OriginalOf
  <2> QED BY <2>1, <2>2
<1>3. ASSUME NEW i \in Ids
      PROVE  IF prev # 0 /\ i = first_tx[prev]
             THEN new[i].attempts = ds[i].attempts + 1 /\ new[i].final = p.ts - pkts[i].ts
             ELSE new[i].attempts = ds[i].attempts /\ new[i].final = ds[i].final
  <2> DEFINE r == IF ds[i].rtx = 0 THEN p.ts - pkts[i].ts ELSE ds[i].rtx
             fin == IF previous_tx[i] = 0 THEN p.ts - pkts[i].ts ELSE ds[i].final
             m == IF previous_tx[i] = 0 THEN ds[i].attempts + 1 ELSE ds[i].attempts
  <2>1. new[i] = IF i \in Line(prev)
                 THEN [ds[i] EXCEPT !.rtx = r, !.final = fin, !.attempts = m] ELSE ds[i]
    BY <1>1 DEF RtxDelays
  <2> HIDE DEF new, r, fin, m
  <2>2. i \in Line(prev) => new[i].attempts = m /\ new[i].final = fin
    BY <1>1, <2>1
  <2>3. i \notin Line(prev) => new[i] = ds[i]
    BY <2>1
  <2> QED BY <1>2, <2>2, <2>3 DEF fin, m
<1> HIDE DEF new
<1>4. Counted(new, ds, p, prev, Ids)
  BY <1>3 DEF Counted
<1> QED BY <1>4 DEF new

(***************************************************************************)
(* A step in which a packet joins the line of prev, or starts one; f are the *)
(* delays kept with the earlier packets after it.                          *)
(***************************************************************************)
Counts(q, prev, f) ==
    /\ prev # 0 => q.out
    /\ first_tx' = Append(first_tx, IF prev = 0 THEN New ELSE first_tx[prev])
    /\ f = [i \in Ids |-> f[i]] /\ delays' = Append(f, NoDelays)
    /\ Counted(f, delays, q, prev, Own)

LEMMA AttemptsPreserved ==
    ASSUME LinesInv, AttemptsCounted, NEW q \in Packets, pkts' = Append(pkts, q),
           NEW prev \in {0} \cup Own, NEW f, Counts(q, prev, f)
    PROVE  AttemptsCounted'
<1> prev # 0 => q.out
  BY DEF Counts
<1> first_tx' = Append(first_tx, IF prev = 0 THEN New ELSE first_tx[prev])
  BY DEF Counts
<1> f = [i \in Ids |-> f[i]] /\ delays' = Append(f, NoDelays)
  BY DEF Counts
<1> \A i \in Own :
       IF prev # 0 /\ i = first_tx[prev]
       THEN f[i].attempts = delays[i].attempts + 1 /\ f[i].final = q.ts - pkts[i].ts
       ELSE f[i].attempts = delays[i].attempts /\ f[i].final = delays[i].final
  BY DEF Counts, Counted
<1>1. /\ pkts' \in Seq(Packets) /\ Len(pkts) \in Nat /\ Len(pkts') = New
      /\ Ids = 1 .. Len(pkts) /\ Ids' = 1 .. New
      /\ \A i \in Ids : pkts'[i] = pkts[i]
      /\ pkts'[New] = q
      /\ Own' = IF q.out THEN Own \cup {New} ELSE Own
      /\ Own \subseteq Ids
  BY Captured DEF LinesInv
<1>2. /\ New = Len(pkts) + 1 /\ New \notin Ids /\ Ids' = Ids \cup {New} /\ New \in Nat
      /\ \A i \in Ids : i \in Nat /\ i < New
  BY <1>1 DEF New
<1>3. /\ \A i \in Ids : delays'[i] = f[i]
      /\ delays'[New] = NoDelays
  BY <1>1, <1>2, AppendEntry
<1>4. /\ \A i \in Ids : first_tx'[i] = first_tx[i]
      /\ first_tx'[New] = IF prev = 0 THEN New ELSE first_tx[prev]
  BY <1>1, <1>2, AppendEntry DEF LinesInv, Entries
<1>5. \A i \in Ids : first_tx[i] \in Ids
  BY OriginalOf
<1> DEFINE joined(i) == prev # 0 /\ i = first_tx[prev]
<1>6. ASSUME NEW n, n = New
      PROVE  Repeats(n)' = {}
  <2>1. ASSUME NEW x \in Own', x # n
        PROVE  first_tx'[x] # n
    <3>1. x \in Ids
      BY <1>1, <1>2, <1>6, <2>1
    <3>2. first_tx'[x] \in Ids
      BY <1>4, <1>5, <3>1
    <3> QED BY <1>2, <1>6, <3>2
  <2> QED BY <2>1 DEF Repeats
<1>7. \A i \in Own : Repeats(i)' = Repeats(i) \cup (IF joined(i) THEN {New} ELSE {})
  <2> SUFFICES ASSUME NEW i \in Own
               PROVE  Repeats(i)' = Repeats(i) \cup (IF joined(i) THEN {New} ELSE {})
    OBVIOUS
  <2> DEFINE J == IF joined(i) THEN {New} ELSE {}
             P == Repeats(i)'
  <2>1. i # New /\ i \in Ids
    BY <1>1, <1>2
  <2>2. \A x : x \in P <=> x \in Own' /\ first_tx'[x] = i /\ x # i
    BY DEF Repeats
  <2>3. \A x : x \in Repeats(i) <=> x \in Own /\ first_tx[x] = i /\ x # i
    BY DEF Repeats
  <2>4. \A x : x \in J <=> joined(i) /\ x = New
    OBVIOUS
  <2>5. joined(i) <=> New \in Own' /\ first_tx'[New] = i
    BY <1>1, <1>4, <2>1
  <2>6. \A x \in Own : x \in Own' /\ first_tx'[x] = first_tx[x]
    BY <1>1, <1>4
  <2>7. \A x \in Own' : x \in Own \/ x = New
    BY <1>1
  <2> HIDE DEF J, joined, P
  <2>8. P = Repeats(i) \cup J
    BY ONLY <2>1, <2>2, <2>3, <2>4, <2>5, <2>6, <2>7
  <2> QED BY <2>8 DEF J, P
<1>8. ASSUME NEW i \in Own'
      PROVE  IF Repeats(i)' = {} THEN delays'[i].attempts = 0 /\ delays'[i].final = 0
             ELSE /\ delays'[i].attempts = Cardinality(Repeats(i)')
                  /\ delays'[i].final = pkts'[Max(Repeats(i)')].ts - pkts'[i].ts
  <2>1. CASE i = New
    <3>1. Repeats(i)' = {}
      BY <1>6, <2>1
    <3>2. delays'[i].attempts = 0 /\ delays'[i].final = 0
      <4>1. delays'[i] = NoDelays
        BY ONLY <1>3, <2>1
      <4>2. NoDelays.attempts = 0 /\ NoDelays.final = 0
        BY DEF NoDelays
      <4> QED BY ONLY <4>1, <4>2
    <3> QED BY ONLY <3>1, <3>2
  <2>2. CASE i # New
    <3> DEFINE R == Repeats(i)
    <3>1. /\ i \in Own /\ i \in Ids /\ pkts'[i] = pkts[i] /\ delays'[i] = f[i]
          /\ R \subseteq 1 .. Len(pkts)
      BY <1>1, <1>2, <1>3, <2>2 DEF Repeats
    <3>2. IF R = {} THEN delays[i].attempts = 0 /\ delays[i].final = 0
          ELSE /\ delays[i].attempts = Cardinality(R)
               /\ delays[i].final = pkts[Max(R)].ts - pkts[i].ts
      BY <3>1 DEF AttemptsCounted
    <3>3. IsFiniteSet(R) /\ (R = {} => Cardinality(R) = 0)
      <4>1. IsFiniteSet(1 .. Len(pkts))
        <5> 1 \in Int /\ Len(pkts) \in Int
          BY <1>1
        <5> QED BY ONLY 1 \in Int, Len(pkts) \in Int, FS_Interval
      <4> HIDE DEF R
      <4> QED BY <3>1, <4>1, FS_Subset, FS_EmptySet
    <3>4. R # {} => Max(R) \in R /\ R \subseteq Ids
      <4> HIDE DEF R
      <4> R \subseteq 0 .. Len(pkts)
        BY <1>1, <3>1
      <4> QED BY <1>1, <3>1, MaxIsLast
    <3>5. CASE ~joined(i)
      <4>1. Repeats(i)' = R
        <5>1. Repeats(i)' = Repeats(i) \cup (IF joined(i) THEN {New} ELSE {})
          BY <1>7, <3>1
        <5> HIDE DEF joined
        <5> QED BY <3>5, <5>1
      <4>2. f[i].attempts = delays[i].attempts /\ f[i].final = delays[i].final
        BY <3>1, <3>5
      <4> HIDE DEF R
      <4>3. R # {} => pkts'[Max(R)] = pkts[Max(R)]
        BY <1>1, <3>4
      <4> QED BY <3>1, <3>2, <4>1, <4>2, <4>3, ZenonT(40)
    <3>6. CASE joined(i)
      <4> DEFINE T == R \cup {New}
      <4>1. Repeats(i)' = T
        <5>1. Repeats(i)' = Repeats(i) \cup (IF joined(i) THEN {New} ELSE {})
          BY <1>7, <3>1
        <5> HIDE DEF joined
        <5> QED BY <3>6, <5>1
      <4>2. f[i].attempts = delays[i].attempts + 1 /\ f[i].final = q.ts - pkts[i].ts
        BY <3>1, <3>6
      <4>3. New \notin R /\ T # {}
        BY <1>1, <1>2, <3>1
      <4>4. Cardinality(T) = Cardinality(R) + 1
        <5> HIDE DEF R
        <5> QED BY <3>3, <4>3, FS_AddElement
      <4>5. Max(T) = New
        <5>1. T \subseteq 0 .. New /\ New \in T /\ \A x \in T : x <= New /\ x \in Nat
          BY <1>1, <1>2, <3>1
        <5>2. Max(T) \in T /\ New <= Max(T)
          <6> HIDE DEF T
          <6> QED BY <1>2, <5>1, MaxIsLast
        <5> HIDE DEF T
        <5> QED BY <1>2, <5>1, <5>2
      <4>6. delays[i].attempts = Cardinality(R)
        BY <3>2, <3>3
      <4> HIDE DEF R, T
      <4> QED BY <1>1, <3>1, <4>1, <4>2, <4>3, <4>4, <4>5, <4>6
    <3> QED BY <3>5, <3>6
  <2> QED BY <2>1, <2>2
<1> QED BY <1>8 DEF AttemptsCounted

\* Every step keeps the count.
LEMMA AttemptsStep ==
    ASSUME CaptureInv, LinesInv, MinInv, AttemptsCounted, [Next]_vars
    PROVE  AttemptsCounted'
<1>0. /\ delays = [i \in Ids |-> delays[i]] /\ \A i \in Ids : DOMAIN delays[i] = DOMAIN NoDelays
      /\ Own \subseteq Ids
  BY DEF MinInv, Entries, Own
<1>1. CASE UNCHANGED vars
  <2>1. Own' = Own /\ pkts' = pkts /\ delays' = delays /\ first_tx' = first_tx
    BY <1>1 DEF Own, Ids, vars, linkVars, noteVars
  <2>2. \A i : Repeats(i)' = Repeats(i)
    BY <2>1 DEF Repeats
  <2> QED BY ONLY AttemptsCounted, <2>1, <2>2 DEF AttemptsCounted
<1>2. ASSUME NEW q \in Packets, pkts' = Append(pkts, q), first_tx' = Append(first_tx, New),
             NEW f, f = [i \in Ids |-> f[i]], delays' = Append(f, NoDelays),
             \A i \in Ids : f[i].attempts = delays[i].attempts /\ f[i].final = delays[i].final
      PROVE  AttemptsCounted'
  <2>1. Counts(q, 0, f)
    BY <1>0, <1>2 DEF Counts, Counted
  <2> QED BY <1>2, <2>1, AttemptsPreserved
<1>3. ASSUME NEW p \in OwnPackets, AddPacket(p)
      PROVE  AttemptsCounted'
  <2>1. pkts' = Append(pkts, p) /\ p \in Packets /\ p.out
    BY <1>3, SentIsStored DEF Packets, OwnPackets, OwnPacket
  <2>2. CASE first_tx' = Append(first_tx, New) /\ delays' = Append(delays, NoDelays)
    BY <1>0, <1>2, <2>1, <2>2
  <2>3. ASSUME NEW sq, NEW high, PushRtx(p, sq, high)
        PROVE  AttemptsCounted'
    <3> DEFINE ties  == TiesOf(p, sq)
               still == { i \in unacked : ties.by[i] = 0 }
               prev  == PreviousTx(p)
               delay(i) == pkts[ties.by[i]].ts - pkts[i].ts
               tied  == [i \in Ids |-> IF i \in unacked \ still
                                       THEN [delays[i] EXCEPT !.ack = delay(i)]
                                       ELSE delays[i]]
               f     == RtxDelays(p, prev, tied)
    <3>1. /\ first_tx' = Append(first_tx, IF prev = 0 THEN New ELSE first_tx[prev])
          /\ delays' = Append(f, NoDelays)
      BY <2>3, Zenon DEF PushRtx, PushTied
    <3>2. \A i \in Ids : /\ DOMAIN tied[i] = DOMAIN NoDelays
                         /\ tied[i].attempts = delays[i].attempts
                         /\ tied[i].final = delays[i].final
      <4> HIDE DEF still, delay
      <4> QED BY <1>0 DEF NoDelays
    <3>3. prev \in {0} \cup Own
      <4> DEFINE S == { i \in Own : \/ p.seq = pkts[i].seq
                                    \/ Between(p.seq, pkts[i].seq, SeqEnd(pkts[i])) }
      <4>1. prev = Max({0} \cup S) /\ S \subseteq Own
        BY DEF PreviousTx
      <4>2. Len(pkts) \in Nat /\ {0} \cup S \subseteq 0 .. Len(pkts)
        BY <4>1, CaptureTypes DEF LinesInv
      <4> HIDE DEF S, prev
      <4> QED BY <4>1, <4>2, MaxIsLast
    <3> HIDE DEF tied, prev
    <3>4. f = [i \in Ids |-> f[i]]
      BY DEF RtxDelays
    <3>5. Counted(f, tied, p, prev, Ids)
      <4>1. prev \in {0} \cup Ids /\ FieldsOf(tied)
        BY <1>0, <3>2, <3>3 DEF FieldsOf
      <4> QED BY <4>1, RtxCounts
    <3> HIDE DEF f
    <3>6. Counts(p, prev, f)
      BY <1>0, <2>1, <3>1, <3>2, <3>4, <3>5 DEF Counts, Counted
    <3> QED BY <2>1, <3>3, <3>6, AttemptsPreserved
  <2> QED BY <1>3, <2>2, <2>3, SendCases DEF AddOther, PushNew, NoteNew
<1>4. ASSUME NEW a \in Received, ProcessOldAck(a) \/ ProcessNewAck(a)
      PROVE  AttemptsCounted'
  <2>1. pkts' = Append(pkts, a) /\ a \in Packets
    BY <1>4, ReceivedIsStored DEF Packets
  <2>2. first_tx' = Append(first_tx, New)
    <3> NoteAck(a)
      BY <1>4, Zenon DEF ProcessOldAck, ProcessNewAck
    <3> QED BY DEF NoteAck
  <2>3. CASE ProcessOldAck(a)
    BY <1>0, <1>2, <2>1, <2>2, <2>3 DEF ProcessOldAck
  <2>4. CASE ProcessNewAck(a)
    <3> DEFINE S == AckedNow(a)
               delay(i) == a.ts - pkts[i].ts
               f == [i \in Ids |-> IF i \in S THEN [delays[i] EXCEPT !.ack = delay(i)]
                                   ELSE delays[i]]
    <3>1. delays' = Append(f, NoDelays)
      BY <2>4, Zenon DEF ProcessNewAck
    <3>2. f = [i \in Ids |-> f[i]]
      OBVIOUS
    <3>3. \A i \in Ids : f[i].attempts = delays[i].attempts /\ f[i].final = delays[i].final
      <4> HIDE DEF S, delay
      <4> QED BY <1>0 DEF NoDelays
    <3> HIDE DEF f
    <3> QED BY <1>2, <2>1, <2>2, <3>1, <3>2, <3>3
  <2> QED BY <1>4, <2>3, <2>4
<1> QED BY <1>1, <1>3, <1>4, StepCases DEF CaptureInv

\* There are no delays at first.
LEMMA DelaysStart == Init => MinInv /\ AttemptsCounted
<1> SUFFICES ASSUME Init PROVE MinInv /\ AttemptsCounted
  OBVIOUS
<1>1. pkts \in Seq(Packets) /\ Ids = {} /\ Own = {}
  BY EmptySeq DEF Init, Ids, Own
<1>2. Settled = {}
  BY <1>1 DEF Settled
<1> QED BY <1>1, <1>2 DEF Init, MinInv, LeastOf, Entries, AttemptsCounted

(***************************************************************************)
(* However data is cut anew and lines branch, the attempts and the final    *)
(* delay kept with an original are those of its whole line, and a           *)
(* retransmission keeps none.                                              *)
(***************************************************************************)
THEOREM AttemptsAreCounted == Spec => []AttemptsCounted
<1>1. /\ AckInv /\ CaptureInv /\ LinesInv /\ MinInv /\ AttemptsCounted /\ [Next]_vars
            => AckInv' /\ CaptureInv' /\ LinesInv' /\ MinInv' /\ AttemptsCounted'
  BY AckStep, CaptureStep, LineStep, MinStep, AttemptsStep
<1> QED BY <1>1, CaptureStart, LinesStart, DelaysStart, PTL DEF Spec

-----------------------------------------------------------------------------
(***************************************************************************)
(* Types: whatever the endpoint sends and receives, every count, delay and   *)
(* estimate stays a natural number, every sequence number in its space.      *)
(***************************************************************************)
Estimators == [smoothed_rtt_x8 : Nat, rtt_var_x4 : Nat, mean_dev_x4 : Nat,
               max_mean_dev_x4 : Nat, next_seq : SeqNum]

\* The step of the mean deviation does not take it below zero.
LEMMA MeanDevTyped ==
    ASSUME NEW error \in Int, NEW mean_dev \in Nat
    PROVE  mean_dev + MeanDevUpdate(error, mean_dev) \in Nat
BY DEF MeanDevUpdate

\* No sample makes a field of the estimator negative (TcpTimer::AddSample).
LEMMA AddSampleTyped ==
    ASSUME NEW tm \in Estimators, NEW rtt \in Nat, NEW acked, NEW next \in SeqNum
    PROVE  AddSample(tm, rtt, acked, next) \in Estimators
<1> DEFINE error == rtt - tm.smoothed_rtt_x8 \div 8
           smoothed == tm.smoothed_rtt_x8 + error
           mean_dev == tm.mean_dev_x4 + MeanDevUpdate(error, tm.mean_dev_x4)
           updated == [tm EXCEPT !.smoothed_rtt_x8 = smoothed, !.mean_dev_x4 = mean_dev]
<1>1. FirstSample(rtt, next) \in Estimators
  BY TimerAssumption DEF FirstSample, Estimators, Larger
<1>2. error \in Int /\ smoothed \in Nat
  BY DEF Estimators
<1>3. mean_dev \in Nat
  <2> HIDE DEF error
  <2> QED BY <1>2, MeanDevTyped DEF Estimators
<1>4. updated \in Estimators
  <2> HIDE DEF smoothed, mean_dev
  <2> QED BY <1>2, <1>3 DEF Estimators
<1>5. ASSUME NEW t \in Estimators
      PROVE  RaiseVariation(t) \in Estimators
  BY DEF RaiseVariation, Estimators, Larger
<1>6. ASSUME NEW t \in Estimators
      PROVE  CloseWindow(t, acked, next) \in Estimators
  <2> DEFINE decayed == IF t.max_mean_dev_x4 < t.rtt_var_x4
                        THEN t.rtt_var_x4 - (t.rtt_var_x4 - t.max_mean_dev_x4) \div 4
                        ELSE t.rtt_var_x4
             closed == [t EXCEPT !.rtt_var_x4 = decayed, !.next_seq = next,
                                 !.max_mean_dev_x4 = MinRTO]
  <2>1. CloseWindow(t, acked, next) \in {t, closed}
    BY DEF CloseWindow
  <2>2. decayed \in Nat
    BY DEF Estimators
  <2>3. closed \in Estimators
    <3> HIDE DEF decayed
    <3> QED BY <2>2, TimerAssumption DEF Estimators
  <2> QED BY <2>1, <2>3
<1>7. LaterSample(tm, rtt, acked, next) = CloseWindow(RaiseVariation(updated), acked, next)
  BY DEF LaterSample
<1> HIDE DEF updated
<1>8. LaterSample(tm, rtt, acked, next) \in Estimators
  BY <1>4, <1>5, <1>6, <1>7
<1> QED BY <1>1, <1>8 DEF AddSample

LEMMA SampledTyped ==
    ASSUME NEW tm \in Estimators, NEW i, NEW rtt \in Nat, NEW acked, NEW next \in SeqNum
    PROVE  Sampled(tm, i, rtt, acked, next) \in Estimators
BY AddSampleTyped DEF Sampled

\* The loop of AdjustRTOForBackoff.
BackoffRound(c, n, backed_off) == IF n = 0 THEN c ELSE Smaller(2 * backed_off, MaxRTO)
BackoffWalk == INSTANCE Walks WITH Step <- BackoffRound

LEMMA BackoffOneMore == BackoffWalk!OneMoreSuffices
BY OneMoreAtTheEnd DEF BackoffWalk!OneMoreSuffices

LEMMA BackoffTyped ==
    ASSUME NEW x \in Nat, NEW n \in Nat
    PROVE  AdjustRTOForBackoff(x, n) \in Nat
<1> DEFINE L(f) == f = [k \in 0 .. n |-> IF k = 0 THEN x ELSE Smaller(2 * f[k - 1], MaxRTO)]
           h == CHOOSE f : L(f)
<1>1. PICK f : BackoffWalk!IsRecursion(f, x, 0, n)
  BY BackoffOneMore, BackoffWalk!RecursionExists
<1>2. L(f)
  <2>1. /\ f = [k \in 0 .. n |-> f[k]]
        /\ f[0] = x
        /\ \A k \in 1 .. n : f[k] = Smaller(2 * f[k - 1], MaxRTO)
    <3>1. /\ f = [k \in 0 .. n |-> f[k]]
          /\ f[0] = BackoffRound(x, 0, 0)
          /\ \A k \in 1 .. n : f[k] = BackoffRound(x, k, f[k - 1])
      BY <1>1 DEF BackoffWalk!IsRecursion
    <3>2. \A k \in 1 .. n : k # 0
      OBVIOUS
    <3> QED BY <3>1, <3>2 DEF BackoffRound
  <2>2. \A k \in 0 .. n : f[k] = IF k = 0 THEN x ELSE Smaller(2 * f[k - 1], MaxRTO)
    <3> SUFFICES ASSUME NEW k \in 0 .. n, k # 0
                 PROVE  f[k] = Smaller(2 * f[k - 1], MaxRTO)
      BY <2>1
    <3> k \in 1 .. n
      OBVIOUS
    <3> QED BY <2>1
  <2> QED BY <2>1, <2>2
<1>3. L(h)
  <2> HIDE DEF L
  <2> QED BY <1>2
<1>4. AdjustRTOForBackoff(x, n) = h[n]
  BY Zenon DEF AdjustRTOForBackoff
<1> HIDE DEF h
<1> DEFINE G == { k \in 0 .. n : h[k] \in Nat }
<1>5. 0 \in G
  BY <1>3
<1>6. ASSUME NEW k \in 0 .. n - 1, k \in G
      PROVE  k + 1 \in G
  <2>1. k + 1 \in 0 .. n /\ k + 1 # 0 /\ k + 1 - 1 = k
    OBVIOUS
  <2>2. h[k + 1] = Smaller(2 * h[k], MaxRTO)
    BY <1>3, <2>1
  <2>3. h[k] \in Nat
    BY <1>6
  <2>4. h[k + 1] \in Nat
    BY <2>2, <2>3, TimerAssumption DEF Smaller
  <2> QED BY <2>1, <2>4
<1>7. n \in G
  <2> HIDE DEF G
  <2> QED BY <1>5, <1>6, CountingUp
<1> QED BY <1>4, <1>7

\* The timeouts of an estimator are delays (GetRTO, GetTLP).
LEMMA TimeoutsTyped ==
    ASSUME NEW tm \in Estimators, NEW n \in Nat, NEW delayed
    PROVE  GetRTO(tm, n) \in Nat /\ GetTLP(tm, delayed) \in Nat
<1>1. BaseRTO(tm) \in Nat
  BY TimerAssumption DEF BaseRTO, Estimators, Larger
<1>2. \A k \in Nat : GetRTO(tm, k) \in Nat
  BY <1>1, BackoffTyped DEF GetRTO
<1> DEFINE rtt == tm.smoothed_rtt_x8 \div 8
           probe == IF delayed THEN Larger(2 * rtt, rtt + rtt \div 2 + MaxDelayedAck)
                    ELSE 2 * rtt
<1>3. probe \in Nat
  BY TimerAssumption DEF Estimators, Larger
<1>4. GetTLP(tm, delayed) = Smaller(probe, GetRTO(tm, 0))
  BY DEF GetTLP
<1> HIDE DEF probe
<1> QED BY <1>2, <1>3, <1>4 DEF Smaller

-----------------------------------------------------------------------------
\* What is known of a timer, armed by one of the first n packets of the capture.
Infos(n) == [armed_by : 0 .. n, delay : Nat, backoffs : 0 .. MaxPackets,
             delayed_ack : BOOLEAN]

LEMMA ArmedTyped ==
    ASSUME NEW n \in Nat, NEW id \in 0 .. n, NEW tm \in Estimators,
           NEW backoffs \in 0 .. MaxPackets, NEW delayed \in BOOLEAN
    PROVE  /\ ArmedRTO(id, tm, backoffs) \in Infos(n)
           /\ ArmedTLP(id, tm, delayed) \in Infos(n)
           /\ NoTimer \in Infos(n)
<1>1. GetRTO(tm, backoffs) \in Nat /\ GetTLP(tm, delayed) \in Nat
  BY TimeoutsTyped
<1>2. 0 \in 0 .. MaxPackets
  BY InputAssumption
<1> QED BY <1>1, <1>2 DEF ArmedRTO, ArmedTLP, NoTimer, Infos

LEMMA InfosGrow ==
    ASSUME NEW n \in Nat
    PROVE  Infos(n) \subseteq Infos(n + 1)
BY DEF Infos

-----------------------------------------------------------------------------
Numbers == [init : SeqNum, acked : SeqNum, next : SeqNum]

\* The packets of a capture.
LEMMA PacketTypes ==
    ASSUME NEW q \in Packets
    PROVE  /\ q.ts \in Nat
           /\ q.out \in BOOLEAN
           /\ q.out <=> q \in OwnPackets
           /\ q.out => /\ q.seq \in SeqNum /\ q.len \in 0 .. MaxForward - 1
                       /\ SeqEnd(q) \in SeqNum /\ q.len \in Nat
                       /\ [start |-> q.seq, end |-> SeqEnd(q)] \in Block
           /\ ~q.out => /\ q \in Received /\ q.ack \in SeqNum \ {0} /\ q.blocks \in Lists
<1>1. CASE q \in OwnPackets
  <2>1. PICK x \in Sends, ts \in Nat : q = OwnPacket(x, ts)
    BY <1>1 DEF OwnPackets
  <2>2. q.out = TRUE /\ q.ts \in Nat /\ q.seq \in SeqNum /\ q.len \in 0 .. MaxForward - 1
    BY <2>1, InputAssumption DEF OwnPacket
  <2>3. q.len \in 0 .. SpaceSize
    BY <2>2, SpaceSizeAssumption DEF MaxForward, HalfSpace
  <2>4. SeqEnd(q) \in SeqNum
    BY <2>2, <2>3, SpaceSizeAssumption DEF SeqEnd, SeqPlus, SeqNum
  <2>5. q.len \in Nat /\ [start |-> q.seq, end |-> SeqEnd(q)] \in Block
    BY <2>2, <2>3, <2>4 DEF Block
  <2> QED BY <1>1, <2>2, <2>4, <2>5
<1>2. CASE q \in Received
  <2>1. PICK x \in Acks, ts \in Nat : q = AckPacket(x, ts)
    BY <1>2 DEF Received
  <2>2. q.out = FALSE /\ q.ts \in Nat /\ q.ack \in SeqNum \ {0} /\ q.blocks \in Seq(Block)
    BY <2>1, InputAssumption DEF AckPacket
  <2>3. \A y \in OwnPackets : y.out = TRUE
    BY DEF OwnPackets, OwnPacket
  <2>4. q \notin OwnPackets
    BY <2>2, <2>3
  <2> QED BY <1>2, <2>2, <2>4 DEF Lists
<1> QED BY <1>1, <1>2 DEF Packets

\* The types of what the ties come to.
TieTypes(t) ==
    /\ t.sacks \in SackLists /\ t.timer \in Estimators /\ t.armed_with \in Estimators
    /\ t.adjust \in Nat /\ t.delayed \in BOOLEAN

LEMMA TieTyped ==
    ASSUME CaptureInv, NEW s, NEW t, TiesOK(s, t), TieTypes(t), NEW i \in unacked,
           NEW a \in CanHaveSeen(t, i), NEW sq \in Numbers
    PROVE  TieTypes(Tie(t, i, a, sq))
<1> DEFINE u == Tie(t, i, a, sq)
           d == pkts[a].ts - pkts[i].ts
           b == [start |-> pkts[i].seq, end |-> SeqEnd(pkts[i])]
           tm == Sampled(t.timer, i, d, sq.acked, sq.next)
           left == { j \in unacked : t.by[j] = 0 }
<1>1. /\ u.sacks = Add(t.sacks, b)
      /\ u.timer = tm /\ u.armed_with \in {tm, t.armed_with}
      /\ u.adjust \in {t.adjust, t.adjust + pkts[i].len}
      /\ u.delayed \in {t.delayed, DelayedAck(left, rtx, marks)}
  <2>1. DOMAIN t = DOMAIN NoTies
    BY DEF TiesOK
  <2>2. TiedFields(u, t, i, a, sq)
    BY <2>1, TieFields
  <2> HIDE DEF u
  <2> QED BY <2>2 DEF TiedFields
<1>2. a \in lookalikes /\ pkts[i].ts + t.min_rtt < pkts[a].ts
  BY DEF CanHaveSeen, TiesOK
<1>3. i \in Ids /\ i \in Own /\ pkts[i].out /\ pkts[i] \in Packets /\ a \in Ids
  BY <1>2, CaptureTypes DEF CaptureInv, Own
<1>4. d \in Nat
  <2> pkts[i].ts \in Nat /\ pkts[a].ts \in Nat
    BY <1>3, CaptureTypes DEF CaptureInv
  <2> t.min_rtt \in Nat
    BY TiedDelaysTyped
  <2> QED BY <1>2
<1>5. b \in Block /\ pkts[i].len \in Nat
  BY <1>3, PacketTypes
<1>6. Add(t.sacks, b) \in SackLists
  <2> HIDE DEF b
  <2> QED BY <1>5, AddTyped DEF TieTypes
<1>7. tm \in Estimators
  <2> sq.next \in SeqNum
    BY DEF Numbers
  <2> HIDE DEF d
  <2> QED BY <1>4, SampledTyped DEF TieTypes
<1>8. DelayedAck(left, rtx, marks) \in BOOLEAN
  BY DEF DelayedAck
<1> HIDE DEF u, tm, b, left
<1>9. TieTypes(u)
  BY <1>1, <1>5, <1>6, <1>7, <1>8 DEF TieTypes
<1> QED BY <1>9 DEF u

LEMMA TieRoundTyped ==
    ASSUME CaptureInv, NEW s, NEW t, TiesOK(s, t), TieTypes(t), NEW i \in unacked,
           NEW p, NEW sq \in Numbers
    PROVE  TieTypes(TieStep(t, i, p, sq))
<1>1. TieTypes([t EXCEPT !.done = TRUE]) /\ TieTypes([t EXCEPT !.queue = {}])
  BY DEF TieTypes
<1>2. ASSUME CanHaveSeen(t, i) # {}
      PROVE  TieTypes(Tie(t, i, Min(CanHaveSeen(t, i)), sq))
  <2>1. Len(pkts) \in Nat /\ CanHaveSeen(t, i) \subseteq 0 .. Len(pkts)
    BY CaptureTypes DEF CanHaveSeen, TiesOK, CaptureInv
  <2>2. Min(CanHaveSeen(t, i)) \in CanHaveSeen(t, i)
    <3> HIDE DEF CanHaveSeen
    <3> QED BY <1>2, <2>1, MinIsFirst
  <2> QED BY <2>2, TieTyped
<1> QED BY <1>1, <1>2, Zenon DEF TieStep

\* The ties, whatever is retransmitted.
LEMMA TiesTyped ==
    ASSUME CaptureInv, sacks \in SackLists, timer \in Estimators,
           NEW p, NEW sq \in Numbers
    PROVE  TieTypes(TiesOf(p, sq))
<1>1. TieTypes(NoTies)
  BY DEF TieTypes, NoTies
<1>2. CASE lookalikes = {}
  BY <1>1, <1>2 DEF TiesOf
<1>3. CASE lookalikes # {}
  <2> DEFINE n == Len(pkts)
             c == <<p, sq>>
  <2>1. n \in Nat /\ unacked \subseteq 0 .. n
    BY CaptureTypes DEF CaptureInv
  <2>2. PICK g : TieWalk!IsWalk(g, c, NoTies, unacked) /\ TiesOf(p, sq) = g[unacked]
    <3> HIDE DEF n
    <3> QED BY <1>3, <2>1, TiesAreAWalk
  <2> DEFINE Good == { s \in SUBSET unacked : TieTypes(g[s]) }
  <2>3. {} \in Good
    BY <1>1, <2>2 DEF TieWalk!IsWalk
  <2>4. ASSUME NEW s \in SUBSET unacked, NEW i \in s, \A j \in s : i >= j, s \ {i} \in Good
        PROVE  s \in Good
    <3>1. g[s] = TieRound(c, i, g[s \ {i}])
      BY <2>2, <2>4 DEF TieWalk!IsWalk
    <3>2. TieRound(c, i, g[s \ {i}]) = TieStep(g[s \ {i}], i, p, sq)
      BY DEF TieRound
    <3>3. TiesOK(s \ {i}, g[s \ {i}])
      <4> s \ {i} \in SUBSET unacked
        OBVIOUS
      <4> QED BY <2>2, TieWalkSound
    <3>4. TieTypes(g[s \ {i}]) /\ i \in unacked
      BY <2>4
    <3>5. TieTypes(g[s])
      BY <3>1, <3>2, <3>3, <3>4, TieRoundTyped
    <3> QED BY <3>5
  <2>5. unacked \in Good
    <3> HIDE DEF Good, n, c
    <3> QED BY <2>1, <2>3, <2>4, OneMoreAtTheEnd
  <2> QED BY <2>2, <2>5
<1> QED BY <1>2, <1>3

\* The estimator after the packets that an ACK covers.
LEMMA EstimatesTyped ==
    ASSUME CaptureInv, timer \in Estimators, seq_next \in SeqNum,
           NEW a \in Packets, InTime(a), NEW S \in SUBSET unacked
    PROVE  EstimatesOf(a, S).timer \in Estimators
<1> DEFINE n == Len(pkts)
           start == [min_rtt |-> min_rtt, timer |-> timer]
<1>1. n \in Nat /\ S \subseteq 0 .. n
  BY CaptureTypes DEF CaptureInv
<1>2. PICK g : EstimateWalk!IsWalk(g, a, start, S) /\ EstimatesOf(a, S) = g[S]
  <2> HIDE DEF n
  <2> QED BY <1>1, EstimatesAreAWalk
<1> DEFINE Good == { s \in SUBSET S : g[s].timer \in Estimators }
<1>3. {} \in Good
  <2> g[{}] = start /\ start.timer = timer
    BY <1>2 DEF EstimateWalk!IsWalk
  <2> HIDE DEF start
  <2> QED OBVIOUS
<1>4. ASSUME NEW s \in SUBSET S, NEW i \in s, \A j \in s : i >= j, s \ {i} \in Good
      PROVE  s \in Good
  <2>1. g[s] = Estimate(g[s \ {i}], i, a)
    BY <1>2, <1>4 DEF EstimateWalk!IsWalk, EstimateRound
  <2>2. g[s \ {i}].timer \in Estimators
    BY <1>4
  <2>3. a.ts - pkts[i].ts \in Nat
    BY NoneLater DEF CaptureInv, Own
  <2>4. g[s].timer \in Estimators
    BY <2>1, <2>2, <2>3, SampledTyped DEF Estimate
  <2> QED BY <2>4
<1>5. S \in Good
  <2> HIDE DEF Good, n
  <2> QED BY <1>1, <1>3, <1>4, OneMoreAtTheEnd
<1> QED BY <1>2, <1>5
-----------------------------------------------------------------------------
\* The state of FindRtxTrigger: timers armed by one of n packets, k timeouts at most.
Verdicts(n, k) ==
    [rto : Infos(n), tlp : Infos(n), num_rtos : 0 .. k, high : SeqNum, enabled : BOOLEAN,
     mk : [1 .. New -> SUBSET Flags], found : BOOLEAN, info : [rto : Infos(n), tlp : Infos(n)]]

\* The time from an armed timer to a packet that is captured later.
LEMMA ElapsedTyped ==
    ASSUME CaptureInv, NEW p \in Packets, InTime(p), NEW x \in Infos(Len(pkts)), x.armed_by # 0
    PROVE  [x EXCEPT !.delay = Elapsed(x, p)] \in Infos(Len(pkts))
<1>1. x.armed_by \in Ids
  BY CaptureTypes DEF Infos, CaptureInv
<1>2. Elapsed(x, p) \in Nat
  BY <1>1, NoneLater DEF Elapsed
<1> QED BY <1>2 DEF Infos

LEMMA TLPTyped ==
    ASSUME CaptureInv, NEW p \in Packets, InTime(p), NEW k \in Nat,
           NEW t \in Verdicts(Len(pkts), k), NEW sq
    PROVE  CheckForTLP(t, p, sq) \in Verdicts(Len(pkts), k)
<1> DEFINE n == Len(pkts)
           d == Elapsed(t.tlp, p)
           fired == [t.tlp EXCEPT !.delay = d]
           mk == [t.mk EXCEPT ![New] = @ \cup {"tlp"}]
           info == [t.info EXCEPT !.tlp = fired]
           u == [t EXCEPT !.tlp = fired, !.mk = mk, !.info = info, !.found = TRUE]
<1>1. CASE t.tlp.armed_by # 0
  <2>1. fired \in Infos(n)
    BY <1>1, ElapsedTyped DEF Verdicts
  <2>2. New \in 1 .. New
    BY CaptureTypes DEF CaptureInv, New
  <2>3. mk \in [1 .. New -> SUBSET Flags]
    <3> t.mk \in [1 .. New -> SUBSET Flags]
      BY DEF Verdicts
    <3> QED BY <2>2 DEF Flags
  <2>4. info \in [rto : Infos(n), tlp : Infos(n)]
    <3> HIDE DEF fired, n
    <3> QED BY <2>1 DEF Verdicts, n
  <2>5. u \in Verdicts(n, k)
    <3> HIDE DEF fired, mk, info
    <3> QED BY <2>1, <2>3, <2>4 DEF Verdicts
  <2>6. [t EXCEPT !.tlp.delay = d, !.mk[New] = @ \cup {"tlp"},
                  !.info.tlp = [t.tlp EXCEPT !.delay = d], !.found = TRUE] = u
    BY Zenon
  <2>7. CheckForTLP(t, p, sq) \in {t, u}
    <3> HIDE DEF u
    <3> QED BY <2>6, Zenon DEF CheckForTLP
  <2> QED BY <2>5, <2>7
<1>2. CASE t.tlp.armed_by = 0
  BY <1>2 DEF CheckForTLP
<1> QED BY <1>1, <1>2

LEMMA TimeoutTyped ==
    ASSUME CaptureInv, NEW p \in Packets, InTime(p), NEW k \in Nat,
           NEW t \in Verdicts(Len(pkts), k), t.rto.armed_by # 0, NEW sq \in Numbers
    PROVE  TieToRTO(t, p, sq) \in Verdicts(Len(pkts), k + 1)
<1> DEFINE n == Len(pkts)
           armer == t.rto.armed_by
           again == t.num_rtos = 1 /\ "tlp" \in t.mk[armer]
           fired == [t.rto EXCEPT !.delay = Elapsed(t.rto, p)]
           info == [t.info EXCEPT !.rto = fired]
           mk == [t.mk EXCEPT ![armer] = IF again THEN @ \ {"tlp"} ELSE @,
                              ![New]   = @ \cup {"rto"}]
           enabled == t.enabled /\ ~again /\ (t.num_rtos = 0 => "tlp" \in t.mk[New])
           v == TieToRTO(t, p, sq)
<1>1. fired \in Infos(n)
  BY ElapsedTyped DEF Verdicts
<1>2. New \in 1 .. New /\ armer \in 1 .. New
  <2> armer \in 0 .. Len(pkts)
    BY DEF Verdicts, Infos
  <2> QED BY CaptureTypes DEF CaptureInv, New
<1>3. mk \in [1 .. New -> SUBSET Flags]
  <2> DEFINE was == t.mk
  <2>1. was \in [1 .. New -> SUBSET Flags]
    BY DEF Verdicts
  <2>2. was = [i \in 1 .. New |-> was[i]] /\ \A i \in 1 .. New : was[i] \subseteq Flags
    BY <2>1
  <2> HIDE DEF again, armer
  <2>3. mk = [i \in 1 .. New |-> mk[i]]
    BY <1>2, <2>2
  <2>4. \A i \in 1 .. New : mk[i] \subseteq was[i] \cup {"rto"}
    BY <1>2, <2>2
  <2>5. \A i \in 1 .. New : mk[i] \subseteq Flags
    BY <2>2, <2>4 DEF Flags
  <2> HIDE DEF mk
  <2> QED BY <2>3, <2>5
<1>4. info \in [rto : Infos(n), tlp : Infos(n)]
  <2> HIDE DEF fired, n
  <2> QED BY <1>1 DEF Verdicts, n
<1>5. enabled \in BOOLEAN /\ sq.next \in SeqNum /\ t.num_rtos + 1 \in 0 .. k + 1
  BY DEF Numbers, Verdicts
<1>6. /\ v = [x \in DOMAIN t |-> v[x]]
      /\ v.rto = fired /\ v.tlp = t.tlp /\ v.num_rtos = t.num_rtos + 1 /\ v.high = sq.next
      /\ v.enabled = enabled /\ v.mk = mk /\ v.found = TRUE /\ v.info = info
  <2>0. DOMAIN t = {"rto", "tlp", "num_rtos", "high", "enabled", "mk", "found", "info"}
    BY DEF Verdicts
  <2>1. v = [x \in DOMAIN t |-> v[x]]
    BY ZenonT(40) DEF TieToRTO
  <2>2. v.rto = fired
    BY <2>0, Zenon DEF TieToRTO
  <2>3. v.tlp = t.tlp
    BY <2>0, Zenon DEF TieToRTO
  <2>4. v.num_rtos = t.num_rtos + 1
    BY <2>0, Zenon DEF TieToRTO
  <2>5. v.high = sq.next
    BY <2>0, Zenon DEF TieToRTO
  <2>6. v.enabled = enabled
    BY <2>0, Zenon DEF TieToRTO
  <2>7. v.mk = mk
    BY <2>0, Zenon DEF TieToRTO
  <2>8. v.found = TRUE
    BY <2>0, Zenon DEF TieToRTO
  <2>9. v.info = info
    BY <2>0, Zenon DEF TieToRTO
  <2> QED BY ONLY <2>1, <2>2, <2>3, <2>4, <2>5, <2>6, <2>7, <2>8, <2>9
<1>7. t.tlp \in Infos(n)
  BY DEF Verdicts
<1>8. DOMAIN t = {"rto", "tlp", "num_rtos", "high", "enabled", "mk", "found", "info"}
  BY DEF Verdicts
<1> HIDE DEF v, fired, mk, info, enabled, n, again, armer
<1>9. v \in Verdicts(n, k + 1)
  BY <1>1, <1>3, <1>4, <1>5, <1>6, <1>7, <1>8 DEF Verdicts
<1> QED BY <1>9 DEF v, n

LEMMA UndoTyped ==
    ASSUME CaptureInv, NEW k \in Nat, NEW t \in Verdicts(Len(pkts), k), t.rto.armed_by # 0,
           NEW tm \in Estimators, NEW ids
    PROVE  /\ UndoRTO(t, tm, ids) \in Verdicts(Len(pkts), 0)
           /\ UndoRTO(t, tm, ids).rto.armed_by = t.rto.armed_by
<1> DEFINE n == Len(pkts)
           armer == t.rto.armed_by
           mk == [t.mk EXCEPT ![armer] = @ \ {"rto"}]
           new_rto == ArmedRTO(armer, tm, 0)
           new_tlp == ArmedTLP(armer, tm, DelayedAck(ids, rtx, t.mk))
           u == [t EXCEPT !.num_rtos = 0, !.high = 0, !.mk = mk, !.rto = new_rto, !.tlp = new_tlp]
<1>1. n \in Nat /\ armer \in 0 .. n /\ armer \in 1 .. New /\ 0 \in 0 .. MaxPackets
  <2> armer \in 0 .. Len(pkts)
    BY DEF Verdicts, Infos
  <2> QED BY CaptureTypes, InputAssumption DEF CaptureInv, New
<1>2. new_rto \in Infos(n) /\ new_tlp \in Infos(n)
  <2> DelayedAck(ids, rtx, t.mk) \in BOOLEAN
    BY DEF DelayedAck
  <2> HIDE DEF armer, n
  <2> QED BY <1>1, ArmedTyped
<1>3. mk \in [1 .. New -> SUBSET Flags]
  <2> t.mk \in [1 .. New -> SUBSET Flags]
    BY DEF Verdicts
  <2> HIDE DEF armer
  <2> QED BY <1>1
<1>4. u \in Verdicts(n, 0)
  <2>1. 0 \in SeqNum /\ 0 \in 0 .. 0
    BY SpaceSizeAssumption DEF SeqNum
  <2>2. /\ DOMAIN t = {"rto", "tlp", "num_rtos", "high", "enabled", "mk", "found", "info"}
        /\ t.enabled \in BOOLEAN /\ t.found \in BOOLEAN
        /\ t.info \in [rto : Infos(n), tlp : Infos(n)]
    BY DEF Verdicts
  <2> HIDE DEF new_rto, new_tlp, mk, n, armer
  <2>3. /\ u = [x \in DOMAIN t |-> u[x]]
        /\ u.rto = new_rto /\ u.tlp = new_tlp /\ u.num_rtos = 0 /\ u.high = 0
        /\ u.enabled = t.enabled /\ u.mk = mk /\ u.found = t.found /\ u.info = t.info
    BY <2>2
  <2> HIDE DEF u
  <2> QED BY <1>2, <1>3, <2>1, <2>2, <2>3 DEF Verdicts
<1>5. u.rto = new_rto
  <2> DOMAIN t = {"rto", "tlp", "num_rtos", "high", "enabled", "mk", "found", "info"}
    BY DEF Verdicts
  <2> HIDE DEF new_rto, new_tlp, mk
  <2> QED OBVIOUS
<1>6. UndoRTO(t, tm, ids) = u
  BY Zenon DEF UndoRTO
<1>7. new_rto.armed_by = armer
  BY DEF ArmedRTO
<1> HIDE DEF u, new_rto, n
<1>8. u \in Verdicts(n, 0) /\ u.rto.armed_by = armer
  BY <1>4, <1>5, <1>7
<1> QED BY <1>6, <1>8 DEF n

LEMMA RTOTyped ==
    ASSUME CaptureInv, NEW p \in Packets, InTime(p),
           NEW t \in Verdicts(Len(pkts), Len(pkts)), NEW sq \in Numbers,
           NEW tm \in Estimators, NEW ids
    PROVE  CheckForRTO(t, p, sq, tm, ids) \in Verdicts(Len(pkts), New)
<1> DEFINE n == Len(pkts)
           undone == UndoRTO(t, tm, ids)
           tied == TieToRTO(t, p, sq)
           retied == TieToRTO(undone, p, sq)
<1>1. n \in Nat /\ New = n + 1 /\ 0 + 1 <= New
  BY CaptureTypes DEF CaptureInv, New
<1>2. \A k \in 0 .. New : Verdicts(n, k) \subseteq Verdicts(n, New)
  <2> SUFFICES ASSUME NEW k \in 0 .. New
               PROVE  Verdicts(n, k) \subseteq Verdicts(n, New)
    OBVIOUS
  <2> 0 .. k \subseteq 0 .. New
    BY <1>1
  <2> HIDE DEF n
  <2> QED BY DEF Verdicts
<1>3. t \in Verdicts(n, New)
  <2> n \in 0 .. New
    BY <1>1
  <2> QED BY <1>2
<1>4. CASE t.rto.armed_by = 0
  BY <1>3, <1>4 DEF CheckForRTO
<1>5. CASE t.rto.armed_by # 0
  <2>1. tied \in Verdicts(n, New)
    BY <1>1, <1>5, TimeoutTyped DEF CaptureInv
  <2>2. undone \in Verdicts(n, 0) /\ undone.rto.armed_by # 0
    BY <1>1, <1>5, UndoTyped
  <2> HIDE DEF undone, tied
  <2>3. retied \in Verdicts(n, 0 + 1)
    BY <2>2, TimeoutTyped
  <2> HIDE DEF retied
  <2>4. undone \in Verdicts(n, New) /\ retied \in Verdicts(n, New)
    <3> 0 \in 0 .. New /\ 0 + 1 \in 0 .. New
      BY <1>1
    <3> HIDE DEF n
    <3> QED BY <1>2, <2>2, <2>3
  <2>5. CheckForRTO(t, p, sq, tm, ids) \in {t, tied, undone, retied}
    BY Zenon DEF CheckForRTO, undone, tied, retied
  <2> QED BY <1>3, <2>1, <2>4, <2>5
<1> QED BY <1>4, <1>5

-----------------------------------------------------------------------------
(***************************************************************************)
(* FindRtxTrigger keeps the types: its verdict, the timers it leaves and the *)
(* back-off it counts, whatever ties came before.                           *)
(***************************************************************************)
LEMMA VerdictsGrow ==
    ASSUME NEW n \in Nat, NEW k \in Nat, NEW l \in k .. n + 1
    PROVE  Verdicts(n, k) \subseteq Verdicts(n + 1, l)
<1>1. Infos(n) \subseteq Infos(n + 1) /\ 0 .. k \subseteq 0 .. l
  BY InfosGrow
<1> HIDE DEF Infos
<1> QED BY <1>1 DEF Verdicts

LEMMA TriggerTyped ==
    ASSUME CaptureInv, Len(pkts) < MaxPackets, NEW p \in Packets, InTime(p),
           rto \in Infos(Len(pkts)), tlp \in Infos(Len(pkts)), num_rtos \in 0 .. Len(pkts),
           is_tlp_enabled \in BOOLEAN, marks \in [Ids -> SUBSET Flags],
           NEW sq \in Numbers, NEW high \in SeqNum, NEW ids,
           NEW ties, TieTypes(ties), ties.armer \in 0 .. Len(pkts)
    PROVE  FindRtxTrigger(p, sq, high, ties, ids) \in Verdicts(New, New)
<1> DEFINE n == Len(pkts)
           t0 == [rto |-> TiedRTO(ties), tlp |-> TiedTLP(ties), num_rtos |-> num_rtos,
                  high |-> high, enabled |-> is_tlp_enabled,
                  mk |-> Append(marks, {"rtx"}), found |-> FALSE,
                  info |-> [rto |-> NoTimer, tlp |-> NoTimer]]
           t1 == CheckForRTO(CheckForTLP(t0, p, sq), p, sq, ties.timer, ids)
           prompt == [t0 EXCEPT !.mk[New] = @ \cup {IF high # 0 THEN "slow_start" ELSE "fast"}]
           armed == [t1 EXCEPT !.rto = ArmedRTO(New, ties.timer, t1.num_rtos), !.tlp = NoTimer]
           t == FindRtxTrigger(p, sq, high, ties, ids)
<1>1. /\ n \in Nat /\ New = n + 1 /\ New \in 0 .. MaxPackets /\ Ids = 1 .. n /\ New \in 1 .. New
      /\ num_rtos \in 0 .. MaxPackets
  BY CaptureTypes, InputAssumption DEF CaptureInv, New
<1>2. TiedRTO(ties) \in Infos(n) /\ TiedTLP(ties) \in Infos(n) /\ NoTimer \in Infos(n)
  <2>1. /\ ArmedRTO(ties.armer, ties.armed_with, num_rtos) \in Infos(n)
        /\ ArmedTLP(ties.armer, ties.armed_with, ties.delayed) \in Infos(n)
        /\ NoTimer \in Infos(n)
    <3> HIDE DEF n
    <3> QED BY <1>1, ArmedTyped DEF TieTypes, n
  <2> QED BY <2>1 DEF TiedRTO, TiedTLP
<1>3. Append(marks, {"rtx"}) \in [1 .. New -> SUBSET Flags]
  <2>1. /\ Append(marks, {"rtx"}) = [i \in 1 .. n + 1 |-> Append(marks, {"rtx"})[i]]
        /\ \A i \in 1 .. n : Append(marks, {"rtx"})[i] = marks[i]
        /\ Append(marks, {"rtx"})[n + 1] = {"rtx"}
    <3> marks = [i \in 1 .. n |-> marks[i]]
      BY <1>1
    <3> QED BY <1>1, AppendEntry
  <2> DEFINE mk == Append(marks, {"rtx"})
  <2>2. \A i \in 1 .. New : mk[i] \in SUBSET Flags
    <3> HIDE DEF mk
    <3>1. \A i \in 1 .. n : marks[i] \in SUBSET Flags
      BY <1>1
    <3> QED BY <1>1, <2>1, <3>1 DEF Flags, mk
  <2>3. mk = [i \in 1 .. New |-> mk[i]]
    BY <1>1, <2>1
  <2> HIDE DEF mk
  <2> QED BY <2>2, <2>3 DEF mk
<1>4. t0 \in Verdicts(n, n)
  <2> DEFINE mk == Append(marks, {"rtx"})
  <2> HIDE DEF mk, n
  <2> QED BY <1>2, <1>3 DEF Verdicts, mk, n
<1>5. Verdicts(n, n) \subseteq Verdicts(New, New) /\ Verdicts(n, New) \subseteq Verdicts(New, New)
  <2> n + 1 \in n .. n + 1 /\ n + 1 \in n + 1 .. n + 1 /\ New \in Nat
    BY <1>1
  <2> HIDE DEF n
  <2> QED BY <1>1, VerdictsGrow
<1>6. prompt \in Verdicts(n, n)
  <2> DEFINE mk == [t0.mk EXCEPT ![New] = @ \cup {IF high # 0 THEN "slow_start" ELSE "fast"}]
  <2>1. t0.mk \in [1 .. New -> SUBSET Flags]
    BY <1>3
  <2>2. mk \in [1 .. New -> SUBSET Flags]
    BY <1>1, <2>1 DEF Flags
  <2>3. prompt = [t0 EXCEPT !.mk = mk]
    <3> DOMAIN t0 = {"rto", "tlp", "num_rtos", "high", "enabled", "mk", "found", "info"}
      OBVIOUS
    <3> HIDE DEF t0
    <3> QED BY Zenon
  <2> HIDE DEF mk, t0, n
  <2> QED BY <1>4, <2>2, <2>3 DEF Verdicts
<1>7. t1 \in Verdicts(n, New)
  <2> HIDE DEF t0
  <2>1. CheckForTLP(t0, p, sq) \in Verdicts(n, n)
    BY <1>1, <1>4, TLPTyped
  <2> QED BY <2>1, RTOTyped DEF TieTypes
<1>8. armed \in Verdicts(New, New)
  <2> HIDE DEF t1
  <2>1. t1 \in Verdicts(New, New)
    BY <1>5, <1>7
  <2>2. t1.num_rtos \in 0 .. MaxPackets
    <3> t1.num_rtos \in 0 .. New
      BY <2>1 DEF Verdicts
    <3> \A x \in 0 .. New : x \in 0 .. MaxPackets
      BY <1>1, InputAssumption
    <3> QED OBVIOUS
  <2>3. ArmedRTO(New, ties.timer, t1.num_rtos) \in Infos(New) /\ NoTimer \in Infos(New)
    <3> New \in Nat /\ New \in 0 .. New /\ FALSE \in BOOLEAN
      BY <1>1
    <3> HIDE DEF New
    <3> QED BY <2>2, ArmedTyped DEF TieTypes
  <2> DEFINE new_rto == ArmedRTO(New, ties.timer, t1.num_rtos)
  <2> HIDE DEF new_rto
  <2> QED BY <2>1, <2>3 DEF Verdicts, new_rto
<1>9. t \in {prompt, armed, t1}
  BY DEF FindRtxTrigger
<1> HIDE DEF t, prompt, armed, t1
<1>10. t \in Verdicts(New, New)
  BY <1>5, <1>6, <1>7, <1>8, <1>9
<1> QED BY <1>10 DEF t

-----------------------------------------------------------------------------
\* The types of the endpoint's state, part by part.
NotedDelays == [ack : Nat, rtx : Nat, final : Nat, attempts : Nat]

Snapshots(n) ==
    [unacked_bytes : Nat, acked_bytes : Nat, last_ack : 0 .. n, rto_estimate : Nat,
     tlp_estimate : Nat, tlp_delayed_ack_estimate : Nat,
     rto_info : Infos(n), tlp_info : Infos(n)]

NumbersTyped ==
    /\ seq_init \in SeqNum /\ seq_acked \in SeqNum /\ seq_next \in SeqNum
    /\ acked_bytes \in Nat /\ rto_high_seq \in SeqNum
    /\ sacks \in SackLists /\ timer \in Estimators

TimersTyped(n) ==
    /\ rto \in Infos(n) /\ tlp \in Infos(n)
    /\ num_rtos \in 0 .. n /\ unmatched_rtx \in 0 .. n /\ last_ack \in 0 .. n
    /\ is_tlp_enabled \in BOOLEAN /\ is_bogus \in BOOLEAN

NotesTyped(n) ==
    /\ marks \in [1 .. n -> SUBSET Flags]
    /\ delays \in [1 .. n -> NotedDelays]
    /\ sent \in [1 .. n -> Snapshots(n)]

TypesInv ==
    /\ Len(pkts) <= MaxPackets
    /\ NumbersTyped /\ TimersTyped(Len(pkts)) /\ NotesTyped(Len(pkts))

\* One entry more.
LEMMA OneMoreTyped ==
    ASSUME NEW n \in Nat, NEW D, NEW f \in [1 .. n -> D], NEW e \in D
    PROVE  Append(f, e) \in [1 .. n + 1 -> D]
<1>1. f = [i \in 1 .. n |-> f[i]]
  OBVIOUS
<1>2. /\ Append(f, e) = [i \in 1 .. n + 1 |-> Append(f, e)[i]]
      /\ \A i \in 1 .. n : Append(f, e)[i] = f[i]
      /\ Append(f, e)[n + 1] = e
  BY <1>1, AppendEntry
<1> DEFINE g == Append(f, e)
<1> HIDE DEF g
<1>3. \A i \in 1 .. n + 1 : g[i] \in D
  BY <1>2 DEF g
<1> QED BY <1>2, <1>3 DEF g

LEMMA SnapshotsGrow ==
    ASSUME NEW n \in Nat
    PROVE  Snapshots(n) \subseteq Snapshots(n + 1)
<1>1. Infos(n) \subseteq Infos(n + 1) /\ 0 .. n \subseteq 0 .. n + 1
  BY InfosGrow
<1> HIDE DEF Infos
<1> QED BY <1>1 DEF Snapshots

\* There is always room for the packet that is handled.
LEMMA Room ==
    ASSUME pkts \in Seq(Packets), Next
    PROVE  Len(pkts) < MaxPackets
<1>1. Len(pkts) \in Nat
  BY LenProperties
<1>2. CASE pkts = << >>
  <2> Len(pkts) = 0
    BY <1>2
  <2> QED BY InputAssumption
<1>3. CASE pkts # << >>
  BY <1>3 DEF Next, Open
<1> QED BY <1>2, <1>3

\* What is recorded of the state in which a packet is sent.
LEMMA SentInTyped ==
    ASSUME NumbersTyped, NEW n \in Nat, last_ack \in 0 .. n, NEW p, NEW sq \in Numbers,
           NEW tm \in Estimators, NEW num_bytes \in Nat,
           NEW info \in [rto : Infos(n), tlp : Infos(n)]
    PROVE  SentIn(p, sq, tm, num_bytes, info) \in Snapshots(n)
<1> DEFINE any == [NotSent EXCEPT !.acked_bytes = acked_bytes,
                                  !.rto_info = info.rto, !.tlp_info = info.tlp]
           bytes == GetUnackedBytes(sq.next, sq.acked, num_bytes)
           estimate == GetRTO(tm, 0)
           probe == GetTLP(tm, FALSE)
           late == GetTLP(tm, TRUE)
<1>1. bytes \in Nat
  BY SpaceSizeAssumption DEF GetUnackedBytes, SeqMinus, SeqNum, Numbers
<1>2. estimate \in Nat /\ probe \in Nat /\ late \in Nat
  BY TimeoutsTyped
<1>3. any \in Snapshots(n)
  <2>1. info.rto \in Infos(n) /\ info.tlp \in Infos(n) /\ acked_bytes \in Nat /\ 0 \in 0 .. n
    BY DEF NumbersTyped
  <2>2. NotSent \in Snapshots(n)
    <3>1. NoTimer \in Infos(n)
      BY InputAssumption DEF NoTimer, Infos
    <3> QED BY <2>1, <3>1 DEF NotSent, Snapshots
  <2> QED BY <2>1, <2>2 DEF Snapshots
<1>4. SentIn(p, sq, tm, num_bytes, info)
        \in {any, [any EXCEPT !.unacked_bytes = bytes, !.last_ack = last_ack,
                              !.rto_estimate = estimate, !.tlp_estimate = probe,
                              !.tlp_delayed_ack_estimate = late]}
  BY Zenon DEF SentIn
<1> HIDE DEF any, bytes, estimate, probe, late
<1> QED BY <1>1, <1>2, <1>3, <1>4 DEF Snapshots

-----------------------------------------------------------------------------
(***************************************************************************)
(* The steps that transmit.                                                *)
(***************************************************************************)
LEMMA NewNotesTyped ==
    ASSUME CaptureInv, TypesInv, NEW p, NEW sq \in Numbers, NoteNew(p, sq)
    PROVE  /\ marks' \in [1 .. New -> SUBSET Flags]
           /\ delays' \in [1 .. New -> NotedDelays]
           /\ sent' \in [1 .. New -> Snapshots(New)]
<1> DEFINE n == Len(pkts)
           info == [rto |-> NoTimer, tlp |-> NoTimer]
           e == SentIn(p, sq, timer, sacks.num_bytes, info)
<1>1. n \in Nat /\ New = n + 1
  BY CaptureTypes DEF CaptureInv, New
<1>2. /\ marks \in [1 .. n -> SUBSET Flags] /\ delays \in [1 .. n -> NotedDelays]
      /\ sent \in [1 .. n -> Snapshots(n)]
  BY DEF TypesInv, NotesTyped
<1>3. e \in Snapshots(n)
  <2>1. info \in [rto : Infos(n), tlp : Infos(n)]
    <3> NoTimer \in Infos(n)
      BY <1>1, InputAssumption DEF NoTimer, Infos
    <3> HIDE DEF n
    <3> QED OBVIOUS
  <2>2. NumbersTyped /\ last_ack \in 0 .. n /\ timer \in Estimators /\ sacks.num_bytes \in Nat
    BY DEF TypesInv, NumbersTyped, TimersTyped, SackLists
  <2> HIDE DEF n, info
  <2> QED BY <1>1, <2>1, <2>2, SentInTyped
<1>4. Snapshots(n) \subseteq Snapshots(New)
  BY <1>1, SnapshotsGrow
<1>5. /\ marks' = Append(marks, {}) /\ delays' = Append(delays, NoDelays)
      /\ sent' = Append(sent, e)
  BY Zenon DEF NoteNew
<1>6. NoDelays \in NotedDelays /\ {} \in SUBSET Flags
  BY DEF NoDelays, NotedDelays
<1>7. Append(marks, {}) \in [1 .. n + 1 -> SUBSET Flags]
  <2> HIDE DEF n
  <2> QED BY <1>1, <1>2, <1>6, OneMoreTyped
<1>8. Append(delays, NoDelays) \in [1 .. n + 1 -> NotedDelays]
  <2> HIDE DEF n
  <2> QED BY <1>1, <1>2, <1>6, OneMoreTyped
<1>9. Append(sent, e) \in [1 .. n + 1 -> Snapshots(New)]
  <2> HIDE DEF n, e
  <2>1. sent \in [1 .. n -> Snapshots(New)] /\ e \in Snapshots(New)
    BY <1>2, <1>3, <1>4
  <2> QED BY <1>1, <2>1, OneMoreTyped
<1> QED BY <1>1, <1>5, <1>7, <1>8, <1>9

\* The timers after a packet has joined those in flight.
LEMMA PushTyped ==
    ASSUME CaptureInv, Len(pkts) < MaxPackets, NEW p, NEW sq \in Numbers, NEW in_flight,
           NEW armed_rto \in Infos(New), NEW armed_tlp \in Infos(New), NEW tm \in Estimators,
           num_rtos' \in 0 .. MaxPackets, Push(p, sq, in_flight, armed_rto, armed_tlp, tm)
    PROVE  rto' \in Infos(New) /\ tlp' \in Infos(New)
<1> DEFINE delayed == DelayedAck(in_flight \cup {New}, rtx', marks')
<1>1. delayed \in BOOLEAN
  BY DEF DelayedAck
<1>2. New \in Nat /\ New \in 0 .. New
  BY CaptureTypes DEF CaptureInv, New
<1>3. ArmedRTO(New, tm, num_rtos') \in Infos(New) /\ ArmedTLP(New, tm, delayed) \in Infos(New)
  <2> HIDE DEF delayed, New
  <2> QED BY <1>1, <1>2, ArmedTyped
<1>4. /\ rto' \in {armed_rto, ArmedRTO(New, tm, num_rtos')}
      /\ tlp' \in {armed_tlp, ArmedTLP(New, tm, delayed)}
  BY DEF Push
<1> QED BY <1>3, <1>4

\* A retransmission adds delays to the packets of its line.
LEMMA RtxDelaysTyped ==
    ASSUME CaptureInv, NEW p \in Packets, InTime(p), NEW prev,
           NEW ds \in [1 .. Len(pkts) -> NotedDelays]
    PROVE  RtxDelays(p, prev, ds) \in [1 .. Len(pkts) -> NotedDelays]
<1> DEFINE f == RtxDelays(p, prev, ds)
<1>1. Ids = 1 .. Len(pkts)
  BY CaptureTypes DEF CaptureInv
<1>2. f = [i \in Ids |-> f[i]]
  BY DEF RtxDelays
<1>3. ASSUME NEW i \in Ids
      PROVE  f[i] \in NotedDelays
  <2> DEFINE d == p.ts - pkts[i].ts
             a == IF ds[i].rtx = 0 THEN d ELSE ds[i].rtx
             b == IF previous_tx[i] = 0 THEN d ELSE ds[i].final
             c == IF previous_tx[i] = 0 THEN ds[i].attempts + 1 ELSE ds[i].attempts
             u == [ds[i] EXCEPT !.rtx = a, !.final = b, !.attempts = c]
  <2>1. d \in Nat
    BY NoneLater
  <2>2. ds[i] \in NotedDelays
    BY <1>1
  <2>3. a \in Nat /\ b \in Nat /\ c \in Nat
    <3> HIDE DEF d
    <3> QED BY <2>1, <2>2 DEF NotedDelays
  <2>4. u \in NotedDelays
    <3> HIDE DEF a, b, c
    <3> QED BY <2>2, <2>3 DEF NotedDelays
  <2>5. f[i] = ds[i] \/ f[i] = u
    BY Zenon DEF RtxDelays
  <2> HIDE DEF u, f
  <2> QED BY <2>2, <2>4, <2>5
<1> HIDE DEF f
<1>4. f \in [1 .. Len(pkts) -> NotedDelays]
  BY <1>1, <1>2, <1>3
<1> QED BY <1>4 DEF f

\* What the ties note with the packets they explain.
TiedNotes(ties, still) ==
    [i \in Ids |-> IF i \in unacked \ still
                   THEN [delays[i] EXCEPT !.ack = pkts[ties.by[i]].ts - pkts[i].ts]
                   ELSE delays[i]]

LEMMA TiedNotesTyped ==
    ASSUME CaptureInv, delays \in [1 .. Len(pkts) -> NotedDelays], NEW ties,
           TiesOK(unacked, ties)
    PROVE  TiedNotes(ties, { i \in unacked : ties.by[i] = 0 }) \in [1 .. Len(pkts) -> NotedDelays]
<1> DEFINE still == { i \in unacked : ties.by[i] = 0 }
           f == TiedNotes(ties, still)
<1>1. Ids = 1 .. Len(pkts)
  BY CaptureTypes DEF CaptureInv
<1>2. ASSUME NEW i \in Ids
      PROVE  f[i] \in NotedDelays
  <2> DEFINE d == pkts[ties.by[i]].ts - pkts[i].ts
  <2>1. f[i] = IF i \in unacked \ still THEN [delays[i] EXCEPT !.ack = d] ELSE delays[i]
    BY Zenon DEF TiedNotes
  <2>2. i \in unacked \ still => d \in Nat
    <3> SUFFICES ASSUME i \in unacked, ties.by[i] # 0
                 PROVE  d \in Nat
      OBVIOUS
    <3>1. ties.by[i] \in lookalikes /\ pkts[i].ts < pkts[ties.by[i]].ts
      BY DEF TiesOK
    <3>2. ties.by[i] \in Ids
      BY <3>1 DEF CaptureInv
    <3>3. pkts[ties.by[i]].ts \in Nat /\ pkts[i].ts \in Nat
      BY <3>2, CaptureTypes DEF CaptureInv
    <3> QED BY <3>1, <3>3
  <2>3. delays[i] \in NotedDelays
    BY <1>1
  <2> HIDE DEF d, f, still
  <2> QED BY <2>1, <2>2, <2>3 DEF NotedDelays
<1>3. f = [i \in Ids |-> f[i]]
  BY DEF TiedNotes
<1> HIDE DEF f
<1>4. f \in [1 .. Len(pkts) -> NotedDelays]
  BY <1>1, <1>2, <1>3
<1> QED BY <1>4 DEF f

-----------------------------------------------------------------------------
\* The types of what a step comes to.
NextTyped ==
    /\ NumbersTyped'
    /\ rto' \in Infos(New) /\ tlp' \in Infos(New)
    /\ num_rtos' \in 0 .. New /\ unmatched_rtx' \in 0 .. New /\ last_ack' \in 0 .. New
    /\ is_tlp_enabled' \in BOOLEAN /\ is_bogus' \in BOOLEAN
    /\ marks' \in [1 .. New -> SUBSET Flags]
    /\ delays' \in [1 .. New -> NotedDelays]
    /\ sent' \in [1 .. New -> Snapshots(New)]

LEMMA PushNewTyped ==
    ASSUME CaptureInv, TypesInv, Len(pkts) < MaxPackets, NEW p, NEW sq \in Numbers,
           NEW high \in SeqNum, PushNew(p, sq, high)
    PROVE  NextTyped
<1>1. Len(pkts) \in Nat /\ New = Len(pkts) + 1 /\ 0 .. Len(pkts) \subseteq 0 .. New
  BY CaptureTypes DEF CaptureInv, New
<1>2. NoteNew(p, sq) /\ rto_high_seq' = high /\ Push(p, sq, unacked, rto, tlp, timer)
  BY DEF PushNew
<1>3. /\ marks' \in [1 .. New -> SUBSET Flags]
      /\ delays' \in [1 .. New -> NotedDelays]
      /\ sent' \in [1 .. New -> Snapshots(New)]
  BY <1>2, NewNotesTyped
<1>4. /\ UNCHANGED <<sacks, timer, num_rtos, is_tlp_enabled, unmatched_rtx, is_bogus,
                     acked_bytes, last_ack>>
      /\ seq_init' = sq.init /\ seq_acked' = sq.acked /\ seq_next' = sq.next
  BY <1>2 DEF NoteNew, Push
<1>5. NumbersTyped'
  BY <1>2, <1>4 DEF NumbersTyped, TypesInv, Numbers
<1>6. /\ num_rtos \in 0 .. Len(pkts) /\ unmatched_rtx \in 0 .. Len(pkts)
      /\ last_ack \in 0 .. Len(pkts) /\ is_tlp_enabled \in BOOLEAN /\ is_bogus \in BOOLEAN
      /\ rto \in Infos(Len(pkts)) /\ tlp \in Infos(Len(pkts)) /\ timer \in Estimators
  BY DEF TypesInv, TimersTyped, NumbersTyped
<1>7. rto \in Infos(New) /\ tlp \in Infos(New)
  BY <1>1, <1>6, InfosGrow
<1>8. num_rtos' \in 0 .. MaxPackets
  BY <1>1, <1>4, <1>6, InputAssumption
<1>9. rto' \in Infos(New) /\ tlp' \in Infos(New)
  BY <1>2, <1>6, <1>7, <1>8, PushTyped
<1> QED BY <1>1, <1>3, <1>4, <1>5, <1>6, <1>9 DEF NextTyped

LEMMA PushRtxTyped ==
    ASSUME CaptureInv, TypesInv, Len(pkts) < MaxPackets, NEW p \in Packets, InTime(p),
           NEW sq \in Numbers, NEW high \in SeqNum, PushRtx(p, sq, high)
    PROVE  NextTyped
<1> DEFINE n     == Len(pkts)
           ties  == TiesOf(p, sq)
           still == { i \in unacked : ties.by[i] = 0 }
           t     == FindRtxTrigger(p, sq, high, ties, still)
           prev  == PreviousTx(p)
           tied  == TiedNotes(ties, still)
           f     == RtxDelays(p, prev, tied)
           e     == SentIn(p, sq, ties.timer, ties.sacks.num_bytes, t.info)
           adjust == ties.adjust
           old   == [i \in Ids |-> IF i \in Own
                                   THEN [sent[i] EXCEPT !.unacked_bytes = @ + adjust]
                                   ELSE sent[i]]
           mk    == WithOutOfOrder(t.mk, prev)
<1>1. /\ n \in Nat /\ New = n + 1 /\ New \in Nat /\ Ids = 1 .. n
      /\ \A k \in 0 .. n : k \in 0 .. New /\ k + 1 \in 0 .. New
      /\ \A k \in 0 .. New : k \in 0 .. MaxPackets
  BY CaptureTypes, InputAssumption DEF CaptureInv, New
<1>2. /\ num_rtos \in 0 .. n /\ unmatched_rtx \in 0 .. n
      /\ last_ack \in 0 .. n /\ is_tlp_enabled \in BOOLEAN /\ is_bogus \in BOOLEAN
      /\ rto \in Infos(n) /\ tlp \in Infos(n)
      /\ timer \in Estimators /\ sacks \in SackLists /\ acked_bytes \in Nat
      /\ Ids = 1 .. n
      /\ marks \in [1 .. n -> SUBSET Flags] /\ delays \in [1 .. n -> NotedDelays]
      /\ sent \in [1 .. n -> Snapshots(n)]
  BY <1>1 DEF TypesInv, TimersTyped, NumbersTyped, NotesTyped
<1>3. /\ marks' = mk
      /\ delays' = Append(f, NoDelays)
      /\ sent' = Append(old, e)
      /\ sacks' = ties.sacks /\ timer' = ties.timer
      /\ num_rtos' = t.num_rtos /\ rto_high_seq' = t.high /\ is_tlp_enabled' = t.enabled
      /\ unmatched_rtx' \in {unmatched_rtx, unmatched_rtx + 1}
      /\ is_bogus' \in BOOLEAN
      /\ Push(p, sq, still, t.rto, t.tlp, ties.timer)
  <2>1. /\ marks' = mk /\ sacks' = ties.sacks /\ timer' = ties.timer
        /\ num_rtos' = t.num_rtos /\ rto_high_seq' = t.high /\ is_tlp_enabled' = t.enabled
        /\ Push(p, sq, still, t.rto, t.tlp, ties.timer)
    BY Zenon DEF PushRtx, PushTied
  <2>2. delays' = Append(f, NoDelays)
    BY Zenon DEF PushRtx, PushTied, TiedNotes
  <2>3. sent' = Append(old, e)
    BY Zenon DEF PushRtx, PushTied
  <2>4. unmatched_rtx' \in {unmatched_rtx, unmatched_rtx + 1}
    BY Zenon DEF PushRtx, PushTied
  <2>5. is_bogus' = (is_bogus \/ (prev = 0 /\ unmatched_rtx + 1 > MaxUnmatched))
    BY Zenon DEF PushRtx, PushTied
  <2>6. is_bogus' \in BOOLEAN
    BY <2>5
  <2> QED BY <2>1, <2>2, <2>3, <2>4, <2>6
<1>4. TieTypes(ties) /\ TiesOK(unacked, ties)
  BY <1>2, TiesTyped, TiesSound
<1> HIDE DEF ties
<1>5. /\ ties.armer \in 0 .. n /\ ties.sacks \in SackLists /\ ties.sacks.num_bytes \in Nat
      /\ ties.timer \in Estimators /\ ties.adjust \in Nat
  <2> ties.armer \in {0} \cup Ids
    BY <1>4 DEF TiesOK, CaptureInv
  <2> QED BY <1>1, <1>4 DEF TieTypes, SackLists
<1>6. t \in Verdicts(New, New)
  <2> HIDE DEF still, n
  <2> QED BY <1>2, <1>4, <1>5, TriggerTyped DEF n
<1> HIDE DEF t
<1>7. /\ t.rto \in Infos(New) /\ t.tlp \in Infos(New) /\ t.num_rtos \in 0 .. New
      /\ t.high \in SeqNum /\ t.enabled \in BOOLEAN /\ t.mk \in [1 .. New -> SUBSET Flags]
      /\ t.info \in [rto : Infos(New), tlp : Infos(New)]
  <2> HIDE DEF Infos, New, Flags
  <2> QED BY <1>6 DEF Verdicts
<1>8. mk \in [1 .. New -> SUBSET Flags]
  <2> DEFINE was == t.mk
  <2>1. DOMAIN was = 1 .. New /\ \A i \in 1 .. New : was[i] \subseteq Flags
    BY <1>7
  <2>2. mk = [i \in 1 .. New |-> IF i \in Own /\ i > prev /\ pkts[i].len > 0
                                  THEN was[i] \cup {"out_of_order"} ELSE was[i]]
    BY <2>1, Zenon DEF WithOutOfOrder
  <2> HIDE DEF was, mk, prev
  <2> QED BY <2>1, <2>2 DEF Flags
<1>9. delays' \in [1 .. New -> NotedDelays]
  <2>1. f \in [1 .. n -> NotedDelays]
    BY <1>2, <1>4, TiedNotesTyped, RtxDelaysTyped
  <2>2. NoDelays \in NotedDelays
    BY DEF NoDelays, NotedDelays
  <2>3. Append(f, NoDelays) \in [1 .. n + 1 -> NotedDelays]
    <3> HIDE DEF f, n
    <3> QED BY <1>1, <2>1, <2>2, OneMoreTyped
  <2> QED BY <1>1, <1>3, <2>3
<1>10. sent' \in [1 .. New -> Snapshots(New)]
  <2>1. Snapshots(n) \subseteq Snapshots(New)
    BY <1>1, SnapshotsGrow
  <2>2. e \in Snapshots(New)
    <3>1. NumbersTyped /\ last_ack \in 0 .. New
      BY <1>1, <1>2 DEF TypesInv
    <3> QED BY <1>1, <1>5, <1>7, <3>1, SentInTyped
  <2>3. old \in [1 .. n -> Snapshots(New)]
    <3>1. ASSUME NEW i \in Ids
          PROVE  old[i] \in Snapshots(n)
      <4>1. sent[i] \in Snapshots(n)
        BY <1>2
      <4> DEFINE b == sent[i].unacked_bytes + adjust
                 u == [sent[i] EXCEPT !.unacked_bytes = b]
      <4>2. old[i] = sent[i] \/ old[i] = u
        OBVIOUS
      <4>3. b \in Nat
        BY <1>5, <4>1 DEF Snapshots
      <4>4. u \in Snapshots(n)
        <5> HIDE DEF b, n
        <5> QED BY <4>1, <4>3 DEF Snapshots
      <4> HIDE DEF old, u
      <4> QED BY <4>1, <4>2, <4>4
    <3>2. old = [i \in Ids |-> old[i]]
      OBVIOUS
    <3> HIDE DEF old
    <3> QED BY <1>2, <2>1, <3>1, <3>2
  <2>4. Append(old, e) \in [1 .. n + 1 -> Snapshots(New)]
    <3> HIDE DEF old, e, n
    <3> QED BY <1>1, <2>2, <2>3, OneMoreTyped
  <2> QED BY <1>1, <1>3, <2>4
<1> HIDE DEF mk, f, old, e, still
<1>11. rto' \in Infos(New) /\ tlp' \in Infos(New)
  <2> num_rtos' \in 0 .. MaxPackets
    BY <1>1, <1>3, <1>7
  <2> QED BY <1>3, <1>5, <1>7, PushTyped
<1>12. /\ acked_bytes' = acked_bytes /\ last_ack' = last_ack
       /\ seq_init' = sq.init /\ seq_acked' = sq.acked /\ seq_next' = sq.next
  BY <1>3 DEF Push
<1>13. NumbersTyped'
  BY <1>2, <1>3, <1>5, <1>7, <1>12 DEF NumbersTyped, Numbers
<1>14. unmatched_rtx' \in 0 .. New /\ last_ack' \in 0 .. New
  BY <1>1, <1>2, <1>3, <1>12
<1> QED BY <1>3, <1>7, <1>8, <1>9, <1>10, <1>11, <1>13, <1>14 DEF NextTyped

-----------------------------------------------------------------------------
\* The numbers with which a packet is handled.
LEMMA SendNumbers ==
    ASSUME NumbersTyped, NEW p \in OwnPackets
    PROVE  /\ Sequences(p) \in Numbers /\ WithData(p) \in Numbers
           /\ rto_high_seq \in SeqNum /\ HighWithData(p) \in SeqNum
<1>1. p.seq \in SeqNum /\ SeqEnd(p) \in SeqNum
  <2> p.out /\ p \in Packets
    BY DEF OwnPackets, OwnPacket, Packets
  <2> QED BY PacketTypes
<1>2. SeqPlus(p.seq, 1) \in SeqNum /\ 0 \in SeqNum
  BY <1>1, SpaceSizeAssumption DEF SeqPlus, SeqNum
<1>3. Sequences(p) \in Numbers
  BY <1>1, <1>2 DEF Sequences, Numbers, NumbersTyped
<1>4. WithData(p) \in Numbers
  BY <1>1, <1>3 DEF WithData, Numbers
<1> QED BY <1>2, <1>3, <1>4 DEF HighWithData, NumbersTyped

\* A packet that is only stored.
LEMMA OtherTyped ==
    ASSUME CaptureInv, TypesInv, NEW p \in OwnPackets, AddOther(p)
    PROVE  NextTyped
<1>1. Len(pkts) \in Nat /\ New = Len(pkts) + 1 /\ 0 .. Len(pkts) \subseteq 0 .. New
  BY CaptureTypes DEF CaptureInv, New
<1>2. Sequences(p) \in Numbers
  BY SendNumbers DEF TypesInv
<1>3. NoteNew(p, Sequences(p))
  BY DEF AddOther
<1>4. /\ marks' \in [1 .. New -> SUBSET Flags]
      /\ delays' \in [1 .. New -> NotedDelays]
      /\ sent' \in [1 .. New -> Snapshots(New)]
  BY <1>2, <1>3, NewNotesTyped
<1>5. UNCHANGED <<sacks, timer, num_rtos, is_tlp_enabled, unmatched_rtx, is_bogus,
                  acked_bytes, last_ack, rto, tlp, rto_high_seq>>
  BY <1>3 DEF NoteNew, AddOther
<1>6. /\ seq_init' = Sequences(p).init /\ seq_acked' = Sequences(p).acked
      /\ seq_next' = Sequences(p).next
  BY DEF AddOther
<1>7. NumbersTyped'
  BY <1>2, <1>5, <1>6 DEF NumbersTyped, TypesInv, Numbers
<1>8. /\ num_rtos \in 0 .. Len(pkts) /\ unmatched_rtx \in 0 .. Len(pkts)
      /\ last_ack \in 0 .. Len(pkts) /\ is_tlp_enabled \in BOOLEAN /\ is_bogus \in BOOLEAN
      /\ rto \in Infos(Len(pkts)) /\ tlp \in Infos(Len(pkts))
  BY DEF TypesInv, TimersTyped
<1>9. rto \in Infos(New) /\ tlp \in Infos(New)
  BY <1>1, <1>8, InfosGrow
<1> QED BY <1>1, <1>4, <1>5, <1>7, <1>8, <1>9 DEF NextTyped

LEMMA SendTyped ==
    ASSUME CaptureInv, TypesInv, Len(pkts) < MaxPackets, NEW p \in OwnPackets, InTime(p),
           AddPacket(p)
    PROVE  NextTyped
<1>1. p \in Packets
  BY DEF Packets
<1>2. /\ Sequences(p) \in Numbers /\ WithData(p) \in Numbers
      /\ rto_high_seq \in SeqNum /\ HighWithData(p) \in SeqNum
  BY SendNumbers DEF TypesInv
<1>3. ASSUME NEW sq \in Numbers, NEW high \in SeqNum,
             PushNew(p, sq, high) \/ PushRtx(p, sq, high)
      PROVE  NextTyped
  BY <1>1, <1>3, PushNewTyped, PushRtxTyped
<1>4. CASE AddNewData(p) \/ AddRtxData(p)
  <2> \/ PushNew(p, WithData(p), HighWithData(p))
      \/ PushRtx(p, WithData(p), HighWithData(p))
    BY <1>4 DEF AddNewData, AddRtxData
  <2> QED BY <1>2, <1>3
<1>5. CASE AddFirstSyn(p) \/ AddRtxSyn(p)
  <2> PushNew(p, Sequences(p), rto_high_seq) \/ PushRtx(p, Sequences(p), rto_high_seq)
    BY <1>5 DEF AddFirstSyn, AddRtxSyn
  <2> QED BY <1>2, <1>3
<1>6. CASE AddOther(p)
  BY <1>6, OtherTyped
<1> QED BY <1>4, <1>5, <1>6 DEF AddPacket

-----------------------------------------------------------------------------
(***************************************************************************)
(* The steps that receive.                                                 *)
(***************************************************************************)
\* What every received packet changes.
LEMMA AckNumbersTyped ==
    ASSUME CaptureInv, TypesInv, Len(pkts) < MaxPackets, NEW a \in Received, NoteAck(a)
    PROVE  /\ seq_init' \in SeqNum /\ seq_acked' \in SeqNum /\ seq_next' \in SeqNum
           /\ acked_bytes' \in Nat /\ rto_high_seq' \in SeqNum
           /\ unmatched_rtx' \in 0 .. New /\ last_ack' \in 0 .. New
           /\ is_tlp_enabled' \in BOOLEAN /\ is_bogus' \in BOOLEAN
           /\ marks' \in [1 .. New -> SUBSET Flags]
           /\ sent' \in [1 .. New -> Snapshots(New)]
<1> DEFINE n == Len(pkts)
<1>1. n \in Nat /\ New = n + 1 /\ 0 .. n \subseteq 0 .. New /\ New \in 0 .. New /\ Ids = 1 .. n
  BY CaptureTypes DEF CaptureInv, New
<1>2. NumbersTyped /\ TimersTyped(n) /\ NotesTyped(n)
  BY DEF TypesInv
<1>3. a.ack \in SeqNum /\ 0 \in SeqNum
  BY InputAssumption, SpaceSizeAssumption DEF Received, AckPacket, SeqNum
<1>4. seq_acked' \in SeqNum
  BY <1>2, <1>3 DEF NoteAck, AckedAfter, NumbersTyped
<1>5. acked_bytes' \in Nat
  <2>1. SeqMinus(a.ack, seq_acked) \in SeqNum
    BY <1>2, <1>3, Distance DEF NumbersTyped
  <2>2. acked_bytes' \in {acked_bytes, acked_bytes + SeqMinus(a.ack, seq_acked)}
    BY DEF NoteAck
  <2> QED BY <1>2, <2>1, <2>2 DEF NumbersTyped, SeqNum
<1>6. rto_high_seq' \in SeqNum
  BY <1>2, <1>3 DEF NoteAck, NumbersTyped
<1>7. is_bogus' \in BOOLEAN
  <2> is_bogus' = (is_bogus \/ (AckMoved(a) /\ After(a.ack, seq_next)))
    BY DEF NoteAck
  <2> QED OBVIOUS
<1>8. /\ seq_init' = seq_init /\ seq_next' = seq_next /\ is_tlp_enabled' = is_tlp_enabled
      /\ unmatched_rtx' = unmatched_rtx /\ last_ack' = New
  BY DEF NoteAck
<1>9. marks' \in [1 .. New -> SUBSET Flags]
  <2> DEFINE f == IF HasSacks(a) THEN WithDSacks(marks, a) ELSE marks
             e == IF a.ack = seq_acked THEN {"dupack"} ELSE {}
  <2>1. marks \in [1 .. n -> SUBSET Flags]
    BY <1>2 DEF NotesTyped
  <2>2. Widened(WithDSacks(marks, a))
    <3> Entries(marks) /\ pkts \in Seq(Packets)
      BY <1>1, <2>1 DEF Entries, CaptureInv
    <3> QED BY DSacksWiden
  <2>3. WithDSacks(marks, a) \in [1 .. n -> SUBSET Flags]
    <3> DEFINE m == WithDSacks(marks, a)
    <3> HIDE DEF m
    <3>1. m = [i \in Ids |-> m[i]]
      BY <2>2 DEF Widened, m
    <3>2. \A i \in Ids : m[i] \subseteq Flags
      BY <1>1, <2>1, <2>2 DEF Widened, m, Flags
    <3> QED BY <1>1, <3>1, <3>2 DEF m
  <2>4. f \in [1 .. n -> SUBSET Flags] /\ e \in SUBSET Flags
    BY <2>1, <2>3 DEF Flags
  <2>5. marks' = Append(f, e)
    BY Zenon DEF NoteAck
  <2> HIDE DEF f, e, n
  <2> QED BY <1>1, <2>4, <2>5, OneMoreTyped
<1>10. sent' \in [1 .. New -> Snapshots(New)]
  <2>1. Snapshots(n) \subseteq Snapshots(New)
    BY <1>1, SnapshotsGrow
  <2>2. NotSent \in Snapshots(New)
    <3>1. NoTimer \in Infos(New) /\ 0 \in 0 .. New
      BY <1>1, InputAssumption DEF NoTimer, Infos
    <3> HIDE DEF New
    <3> QED BY <3>1 DEF NotSent, Snapshots
  <2>3. sent \in [1 .. n -> Snapshots(New)]
    BY <1>2, <2>1 DEF NotesTyped
  <2>4. sent' = Append(sent, NotSent)
    BY DEF NoteAck
  <2> HIDE DEF n
  <2> QED BY <1>1, <2>2, <2>3, <2>4, OneMoreTyped
<1>11. /\ seq_init \in SeqNum /\ seq_next \in SeqNum /\ is_tlp_enabled \in BOOLEAN
       /\ unmatched_rtx \in 0 .. n
  BY <1>2 DEF NumbersTyped, TimersTyped
<1> QED BY <1>1, <1>4, <1>5, <1>6, <1>7, <1>8, <1>9, <1>10, <1>11

LEMMA OldAckTyped ==
    ASSUME CaptureInv, TypesInv, Len(pkts) < MaxPackets, NEW a \in Received, ProcessOldAck(a)
    PROVE  NextTyped
<1>1. Len(pkts) \in Nat /\ New = Len(pkts) + 1 /\ 0 .. Len(pkts) \subseteq 0 .. New
  BY CaptureTypes DEF CaptureInv, New
<1>2. /\ NoteAck(a) /\ delays' = Append(delays, NoDelays)
      /\ UNCHANGED <<sacks, timer, rto, tlp, num_rtos>>
  BY DEF ProcessOldAck
<1>3. /\ rto \in Infos(Len(pkts)) /\ tlp \in Infos(Len(pkts)) /\ num_rtos \in 0 .. Len(pkts)
      /\ sacks \in SackLists /\ timer \in Estimators
      /\ delays \in [1 .. Len(pkts) -> NotedDelays]
  BY DEF TypesInv, TimersTyped, NumbersTyped, NotesTyped
<1>4. rto' \in Infos(New) /\ tlp' \in Infos(New) /\ num_rtos' \in 0 .. New
  BY <1>1, <1>2, <1>3, InfosGrow
<1>5. delays' \in [1 .. New -> NotedDelays]
  <2> NoDelays \in NotedDelays
    BY DEF NoDelays, NotedDelays
  <2> QED BY <1>1, <1>2, <1>3, OneMoreTyped
<1> HIDE DEF New
<1>6. /\ seq_init' \in SeqNum /\ seq_acked' \in SeqNum /\ seq_next' \in SeqNum
      /\ acked_bytes' \in Nat /\ rto_high_seq' \in SeqNum
      /\ unmatched_rtx' \in 0 .. New /\ last_ack' \in 0 .. New
      /\ is_tlp_enabled' \in BOOLEAN /\ is_bogus' \in BOOLEAN
      /\ marks' \in [1 .. New -> SUBSET Flags]
      /\ sent' \in [1 .. New -> Snapshots(New)]
  BY <1>2, AckNumbersTyped
<1>7. NumbersTyped'
  BY <1>2, <1>3, <1>6 DEF NumbersTyped
<1> QED BY <1>4, <1>5, <1>6, <1>7 DEF NextTyped

LEMMA NewAckTyped ==
    ASSUME CaptureInv, TypesInv, Len(pkts) < MaxPackets, NEW a \in Received, InTime(a),
           ProcessNewAck(a)
    PROVE  NextTyped
<1> DEFINE n == Len(pkts)
           acked == AckedNow(a)
           still == unacked \ acked
           delay(i) == a.ts - pkts[i].ts
           est == EstimatesOf(a, acked)
           f == [i \in Ids |-> IF i \in acked THEN [delays[i] EXCEPT !.ack = delay(i)]
                               ELSE delays[i]]
           armed_rto == ArmedRTO(New, est.timer, num_rtos)
           armed_tlp == ArmedTLP(New, est.timer, DelayedAck(still, rtx, marks))
<1>1. /\ n \in Nat /\ New = n + 1 /\ New \in Nat /\ New \in 0 .. New /\ Ids = 1 .. n
      /\ 0 .. n \subseteq 0 .. New /\ 0 \in 0 .. New /\ a \in Packets
      /\ \A k \in 0 .. n : k \in 0 .. MaxPackets
  BY CaptureTypes, InputAssumption DEF CaptureInv, New, Packets
<1>2. /\ rto \in Infos(n) /\ tlp \in Infos(n) /\ num_rtos \in 0 .. n
      /\ sacks \in SackLists /\ timer \in Estimators /\ seq_next \in SeqNum
      /\ seq_acked \in SeqNum
      /\ delays \in [1 .. n -> NotedDelays]
  BY DEF TypesInv, TimersTyped, NumbersTyped, NotesTyped
<1>3. /\ NoteAck(a) /\ delays' = Append(f, NoDelays) /\ timer' = est.timer
      /\ rto' \in {NoTimer, rto, armed_rto} /\ tlp' \in {NoTimer, tlp, armed_tlp}
      /\ sacks' = RemoveAcked(AddAll(sacks, BlocksOf(a)), AckedAfter(a)) /\ num_rtos' = 0
  <2>1. NoteAck(a) /\ delays' = Append(f, NoDelays) /\ timer' = est.timer /\ num_rtos' = 0
    BY Zenon DEF ProcessNewAck
  <2>2. rto' \in {NoTimer, rto, armed_rto}
    BY Zenon DEF ProcessNewAck, AfterAck
  <2>3. tlp' \in {NoTimer, tlp, armed_tlp}
    BY Zenon DEF ProcessNewAck, AfterAck
  <2>4. sacks' = RemoveAcked(AddAll(sacks, BlocksOf(a)), AckedAfter(a))
    BY Zenon DEF ProcessNewAck
  <2> QED BY <2>1, <2>2, <2>3, <2>4
<1>4. est.timer \in Estimators
  <2> acked \in SUBSET unacked
    BY DEF AckedNow
  <2> HIDE DEF acked
  <2> QED BY <1>1, <1>2, EstimatesTyped
<1>5. rto' \in Infos(New) /\ tlp' \in Infos(New)
  <2> DelayedAck(still, rtx, marks) \in BOOLEAN
    BY DEF DelayedAck
  <2> HIDE DEF est, still
  <2>1. armed_rto \in Infos(New) /\ armed_tlp \in Infos(New) /\ NoTimer \in Infos(New)
    <3> num_rtos \in 0 .. MaxPackets
      BY <1>1, <1>2
    <3> HIDE DEF New
    <3> QED BY <1>1, <1>4, ArmedTyped
  <2>2. rto \in Infos(New) /\ tlp \in Infos(New)
    BY <1>1, <1>2, InfosGrow
  <2> HIDE DEF armed_rto, armed_tlp
  <2> QED BY <1>3, <2>1, <2>2
<1>6. sacks' \in SackLists
  <2>1. BlocksOf(a) \in Lists
    <3> a.blocks \in Lists
      BY InputAssumption DEF Received, AckPacket, Lists
    <3> QED BY ParseTyped DEF BlocksOf, SackLists
  <2>2. AckedAfter(a) \in SeqNum
    <3> a.ack \in SeqNum
      BY InputAssumption DEF Received, AckPacket
    <3> QED BY <1>2 DEF AckedAfter
  <2>3. AddAll(sacks, BlocksOf(a)) \in SackLists
    BY <1>2, <2>1, AddAllTyped
  <2> QED BY <1>3, <2>2, <2>3, RemoveTyped
<1>7. delays' \in [1 .. New -> NotedDelays]
  <2>1. ASSUME NEW i \in Ids
        PROVE  f[i] \in NotedDelays
    <3> DEFINE d == delay(i)
               u == [delays[i] EXCEPT !.ack = d]
    <3>1. d \in Nat
      BY <1>1, NoneLater
    <3>2. delays[i] \in NotedDelays
      BY <1>1, <1>2
    <3>3. u \in NotedDelays
      <4> HIDE DEF d
      <4> QED BY <3>1, <3>2 DEF NotedDelays
    <3>4. f[i] = delays[i] \/ f[i] = u
      OBVIOUS
    <3> HIDE DEF f, u
    <3> QED BY <3>2, <3>3, <3>4
  <2>2. f = [i \in Ids |-> f[i]]
    OBVIOUS
  <2>3. NoDelays \in NotedDelays
    BY DEF NoDelays, NotedDelays
  <2> HIDE DEF f, n
  <2>4. f \in [1 .. n -> NotedDelays]
    BY <1>1, <2>1, <2>2
  <2> QED BY <1>1, <1>3, <2>3, <2>4, OneMoreTyped
<1> HIDE DEF New, est, f, n
<1>8. /\ seq_init' \in SeqNum /\ seq_acked' \in SeqNum /\ seq_next' \in SeqNum
      /\ acked_bytes' \in Nat /\ rto_high_seq' \in SeqNum
      /\ unmatched_rtx' \in 0 .. New /\ last_ack' \in 0 .. New
      /\ is_tlp_enabled' \in BOOLEAN /\ is_bogus' \in BOOLEAN
      /\ marks' \in [1 .. New -> SUBSET Flags]
      /\ sent' \in [1 .. New -> Snapshots(New)]
  BY <1>3, AckNumbersTyped
<1>9. NumbersTyped'
  BY <1>3, <1>4, <1>6, <1>8 DEF NumbersTyped
<1>10. num_rtos' \in 0 .. New
  BY <1>1, <1>3
<1> QED BY <1>5, <1>7, <1>8, <1>9, <1>10 DEF NextTyped

-----------------------------------------------------------------------------
\* The ACK of a packet is one of the capture.
AcksTyped(n) == ack_packet \in [1 .. n -> 0 .. n]

LEMMA AcksStep ==
    ASSUME CaptureInv, AcksTyped(Len(pkts)), Next
    PROVE  ack_packet' \in [1 .. New -> 0 .. New]
<1> DEFINE n == Len(pkts)
<1>1. n \in Nat /\ New = n + 1 /\ Ids = 1 .. n /\ New \in 0 .. New
      /\ \A k \in 0 .. n : k \in 0 .. New
  BY CaptureTypes DEF CaptureInv, New
<1>2. ASSUME NEW f, f = [i \in Ids |-> f[i]], \A i \in Ids : f[i] \in 0 .. New,
             ack_packet' = Append(f, 0)
      PROVE  ack_packet' \in [1 .. New -> 0 .. New]
  <2> f \in [1 .. n -> 0 .. New] /\ 0 \in 0 .. New
    BY <1>1, <1>2
  <2> HIDE DEF n
  <2> QED BY <1>1, <1>2, OneMoreTyped
<1>3. ack_packet = [i \in Ids |-> ack_packet[i]] /\ \A i \in Ids : ack_packet[i] \in 0 .. New
  BY <1>1 DEF AcksTyped
<1>4. CASE ack_packet' = Append(ack_packet, 0)
  BY <1>2, <1>3, <1>4
<1>5. ASSUME NEW p, NEW sq, NEW high, PushRtx(p, sq, high)
      PROVE  ack_packet' \in [1 .. New -> 0 .. New]
  <2> DEFINE ties == TiesOf(p, sq)
             still == { i \in unacked : ties.by[i] = 0 }
             f == [i \in Ids |-> IF i \in unacked \ still THEN ties.by[i] ELSE ack_packet[i]]
  <2>1. ack_packet' = Append(f, 0)
    BY <1>5, Zenon DEF PushRtx, PushTied
  <2>2. TiesOK(unacked, ties)
    BY TiesSound
  <2> HIDE DEF ties
  <2>3. \A i \in unacked \ still : ties.by[i] \in Ids
    BY <2>2 DEF TiesOK, CaptureInv
  <2>4. f = [i \in Ids |-> f[i]] /\ \A i \in Ids : f[i] \in 0 .. New
    <3> HIDE DEF still
    <3> QED BY <1>1, <1>3, <2>3
  <2> HIDE DEF f
  <2> QED BY <1>2, <2>1, <2>4
<1>6. ASSUME NEW a, ProcessNewAck(a)
      PROVE  ack_packet' \in [1 .. New -> 0 .. New]
  <2> DEFINE acked == AckedNow(a)
             f == [i \in Ids |-> IF i \in acked THEN New ELSE ack_packet[i]]
  <2>1. ack_packet' = Append(f, 0)
    BY <1>6, Zenon DEF ProcessNewAck
  <2>2. f = [i \in Ids |-> f[i]] /\ \A i \in Ids : f[i] \in 0 .. New
    <3> HIDE DEF acked
    <3> QED BY <1>1, <1>3
  <2> HIDE DEF f
  <2> QED BY <1>2, <2>1, <2>2
<1>7. ASSUME NEW p, AddPacket(p)
      PROVE  ack_packet' \in [1 .. New -> 0 .. New]
  BY <1>4, <1>5, <1>7, SendCases DEF AddOther, PushNew, NoteNew
<1>8. ASSUME NEW a, ProcessOldAck(a) \/ ProcessNewAck(a)
      PROVE  ack_packet' \in [1 .. New -> 0 .. New]
  BY <1>4, <1>6, <1>8 DEF ProcessOldAck
<1> QED BY <1>7, <1>8, StepCases DEF CaptureInv

\* Every step keeps the types.
LEMMA TypesStep ==
    ASSUME CaptureInv, TypesInv, AcksTyped(Len(pkts)), [Next]_vars
    PROVE  TypesInv' /\ AcksTyped(Len(pkts))'
<1>1. CASE UNCHANGED vars
  BY <1>1 DEF TypesInv, NumbersTyped, TimersTyped, NotesTyped, AcksTyped, vars, linkVars,
              noteVars, seqVars, ackVars, timerVars
<1>2. CASE Next
  <2>1. Len(pkts) < MaxPackets
    BY <1>2, Room DEF CaptureInv
  <2>2. Len(pkts) \in Nat /\ New = Len(pkts) + 1
    BY CaptureTypes DEF CaptureInv, New
  <2>3. \A q \in Packets : pkts' = Append(pkts, q) => Len(pkts') = New
    BY Captured DEF CaptureInv
  <2>4. NextTyped /\ Len(pkts') = New
    <3>1. ASSUME NEW p \in OwnPackets, InTime(p), AddPacket(p)
          PROVE  NextTyped /\ Len(pkts') = New
      BY <2>1, <2>3, <3>1, SendTyped, SentIsStored DEF Packets
    <3>2. ASSUME NEW a \in Received, InTime(a), ProcessOldAck(a) \/ ProcessNewAck(a)
          PROVE  NextTyped /\ Len(pkts') = New
      BY <2>1, <2>3, <3>2, OldAckTyped, NewAckTyped, ReceivedIsStored DEF Packets
    <3> QED BY <1>2, <3>1, <3>2, StepCases DEF CaptureInv
  <2>5. Len(pkts') <= MaxPackets
    BY <2>1, <2>2, <2>4, InputAssumption
  <2>6. TimersTyped(Len(pkts))' /\ NotesTyped(Len(pkts))' /\ NumbersTyped'
    BY <2>4 DEF NextTyped, TimersTyped, NotesTyped
  <2>7. AcksTyped(Len(pkts))'
    BY <1>2, <2>4, AcksStep DEF AcksTyped
  <2> QED BY <2>5, <2>6, <2>7 DEF TypesInv
<1> QED BY <1>1, <1>2

LEMMA TypesStart == Init => TypesInv /\ AcksTyped(Len(pkts))
<1> SUFFICES ASSUME Init PROVE TypesInv /\ AcksTyped(Len(pkts))
  OBVIOUS
<1>1. Len(pkts) = 0 /\ 1 .. 0 = {}
  BY DEF Init
<1>2. 0 \in SeqNum /\ EmptySacks \in SackLists /\ NewTimer \in Estimators
  BY EmptySeq, SpaceSizeAssumption, TimerAssumption
     DEF SeqNum, EmptySacks, SackLists, Lists, NewTimer, Estimators
<1>3. NumbersTyped
  BY <1>2 DEF Init, NumbersTyped
<1>4. TimersTyped(0)
  <2>1. NoTimer \in Infos(0) /\ 0 \in 0 .. 0
    BY InputAssumption DEF NoTimer, Infos
  <2>2. /\ rto = NoTimer /\ tlp = NoTimer /\ num_rtos = 0 /\ unmatched_rtx = 0
        /\ last_ack = 0 /\ is_tlp_enabled = TRUE /\ is_bogus = FALSE
    BY DEF Init
  <2> HIDE DEF NoTimer, Infos
  <2> QED BY <2>1, <2>2 DEF TimersTyped
<1>5. NotesTyped(0) /\ AcksTyped(0)
  BY <1>1 DEF Init, NotesTyped, AcksTyped
<1>6. Len(pkts) <= MaxPackets
  BY <1>1, InputAssumption
<1> QED BY <1>1, <1>3, <1>4, <1>5, <1>6 DEF TypesInv

\* The invariants together give the types of all variables.
LEMMA TypesTogether ==
    ASSUME CaptureInv, TriggerInv, PeerInv, LinesInv, TypesInv, AcksTyped(Len(pkts))
    PROVE  TypeOK
<1> DEFINE n == Len(pkts)
<1>1. n \in Nat /\ Ids = 1 .. n /\ n <= MaxPackets /\ MaxPackets \in Nat
      /\ \A k \in 0 .. n : k \in 0 .. MaxPackets
      /\ Own \subseteq Ids /\ Ids \subseteq 0 .. n /\ 0 \in 0 .. n
  BY CaptureTypes, InputAssumption DEF CaptureInv, TypesInv
<1>2. unacked \subseteq Own /\ lookalikes \subseteq Ids \ Own /\ min_rtt \in Nat
      /\ last_ack_with_trigger \in 0 .. n
  BY <1>1 DEF CaptureInv
<1>3. trigger \in [Ids -> 0 .. n]
  <2>1. trigger = [i \in Ids |-> trigger[i]]
    BY DEF TriggerInv, Entries
  <2>2. \A i \in Ids : trigger[i] \in 0 .. n
    BY <1>1 DEF TriggerInv, TriggerLinks
  <2> QED BY <2>1, <2>2
<1>12. peer_trigger \in [Ids -> Unseen .. n]
  <2>1. \A i \in Ids : peer_trigger[i] \in Unseen .. n
    <3>1. PeerData \subseteq 1 .. n
      BY <1>1 DEF PeerData
    <3> QED BY <1>1, <3>1 DEF PeerInv, FoundBefore, PeerFound, Unseen
  <2> QED BY <2>1 DEF PeerInv, FoundBefore
<1>4. previous_tx \in [Ids -> 0 .. n] /\ rtx \in [Ids -> 0 .. n] /\ first_tx \in [Ids -> Ids]
  <2>1. /\ previous_tx = [i \in Ids |-> previous_tx[i]] /\ rtx = [i \in Ids |-> rtx[i]]
        /\ first_tx = [i \in Ids |-> first_tx[i]]
    BY DEF LinesInv, Entries
  <2>2. \A i \in Ids : previous_tx[i] \in 0 .. n
    BY <1>1 DEF LinesInv, LinesOK
  <2>3. \A i \in Ids : rtx[i] \in 0 .. n
    BY DEF LinesInv
  <2>4. \A i \in Ids : first_tx[i] \in Ids
    BY OriginalOf
  <2>5. previous_tx \in [Ids -> 0 .. n]
    BY <2>1, <2>2
  <2>6. rtx \in [Ids -> 0 .. n]
    BY <2>1, <2>3
  <2>7. first_tx \in [Ids -> Ids]
    BY <2>1, <2>4
  <2> QED BY <2>5, <2>6, <2>7
<1>5. TimerInfo = Infos(n)
  BY DEF TimerInfo, Infos
<1>6. NumbersTyped /\ TimersTyped(n) /\ NotesTyped(n) /\ AcksTyped(n)
  BY DEF TypesInv
<1>7. sacks.blocks \in Seq(Block) /\ sacks.num_bytes \in Nat
  BY <1>6 DEF NumbersTyped, SackLists, Lists
<1>8. DOMAIN timer = DOMAIN NewTimer
  BY <1>6 DEF NumbersTyped, Estimators, NewTimer
<1>9. /\ marks \in [Ids -> SUBSET Flags]
      /\ delays \in [Ids -> [ack : Nat, rtx : Nat, final : Nat, attempts : Nat]]
      /\ sent \in [Ids -> [unacked_bytes : Nat, acked_bytes : Nat, last_ack : 0 .. n,
                           rto_estimate : Nat, tlp_estimate : Nat,
                           tlp_delayed_ack_estimate : Nat,
                           rto_info : TimerInfo, tlp_info : TimerInfo]]
      /\ ack_packet \in [Ids -> 0 .. n]
  BY <1>1, <1>5, <1>6, Zenon DEF NotesTyped, NotedDelays, Snapshots, AcksTyped
<1>10. /\ rto \in TimerInfo /\ tlp \in TimerInfo /\ last_ack \in 0 .. n
       /\ num_rtos \in 0 .. MaxPackets /\ unmatched_rtx \in 0 .. MaxPackets
       /\ is_tlp_enabled \in BOOLEAN /\ is_bogus \in BOOLEAN
  BY <1>1, <1>5, <1>6 DEF TimersTyped
<1>11. /\ seq_init \in SeqNum /\ seq_acked \in SeqNum /\ seq_next \in SeqNum
       /\ acked_bytes \in Nat /\ rto_high_seq \in SeqNum
  BY <1>6 DEF NumbersTyped
<1> HIDE DEF TimerInfo, Infos
<1> QED BY <1>2, <1>3, <1>4, <1>7, <1>8, <1>9, <1>10, <1>11, <1>12, Zenon DEF TypeOK

(***************************************************************************)
(* Every variable of the endpoint keeps its type, whatever is captured: no   *)
(* count, delay or estimate goes below zero, no sequence number leaves its   *)
(* space, and every link leads to a packet of the capture.                  *)
(***************************************************************************)
THEOREM EndpointTyped == Spec => []TypeOK
<1>1. AckInv /\ CaptureInv /\ TriggerInv /\ PeerInv /\ LinesInv /\ TypesInv
         /\ AcksTyped(Len(pkts)) /\ [Next]_vars
            => /\ AckInv' /\ CaptureInv' /\ TriggerInv' /\ PeerInv' /\ LinesInv' /\ TypesInv'
               /\ AcksTyped(Len(pkts))'
  BY AckStep, CaptureStep, TriggerStep, PeerStep, LineStep, TypesStep
<1>2. CaptureInv /\ TriggerInv /\ PeerInv /\ LinesInv /\ TypesInv /\ AcksTyped(Len(pkts)) => TypeOK
  BY TypesTogether
<1> QED BY <1>1, <1>2, CaptureStart, SharedStart, LinesStart, TypesStart, PTL DEF Spec

-----------------------------------------------------------------------------
(***************************************************************************)
(* ACKs of data that was not seen.  After is an order only among numbers of *)
(* less than half the space, so that is what the flow has to stay within,   *)
(* from any base on; it may wrap around there.                              *)
(***************************************************************************)
\* The numbers of a flow, and the end of what they number: a SYN is empty and takes
\* the first of them.
InWindowFrom(base) ==
    /\ \A i \in Own :
          /\ SeqMinus(pkts[i].seq, base) + pkts[i].len + 1 < MaxForward
          /\ pkts[i].syn => /\ pkts[i].len = 0
                            /\ \A j \in Own : SeqMinus(pkts[i].seq, base)
                                                <= SeqMinus(pkts[j].seq, base)
    /\ \A i \in Ids \ Own : SeqMinus(pkts[i].ack, base) < MaxForward

FlowInWindow == \E base \in SeqNum : InWindowFrom(base)

\* seq_next_ is beyond all that was sent.
NextIsHighest(base) ==
    /\ seq_next \in SeqNum
    /\ SeqMinus(seq_init, base) < SeqMinus(seq_next, base)
    /\ SeqMinus(seq_next, base) < MaxForward
    /\ \A j \in Own : RequiresAck(pkts[j]) =>
            SeqMinus(CountedEnd(pkts[j]), base) <= SeqMinus(seq_next, base)

\* The inductive invariant.
HighestInv ==
    /\ unmatched_rtx \in Nat
    /\ pkts = << >> => ~is_bogus
    /\ pkts # << >> => 1 \in Own /\ seq_init = pkts[1].seq
    /\ \A base \in SeqNum : InWindowFrom(base) =>
            /\ BogusMeansUnseen
            /\ pkts # << >> => NextIsHighest(base)

\* Within a window, After compares the distances from its base.
LEMMA AfterByDistance ==
    \A base, a, b \in SeqNum :
        SeqMinus(a, base) < MaxForward /\ SeqMinus(b, base) < MaxForward
        => (After(a, b) <=> SeqMinus(a, base) > SeqMinus(b, base))
BY SpaceSizeAssumption DEF SeqNum, SeqMinus, After, MaxForward, HalfSpace

\* Going on within it adds up.
LEMMA OnwardByDistance ==
    \A base, a \in SeqNum, d \in Nat :
        SeqMinus(a, base) + d < MaxForward
        => /\ SeqPlus(a, d) \in SeqNum
           /\ SeqMinus(SeqPlus(a, d), base) = SeqMinus(a, base) + d
BY SpaceSizeAssumption DEF SeqNum, SeqMinus, SeqPlus, MaxForward, HalfSpace

\* A window of a capture is one of what was captured before.
LEMMA WindowBefore ==
    ASSUME pkts \in Seq(Packets), NEW p \in Packets, pkts' = Append(pkts, p),
           NEW base, InWindowFrom(base)'
    PROVE  InWindowFrom(base)
<1>1. /\ \A i \in Ids : pkts'[i] = pkts[i]
      /\ Ids' = Ids \cup {New} /\ Own \subseteq Ids /\ New \notin Ids
      /\ Own' = IF p.out THEN Own \cup {New} ELSE Own
  BY Captured DEF New
<1>2. \A i \in Own : i \in Own' /\ pkts'[i] = pkts[i]
  BY <1>1
<1>3. \A i \in Ids \ Own : i \in (Ids \ Own)' /\ pkts'[i] = pkts[i]
  BY <1>1
<1> QED BY <1>2, <1>3 DEF InWindowFrom

\* Once it means that, a later packet leaves it so.
LEMMA UnseenStays ==
    ASSUME pkts \in Seq(Packets), NEW p \in Packets, pkts' = Append(pkts, p),
           unmatched_rtx \in Nat, unmatched_rtx' \in Nat, unmatched_rtx <= unmatched_rtx',
           BogusMeansUnseen,
           is_bogus' => is_bogus \/ unmatched_rtx' > MaxUnmatched
    PROVE  BogusMeansUnseen'
<1>1. /\ \A i \in Ids : pkts'[i] = pkts[i]
      /\ Ids = 1 .. Len(pkts) /\ Ids' = 1 .. New /\ New = Len(pkts) + 1 /\ Len(pkts) \in Nat
      /\ Own' = IF p.out THEN Own \cup {New} ELSE Own
      /\ Own \subseteq Ids
  BY Captured DEF New
<1>2. CASE unmatched_rtx > MaxUnmatched
  <2> unmatched_rtx' > MaxUnmatched
    BY <1>2, InputAssumption
  <2> QED BY DEF BogusMeansUnseen
<1>3. CASE AckedBeyond({ i \in Own : RequiresAck(pkts[i]) }, CountedEnd)
  <2>1. PICK i \in Ids \ Own : \A j \in { j \in Own : RequiresAck(pkts[j]) } :
                j < i => After(pkts[i].ack, CountedEnd(pkts[j]))
    BY <1>3, Zenon DEF AckedBeyond
  <2>2. i \in (Ids \ Own)' /\ pkts'[i] = pkts[i]
    BY <1>1
  <2>3. ASSUME NEW j \in Own', RequiresAck(pkts'[j]), j < i
        PROVE  After(pkts'[i].ack, CountedEnd(pkts'[j]))
    <3>1. j \in Own /\ pkts'[j] = pkts[j]
      BY <1>1, <2>1, <2>3
    <3> QED BY <2>1, <2>2, <2>3, <3>1
  <2>4. AckedBeyond({ k \in Own : RequiresAck(pkts[k]) }, CountedEnd)'
    BY <2>2, <2>3, Zenon DEF AckedBeyond
  <2> QED BY <2>4, Zenon DEF BogusMeansUnseen
<1> QED BY <1>2, <1>3 DEF BogusMeansUnseen

\* What sending does to these numbers.
LEMMA SendMovesNext ==
    ASSUME NEW p, AddPacket(p), unmatched_rtx \in Nat
    PROVE  /\ seq_init' = Sequences(p).init
           /\ p.len > 0 => seq_next' = WithData(p).next
           /\ ~p.len > 0 => seq_next' = Sequences(p).next
           /\ unmatched_rtx' \in Nat /\ unmatched_rtx <= unmatched_rtx'
           /\ is_bogus' => is_bogus \/ unmatched_rtx' > MaxUnmatched
<1> DEFINE CountsUp == /\ unmatched_rtx' \in Nat /\ unmatched_rtx <= unmatched_rtx'
                       /\ is_bogus' => is_bogus \/ unmatched_rtx' > MaxUnmatched
           Moves(sq) == seq_init' = sq.init /\ seq_next' = sq.next
<1>1. ASSUME NEW sq, NEW high, PushNew(p, sq, high)
      PROVE  CountsUp /\ Moves(sq)
  BY <1>1 DEF PushNew, NoteNew, Push
<1>2. ASSUME NEW sq, NEW high, PushRtx(p, sq, high)
      PROVE  CountsUp /\ Moves(sq)
  <2> DEFINE ties  == TiesOf(p, sq)
             still == { i \in unacked : ties.by[i] = 0 }
             t     == FindRtxTrigger(p, sq, high, ties, still)
             prev  == PreviousTx(p)
  <2>1. /\ Push(p, sq, still, t.rto, t.tlp, ties.timer)
        /\ unmatched_rtx' = IF prev = 0 THEN unmatched_rtx + 1 ELSE unmatched_rtx
        /\ is_bogus' = (is_bogus \/ (prev = 0 /\ unmatched_rtx + 1 > MaxUnmatched))
    BY <1>2, Zenon DEF PushRtx, PushTied
  <2> HIDE DEF ties, still, t, prev
  <2>2. Moves(sq)
    BY <2>1 DEF Push
  <2>3. unmatched_rtx' \in Nat /\ unmatched_rtx <= unmatched_rtx'
    BY <2>1
  <2>4. prev = 0 /\ unmatched_rtx + 1 > MaxUnmatched => unmatched_rtx' > MaxUnmatched
    BY <2>1
  <2>5. is_bogus' => is_bogus \/ unmatched_rtx' > MaxUnmatched
    BY <2>1, <2>4, Zenon
  <2> QED BY <2>2, <2>3, <2>5
<1>3. WithData(p).init = Sequences(p).init
  BY DEF WithData, Sequences
<1>4. CASE AddNewData(p) \/ AddRtxData(p)
  <2>1. \/ PushNew(p, WithData(p), HighWithData(p))
        \/ PushRtx(p, WithData(p), HighWithData(p))
    BY <1>4 DEF AddNewData, AddRtxData
  <2>2. CountsUp /\ Moves(WithData(p)) /\ p.len > 0
    BY <1>1, <1>2, <1>4, <2>1 DEF AddNewData, AddRtxData
  <2> QED BY <1>3, <2>2
<1>5. CASE AddFirstSyn(p) \/ AddRtxSyn(p)
  <2>1. \/ PushNew(p, Sequences(p), rto_high_seq)
        \/ PushRtx(p, Sequences(p), rto_high_seq)
    BY <1>5 DEF AddFirstSyn, AddRtxSyn
  <2>2. CountsUp /\ Moves(Sequences(p)) /\ p.len = 0
    BY <1>1, <1>2, <1>5, <2>1 DEF AddFirstSyn, AddRtxSyn
  <2> QED BY <2>2
<1>6. CASE AddOther(p)
  <2>1. Moves(Sequences(p)) /\ ~p.len > 0
    BY <1>6 DEF AddOther, RequiresAck
  <2>2. CountsUp
    BY <1>6 DEF AddOther, NoteNew
  <2> QED BY <2>1, <2>2
<1> QED BY <1>4, <1>5, <1>6 DEF AddPacket

\* The end of what a packet numbers, in a window.
InWindow(p, base) == SeqMinus(p.seq, base) + p.len + 1 < MaxForward

LEMMA EndByDistance ==
    ASSUME NEW base \in SeqNum, NEW p \in Packets, p.out, InWindow(p, base)
    PROVE  LET at == SeqMinus(p.seq, base)
           IN  /\ at \in Nat /\ p.len \in Nat /\ at + p.len + 1 < MaxForward
               /\ SeqEnd(p) \in SeqNum /\ CountedEnd(p) \in SeqNum
               /\ SeqMinus(SeqEnd(p), base) = at + p.len
               /\ SeqMinus(CountedEnd(p), base)
                    = at + p.len + IF p.syn THEN 1 ELSE 0
<1> DEFINE at == SeqMinus(p.seq, base)
           one == IF p.syn THEN 1 ELSE 0
<1>2. p.seq \in SeqNum /\ p.len \in Nat
  BY PacketTypes
<1>3. at \in SeqNum /\ \A d \in SeqNum : d \in Nat
  <2>1. at \in SeqNum
    BY <1>2, Distance
  <2> QED BY <2>1 DEF SeqNum
<1>4. at + p.len + 1 < MaxForward
  BY DEF InWindow
<1>5. one \in {0, 1} /\ MaxForward \in Nat
  BY SpaceSizeAssumption DEF MaxForward, HalfSpace
<1>6. SeqEnd(p) = SeqPlus(p.seq, p.len) /\ CountedEnd(p) = SeqPlus(SeqEnd(p), one)
  BY DEF SeqEnd, CountedEnd
<1> HIDE DEF one
<1>7. SeqEnd(p) \in SeqNum /\ SeqMinus(SeqEnd(p), base) = at + p.len
  <2> HIDE DEF at
  <2>1. at + p.len < MaxForward
    BY <1>2, <1>3, <1>4, <1>5
  <2> QED BY <1>2, <1>6, <2>1, OnwardByDistance DEF at
<1>8. CountedEnd(p) \in SeqNum /\ SeqMinus(CountedEnd(p), base) = at + p.len + one
  <2> DEFINE e == SeqEnd(p)
  <2>1. SeqMinus(e, base) = at + p.len /\ e \in SeqNum
    BY <1>7
  <2> HIDE DEF at, e
  <2>2. SeqMinus(e, base) + one < MaxForward
    BY <1>2, <1>3, <1>4, <1>5, <2>1
  <2> QED BY <1>5, <1>6, <2>1, <2>2, OnwardByDistance DEF e
<1> QED BY <1>2, <1>3, <1>4, <1>7, <1>8 DEF one

\* The numbers that a packet is sent with.
LEMMA StartHighest ==
    ASSUME SequenceInv, HighestInv, OpensPastZero, NEW p \in OwnPackets, FromStart(p),
           NEW base \in SeqNum, InWindowFrom(base), InWindow(p, base)
    PROVE  LET sq == Sequences(p)
           IN  /\ sq.init \in SeqNum /\ sq.next \in SeqNum
               /\ SeqMinus(sq.init, base) < SeqMinus(sq.next, base)
               /\ SeqMinus(sq.next, base) < MaxForward
               /\ \A j \in Own : RequiresAck(pkts[j]) =>
                    SeqMinus(CountedEnd(pkts[j]), base) <= SeqMinus(sq.next, base)
<1>1. p \in Packets /\ p.out
  BY DEF OwnPackets, OwnPacket, Packets
<1>2. CASE pkts = << >>
  <2>1. /\ Sequences(p).init = p.seq /\ Sequences(p).next = SeqPlus(p.seq, 1)
        /\ Own = {}
    BY <1>2 DEF SequenceInv, Sequences, Own, Ids
  <2>2. p.seq \in SeqNum /\ p.len \in Nat
    BY <1>1, PacketTypes
  <2>3. SeqMinus(p.seq, base) + 1 < MaxForward /\ SeqMinus(p.seq, base) \in Nat
    <3> DEFINE at == SeqMinus(p.seq, base)
    <3>1. at \in Nat /\ p.len \in Nat /\ at + p.len + 1 < MaxForward
      BY <1>1, EndByDistance
    <3> HIDE DEF at
    <3>2. at + 1 < MaxForward
      BY <3>1, SpaceSizeAssumption DEF MaxForward, HalfSpace
    <3> QED BY <3>1, <3>2 DEF at
  <2>4. /\ SeqPlus(p.seq, 1) \in SeqNum
        /\ SeqMinus(SeqPlus(p.seq, 1), base) = SeqMinus(p.seq, base) + 1
    BY <2>2, <2>3, OnwardByDistance
  <2> QED BY <2>1, <2>2, <2>3, <2>4
<1>3. CASE pkts # << >>
  <2>1. Sequences(p).init = seq_init /\ Sequences(p).next = seq_next /\ seq_init \in SeqNum
    BY <1>3 DEF SequenceInv, Sequences
  <2>2. NextIsHighest(base)
    BY <1>3 DEF HighestInv
  <2> QED BY <2>1, <2>2 DEF NextIsHighest
<1> QED BY <1>2, <1>3

\* seq_next_ stays beyond all that was sent.
LEMMA SendHighest ==
    ASSUME SequenceInv, HighestInv, OpensPastZero, NEW p \in OwnPackets, FromStart(p),
           AddPacket(p)
    PROVE  HighestInv'
<1>1. p \in Packets /\ p.out /\ p.seq \in SeqNum /\ p.len \in Nat
  <2> p \in Packets /\ p.out
    BY DEF OwnPackets, OwnPacket, Packets
  <2> QED BY PacketTypes
<1>2. pkts \in Seq(Packets) /\ pkts' = Append(pkts, p)
  BY SentIsStored DEF SequenceInv
<1>3. /\ pkts' \in Seq(Packets) /\ Len(pkts) \in Nat /\ New = Len(pkts) + 1
      /\ Ids = 1 .. Len(pkts) /\ Ids' = 1 .. New
      /\ \A i \in Ids : pkts'[i] = pkts[i]
      /\ pkts'[New] = p
      /\ Own' = Own \cup {New} /\ Own \subseteq Ids
  BY <1>1, <1>2, Captured DEF New
<1>4. /\ seq_init' = Sequences(p).init
      /\ p.len > 0 => seq_next' = WithData(p).next
      /\ ~p.len > 0 => seq_next' = Sequences(p).next
      /\ unmatched_rtx \in Nat /\ unmatched_rtx' \in Nat /\ unmatched_rtx <= unmatched_rtx'
      /\ is_bogus' => is_bogus \/ unmatched_rtx' > MaxUnmatched
  BY SendMovesNext DEF HighestInv
<1>5. pkts' # << >>
  BY <1>2, <1>3
<1>6. 1 \in Own' /\ seq_init' = pkts'[1].seq
  <2>1. CASE pkts = << >>
    <3>1. New = 1 /\ Sequences(p).init = p.seq
      BY <1>3, <2>1 DEF SequenceInv, Sequences
    <3> QED BY <1>3, <1>4, <3>1
  <2>2. CASE pkts # << >>
    <3>1. 1 \in Own /\ seq_init = pkts[1].seq /\ Sequences(p).init = seq_init
      BY <2>2 DEF HighestInv, SequenceInv, Sequences
    <3> QED BY <1>3, <1>4, <3>1
  <2> QED BY <2>1, <2>2
<1>7. ASSUME NEW base \in SeqNum, InWindowFrom(base)'
      PROVE  BogusMeansUnseen' /\ NextIsHighest(base)'
  <2> DEFINE sq == Sequences(p)
             D(n) == SeqMinus(n, base)
  <2>1. InWindowFrom(base)
    BY <1>1, <1>2, <1>7, WindowBefore
  <2>2. BogusMeansUnseen'
    <3> BogusMeansUnseen
      BY <2>1 DEF HighestInv
    <3> QED BY <1>1, <1>2, <1>4, UnseenStays
  <2>3. /\ InWindow(p, base)
        /\ p.syn => p.len = 0 /\ D(p.seq) <= D(seq_init')
    <3> New \in Own' /\ pkts'[New] = p
      BY <1>3
    <3> QED BY <1>6, <1>7 DEF InWindowFrom, InWindow
  <2>4. /\ sq.init \in SeqNum /\ sq.next \in SeqNum
        /\ D(sq.init) < D(sq.next) /\ D(sq.next) < MaxForward
        /\ \A j \in Own : RequiresAck(pkts[j]) => D(CountedEnd(pkts[j])) <= D(sq.next)
    BY <2>1, <2>3, StartHighest
  <2>5. /\ D(p.seq) \in Nat /\ D(p.seq) + p.len + 1 < MaxForward
        /\ SeqEnd(p) \in SeqNum /\ D(SeqEnd(p)) = D(p.seq) + p.len
        /\ CountedEnd(p) \in SeqNum
        /\ D(CountedEnd(p)) = D(p.seq) + p.len + IF p.syn THEN 1 ELSE 0
    BY <1>1, <2>3, EndByDistance
  <2>6. ASSUME NEW j \in Own, RequiresAck(pkts[j])
        PROVE  D(CountedEnd(pkts[j])) \in Nat
    <3>1. pkts[j] \in Packets /\ pkts[j].out
      BY <1>2, <1>3, ElementOfSeq DEF Own
    <3>2. InWindow(pkts[j], base)
      BY <2>1 DEF InWindowFrom, InWindow
    <3>3. CountedEnd(pkts[j]) \in SeqNum
      BY <3>1, <3>2, EndByDistance
    <3>4. D(CountedEnd(pkts[j])) \in SeqNum
      BY <3>3, Distance
    <3> QED BY <3>4 DEF SeqNum
  <2>7. /\ D(sq.init) \in Nat /\ D(sq.next) \in Nat /\ MaxForward \in Nat
    <3>1. D(sq.init) \in SeqNum /\ D(sq.next) \in SeqNum
      BY <2>4, Distance
    <3> QED BY <3>1, SpaceSizeAssumption DEF SeqNum, MaxForward, HalfSpace
  <2>8. /\ seq_next' \in SeqNum /\ D(seq_next') \in Nat
        /\ D(sq.next) <= D(seq_next') /\ D(seq_next') < MaxForward
        /\ RequiresAck(p) => D(CountedEnd(p)) <= D(seq_next')
    <3>1. CASE p.len > 0
      <4>1. ~p.syn /\ D(CountedEnd(p)) = D(SeqEnd(p)) /\ D(SeqEnd(p)) < MaxForward
            /\ D(SeqEnd(p)) \in Nat
        BY <1>1, <2>3, <2>5, <2>7, <3>1
      <4>2. Moved(p) <=> D(SeqEnd(p)) > D(sq.next)
        BY <2>4, <2>5, <4>1, AfterByDistance DEF Moved
      <4>3. seq_next' = IF Moved(p) THEN SeqEnd(p) ELSE sq.next
        BY <1>4, <3>1 DEF WithData, Sequences
      <4> HIDE DEF sq, D
      <4> QED BY <2>4, <2>5, <2>7, <4>1, <4>2, <4>3
    <3>2. CASE ~p.len > 0
      <4>1. seq_next' = sq.next
        BY <1>4, <3>2
      <4>2. RequiresAck(p) => p.syn /\ D(p.seq) <= D(sq.init) /\ p.len = 0
        BY <1>4, <2>3, <3>2 DEF RequiresAck
      <4> HIDE DEF sq, D
      <4>3. RequiresAck(p) => D(CountedEnd(p)) <= D(sq.next)
        BY <2>4, <2>5, <2>7, <4>2
      <4> QED BY <2>4, <2>7, <4>1, <4>3
    <3> QED BY <3>1, <3>2
  <2>9. ASSUME NEW j \in Own', RequiresAck(pkts'[j])
        PROVE  D(CountedEnd(pkts'[j])) <= D(seq_next')
    <3>1. CASE j = New
      BY <1>3, <2>8, <2>9, <3>1
    <3>2. CASE j # New
      <4>1. j \in Own /\ pkts'[j] = pkts[j]
        BY <1>3, <3>2
      <4> HIDE DEF sq, D
      <4> QED BY <2>4, <2>6, <2>7, <2>8, <2>9, <4>1
    <3> QED BY <3>1, <3>2
  <2>10. D(seq_init') < D(seq_next')
    <3> seq_init' = sq.init
      BY <1>4
    <3> HIDE DEF sq, D
    <3> QED BY <2>4, <2>7, <2>8
  <2> QED BY <2>2, <2>8, <2>9, <2>10 DEF NextIsHighest
<1> QED BY <1>4, <1>5, <1>6, <1>7 DEF HighestInv

\* An ACK beyond seq_next_ is beyond all that was sent.
LEMMA ReceiveHighest ==
    ASSUME SequenceInv, HighestInv, NEW a \in Received, pkts # << >>, NoteAck(a)
    PROVE  HighestInv'
<1>1. a \in Packets /\ ~a.out /\ a.ack \in SeqNum
  <2> a \in Packets /\ ~a.out
    BY DEF Received, AckPacket, Packets
  <2> QED BY PacketTypes
<1>2. pkts \in Seq(Packets) /\ pkts' = Append(pkts, a)
  BY DEF SequenceInv, NoteAck
<1>3. /\ pkts' \in Seq(Packets) /\ Len(pkts) \in Nat /\ New = Len(pkts) + 1
      /\ Ids = 1 .. Len(pkts) /\ Ids' = 1 .. New
      /\ \A i \in Ids : pkts'[i] = pkts[i]
      /\ pkts'[New] = a
      /\ Own' = Own /\ Own \subseteq Ids
  BY <1>1, <1>2, Captured DEF New
<1>4. /\ seq_init' = seq_init /\ seq_next' = seq_next /\ unmatched_rtx' = unmatched_rtx
      /\ is_bogus' => is_bogus \/ After(a.ack, seq_next)
      /\ unmatched_rtx \in Nat
  BY Zenon DEF NoteAck, HighestInv
<1>5. pkts' # << >>
  BY <1>2, <1>3
<1>6. 1 \in Own' /\ seq_init' = pkts'[1].seq
  BY <1>3, <1>4 DEF HighestInv
<1>7. ASSUME NEW base \in SeqNum, InWindowFrom(base)'
      PROVE  BogusMeansUnseen' /\ NextIsHighest(base)'
  <2> DEFINE D(n) == SeqMinus(n, base)
  <2>1. InWindowFrom(base)
    BY <1>1, <1>2, <1>7, WindowBefore
  <2>2. NextIsHighest(base) /\ BogusMeansUnseen
    BY <2>1 DEF HighestInv
  <2>3. NextIsHighest(base)'
    BY <1>3, <1>4, <2>2 DEF NextIsHighest
  <2>4. ASSUME is_bogus' => is_bogus PROVE BogusMeansUnseen'
    <3> unmatched_rtx' \in Nat /\ unmatched_rtx <= unmatched_rtx'
      BY <1>4
    <3> is_bogus' => is_bogus \/ unmatched_rtx' > MaxUnmatched
      BY <2>4
    <3> QED BY <1>1, <1>2, <1>4, <2>2, UnseenStays
  <2>5. ASSUME After(a.ack, seq_next) PROVE BogusMeansUnseen'
    <3>1. New \in (Ids \ Own)' /\ pkts'[New] = a
      BY <1>3
    <3>2. D(a.ack) < MaxForward /\ D(a.ack) > D(seq_next)
      <4>1. D(a.ack) < MaxForward
        BY <1>7, <3>1 DEF InWindowFrom
      <4> QED BY <1>1, <2>2, <2>5, <4>1, AfterByDistance DEF NextIsHighest
    <3>3. D(a.ack) \in Nat /\ D(seq_next) \in Nat /\ MaxForward \in Nat
      <4>1. D(a.ack) \in SeqNum /\ D(seq_next) \in SeqNum
        BY <1>1, <2>2, Distance DEF NextIsHighest
      <4> QED BY <4>1, SpaceSizeAssumption DEF SeqNum, MaxForward, HalfSpace
    <3>4. ASSUME NEW j \in Own', RequiresAck(pkts'[j])
          PROVE  After(pkts'[New].ack, CountedEnd(pkts'[j]))
      <4>1. j \in Own /\ pkts'[j] = pkts[j] /\ RequiresAck(pkts[j])
        BY <1>3, <3>4
      <4>2. pkts[j] \in Packets /\ pkts[j].out
        BY <1>2, <1>3, <4>1, ElementOfSeq DEF Own
      <4>3. InWindow(pkts[j], base)
        BY <2>1, <4>1 DEF InWindowFrom, InWindow
      <4> DEFINE e == CountedEnd(pkts[j])
      <4>4. e \in SeqNum /\ D(e) \in Nat
        <5>1. e \in SeqNum
          BY <4>2, <4>3, EndByDistance
        <5>2. D(e) \in SeqNum
          BY <5>1, Distance
        <5> QED BY <5>1, <5>2 DEF SeqNum
      <4>5. D(e) <= D(seq_next)
        BY <2>2, <4>1 DEF NextIsHighest
      <4> HIDE DEF e
      <4>6. D(e) < MaxForward /\ D(a.ack) > D(e)
        <5> HIDE DEF D
        <5> QED BY <3>2, <3>3, <4>4, <4>5
      <4>7. After(a.ack, e)
        BY <1>1, <3>2, <4>4, <4>6, AfterByDistance
      <4> QED BY <3>1, <4>1, <4>7 DEF e
    <3>5. AckedBeyond({ i \in Own : RequiresAck(pkts[i]) }, CountedEnd)'
      BY <3>1, <3>4, Zenon DEF AckedBeyond
    <3> QED BY <3>5, Zenon DEF BogusMeansUnseen
  <2> QED BY <1>4, <2>3, <2>4, <2>5, Zenon
<1> QED BY <1>4, <1>5, <1>6, <1>7 DEF HighestInv

\* From the first packet on.
LEMMA HighestStep ==
    ASSUME SequenceInv, HighestInv, OpensPastZero, [Next]_vars
    PROVE  HighestInv'
<1>1. CASE UNCHANGED vars
  <2>1. UNCHANGED <<pkts, seq_init, seq_next, unmatched_rtx, is_bogus>>
    BY <1>1 DEF vars, seqVars
  <2>2. \A base : InWindowFrom(base)' => InWindowFrom(base)
    BY <2>1 DEF InWindowFrom, Own, Ids
  <2>3. BogusMeansUnseen => BogusMeansUnseen'
    BY <2>1 DEF BogusMeansUnseen, AckedBeyond, Own, Ids
  <2>4. \A base : NextIsHighest(base) => NextIsHighest(base)'
    BY <2>1 DEF NextIsHighest, Own, Ids
  <2>5. 1 \in Own => 1 \in Own'
    BY <2>1 DEF Own, Ids
  <2> QED BY <2>1, <2>2, <2>3, <2>4, <2>5 DEF HighestInv
<1>2. ASSUME NEW p \in OwnPackets, FromStart(p), AddPacket(p) PROVE HighestInv'
  BY <1>2, SendHighest
<1>3. ASSUME NEW a \in Received, pkts # << >>, ProcessOldAck(a) \/ ProcessNewAck(a)
      PROVE  HighestInv'
  <2> NoteAck(a)
    BY <1>3, Zenon DEF ProcessOldAck, ProcessNewAck
  <2> QED BY <1>3, ReceiveHighest
<1> QED BY <1>1, <1>2, <1>3, StepCases DEF SequenceInv

(***************************************************************************)
(* As long as the flow stays within a window, an endpoint is declared bogus *)
(* only for an ACK of data that was not seen or for too many               *)
(* retransmissions without an original, in captures of any length that do  *)
(* not begin at 0.                                                         *)
(***************************************************************************)
THEOREM BogusIsUnseen ==
    ASSUME OpensPastZero
    PROVE  Spec => [](FlowInWindow => BogusMeansUnseen)
<1>1. Init => HighestInv
  <2> SUFFICES ASSUME Init PROVE HighestInv
    OBVIOUS
  <2> pkts = << >> /\ unmatched_rtx = 0 /\ is_bogus = FALSE
    BY DEF Init
  <2> QED BY DEF HighestInv, BogusMeansUnseen
<1>2. SequenceInv /\ TimerInv /\ HighestInv /\ [Next]_vars
        => SequenceInv' /\ TimerInv' /\ HighestInv'
  BY SequenceStep, TimerStep, HighestStep
<1>3. HighestInv => (FlowInWindow => BogusMeansUnseen)
  BY DEF HighestInv, FlowInWindow
<1> QED BY <1>1, <1>2, <1>3, SequenceStart, PTL DEF Spec
=============================================================================
