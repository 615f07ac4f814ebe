----------------------------- MODULE TcpEndpoint -----------------------------
(***************************************************************************)
(* One endpoint of a captured TCP connection, as TcpEndpoint               *)
(* (tcp_endpoint.cc) reconstructs it: the analyzer sees the packets that     *)
(* passed the capture point and infers from them what the sender's kernel   *)
(* did, which packets were acked by which ACK, which were retransmitted,    *)
(* and whether an ACK, a retransmission timeout or a tail loss probe made   *)
(* it retransmit.                                                          *)
(*                                                                         *)
(* A packet is named by its position in the capture, 0 is the null pointer. *)
(* The endpoint's containers of packets are filled in capture order and      *)
(* walked in that order, so a set of positions stands for each of them.     *)
(* A step is the whole handling of one captured packet: AddPacket for one   *)
(* this endpoint sent (at wire granularity: a coalesced packet is a run of  *)
(* such steps with no time between them), ProcessAck for one it received.   *)
(*                                                                         *)
(* The flow hands the same Packet object to both endpoints (tcp_flow.cc:60): *)
(* where this one adds it the other one may process its ACK, and the other   *)
(* way round.  All that both write is trigger_packet_, so what the other     *)
(* endpoint may write there is part of the step (PeerSide); is_dupack_ is    *)
(* written by the receiver only, and nothing reads it.                      *)
(*                                                                         *)
(* An operator X_fault is a faulty variant of X; the runs use it to show    *)
(* that their properties notice such a fault, the model itself never does.  *)
(***************************************************************************)
EXTENDS SackOps, TimerOps, FiniteSets, FiniteSetsExt, SequencesExt

CONSTANTS MaxTriggerDelay, \* kMaxTriggerPacketDelayUs
          MaxUnmatched,    \* unmatched retransmissions tolerated (100)
          Sends,           \* [seq, len, syn, fin]: what the endpoint may transmit
          Opening,         \* those of them that a capture may begin with
          Acks,            \* [ack, blocks, num_sacks, cut, data]: what it may receive
          Gaps,            \* time from one captured packet to the next
          MaxPackets       \* bound: length of the capture

ASSUME InputAssumption ==
    /\ MaxTriggerDelay \in Nat /\ MaxUnmatched \in Nat /\ MaxPackets \in Nat \ {0}
    /\ Sends \subseteq [seq : SeqNum, len : 0 .. MaxForward - 1,
                     syn : BOOLEAN, fin : BOOLEAN]
    /\ Opening \subseteq Sends
    \* CheckBogus drops a segment that acks number 0
    /\ \A a \in Acks : /\ a.ack \in SeqNum \ {0} /\ a.blocks \in Seq(Block)
                       /\ a.num_sacks \in Nat /\ a.num_sacks >= Len(a.blocks)
                       /\ a.cut \in BOOLEAN /\ a.data \in BOOLEAN
    /\ Gaps \subseteq Nat

VARIABLES
    pkts,          \* the captured packets, own ones (out) and received ones
    unacked,       \* unacked_packets_
    lookalikes,    \* unused_sack_lookalikes_
    ack_packet,    \* per packet: the ACK that acked it
    trigger,       \* per packet: what this endpoint set trigger_packet_ to
    peer_trigger,  \* per packet: what the other endpoint set it to
    previous_tx,   \* per packet: the transmission it repeats
    first_tx,      \* per packet: the first one of that line
    rtx,           \* per packet: its latest retransmission
    marks,         \* per packet: the classification flags that are set
    delays,        \* per packet: ack, rtx and final rtx delay, rtx attempts
    sent,          \* per packet: what is recorded of the state it was sent in
    seq_init, seq_acked, seq_next, acked_bytes,
    sacks,         \* sacks_
    min_rtt, timer,
    last_ack, last_ack_with_trigger,
    rto, tlp,      \* the active timers
    num_rtos, rto_high_seq, is_tlp_enabled,
    unmatched_rtx, is_bogus

linkVars == <<ack_packet, trigger, previous_tx, first_tx, rtx>>
noteVars == <<marks, delays, sent>>
seqVars == <<seq_init, seq_acked, seq_next, acked_bytes, sacks>>
ackVars == <<min_rtt, timer, last_ack, last_ack_with_trigger>>
timerVars == <<rto, tlp, num_rtos, rto_high_seq, is_tlp_enabled>>
vars == <<pkts, unacked, lookalikes, linkVars, noteVars, seqVars, ackVars,
          timerVars, unmatched_rtx, is_bogus, peer_trigger>>

-----------------------------------------------------------------------------
Ids == DOMAIN pkts
Own == { i \in Ids : pkts[i].out }
New == Len(pkts) + 1

SeqEnd(p) == SeqPlus(p.seq, p.len)

RequiresAck(p) == p.len > 0 \/ p.syn

\* The walk of a container of packets: op takes each packet and what came so far.
FoldInOrder(op(_, _), base, ids) ==
    MapThenFoldSet(op, base, LAMBDA i : i, LAMBDA s : Max(s), ids)

NoTimer == [armed_by |-> 0, delay |-> 0, backoffs |-> 0, delayed_ack |-> FALSE]

NoDelays == [ack |-> 0, rtx |-> 0, final |-> 0, attempts |-> 0]

\* A retransmission that was not spurious means that the packet was lost.
IsLost(i, rx, mk) == rx[i] # 0 /\ "spurious" \notin mk[rx[i]]

\* One packet in flight: the receiver may delay its ACK.
DelayedAck(ids, rx, mk) == Cardinality({ i \in ids : ~IsLost(i, rx, mk) }) = 1

\* ArmTimers sets both timers.
ArmedRTO(id, tm, backoffs) ==
    [armed_by |-> id, delay |-> GetRTO(tm, backoffs), backoffs |-> backoffs,
     delayed_ack |-> FALSE]

ArmedTLP(id, tm, delayed) ==
    [armed_by |-> id, delay |-> GetTLP(tm, delayed), backoffs |-> 0,
     delayed_ack |-> delayed]

\* HandleAckedPacket: retransmissions say nothing about the RTT, and packets
\* that were retransmitted give no sample either.
LowerMinRTT_rtx_counted(rtt, i, delay) ==
    IF delay < rtt \/ rtt = 0 THEN delay ELSE rtt

LowerMinRTT_latest(rtt, i, delay) == IF previous_tx[i] = 0 THEN delay ELSE rtt

LowerMinRTT(rtt, i, delay) ==
    IF previous_tx[i] = 0 /\ (delay < rtt \/ rtt = 0) THEN delay ELSE rtt

Sampled(tm, i, delay, acked, next) ==
    IF previous_tx[i] = 0 /\ rtx[i] = 0 THEN AddSample(tm, delay, acked, next) ELSE tm

GetUnackedBytes(next, acked, num_bytes) ==
    LET in_flight == SeqMinus(next, acked)
    IN  IF num_bytes > in_flight THEN 0 ELSE in_flight - num_bytes

-----------------------------------------------------------------------------
(***************************************************************************)
(* AddPacket: the endpoint transmits.                                      *)
(***************************************************************************)

\* SetInitialSequenceNumbers, run by the constructor and again for every packet
\* until it has found a number: zero stands for "not found yet".
Sequences_acked_not_set(p) ==
    IF seq_init = 0 THEN [init |-> p.seq, acked |-> seq_acked, next |-> SeqPlus(p.seq, 1)]
    ELSE [init |-> seq_init, acked |-> seq_acked, next |-> seq_next]

Sequences(p) ==
    IF seq_init = 0 THEN [init |-> p.seq, acked |-> p.seq, next |-> SeqPlus(p.seq, 1)]
    ELSE [init |-> seq_init, acked |-> seq_acked, next |-> seq_next]

\* CheckForSacksFromLookalikes and TiePacketToSackLookalike: the packets in
\* flight that were sent before the retransmitted one and not retransmitted
\* themselves are taken as SACKed by the oldest lookalikes that can have seen
\* them.  A lookalike found too old for a packet is used up all the same.
NoTies ==
    [queue |-> lookalikes, by |-> [i \in unacked |-> 0], min_rtt |-> min_rtt,
     timer |-> timer, sacks |-> sacks, last |-> last_ack_with_trigger, adjust |-> 0,
     done |-> FALSE,
     \* the lookalike that armed the timers, and what they were armed with
     armer |-> 0, armed_with |-> timer, delayed |-> FALSE]

CanHaveSeen(ties, i) ==
    { a \in ties.queue : pkts[i].ts + ties.min_rtt < pkts[a].ts }

Tie(ties, i, a, sq) ==
    LET delay == pkts[a].ts - pkts[i].ts
        tm    == Sampled(ties.timer, i, delay, sq.acked, sq.next)
        newer == ties.last = 0 \/ pkts[a].ts > pkts[ties.last].ts
        tied  == [ties EXCEPT
                    !.queue   = { q \in @ : q > a },
                    !.by      = [@ EXCEPT ![i] = a],
                    !.min_rtt = LowerMinRTT(@, i, delay),
                    !.timer   = tm,
                    !.sacks   = Add(@, [start |-> pkts[i].seq, end |-> SeqEnd(pkts[i])])]
        \* the packet being tied is still in unacked_packets_ here
        left  == { j \in unacked : ties.by[j] = 0 }
    IN  IF newer
        THEN [tied EXCEPT !.last       = a,
                          !.adjust     = @ + pkts[i].len,
                          !.armer      = a,
                          !.armed_with = tm,
                          !.delayed    = DelayedAck(left, rtx, marks)]
        ELSE tied

TieStep(ties, i, p, sq) ==
    IF ties.done \/ ties.queue = {} THEN ties
    ELSE IF ~After(p.seq, pkts[i].seq) THEN [ties EXCEPT !.done = TRUE]
    ELSE IF IsLost(i, rtx, marks) \/ previous_tx[i] # 0 THEN ties
    ELSE IF CanHaveSeen(ties, i) = {} THEN [ties EXCEPT !.queue = {}]
    ELSE Tie(ties, i, Min(CanHaveSeen(ties, i)), sq)

TiesOf(p, sq) ==
    IF lookalikes = {} THEN NoTies
    ELSE FoldInOrder(LAMBDA i, ties : TieStep(ties, i, p, sq), NoTies, unacked)

\* The timers after the ties: each tie to a newer ACK armed them.
TiedRTO(ties) ==
    IF ties.armer = 0 THEN rto ELSE ArmedRTO(ties.armer, ties.armed_with, num_rtos)

TiedTLP(ties) ==
    IF ties.armer = 0 THEN tlp ELSE ArmedTLP(ties.armer, ties.armed_with, ties.delayed)

\* FindRtxTrigger works on the timers and the flags as the ties left them.
\* t.mk has an entry for the packet itself, t.info the timers that matched it.
Fire(timer_info, p) ==
    5 * (IF timer_info.delay + pkts[timer_info.armed_by].ts > p.ts
         THEN timer_info.delay + pkts[timer_info.armed_by].ts - p.ts
         ELSE p.ts - (timer_info.delay + pkts[timer_info.armed_by].ts))
      <= timer_info.delay

Elapsed_reversed(timer_info, p) == pkts[timer_info.armed_by].ts - p.ts

Elapsed(timer_info, p) == p.ts - pkts[timer_info.armed_by].ts

\* CheckForTLP: a probe repeats the highest sequence sent.
CheckForTLP(t, p, sq) ==
    IF t.tlp.armed_by # 0 /\ t.enabled /\ SeqEnd(p) = sq.next /\ Fire(t.tlp, p)
    THEN [t EXCEPT !.tlp.delay = Elapsed(t.tlp, p),
                   !.mk[New]   = @ \cup {"tlp"},
                   !.info.tlp  = [t.tlp EXCEPT !.delay = Elapsed(t.tlp, p)],
                   !.found     = TRUE]
    ELSE t

\* The timeout matches: back off.  The first timeout that is not also a probe,
\* and the second one in a row after a supposed probe, rule probes out.
TieToRTO_after_any_probe(t, p, sq) ==
    LET armer == t.rto.armed_by
        again == "tlp" \in t.mk[armer]
        fired == [t.rto EXCEPT !.delay = Elapsed(t.rto, p)]
    IN  [t EXCEPT !.rto       = fired,
                  !.info.rto  = fired,
                  !.mk[armer] = IF again THEN @ \ {"tlp"} ELSE @,
                  !.mk[New]   = @ \cup {"rto"},
                  !.num_rtos  = @ + 1,
                  !.high      = sq.next,
                  !.enabled   = @ /\ ~again /\ (t.num_rtos = 0 => "tlp" \in t.mk[New]),
                  !.found     = TRUE]

TieToRTO(t, p, sq) ==
    LET armer == t.rto.armed_by
        again == t.num_rtos = 1 /\ "tlp" \in t.mk[armer]
        fired == [t.rto EXCEPT !.delay = Elapsed(t.rto, p)]
    IN  [t EXCEPT !.rto       = fired,
                  !.info.rto  = fired,
                  !.mk[armer] = IF again THEN @ \ {"tlp"} ELSE @,
                  !.mk[New]   = @ \cup {"rto"},
                  !.num_rtos  = @ + 1,
                  !.high      = sq.next,
                  !.enabled   = @ /\ ~again /\ (t.num_rtos = 0 => "tlp" \in t.mk[New]),
                  !.found     = TRUE]

\* The last retransmission was a probe after all, not a timeout: its back-off is
\* undone and both timers are armed anew from it.
UndoRTO(t, tm, ids) ==
    LET armer == t.rto.armed_by
    IN  [t EXCEPT !.num_rtos = 0,
                  !.high     = 0,
                  !.mk[armer] = @ \ {"rto"},
                  !.rto      = ArmedRTO(armer, tm, 0),
                  !.tlp      = ArmedTLP(armer, tm, DelayedAck(ids, rtx, t.mk))]

CheckForRTO(t, p, sq, tm, ids) ==
    IF t.rto.armed_by = 0 THEN t
    ELSE IF Fire(t.rto, p) THEN TieToRTO(t, p, sq)
    ELSE IF t.enabled /\ t.num_rtos = 1 /\ "tlp" \in t.mk[t.rto.armed_by]
    THEN LET undone == UndoRTO(t, tm, ids)
         IN  IF Fire(undone.rto, p) THEN TieToRTO(undone, p, sq) ELSE undone
    ELSE t

\* FindRtxTrigger: an ACK a moment ago explains the retransmission; which packet
\* triggered that ACK, the latest ACK with a known trigger tells.  Otherwise it
\* may be a timer's doing.
Prompt(p) == last_ack # 0 /\ p.ts - pkts[last_ack].ts <= MaxTriggerDelay

FindRtxTrigger(p, sq, high, ties, ids) ==
    LET t0 == [rto |-> TiedRTO(ties), tlp |-> TiedTLP(ties), num_rtos |-> num_rtos,
               high |-> high, enabled |-> is_tlp_enabled,
               mk |-> Append(marks, {"rtx"}), found |-> FALSE,
               info |-> [rto |-> NoTimer, tlp |-> NoTimer]]
        t1 == CheckForRTO(CheckForTLP(t0, p, sq), p, sq, ties.timer, ids)
    IN  IF Prompt(p)
        THEN [t0 EXCEPT !.mk[New] = @ \cup {IF high # 0 THEN "slow_start" ELSE "fast"}]
        ELSE IF t1.found
        THEN [t1 EXCEPT !.rto = ArmedRTO(New, ties.timer, t1.num_rtos), !.tlp = NoTimer]
        ELSE t1

TriggerOf_the_ack(p, last, trig) == IF Prompt(p) THEN last ELSE 0

TriggerOf(p, last, trig) == IF Prompt(p) /\ last # 0 THEN trig[last] ELSE 0

\* LinkToPreviousTx: the latest own packet that holds the first byte.
PreviousTx_touching(p) ==
    Max({0} \cup { i \in Own : Overlaps(p.seq, SeqEnd(p), pkts[i].seq, SeqEnd(pkts[i])) })

PreviousTx(p) ==
    Max({0} \cup { i \in Own : \/ p.seq = pkts[i].seq
                               \/ Between(p.seq, pkts[i].seq, SeqEnd(pkts[i])) })

\* A packet and the earlier transmissions it repeats.
Line(i) ==
    LET line[j \in Ids \cup {0}] == IF j = 0 THEN {} ELSE {j} \cup line[previous_tx[j]]
    IN  line[i]

RtxDelays_one_step(p, prev, ds) ==
    [i \in Ids |->
        IF i = prev
        THEN [ds[i] EXCEPT
                !.rtx      = IF @ = 0 THEN p.ts - pkts[i].ts ELSE @,
                !.final    = IF previous_tx[i] = 0 THEN p.ts - pkts[i].ts ELSE @,
                !.attempts = IF previous_tx[i] = 0 THEN @ + 1 ELSE @]
        ELSE ds[i]]

RtxDelays(p, prev, ds) ==
    [i \in Ids |->
        IF i \in Line(prev)
        THEN [ds[i] EXCEPT
                !.rtx      = IF @ = 0 THEN p.ts - pkts[i].ts ELSE @,
                !.final    = IF previous_tx[i] = 0 THEN p.ts - pkts[i].ts ELSE @,
                !.attempts = IF previous_tx[i] = 0 THEN @ + 1 ELSE @]
        ELSE ds[i]]

\* MarkPacketsOutOfOrder: all own data sent since the earlier transmission; with
\* none, all own data.
WithOutOfOrder(mk, prev) ==
    [i \in DOMAIN mk |->
        IF i \in Own /\ i > prev /\ pkts[i].len > 0
        THEN mk[i] \cup {"out_of_order"} ELSE mk[i]]

\* What AddPacket records of the state a packet is sent in.
NotSent ==
    [unacked_bytes |-> 0, acked_bytes |-> 0, last_ack |-> 0, rto_estimate |-> 0,
     tlp_estimate |-> 0, tlp_delayed_ack_estimate |-> 0,
     rto_info |-> NoTimer, tlp_info |-> NoTimer]

SentIn(p, sq, tm, num_bytes, info) ==
    LET any == [NotSent EXCEPT !.acked_bytes = acked_bytes,
                               !.rto_info = info.rto, !.tlp_info = info.tlp]
    IN  IF p.len = 0 THEN any
        ELSE [any EXCEPT !.unacked_bytes = GetUnackedBytes(sq.next, sq.acked, num_bytes),
                         !.last_ack      = last_ack,
                         !.rto_estimate  = GetRTO(tm, 0),
                         !.tlp_estimate  = GetTLP(tm, FALSE),
                         !.tlp_delayed_ack_estimate = GetTLP(tm, TRUE)]

\* The packet joins the capture and the packets in flight; a retransmission timer
\* that is off is armed by it.
Push(p, sq, in_flight, armed_rto, armed_tlp, tm) ==
    LET ids == in_flight \cup {New}
    IN  /\ pkts' = Append(pkts, p)
        /\ seq_init' = sq.init /\ seq_acked' = sq.acked /\ seq_next' = sq.next
        /\ unacked' = ids
        /\ rto' = IF armed_rto.armed_by = 0 THEN ArmedRTO(New, tm, num_rtos') ELSE armed_rto
        /\ tlp' = IF armed_rto.armed_by = 0
                  THEN ArmedTLP(New, tm, DelayedAck(ids, rtx', marks')) ELSE armed_tlp
        /\ UNCHANGED <<acked_bytes, last_ack>>

\* The entries of a packet from which nothing is inferred.
NoteNew(p, sq) ==
    /\ ack_packet' = Append(ack_packet, 0)
    /\ trigger' = Append(trigger, 0)
    /\ previous_tx' = Append(previous_tx, 0)
    /\ first_tx' = Append(first_tx, New)
    /\ rtx' = Append(rtx, 0)
    /\ marks' = Append(marks, {})
    /\ delays' = Append(delays, NoDelays)
    /\ sent' = Append(sent, SentIn(p, sq, timer, sacks.num_bytes,
                                  [rto |-> NoTimer, tlp |-> NoTimer]))
    /\ UNCHANGED <<lookalikes, sacks, min_rtt, timer, last_ack_with_trigger,
                   num_rtos, is_tlp_enabled, unmatched_rtx, is_bogus>>

PushNew(p, sq, high) ==
    /\ NoteNew(p, sq)
    /\ rto_high_seq' = high
    /\ Push(p, sq, unacked, rto, tlp, timer)

\* What follows for the packets from the ties, those still in flight and the trigger.
PushTied(p, sq, ties, still, t) ==
    LET prev  == PreviousTx(p)
        trig  == [a \in Ids |-> IF \E i \in unacked : ties.by[i] = a
                               THEN Max({ i \in unacked : ties.by[i] = a }) ELSE trigger[a]]
        tied  == [i \in Ids |-> IF i \in unacked \ still
                               THEN [delays[i] EXCEPT !.ack = pkts[ties.by[i]].ts - pkts[i].ts]
                               ELSE delays[i]]
    IN  /\ ack_packet' = Append([i \in Ids |-> IF i \in unacked \ still
                                             THEN ties.by[i] ELSE ack_packet[i]], 0)
        /\ trigger' = Append(trig, TriggerOf(p, ties.last, trig))
        /\ previous_tx' = Append(previous_tx, prev)
        /\ first_tx' = Append(first_tx, IF prev = 0 THEN New ELSE first_tx[prev])
        /\ rtx' = Append([i \in Ids |-> IF i = prev THEN New ELSE rtx[i]], 0)
        /\ marks' = WithOutOfOrder(t.mk, prev)
        /\ delays' = Append(RtxDelays(p, prev, tied), NoDelays)
        /\ sent' = Append([i \in Ids |-> IF i \in Own
                                       THEN [sent[i] EXCEPT !.unacked_bytes = @ + ties.adjust]
                                       ELSE sent[i]],
                          SentIn(p, sq, ties.timer, ties.sacks.num_bytes, t.info))
        /\ lookalikes' = ties.queue
        /\ sacks' = ties.sacks
        /\ min_rtt' = ties.min_rtt
        /\ timer' = ties.timer
        /\ last_ack_with_trigger' = ties.last
        /\ num_rtos' = t.num_rtos
        /\ rto_high_seq' = t.high
        /\ is_tlp_enabled' = t.enabled
        /\ unmatched_rtx' = IF prev = 0 THEN unmatched_rtx + 1 ELSE unmatched_rtx
        /\ is_bogus' = (is_bogus \/ (prev = 0 /\ unmatched_rtx + 1 > MaxUnmatched))
        /\ Push(p, sq, still, t.rto, t.tlp, ties.timer)

\* ProcessRtx and the rest of AddPacket for a retransmission.
PushRtx(p, sq, high) ==
    LET ties  == TiesOf(p, sq)
        still == { i \in unacked : ties.by[i] = 0 }
    IN  PushTied(p, sq, ties, still, FindRtxTrigger(p, sq, high, ties, still))

\* The sequence numbers after a data packet, and what is left of the recovery mark.
Moved_unsigned(p) == SeqEnd(p) > Sequences(p).next

Moved(p) == After(SeqEnd(p), Sequences(p).next)

WithData(p) ==
    IF Moved(p) THEN [Sequences(p) EXCEPT !.next = SeqEnd(p)] ELSE Sequences(p)

HighWithData_kept(p) == rto_high_seq

HighWithData(p) ==
    IF rto_high_seq # 0 /\ After(WithData(p).next, rto_high_seq) THEN 0 ELSE rto_high_seq

AddNewData(p) ==
    /\ p.len > 0
    /\ Moved(p) /\ HighWithData(p) = 0
    /\ PushNew(p, WithData(p), HighWithData(p))

AddRtxData(p) ==
    /\ p.len > 0
    /\ ~Moved(p) \/ HighWithData(p) # 0
    /\ PushRtx(p, WithData(p), HighWithData(p))

AddFirstSyn_stored_only(p) ==
    /\ p.len = 0 /\ p.syn /\ unacked = {}
    /\ NoteNew(p, Sequences(p))
    /\ pkts' = Append(pkts, p)
    /\ seq_init' = Sequences(p).init
    /\ seq_acked' = Sequences(p).acked
    /\ seq_next' = Sequences(p).next
    /\ UNCHANGED <<unacked, rto, tlp, rto_high_seq, acked_bytes, last_ack>>

AddFirstSyn(p) ==
    /\ p.len = 0 /\ p.syn /\ unacked = {}
    /\ PushNew(p, Sequences(p), rto_high_seq)

AddRtxSyn(p) ==
    /\ p.len = 0 /\ p.syn /\ unacked # {}
    /\ PushRtx(p, Sequences(p), rto_high_seq)

\* ACKs, FINs and resets of this endpoint are only stored.
AddOther(p) ==
    /\ ~RequiresAck(p)
    /\ NoteNew(p, Sequences(p))
    /\ pkts' = Append(pkts, p)
    /\ seq_init' = Sequences(p).init
    /\ seq_acked' = Sequences(p).acked
    /\ seq_next' = Sequences(p).next
    /\ UNCHANGED <<unacked, rto, tlp, rto_high_seq, acked_bytes, last_ack>>

AddPacket(p) ==
    AddNewData(p) \/ AddRtxData(p) \/ AddFirstSyn(p) \/ AddRtxSyn(p) \/ AddOther(p)

-----------------------------------------------------------------------------
(***************************************************************************)
(* ProcessAck: the endpoint receives.  a.blocks are the SACK blocks that    *)
(* were captured of the a.num_sacks announced; a.cut says that the options  *)
(* were cut off with room for a SACK block in the missing part.            *)
(***************************************************************************)
HasSacks(a) == a.num_sacks > 0
AckMoved(a) == After(a.ack, seq_acked)
AckedAfter(a) == IF AckMoved(a) THEN a.ack ELSE seq_acked
BlocksOf(a) == ParseBlocks(a.blocks).blocks

IsSacked(p, blocks) ==
    \E k \in DOMAIN blocks :
        RangeIncluded(p.seq, SeqEnd(p), blocks[k].start, blocks[k].end)

\* AckPackets: what the ACK number or one of this ACK's blocks covers.
AckedNow_any(a) ==
    { i \in Own : \/ ~After(SeqEnd(pkts[i]), AckedAfter(a))
                  \/ IsSacked(pkts[i], BlocksOf(a)) }

AckedNow(a) ==
    { i \in unacked : \/ ~After(SeqEnd(pkts[i]), AckedAfter(a))
                      \/ IsSacked(pkts[i], BlocksOf(a)) }

\* DSackPackets: a block below the ACK number reports a duplicate; the latest
\* retransmission of those bytes that is not known as spurious yet was spurious.
Spurious(mk, b) ==
    Max({0} \cup { i \in Own : /\ "rtx" \in mk[i] /\ "spurious" \notin mk[i]
                             /\ RangeIncluded(b.start, b.end, pkts[i].seq, SeqEnd(pkts[i])) })

WithDSacks(mk, a) ==
    FoldLeft(LAMBDA m, b :
                IF Before(b.start, a.ack) /\ ~After(b.end, a.ack) /\ Spurious(m, b) # 0
                THEN [m EXCEPT ![Spurious(m, b)] = @ \cup {"spurious"}] ELSE m,
             mk, BlocksOf(a))

\* Every call of ProcessAck: the packet is recorded, the sequence numbers advance.
NoteAck(a) ==
    /\ pkts' = Append(pkts, a)
    /\ last_ack' = New
    /\ seq_acked' = AckedAfter(a)
    /\ acked_bytes' = IF AckMoved(a) THEN acked_bytes + SeqMinus(a.ack, seq_acked) ELSE acked_bytes
    /\ is_bogus' = (is_bogus \/ (AckMoved(a) /\ After(a.ack, seq_next)))
    /\ rto_high_seq' = IF AckMoved(a) /\ rto_high_seq # 0 /\ ~Before(a.ack, rto_high_seq)
                       THEN 0 ELSE rto_high_seq
    /\ marks' = Append(IF HasSacks(a) THEN WithDSacks(marks, a) ELSE marks,
                       IF a.ack = seq_acked THEN {"dupack"} ELSE {})
    /\ lookalikes' = IF a.ack = seq_acked /\ a.cut THEN lookalikes \cup {New} ELSE lookalikes
    /\ previous_tx' = Append(previous_tx, 0)
    /\ first_tx' = Append(first_tx, New)
    /\ rtx' = Append(rtx, 0)
    /\ sent' = Append(sent, NotSent)
    /\ UNCHANGED <<seq_init, seq_next, is_tlp_enabled, unmatched_rtx>>

\* An ACK without news.
ProcessOldAck(a) ==
    /\ ~AckMoved(a) /\ ~HasSacks(a)
    /\ NoteAck(a)
    /\ ack_packet' = Append(ack_packet, 0)
    /\ trigger' = Append(trigger, 0)
    /\ delays' = Append(delays, NoDelays)
    /\ UNCHANGED <<unacked, sacks, min_rtt, timer, last_ack_with_trigger, rto, tlp, num_rtos>>

\* A timer is armed anew when the ACK covers something, and switched off when
\* nothing is left in flight.
AfterAck_never_off(still, acked, old, armed) == IF acked = {} THEN old ELSE armed

AfterAck(still, acked, old, armed) ==
    IF still = {} THEN NoTimer ELSE IF acked = {} THEN old ELSE armed

\* The estimates with the delays of the packets that this ACK covers.
Estimate(est, i, a) ==
    [min_rtt |-> LowerMinRTT(est.min_rtt, i, a.ts - pkts[i].ts),
     timer   |-> Sampled(est.timer, i, a.ts - pkts[i].ts, AckedAfter(a), seq_next)]

EstimatesOf(a, acked) ==
    FoldInOrder(LAMBDA i, est : Estimate(est, i, a),
                [min_rtt |-> min_rtt, timer |-> timer], acked)

\* The timers are armed before the number of timeouts is reset.
ProcessNewAck(a) ==
    LET acked == AckedNow(a)
        still == unacked \ acked
        delay(i) == a.ts - pkts[i].ts
        est == EstimatesOf(a, acked)
    IN  /\ AckMoved(a) \/ HasSacks(a)
        /\ NoteAck(a)
        /\ unacked' = still
        /\ ack_packet' = Append([i \in Ids |-> IF i \in acked THEN New ELSE ack_packet[i]], 0)
        /\ trigger' = Append(trigger, IF acked = {} THEN 0 ELSE Max(acked))
        /\ delays' = Append([i \in Ids |-> IF i \in acked THEN [delays[i] EXCEPT !.ack = delay(i)]
                                         ELSE delays[i]], NoDelays)
        /\ min_rtt' = est.min_rtt
        /\ timer' = est.timer
        /\ last_ack_with_trigger' = IF acked = {} THEN last_ack_with_trigger ELSE New
        /\ rto' = AfterAck(still, acked, rto, ArmedRTO(New, est.timer, num_rtos))
        /\ tlp' = AfterAck(still, acked, tlp,
                           ArmedTLP(New, est.timer, DelayedAck(still, rtx, marks)))
        /\ sacks' = RemoveAcked(AddAll(sacks, BlocksOf(a)), AckedAfter(a))
        /\ num_rtos' = 0

ProcessAck(a) == ProcessOldAck(a) \/ ProcessNewAck(a)

-----------------------------------------------------------------------------
(***************************************************************************)
(* The other endpoint, which has the same packet in hand.  Its own packets   *)
(* are the received ones that carry data or a SYN (a.data), and those that   *)
(* this endpoint was never handed: a SYN without ACK, and what was captured  *)
(* before this endpoint existed.  Which of them it finds acked is left open, *)
(* but each is found so only once.                                         *)
(***************************************************************************)
Unseen == -1

PeerData == { i \in Ids \ Own : pkts[i].data }

NotYetAcked == {Unseen} \cup (PeerData \ { peer_trigger[i] : i \in Own })

\* Its ProcessAck of a packet that this endpoint has added: HandleAckedPacket
\* overwrites the trigger of a retransmission.
PeerProcessAck ==
    \E t \in {0} \cup NotYetAcked : peer_trigger' = Append(peer_trigger, t)

\* Its AddPacket of a packet, before this endpoint processes the ACK: packets of its
\* own are tied to earlier packets of this endpoint, and if it is a prompt
\* retransmission it takes over the trigger of one of them.
PeerAddPacket ==
    \E by \in [Own -> {0} \cup NotYetAcked] :
        LET tied == [i \in Ids |-> IF i \in Own /\ by[i] # 0 THEN by[i] ELSE peer_trigger[i]]
        IN  /\ \A i \in Own : by[i] < i
            /\ \E t \in {0} \cup { tied[i] : i \in Own } : peer_trigger' = Append(tied, t)

PeerSide ==
    \/ pkts'[New].out /\ PeerProcessAck
    \/ ~pkts'[New].out /\ pkts'[New].data /\ PeerAddPacket
    \/ ~pkts'[New].out /\ ~pkts'[New].data /\ peer_trigger' = Append(peer_trigger, 0)

\* trigger_packet_: the sender of a packet adds it before its receiver processes the
\* ACK, and ties are to packets processed before.
TriggerPacket_receiver_first(i) ==
    IF trigger[i] # 0 /\ (pkts[i].out \/ peer_trigger[i] = 0) THEN trigger[i]
    ELSE peer_trigger[i]

TriggerPacket(i) ==
    IF trigger[i] # 0 /\ (~pkts[i].out \/ peer_trigger[i] = 0) THEN trigger[i]
    ELSE peer_trigger[i]

-----------------------------------------------------------------------------
Init ==
    /\ pkts = << >> /\ unacked = {} /\ lookalikes = {}
    /\ ack_packet = << >> /\ trigger = << >> /\ peer_trigger = << >>
    /\ previous_tx = << >> /\ first_tx = << >> /\ rtx = << >>
    /\ marks = << >> /\ delays = << >> /\ sent = << >>
    /\ seq_init = 0 /\ seq_acked = 0 /\ seq_next = 0 /\ acked_bytes = 0
    /\ sacks = EmptySacks
    /\ min_rtt = 0 /\ timer = NewTimer
    /\ last_ack = 0 /\ last_ack_with_trigger = 0
    /\ rto = NoTimer /\ tlp = NoTimer
    /\ num_rtos = 0 /\ rto_high_seq = 0 /\ is_tlp_enabled = TRUE
    /\ unmatched_rtx = 0 /\ is_bogus = FALSE

\* A packet of this endpoint, and one for it.
OwnPacket(s, ts) == [out |-> TRUE, ts |-> ts, seq |-> s.seq, len |-> s.len,
                      syn |-> s.syn, fin |-> s.fin]

AckPacket(a, ts) ==
    [out |-> FALSE, ts |-> ts, ack |-> a.ack, blocks |-> a.blocks,
     num_sacks |-> a.num_sacks, cut |-> a.cut, data |-> a.data]

\* After a packet sent by an endpoint that is bogus the flow reports it and the
\* capture is read no further (AddPacketToEndpoint, MakeFromPcap).
GivenUp == is_bogus /\ pkts[Len(pkts)].out

\* The endpoint exists from its first packet on.
Open == pkts = << >> /\ \E s \in Opening : AddPacket(OwnPacket(s, 1))

Next ==
    /\ \/ Open
       \/ /\ pkts # << >> /\ Len(pkts) < MaxPackets /\ ~GivenUp
          /\ \E gap \in Gaps :
                LET ts == pkts[Len(pkts)].ts + gap
                IN  \/ \E s \in Sends : AddPacket(OwnPacket(s, ts))
                    \/ \E a \in Acks : ProcessAck(AckPacket(a, ts))
    /\ PeerSide

Spec == Init /\ [][Next]_vars

-----------------------------------------------------------------------------
TimerInfo == [armed_by : 0 .. Len(pkts), delay : Nat, backoffs : 0 .. MaxPackets,
              delayed_ack : BOOLEAN]

Flags == {"rtx", "spurious", "fast", "slow_start", "rto", "tlp", "out_of_order", "dupack"}

TypeOK ==
    /\ unacked \subseteq Own /\ lookalikes \subseteq Ids \ Own
    /\ ack_packet \in [Ids -> 0 .. Len(pkts)] /\ trigger \in [Ids -> 0 .. Len(pkts)]
    /\ peer_trigger \in [Ids -> Unseen .. Len(pkts)]
    /\ previous_tx \in [Ids -> 0 .. Len(pkts)] /\ rtx \in [Ids -> 0 .. Len(pkts)]
    /\ first_tx \in [Ids -> Ids]
    /\ marks \in [Ids -> SUBSET Flags]
    /\ delays \in [Ids -> [ack : Nat, rtx : Nat, final : Nat, attempts : Nat]]
    /\ sent \in [Ids -> [unacked_bytes : Nat, acked_bytes : Nat, last_ack : 0 .. Len(pkts),
                       rto_estimate : Nat, tlp_estimate : Nat,
                       tlp_delayed_ack_estimate : Nat,
                       rto_info : TimerInfo, tlp_info : TimerInfo]]
    /\ seq_init \in SeqNum /\ seq_acked \in SeqNum /\ seq_next \in SeqNum
    /\ acked_bytes \in Nat
    /\ sacks.blocks \in Seq(Block) /\ sacks.num_bytes \in Nat
    /\ min_rtt \in Nat /\ DOMAIN timer = DOMAIN NewTimer
    /\ last_ack \in 0 .. Len(pkts) /\ last_ack_with_trigger \in 0 .. Len(pkts)
    /\ rto \in TimerInfo /\ tlp \in TimerInfo
    /\ num_rtos \in 0 .. MaxPackets /\ rto_high_seq \in SeqNum
    /\ is_tlp_enabled \in BOOLEAN /\ unmatched_rtx \in 0 .. MaxPackets /\ is_bogus \in BOOLEAN

(***************************************************************************)
(* The retransmission timer runs exactly while packets are in flight, and a *)
(* probe timer runs only beside it, started by the same packet.  SACKs,     *)
(* retroactive ties and timeout verdicts all add, remove and re-arm on      *)
(* their own.                                                              *)
(***************************************************************************)
TimersFollowUnacked ==
    /\ unacked = {} <=> rto.armed_by = 0
    /\ tlp.armed_by \in {0, rto.armed_by}

(***************************************************************************)
(* The recovery mark is either off or at the highest sequence sent: new     *)
(* data ends the recovery period no later than the next cumulative ACK that *)
(* covers it, so a slow-start verdict always refers to the current flight.  *)
(***************************************************************************)
RecoveryMark == rto_high_seq \in {0, seq_next}

(***************************************************************************)
(* A packet that needs an ACK waits in unacked_packets_ until one ACK is    *)
(* recorded for it, never both and never neither.                          *)
(***************************************************************************)
AckedOnce ==
    \A i \in Own : RequiresAck(pkts[i]) => (i \in unacked <=> ack_packet[i] = 0)

\* The ACK found for a packet is final: no later ACK, tie or DSACK replaces it.
AckIsFinal ==
    [][\A i \in Ids : ack_packet[i] # 0 => ack_packet'[i] = ack_packet[i]]_vars

(***************************************************************************)
(* Both endpoints write trigger_packet_ of the packets they share, in the    *)
(* order of tcp_flow.cc:60-64.  An ACK that settled a packet of this         *)
(* endpoint keeps one of those as its trigger, whatever the other endpoint   *)
(* wrote, so retransmissions take over no packet of the other one; and the   *)
(* trigger of a retransmission was settled before it, "trigger data ->       *)
(* trigger ACK -> retransmission" (tcp_endpoint.cc:370), unless the          *)
(* retransmission acks data of the other endpoint itself: then the chain is  *)
(* lost and a data packet of the other endpoint stands in its place.        *)
(***************************************************************************)
TriggerSound ==
    /\ \A i \in Ids :
          LET t == TriggerPacket(i)
          IN  t # 0 => /\ t < i
                       /\ IF t \notin Own THEN t \in {Unseen} \cup PeerData
                          ELSE IF pkts[i].out THEN ack_packet[t] \in 1 .. i - 1
                          ELSE ack_packet[t] = i
    /\ \A j \in Own : ack_packet[j] # 0 => TriggerPacket(ack_packet[j]) \in Own

(***************************************************************************)
(* The links between transmissions are consistent: what a packet repeats    *)
(* was sent before and held its first byte, both belong to the same line,   *)
(* and rtx() of a packet is the latest one that repeats it.                 *)
(***************************************************************************)
LinesOK ==
    \A i \in Ids :
        /\ previous_tx[i] # 0 =>
              /\ previous_tx[i] < i /\ previous_tx[i] \in Own
              /\ \/ pkts[i].seq = pkts[previous_tx[i]].seq
                 \/ Between(pkts[i].seq, pkts[previous_tx[i]].seq, SeqEnd(pkts[previous_tx[i]]))
              /\ first_tx[i] = first_tx[previous_tx[i]]
              /\ rtx[previous_tx[i]] >= i
        /\ previous_tx[i] = 0 => first_tx[i] = i
        /\ rtx[i] # 0 => rtx[i] > i /\ previous_tx[rtx[i]] = i

\* The retransmissions in the line of an original transmission.
Repeats(i) == { q \in Own : first_tx[q] = i /\ q # i }

(***************************************************************************)
(* The attempts and the final delay kept with an original transmission      *)
(* count the retransmissions of its whole line and reach to the last one,   *)
(* although each retransmission only knows the one before it and lines      *)
(* branch when data is cut anew; a retransmission keeps neither.            *)
(***************************************************************************)
AttemptsCounted ==
    \A i \in Own :
        IF Repeats(i) = {} THEN delays[i].attempts = 0 /\ delays[i].final = 0
        ELSE /\ delays[i].attempts = Cardinality(Repeats(i))
             /\ delays[i].final = pkts[Max(Repeats(i))].ts - pkts[i].ts

(***************************************************************************)
(* min_rtt_us_ is the smallest ACK delay of any packet that was not a       *)
(* retransmission, whether an ACK, a SACK or a tie settled it: ties are     *)
(* judged by it.                                                           *)
(***************************************************************************)
MinRTTIsMin ==
    LET settled == { delays[i].ack : i \in { j \in Own : ack_packet[j] # 0 /\ previous_tx[j] = 0 } }
    IN  0 \notin settled => min_rtt = IF settled = {} THEN 0 ELSE Min(settled)

\* An ACK beyond all of these packets that were captured before it.
AckedBeyond(ids, End(_)) ==
    \E i \in Ids \ Own : \A j \in ids : j < i => After(pkts[i].ack, End(pkts[j]))

\* A SYN takes a sequence number.
CountedEnd(p) == SeqPlus(SeqEnd(p), IF p.syn THEN 1 ELSE 0)

(***************************************************************************)
(* An endpoint is declared bogus only for an ACK beyond all data and SYNs   *)
(* it was seen to send before ("ACKs before their corresponding data        *)
(* packets", tcp_endpoint.h:304), wherever the numbers wrapped, or for too   *)
(* many retransmissions without an original.                               *)
(***************************************************************************)
BogusMeansUnseen ==
    is_bogus => \/ AckedBeyond({ i \in Own : RequiresAck(pkts[i]) }, CountedEnd)
                \/ unmatched_rtx > MaxUnmatched

(***************************************************************************)
(* acked_bytes_ is the distance the cumulative ACK has gone, "to protect    *)
(* against wraparound" (tcp_endpoint.h:288) counted without it.             *)
(***************************************************************************)
BytesCounted == acked_bytes % SpaceSize = SeqMinus(seq_acked, seq_init)

(***************************************************************************)
(* A verdict is revised only between a timeout and a probe, one of the two  *)
(* at a time, and only on the packet that armed the timer, after a single   *)
(* timeout, if it passed for a probe: every other verdict is final.         *)
(***************************************************************************)
VerdictRevised ==
    [][\A i \in Ids : ~(marks[i] \subseteq marks'[i]) =>
          /\ i = rto.armed_by /\ num_rtos = 1 /\ "tlp" \in marks[i]
          /\ marks[i] \ marks'[i] \in {{"rto"}, {"tlp"}}]_vars
=============================================================================
