# A TLA+ development for ndt-analysis

ndt-analysis reads a packet capture of TCP connections taken near the sender and
reconstructs what the sender's kernel did: which ACK acknowledged which packet,
which packets were retransmitted and why (an ACK, a retransmission timeout, a tail
loss probe), how its RTT estimate and its timers moved, and from that where the
latency of a connection came from. The program is sequential; what makes it hard is
that the *capture* is a history nobody chose. Packets and ACKs interleave in any
order, ACKs are lost or duplicated on the way to the capture point, data is
retransmitted with other boundaries, options are cut off by the snap length,
sequence numbers wrap, and a verdict passed on one packet may have to be revised
when the next one arrives. All of that is input to the models, chosen
nondeterministically from small sets; the code's reaction to it is what they
translate.

All paths of the code below are relative to `src/src/`.

## Components

| component | code | state it keeps | operations | modelled by |
|---|---|---|---|---|
| sequence arithmetic | `util.{h,cc}` | none | `After`, `Before`, `Between`, `RangeIncluded`, `Overlaps` on 32-bit numbers that wrap | `SeqSpace` |
| SACK list | `tcp_sacks.{h,cc}` | sorted list of blocks, byte count, announced count | `Parse`, `Add`, `Merge`, `RemoveAcked` | `SackOps`, `TcpSacks`, abstractly `SackedBytes` |
| timer estimator | `tcp_timer.{h,cc}`, `tcp_timer_info.h` | smoothed RTT, variation, two maxima, window mark | `AddSample`, `GetRTO`, `GetTLP` | `TimerOps`, `TcpTimer` |
| endpoint | `tcp_endpoint.{h,cc,tcc}` | packets in flight, cut ACKs that may be SACKs, timers, recovery mark, sequence numbers, one object of each class above, and the results it writes into the packets | `AddPacket`, `ProcessAck` | `TcpEndpoint`; `DeriveMSS` and `SplitIntoWirePackets` by `TcpFlowMap` |
| TCP packet | `tcp_packet.{h,cc}` | parsed header; ACK, trigger, previous and next transmission, flags, delays | header and option parser; setters used by the endpoint | `TcpHeader`, `CapturedPacket`; the results are state of `TcpEndpoint` |
| packet, IP, Ethernet | `packet.*`, `ip_packet.*`, `ethernet_packet.*` | header bytes, captured lengths | taking off one header after the other | `CapturedPacket` |
| flow | `tcp_flow.{h,cc}` | two endpoints, MSS of each side | `AddPacketToEndpoint`, `CheckForMSS` (`SplitIntoSegments` is never called) | `TcpFlowMap`; `Open` and `GivenUp` of `TcpEndpoint` stand for what one endpoint sees of it |
| flow map, capture loop | `tcp_flow_map.{h,cc}` | flows by address pair, packet index | `AddPacket`, `MakeFromPcap` | `TcpFlowMap` |
| delay analysis | `delay_analysis.{h,cc}`, fits of `util.cc` | worst packet and its delays, the fit, queue-free timeouts, all kept from call to call | `AnalyzeTailLatency`, `GetTimerEstimates` | `DelayAnalysis`, `DelayClaims` |
| tool | `analyze_latency.cc` | none | read, analyse each direction, print | the calls: `EndOfCapture` and `Analyze` of `DelayAnalysis` |
| tests | `test_latency.cc` | none | limits of the parts of a delay | `DelayClaims` |
| pipeline | `latency-analysis/`, `get-matching-ndt-file.sh`, `geoiplookup_source/` | files | download, convert, aggregate, plot | not modelled |

How they interact: `MakeFromPcap` parses each captured packet and hands it to the
flow map, which finds or creates its flow. The flow calls `AddPacket` on the
endpoint that sent the packet and then, if it is an ACK, `ProcessAck` on the other
one: both have the same object in hand. An endpoint owns a SACK list and a timer
estimator, keeps pointers to packets, and writes its findings into them. When all packets are in, the delay analysis reads
the findings. There are no threads and no callbacks beside the capture loop, so the
only interleaving is that of the packets in the capture.

What makes each component correct:

- SACK list: sorted, disjoint, apart, and covering exactly the bytes that were added
  and not yet acked, wherever in the sequence space it lies; its count says so.
- Estimator: never negative, never beyond its samples, never unseeded again.
- Endpoint: the timers run exactly while packets are in flight; one final ACK for each
  packet; the chain "trigger data, trigger ACK, retransmission" only points
  backwards, as long as the other endpoint does not overwrite it; lines of transmissions are consistent and counted at their original; the
  minimum RTT is one; the recovery mark belongs to the current flight; the bytes acked
  are counted across the wrap; an endpoint is only declared bogus with cause.
- Parser: where the snap length ends never makes a packet bogus, each option counts as far
  as it was captured, no SACK passes unnoticed, and the parser ends on any bytes.
- Delay analysis: the parts of a delay add up to it; the samples replay the estimator;
  queue-free timers rest on the samples up to their packet; a call can be repeated; the
  buffer it reports suffices.
- Flow and flow map: every packet is in one flow, at the endpoint that sent it; an
  endpoint's segment size is its peer's announcement whenever that was seen in time; a
  coalesced packet is cut without losing a byte; a bogus sender ends the reading.

## Modules

- `SeqSpace`: a sequence space of `SpaceSize` numbers (2^32 in the code), compared by
  wrapped distance exactly as `util.cc` does, with its blind spot at half the space.
- `SackOps`: the list operations as functions on `[blocks, num_bytes]`. `Add` keeps
  the code's cases: insert before the first later block and merge, or append at the
  end *without* updating the byte count.
- `TcpSacks`: one list under any sequence of calls. `SackedBytes`: the same history as a
  set of bytes, and what was called (`call`); `ImplementsSackedBytes` is the refinement
  with `covered <- the bytes of the blocks`. The history variable `held` of `TcpSacks`
  keeps the bytes that were handed in and not yet acked, independently of the list:
  `HoldsWhatWasAdded` compares the two.
- `TimerOps`: `AddSample` cut into the code's steps (`FirstSample`, `MeanDevUpdate`,
  `RaiseVariation`, `CloseWindow`), `GetRTO`, `GetTLP`, `AdjustRTOForBackoff`.
  Shifts right of negative numbers are floor divisions, as g++ compiles them.
- `TcpTimer`: an estimator fed with samples while the window moves.
- `TcpEndpoint`: the composition. It EXTENDS `SackOps` and `TimerOps`, its variables
  `sacks` and `timer` are objects of those classes, and one step handles one captured
  packet whole. A packet is its position in the capture and 0 is the null pointer, so
  the pointers of the code become functions on positions. The actions are
  - `AddNewData`, `AddRtxData`, `AddFirstSyn`, `AddRtxSyn`, `AddOther`: the branches of
    `AddPacket`. `PushRtx` is the long one: it ties packets to cut ACKs
    (`CheckForSacksFromLookalikes`), finds the cause of the retransmission
    (`FindRtxTrigger`, `CheckForTLP`, `CheckForRTO`), links it to its line
    (`LinkToPreviousTx`), marks reordering and re-arms the timers, in this order;
  - `ProcessOldAck`, `ProcessNewAck`: `ProcessAck` up to and behind its early return;
  - `PeerSide`, which is part of each of these steps: what the other endpoint does to
    `trigger_packet_` of the packets both have. Where this endpoint adds a packet the
    other one may process its ACK and set the trigger, over what was just found
    (`PeerProcessAck`); where this one receives an ACK that carries data the other one adds
    it first, and may tie packets of its own to earlier ones of this endpoint or find the
    trigger of a retransmission (`PeerAddPacket`). What of its data it finds acked is left
    open. `trigger` is what this endpoint has set, `peer_trigger` what the other one has,
    `TriggerPacket` what `trigger_packet_` holds after both, in the order of
    `tcp_flow.cc:60-64`. It is all that both write: `is_dupack_` is written by the receiver
    alone, and read by nobody.
- `MCTcpEndpoint`: packets and ACKs to make captures of. `MCCaptures`: eight scenarios, each
  with packets, ACKs and gaps of its own, under one specification whose variable
  `scenario` keeps a behaviour to one of them.
- `DelayAnalysis` EXTENDS `TcpEndpoint`: the endpoint reads a capture while the list of its
  samples is kept (`NoteSamples`; `TcpTimer` keeps only what follows from it), the file
  ends anywhere (`EndOfCapture`), and then the two entry points are called in any order and
  number. `AnalyzeTailLatency` is the composition of the code's functions: `WorstOf`,
  `Measured`, `CalculateRttLinearFit` (the best of three sets of samples, `TryFit`),
  `GetTriggerDelay`, `ComputeQueueFreeTimeouts`, and then the corrections `Constrained`,
  `Attributed` and `SetOtherDelay` in the order of the code and in unsigned words (`Minus`).
  What a call leaves behind for the next one (fit, timeouts, worst packet) are variables, and
  `Cleared` is what `Clear` does and does not reset. `MCDelayAnalysis`: the captures, as
  scripts that say for each position what the packet may be.
- `DelayClaims`: what comments and tests claim of the analysis and the code does not do.
- `TcpHeader`: `CheckBogus` and `ParseOptions`, one step for each turn of its loop. Where no
  option of the header starts, in payload, padding or amid an option with a wrong size,
  the loop meets any of the bytes `Junk`.
- `CapturedPacket` EXTENDS `TcpHeader`: a frame, captured up to any byte, whose headers are
  taken off in turn (`EthernetPacket`, `IpPacket`, `TcpPacket`); short frames that were
  received are padded. `MCCapturedPacket`: option lists, headers and frames.
- `TcpFlowMap`: the file as a whole. `Read` is the callback of the capture loop: it
  finds the flow in either direction (`FlowId`), creates endpoint A (`WithA`), keeps an
  announced segment size for the other side (`CheckForMSS`, less the timestamps, in
  an unsigned word), creates endpoint B and hands both their size (`WithB`), splits
  the packet (`DeriveMSS`, `SplitIntoWirePackets`) and goes on unless the *sender* is
  bogus. What else an endpoint does is reduced to whether its data turns out bogus: a
  free choice at the places where `TcpEndpoint` may decide it (an unmatched
  retransmission of a sender, an ACK beyond the data of a receiver). libpcap is
  external; `EndOfFile` and `LoopFails` are what the code makes of its return value,
  which is negative for a truncated file and after `pcap_breakloop`, so that a broken
  loop leaves no map. `MCTcpFlowMap`: the segments of small files.
- `EndpointClaims`: what comments of the source claim and the code does not do.
- `TcpTimerProofs`, `TcpSacksProofs`, `TcpEndpointProofs`, `TcpFlowMapProofs`,
  `CapturedPacketProofs`, `DelayAnalysisProofs`: the theorems. They rest on two modules of
  lemmas: `CaptureLemmas` (sets of positions and their first, last and largest; induction over
  them; what the operations on lists of blocks return) and `Walks` (a loop over positions as a
  function, instantiated once for each loop with its round). `Walks` takes the induction
  over positions as a hypothesis, `OneMoreSuffices`, which each instance gets from
  `CaptureLemmas` (`OneMoreAtTheEnd`): its sixteen instances would otherwise each repeat the
  library that the induction is proved from.

Operators named `X_fault` are faulty variants of `X` that stand in front of it. The
models never use them; exchanging one for `X` shows that a property notices the fault.

Left out of `TcpEndpoint` because nothing reads it back but the output: relative
sequence and ACK numbers, the number of data packets, next and previous packet
pointers. `num_rtos_` is a number here and a byte in the code; no bounded capture
reaches 256 timeouts in a row. A coalesced packet is a run of single steps without
time between them, which is what `SplitIntoWirePackets` makes of it.

## Runs

| run | what it shows | bounds |
|---|---|---|
| `sack_list` | type, order and apartness of the blocks, byte count after trimming, the bytes held against those handed in, refinement of `SackedBytes` | space of 10, blocks from 1 below to 2 above the ACK, all positions in the space; two blocks per option, so insertion before, between, behind, containment, touching, and the wrap all happen |
| `rtt_estimator` | non-negative (`TypeOK`), ordered, bounded, seeded for good | RTTs 0, 1, 5: zero erodes the estimate, 1 rounds, 5 makes it jump both ways |
| `captures` | types, timers against packets in flight, recovery mark, triggers, final ACKs, minimum RTT, lines and their counts, byte counts, revision of verdicts, bogus only with cause | eight scenarios, 438 thousand states: timeouts (gaps 1, 4, 8 and 12 that meet and miss RTO and TLP; timeout, probe, second timeout, undo), one packet sent up to four times with cut ACKs between, SACKs and DSACKs, ties to cut ACKs with two and with three packets in flight (up to seven packets), a handshake with a FIN across the wrap, a capture that begins midway with data retransmitted whole, cut and shifted; data in both directions, where the other endpoint writes triggers of its own |
| `capture_file` | packets against flows and endpoints, the choice of segment sizes, splitting, the stop at a bogus sender | five packets out of nine segments: a handshake with and without timestamps, data of either side, a second connection that shares an address and a socket with the first. Segment sizes 2 to 4, data of 1 (too small), 3 (one segment), 7 (no multiple) and 8 (several); a word of 32, and announcements smaller than the timestamps take, so that the unsigned difference wraps, and equal to it, so that nothing is left |
| `delay_analysis` | the sample list against the estimator, queue-free estimates against the samples of their packet, the sum of the parts, propagation against the whole, when the recursion may not end, the reported buffer, repeated calls | three scripts of 8 to 11 packets (a loss repaired by SACK, probe or timeout; a recovery with data cut anew; ties in retrospect), each of whose packets is one of several after one of several gaps, ended after any packet; space of 64, words of 1024, so that a difference below zero shows; 13 thousand states |
| `captured_packet` | cut headers are not bogus, options as far as captured, unknown bytes, no SACK overlooked, the parser ends | every list of up to four options out of six kinds that fills whole words, lists of up to three with wrong sizes, an end of options and unknown kinds, headers with each wrong field, other link types; every captured length from 0 on; padding; 292 thousand states |

The endpoint runs use 16 sequence numbers, so that comparisons hold for distances
below 7, and timer constants in the code's proportions (granularity, minimum RTO,
maximum a few back-offs away). Captures end at their bound, an endpoint that was given
up takes no further step, a file that was read stays read, an analysis that never returns
stays where it is, and a packet is parsed once, so deadlock is not checked there.

What `DelayAnalysis` idealises: doubles are exact fractions (a fit over a common
denominator, a correlation as its square, since only its size against a limit and against
others counts and its sign is that of the slope); `NumSamples` is 4 for 60, `WordSize` 1024
for 2^32, `RateUnit` 8 for 8 000 000. Endpoints handle the pieces of a coalesced packet as
packets of their own, and the pieces, but not a packet that was left whole, have index 0 in
the code: `IsCopy` takes adjoining data without time in between for such pieces. The
recursion of `GetTriggerDelay` is a recursive function of the number of calls, cut off at a
depth that no recursion reaches that ends: it can pass each packet of the capture once.
No module declares a RECURSIVE operator, so that theorems can be stated of all of them.

`PropagationWithin` has a premise: an original among the packets looked at has its ACK, and no
original was acked without delay (`min_rtt_us_` 0 stands for not set). Without such an
original `min_rtt_us_` comes from packets that the call leaves out and may exceed the overall delay,
although `test_latency.cc:29` expects it to be a part of that. `DelaysAddUp` says when the parts
add up, which takes in that the overall delay fits in a word. `EstimatesUpToDate` is an action
property, of the call that makes the estimates, as a later `AnalyzeTailLatency` may replace the
fit that they rest on; it speaks of samples that came in the order of their ACKs (`InAckOrder`)
and not of those that a late tie put out of order. `RepeatedCallsAgree` is about the same limit
twice, as the tool calls it, not about limits that change. `AnalysisTypeOK` would hold of a difference that
wrapped as well, which is natural, too: `PartsWithinOverall` is what sees one.

The captures that are analyzed carry data in one direction (`OneWay`): the triggers that the
analysis follows are those this endpoint has found. With data in both directions a
retransmission may have a packet of the other endpoint as its trigger, and `GetQueueingDelay` and
`GetTriggerDelay` go on with that packet's delays and line, which are the other endpoint's. Neither the run
nor the theorems speak of this; in particular `EndlessOnlyIntoLaterLine` does not say that the
recursion ends there.

Mutants: each property is accompanied in `PROJECT.json` by a faulty operator under
which its run fails.

### Where the comments and the code disagree

Six runs are expected to find a violation; each checks one sentence of the source.

- `fin_claim`: `is_bogus_` reports a corrupted capture (`tcp_endpoint.h:303`). The ACK of
  a FIN sets it too, as `seq_next_` never counts the FIN: data, its FIN, the ACK of both.
- `backoff_claim`: `num_rtos_` counts timeouts "without any ACKs"
  (`tcp_endpoint.h:254`), but the ACK that ends the series arms its timer before it
  resets the count.
- `adjust_claim`: unacked byte counts "need to be corrected" after a tie
  (`tcp_endpoint.cc:210`); they are raised, where a SACK lowers them, and for all packets.
- `endless_claim`: `GetTriggerDelay` works "backwards towards the first transmission"
  (`delay_analysis.cc:351`). A timeout retransmits the first half of a lost packet and its
  ACK triggers the other half: the first transmission of the trigger is the packet itself,
  and the recursion never ends. `EndlessOnlyIntoLaterLine` shows that this is the only way
  with data in one direction.
- `delays_claim`: "delay combinations cannot exceed overall delay"
  (`delay_analysis.cc:179`, `test_latency.cc:28`). Queue-free timeouts of a probe and a
  timeout add up to more than the loss delay; the difference is taken from the trigger
  delay, which wraps below zero. `DelaysAddUp` says when the parts are right.
- `padding_claim`: bogus are "packets with invalid header settings" (`tcp_packet.h:172`).
  The option loop runs to the end of what was captured and not of the options: the two
  zeros that pad the frame of a received packet with nothing but a segment size are an
  option of no size, and the packet is dropped.

Read off the code on the way, without a run: `num_bytes_` is the "number of bytes covered by
the stored SACK blocks" (`tcp_sacks.h:61`), but a block appended behind the others is not
counted until the next operation (`tcp_sacks.cc:60`), so that data sent between a tie and the next
ACK notes too many unacked bytes (`tcp_endpoint.cc:86`). The model keeps this; `SettledNumBytes` is about the
count after an update that trims and says nothing of this window. After a second timeout, "the first retransmission
was not caused by a TLP" (`tcp_endpoint.cc:353`), but the probe mark is taken from the packet
that armed the timer: with a tie and a probe between the timeouts that is the probe, which is
left without a cause, and the first retransmission keeps both marks. A slow-start retransmission counts as one
of unknown cause (`tcp_packet.h:158`). ACK delays are said to leave out "preliminary ACKing by a
SACK block" (`tcp_packet.h:231-233`, `tcp_endpoint.h:100-101`), but a SACK block acks a packet like an
ACK does (`tcp_endpoint.cc:541`, as `tcp_endpoint.h:222` says), and the delay is that of the SACK: so
it is in the model, in `AckIsFinal` and in `MinRTTIsMin`. `unknown_option_size_` "captures
the bytes about which we don't know anything (i.e. not even the option kind)"
(`tcp_packet.h:202-204`), but the code counts from the first option on of which kind *and* size
were not both captured, that option whole: `UnknownFromFirstCut` states what the code does, against this
comment, as SACK lookalikes are judged by that number. "Trigger data -> trigger ACK -> retransmission"
(`tcp_endpoint.cc:370`) is broken by data in both directions: a retransmission that acks new
data of the other endpoint has its trigger overwritten by a packet of that one
(`tcp_endpoint.cc:526`), which acked nothing here and which the delay analysis then follows as if it had
triggered the retransmission. `TriggerSound` says that this is the only way. An end of options is given a size (`tcp_packet.cc:116`). An IP header with
options hides the TCP header (`ip_packet.cc:16` takes off 20 bytes). A TCP header of which
less than 20 bytes were captured is neither bogus nor parsed (`tcp_packet.cc:14`).
`GetTimerEstimates` uses a fit that the analysis has found too weak, and after a call with
another limit `Clear` has left timeouts that rest on the earlier fit (`delay_analysis.cc:21`).

## Fairness and liveness

The program consumes a finite file once; nothing in it waits, retries or schedules. The one
thing that must happen eventually is that the parser gets to the end of a packet, whose
bytes decide how far each turn of its loop goes: `Parsed` of `captured_packet`, under
`WF_packetVars(CapturedNext)`. The code justifies this fairness as sequential code does: a
loop that can go on is executed, and nothing it waits for can fail to come. That the
analysis returns is a safety property here (`EndlessOnlyIntoLaterLine`), as a call is one
step and one that does not return leaves a phase of its own. No other run assumes fairness.

## Proofs

`TcpTimerProofs` (every set of RTTs, every value of the timer's constants, every
sequence space): `TypeCorrect`, `VariationOrdered`, `EstimatesBounded` and
`SeededForGood` for all behaviours of `TcpTimer`. The inductive invariant joins the
type with two facts none of the properties has: a seeded smoothed RTT is at least 7
(eighths), since a sample of zero takes away an eighth rounded down, and all four
estimates lie within what the largest sample allows. `MeanDevUpdate` is the heart:
the signed step neither passes zero nor the range. Assumed: `TimerAssumption`,
`SamplesAssumption`, `SpaceSizeAssumption`, all checked by TLC where the modules run.

`TcpSacksProofs` proves all that the run `sack_list` checks, for a sequence space and lists
of any size, under `WindowAssumption`: all blocks lie in a window around the ACK that is
smaller than half of the space, as in TCP. Within it `After` is an order (`Offsets`): a
number is replaced by its distance from the start of the window, comparisons by those of
distances, touching by `Touching`, the bytes of a block by an interval (`RangeOf`). The
inductive invariant `ListInv` joins the properties with `Sorted`: the blocks lie in the
window and rise in it, each ending before the next one starts. `SortedAndApart` alone is
not inductive: in a space that wraps, numbers that are pairwise in order say nothing about a
third one. `WindowMoves` shows that an ACK may take the window along, since what it leaves
behind is trimmed in the same step.

| theorem | of | what it rests on |
|---|---|---|
| `ListTyped`, `BlocksStayApart` | `TypeOK`, `SortedAndApart` | `MergeSound`: merging rising blocks, of which at most one is out of place, yields blocks apart; `Merge` is followed as a walk over the list (`CaptureLemmas`) |
| `NothingLostOrInvented` | `HoldsWhatWasAdded` | `AddSound`, `AddAllSound`, `ParseSound`, `RemoveAckedSound`: each operation has the bytes it should |
| `CountIsExact` | `SettledNumBytes` | `BytesOfList`: the sum of the lengths of blocks that are apart is the number of their bytes |
| `ListImplementsBytes` | `ImplementsSackedBytes` | the refinement: each call of the list is that call on the set of bytes |

The endpoint theorems hold for every set of packets and ACKs that `InputAssumption`
admits, every length of the capture, every gap and every value of the timer's constants.
A step is a fold over the packets in flight or over the cut ACKs, several levels deep.
Where a property needs only what a fold *keeps*, as the first six, the proofs leave
folds and recursive functions closed and follow what each level keeps. Where it depends on
what a fold *finds*, as the last six, they open it: `Walks` turns a fold in ascending order
into a *walk*, a function on the subsets of the positions with one equation for each last
member (`IsWalk`), and a fact about it is proved by induction on the last position.
`Captured` says how the capture grows with a step, `StepCases` splits a step.

| theorem | of | inductive invariant |
|---|---|---|
| `TimersFollow` | `TimersFollowUnacked` | `TimerInv`: the property, joined by what the steps need to update a timer at all, that the capture is a sequence of packets and both timers are records. Each branch ends in arming, disarming, or neither with the flight as it was |
| `AckedExactlyOnce`, `AcksAreFinal` | `AckedOnce`, `AckIsFinal` | `AckInv`: adds that what is in flight is part of the capture and has no ACK. The property alone does not say that the packet an ACK is given to has none yet |
| `LinesConsistent` | `LinesOK` | `LinesInv`: adds that all links lead into the capture and that only sent packets repeat others: a link beyond the end would meet the next packet, and `LinkToPreviousTx`, which overwrites links, would find it linked already |
| `MarkFollowsData`, `BytesAreCounted` | `RecoveryMark`, `BytesCounted` | `SequenceInv`: adds `Turns`, the count as whole turns of the space and a rest, which replaces modular arithmetic by a witness |
| `TriggersAreSound` | `TriggerSound` | `TriggerInv` on top of `AckInv` and `CaptureInv`: what this endpoint sets is sound (`TriggerLinks`), lookalikes and `last_ack_with_trigger_` are received packets in the capture, packets in flight sent ones, and times rise. `TiesSound` says which packets a round of ties acks, `EstimatesSound` which one is the trigger of the ACK. `PeerInv`: what the other endpoint sets are its own packets, found before; `SettledInv`: an ACK that settled something has a trigger of this endpoint, so that what the other one set gives way to it (`SharedStart` to begin with) |
| `MinRTTIsSmallest` | `MinRTTIsMin` | `MinInv`: adds that a packet with an ACK has its delay. `LeastOf` follows the minimum through both walks |
| `VerdictsAreFinal` | `VerdictRevised` | `VerdictInv`: the marks are there for each packet, the timer was armed by one of the capture, and ACKs carry no probe mark. `TriggerExplains` goes through `FindRtxTrigger`, `UndoExplains` through the second call of `CheckForRTO` |
| `AttemptsAreCounted` | `AttemptsCounted` | with `LinesInv`: `LineEquation` says what `RtxDelays`, which walks a line back, changes, `LineMembers` that the walk ends at the original that the property counts for |
| `EndpointTyped` | `TypeOK` | `TypesInv` beside `CaptureInv`: the timer's estimates, both timers, every note on a packet and the list of blocks. That a delay is natural needs that times rise and that what is acked was sent before; that the estimates are needs the estimator's own invariant, through every walk that adds samples |
| `BogusIsUnseen` | `BogusMeansUnseen`, for flows in a window | `HighestInv` beside `SequenceInv`: from the start of the window, `seq_next_` is not exceeded by the end of any packet that needs an ACK |

`MarkFollowsData`, `BytesAreCounted` and `BogusIsUnseen` assume `OpensPastZero`: the code takes
sequence number 0 for "not found yet" (`SetInitialSequenceNumbers`, and `rto_high_seq_` 0 for
"no mark"), so a capture that begins at 0 may have its numbers set twice.

`BogusIsUnseen` proves `[](FlowInWindow => BogusMeansUnseen)`. `FlowInWindow` asks that all
numbers sent and acked lie within half of the space from some first one, since `After` is no
order on numbers further apart, that a SYN carries no data (with TCP Fast Open the code,
which counts one number for a SYN and leaves out its data, would find the ACK of that data
beyond `seq_next_`), and that no data comes before the SYN's number. In every capture of the run `captures` this
holds; for captures that take in more than half of the space `BogusMeansUnseen` is neither
checked nor proved.

`TcpFlowMapProofs` (which takes the lemmas on positions from `CaptureLemmas`, and with them a
sequence space it does not use) holds for files of every length with every set of segments that
`FileAssumption` admits, every segment size and word. The inductive invariant `FileInv` adds
three things to `SortedIntoFlows`: no flow has the opposite id of another one (which is what
makes `FlowId` find the flow whichever side sends), both endpoints of a flow are those of its
id and differ, and each packet was sent by one of them; without these a packet could be
added to an endpoint that did not send it. `FlowReady` says that a flow that was prepared for
a packet has its endpoint, `FlowGrown` what adding the packet changes, `FlowIdNamesConnection`
that the id is right, and `FlowRead` joins them for the step.

| theorem | of | what it rests on |
|---|---|---|
| `TypeCorrect`, `EveryPacketIsSorted` | `TypeOK`, `SortedIntoFlows` | `FileInv`; for the sizes `DerivedMSS`: what `DeriveMSS` returns fits a word |
| `BogusFilesAreRejected` | `BogusSenderStops` | the step alone: adding a packet never clears `is_bogus`, an ACK never adds to `wire` |
| `SplittingIsExact` | the operator `SplitIntoWirePackets`, for data and segments of any size | division with rest: all pieces but the last end before the data does, the last one with it |
| `SizesAreThePeers` | `UsesPeersMSS` | `SizesFor` beside `FileInv`: as long as only A has sent, what it announced is kept at the flow and is the same for whichever socket will answer (`OnlyFromA`), since B has none yet; the first packet of B hands both sizes over and from then on nothing is told (`ToldForGood`), only the endpoint's own data may still suggest a size (`ShownGrows`) |
| `SplittingLosesNothing` | `SplitExactly` | `WireOK` beside `FileInv`: the pieces of a packet are a run in what an endpoint sent (`Run`). `NewCut` joins `SplittingIsExact` to the list, `EarlierCuts` keeps the runs before it, as pieces behind them are of a later packet |

`CapturedPacketProofs` holds for every list of options that a header can have
(`HeaderAssumption`: bytes, and options that take at least one), any payload, any frame of
`FrameAssumption` and a capture that ends anywhere. The start of an option is a fold over
those before it; `StartOfNext` and `OptionsInOrder` say that it is where the one before it
ends, so that starts rise. The inductive invariant `ParseInv` says of a well-formed header
how far the loop has come: it stands where an option of the list starts, the ones before it
were known, and the facts are what those say (`Reading`), or it met an option of which one
byte was left (`CutAt`). The properties speak only of a packet that is parsed and are not
inductive: that a place between two options is never looked at follows from the sizes the
sender wrote. `FoundThere` says that the option that starts at the loop's place is the one it
finds, `NextOption` follows one turn, `EndReached` the end. Malformed headers, for which the loop
may be anywhere, are covered by `TypeCorrect` and by the run.

| theorem | of | what it rests on |
|---|---|---|
| `TypeCorrect` | `TypeOK` | `TypeInv`: what is found at any place says bytes (`FoundTyped`), a size beyond the options is refused, and nothing is parsed before the TCP layer |
| `CutsAreNotBogus` | `CutIsNotBogus` | `ParseInv` |
| `OptionsCountAsCaptured` | `OptionsAsCaptured` | `ReadUpTo`, and `BlocksCounted`: dividing the captured bytes by eight counts the blocks that are whole |
| `UnknownStartsAtFirstCut` | `UnknownFromFirstCut` | `ReadUpTo`: the option at which the loop ended is the first of which kind and size were not both captured |
| `SacksAreNotOverlooked` | `SackNotOverlooked` | `ReadUpTo`: an option of unknown size lies behind the place where the loop ended, with its bytes |

`DelayAnalysisProofs` holds for every capture that `InputAssumption` admits with data in one
direction (`OneWay`), every argument, and any number and order of calls. While calls are made nothing is captured, so that what they
compute of a packet or of a list of packets stays the same (`SamePackets` and what follows it);
while packets are captured the results stay as they were. The invariants follow this:
`CapturedInv` is what the endpoint leaves for the analysis (`ReadInv`, which joins the endpoint's
`AckInv`, `CaptureInv`, `TriggerInv`, `LinesInv` and `MinInv`, with `TypesInv`, `LastAckInv`,
`HeardInv` and the types of the samples), `ResultInv` what a call leaves in the object for the
next one. The loops of the analysis are walks like those of the endpoint.

| theorem | of | what it rests on |
|---|---|---|
| `RepetitionAgrees` | `RepeatedCallsAgree` | `CallInv`: after a call the delays are those that its argument gives, now and after whatever `GetTimerEstimates` has changed since. `SameTail`: a fit left by an earlier call is used only if this call finds none, and then the delays are those without a fit (`FitsAsGood`); a table of timeouts is used again only if it is the one this call would make |
| `EndlessMeansLaterLine` | `EndlessOnlyIntoLaterLine` | `ReadInv` alone: `TriggerDelayEnds` follows the recursion; each call moves to a line whose last transmission is earlier, or the property's exception is met, so that there are no more calls than packets |
| `SamplesAreEnough` | `SamplesReplay` | `SampleInv`: replaying the list gives the timer. The endpoint feeds the timer inside the walk over the acked packets, the list is appended from their set: `ReplayWalk` shows that the two take them in the same order |
| `PropagationIsWithin` | `PropagationWithin` | `MinInv`, and `WorstOf` as a maximum: the smallest delay is at most that of the original the premise names, which is at most the worst |
| `AnalysisTyped` | `AnalysisTypeOK` | `CapturedInv`, `ResultInv`: that fits divide by no zero and rise, and that a squared correlation is at most one. `SquaresAdd` proves the inequality of Cauchy and Schwarz for the sums as the code forms them, in integers, by the walk over the samples; `SlopeNeedsVariation` turns it into the two bounds |
| `DelaysCombine` | `DelaysAddUp` | `ConstraintsAddUp` through the three corrections in unsigned words, `CallAddsUp` for a call |
| `PassIsUpToDate` | `EstimatesUpToDate` | `VisitStep`: the one pass over the packets has taken, at each packet, exactly the samples of earlier ACKs (`TakenUpTo`), also when it skipped packets; `EstimatesListed` for the list that is returned |
| `BufferIsSufficient` | `BufferSuffices`, for ACKs in a window | `BufferInv`, and `RoundSuffices`: one round of the loop keeps that the maximum covers every ACK so far but for less than a byte for each, as the balance, what was got and what was rounded down make up for what was consumed (`Consumed`) |

`BufferIsSufficient` proves `[](AcksWithin(worst_packet) => BufferSuffices)`. The loop adds up
distances between ACKs, and these are the distance of the whole only while no two ACKs are half
the space apart: `AcksWithin` asks for a number from which the last ACK before the packet and
those until its own are less than half the space away, as a TCP window guarantees. Every
state that the run `delay_analysis` reaches is of this kind.

Only model-checked: `Parsed`, which is liveness under fairness; the runs that expect a violation,
each of which is a counterexample; the parser on malformed headers beyond its `TypeOK`, about
which no other property says anything; and `BogusMeansUnseen` and `BufferSuffices` without the
premises above, as far as the captures of the runs go.

## Plan

1. Done: sequence arithmetic, SACK list with refinement, estimator with proofs,
   endpoint with its runs and the theorems on timers, ACKs, lines and byte counts.
2. Done: flow, flow map and capture loop (`TcpFlowMap`), with the derivation of segment
   sizes and the splitting that `TcpEndpoint` assumes has happened, and their theorems.
3. Done: delay analysis on finished captures, composed with the endpoint.
4. Done: the layers of a captured packet down to the TCP options.
5. Open: a sender, a network and the capture point composed with `TcpEndpoint`, to say when
   its verdicts are right and not only consistent.
6. Done: theorems on every safety property that a passing run checks: the SACK list with its
   refinement; the endpoint's type, triggers, verdicts, minimum RTT, attempts, and when it is
   declared bogus; segment sizes and splitting; the option parser; the delay analysis.

## Not modelled

- Printing, the CSV line, arguments, hex dumps, the address parser: I/O without state.
- `Cut`, which shortens the bytes of the copies of a coalesced packet: the models keep
  positions and lengths, not bytes. IP headers with options: the code does not handle them.
- `geoiplookup.c`: a third-party command with a changed output format.
- The shell pipeline (`process-ndt-file.sh`, `get-matching-ndt-file.sh`, the Makefiles):
  commands in a row that download, convert and plot files. Their state is the file system;
  what is in the files is made by programs outside of this repository.
- The sample files of `test_latency.cc` and what the test expects of them.
