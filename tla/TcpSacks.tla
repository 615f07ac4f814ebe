------------------------------- MODULE TcpSacks ------------------------------
(***************************************************************************)
(* A TcpSacks object over its life, as its owners drive it: a header's list *)
(* is filled by Parse, an endpoint's list by Add (the blocks of an ACK, or  *)
(* one block for a packet tied to a SACK lookalike) and trimmed by          *)
(* RemoveAcked as the cumulative ACK advances.                              *)
(*                                                                         *)
(* The module promises nothing for blocks spread over more than half of the *)
(* sequence space, where After and Before are not an order; Behind and      *)
(* Ahead bound how far a block may lie from the cumulative ACK, as a TCP    *)
(* window does.                                                            *)
(* X_fault is a faulty variant of X that only serves to test the properties. *)
(***************************************************************************)
EXTENDS SackOps, FiniteSets, SequencesExt

CONSTANTS Behind,     \* how far below the ACK number a (D)SACK block may start
          Ahead,      \* how far above it a block may end
          MaxCaptured \* bound: SACK blocks captured of one header

ASSUME WindowAssumption ==
    /\ Behind \in Nat /\ Ahead \in Nat /\ MaxCaptured \in Nat
    /\ Behind + Ahead < MaxForward

VARIABLES sacks,        \* sacks_ and num_bytes_
          num_sacks,    \* num_sacks_: as announced by the parsed option
          seq_acked,    \* the cumulative ACK of the list's owner
          last_call,    \* the last call that changed the list
          held          \* history: the bytes handed to the list and not acked

vars == <<sacks, num_sacks, seq_acked, last_call, held>>

WindowStart == SeqMinus(seq_acked, Behind)

\* Blocks of the window around the cumulative ACK; an empty one is what a tied
\* SYN adds.
WindowBlocks ==
    { [start |-> SeqPlus(WindowStart, d[1]), end |-> SeqPlus(WindowStart, d[2])] :
        d \in { e \in (0 .. Behind + Ahead) \X (0 .. Behind + Ahead) : e[1] <= e[2] } }

BlockRange(b) == { SeqPlus(b.start, d) : d \in 0 .. BlockBytes(b) - 1 }

\* The bytes a list stands for.
Covered(blocks) == UNION { BlockRange(blocks[i]) : i \in DOMAIN blocks }

Init ==
    /\ sacks = EmptySacks
    /\ num_sacks = 0
    /\ seq_acked \in SeqNum
    /\ last_call = "none"
    /\ held = {}

\* An option of opt_size bytes of which the snap length kept some whole blocks.
\* A size that cannot hold whole blocks, or more than four, is refused after the
\* list was cleared; an option whose size byte was cut off leaves it empty.
Parse_any_size(opt_size, captured) ==
    /\ Len(captured) * 8 + 2 <= opt_size
    /\ sacks' = ParseBlocks(captured)
    /\ num_sacks' = (opt_size - 2) \div 8
    /\ last_call' = "Parse"
    /\ held' = Covered(captured)
    /\ UNCHANGED seq_acked

Parse(opt_size, captured) ==
    /\ Len(captured) * 8 + 2 <= opt_size
    /\ IF opt_size % 8 = 2 /\ opt_size <= 40
       THEN /\ sacks' = ParseBlocks(captured)
            /\ num_sacks' = (opt_size - 2) \div 8
            /\ last_call' = "Parse"
            /\ held' = Covered(captured)
       ELSE \* num_bytes_ keeps its value: only sacks_ and num_sacks_ are reset
            /\ sacks' = [sacks EXCEPT !.blocks = << >>]
            /\ num_sacks' = 0
            /\ last_call' = "refused"
            /\ held' = {}
    /\ UNCHANGED seq_acked

AddBlock(new) ==
    /\ sacks' = Add(sacks, new)
    /\ last_call' = "Add"
    /\ held' = held \cup BlockRange(new)
    /\ UNCHANGED <<num_sacks, seq_acked>>

\* What ProcessAck does with the list: the blocks of the ACK are added, then
\* everything the (possibly advanced) ACK number covers is removed.
AddAndRemoveAcked(news, acked) ==
    /\ sacks' = RemoveAcked(AddAll(sacks, news), acked)
    /\ seq_acked' = acked
    /\ last_call' = "RemoveAcked"
    /\ held' = { s \in held \cup Covered(news) : ~Before(s, acked) }
    /\ UNCHANGED num_sacks

Next ==
    \/ \E opt_size \in {10, 18}, captured \in SeqOf(WindowBlocks, MaxCaptured) :
          Parse(opt_size, captured)
    \/ \E opt_size \in {13, 42} : Parse(opt_size, << >>)
    \/ \E new \in WindowBlocks : AddBlock(new)
    \/ \E news \in SeqOf(WindowBlocks, MaxCaptured), d \in 0 .. Ahead :
          AddAndRemoveAcked(news, SeqPlus(seq_acked, d))

Spec == Init /\ [][Next]_vars

-----------------------------------------------------------------------------
TypeOK ==
    /\ sacks.blocks \in Seq(Block) /\ sacks.num_bytes \in Nat
    /\ num_sacks \in 0 .. 4
    /\ seq_acked \in SeqNum
    /\ held \subseteq SeqNum

(***************************************************************************)
(* Blocks stay in sequence order, disjoint and not even touching, however   *)
(* Add, Merge and RemoveAcked interleave and wherever the numbers wrap.     *)
(* IsSacked and RemoveAcked both rely on it: one looks for a single block   *)
(* that holds a packet, the other stops at the first block it keeps.        *)
(***************************************************************************)
SortedAndApart ==
    \A i, j \in DOMAIN sacks.blocks :
        i < j => Before(sacks.blocks[i].end, sacks.blocks[j].start)

(***************************************************************************)
(* Once a list was parsed, or trimmed by ProcessAck, num_bytes_ is the      *)
(* number of bytes its blocks cover, each counted once: GetUnackedBytes     *)
(* subtracts it from the bytes in flight.                                  *)
(***************************************************************************)
SettledNumBytes ==
    last_call \in {"Parse", "RemoveAcked"}
        => sacks.num_bytes = Cardinality(Covered(sacks.blocks))

(***************************************************************************)
(* Whatever the order and the overlap of the blocks, the list stands for    *)
(* exactly the bytes of the blocks it was given that are not acked yet: no  *)
(* merge loses a byte and none invents one.                                *)
(***************************************************************************)
HoldsWhatWasAdded == Covered(sacks.blocks) = held

(***************************************************************************)
(* The list implements SackedBytes: an addition adds one range to the set   *)
(* of bytes, and an advancing ACK takes away what it has passed and no       *)
(* more.                                                                   *)
(***************************************************************************)
Abstract == INSTANCE SackedBytes WITH covered   <- Covered(sacks.blocks),
                                      acked     <- seq_acked,
                                      call      <- last_call,
                                      MaxSpan   <- Behind + Ahead,
                                      MaxRanges <- MaxCaptured

ImplementsSackedBytes == Abstract!Spec
=============================================================================
