------------------------------- MODULE SackOps ------------------------------
(***************************************************************************)
(* The operations of TcpSacks (tcp_sacks.cc) on one list of SACK blocks.   *)
(* The same class keeps the blocks of one captured header and, in an        *)
(* endpoint, everything the receiver has SACKed so far.  A list is          *)
(*   [blocks |-> sequence of [start, end], num_bytes |-> cached byte count] *)
(* with half-open blocks.                                                   *)
(* X_fault is a faulty variant of X that only serves to test the properties. *)
(***************************************************************************)
EXTENDS SeqSpace, SequencesExt

Block == [start : SeqNum, end : SeqNum]

EmptySacks == [blocks |-> << >>, num_bytes |-> 0]

BlockBytes(b) == SeqMinus(b.end, b.start)

NumBytes(blocks) == FoldLeft(LAMBDA sum, b : sum + BlockBytes(b), 0, blocks)

UpdateNumBytes(blocks) == [blocks |-> blocks, num_bytes |-> NumBytes(blocks)]

\* The list walk of Merge: a block that overlaps the last kept one extends it.
Extend_takes_later_end(kept, b) ==
    LET last == kept[Len(kept)]
    IN  [kept EXCEPT ![Len(kept)] =
           [start |-> IF Before(b.start, last.start) THEN b.start ELSE last.start,
            end   |-> b.end]]

Extend(kept, b) ==
    LET last == kept[Len(kept)]
    IN  [kept EXCEPT ![Len(kept)] =
           [start |-> IF Before(b.start, last.start) THEN b.start ELSE last.start,
            end   |-> IF After(b.end, last.end) THEN b.end ELSE last.end]]

Merge(blocks) ==
    FoldLeft(LAMBDA kept, b :
                IF kept # << >> /\ Overlaps(kept[Len(kept)].start, kept[Len(kept)].end,
                                            b.start, b.end)
                THEN Extend(kept, b) ELSE Append(kept, b),
             << >>, blocks)

\* The first block that the new one precedes or overlaps; 0 if there is none.
InsertPosition(blocks, new) ==
    SelectInSeq(blocks, LAMBDA b : \/ Before(new.end, b.start)
                                   \/ Overlaps(b.start, b.end, new.start, new.end))

\* Appending at the end leaves num_bytes as it was: the code returns from both
\* inserting branches through UpdateNumBytes, from push_back without it.
Add(sacks, new) ==
    LET pos == InsertPosition(sacks.blocks, new)
    IN  IF pos = 0 THEN [sacks EXCEPT !.blocks = Append(@, new)]
        ELSE LET inserted == InsertAt(sacks.blocks, pos, new)
             IN  IF Before(new.end, sacks.blocks[pos].start)
                 THEN UpdateNumBytes(inserted)
                 ELSE UpdateNumBytes(Merge(inserted))

AddAll(sacks, news) == FoldLeft(Add, sacks, news)

\* Drops the blocks at the front that end at or before the ACK number and cuts
\* the first one that survives.
RemoveAcked_stale_count(sacks, seq_acked) ==
    LET first == SelectInSeq(sacks.blocks, LAMBDA b : After(b.end, seq_acked))
        rest  == SubSeq(sacks.blocks, first, Len(sacks.blocks))
    IN  IF first = 0 THEN EmptySacks
        ELSE [sacks EXCEPT !.blocks = IF Before(rest[1].start, seq_acked)
                                      THEN [rest EXCEPT ![1].start = seq_acked] ELSE rest]

RemoveAcked_by_start(sacks, seq_acked) ==
    LET first == SelectInSeq(sacks.blocks, LAMBDA b : ~Before(b.start, seq_acked))
    IN  IF first = 0 THEN EmptySacks
        ELSE UpdateNumBytes(SubSeq(sacks.blocks, first, Len(sacks.blocks)))

RemoveAcked(sacks, seq_acked) ==
    LET first == SelectInSeq(sacks.blocks, LAMBDA b : After(b.end, seq_acked))
        rest  == SubSeq(sacks.blocks, first, Len(sacks.blocks))
    IN  IF first = 0 THEN EmptySacks
        ELSE UpdateNumBytes(IF Before(rest[1].start, seq_acked)
                            THEN [rest EXCEPT ![1].start = seq_acked] ELSE rest)

\* Parse of a header option whose captured part holds these blocks.
ParseBlocks(captured) ==
    UpdateNumBytes(Merge(AddAll(EmptySacks, captured).blocks))
=============================================================================
