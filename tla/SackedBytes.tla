------------------------------ MODULE SackedBytes ----------------------------
(***************************************************************************)
(* What a TcpSacks list promises its owner, without lists: the set of bytes *)
(* above the cumulative ACK that the receiver is known to hold.  Ranges are *)
(* added whole, an advancing ACK takes away what precedes it, and a list    *)
(* that is parsed anew starts over with the ranges of one header option.    *)
(***************************************************************************)
EXTENDS SeqSpace, FiniteSets

CONSTANTS MaxSpan,     \* longest range that is added
          MaxRanges    \* most ranges in one header option

VARIABLES covered,     \* the bytes
          acked,       \* the cumulative ACK
          call         \* what happened last

Bytes(start, len) == { SeqPlus(start, d) : d \in 0 .. len - 1 }

Ranges == { Bytes(s, len) : s \in SeqNum, len \in 0 .. MaxSpan }

\* The number of maximal ranges in a set of bytes.
Runs(bytes) == Cardinality({ s \in bytes : SeqMinus(s, 1) \notin bytes })

Init == covered = {} /\ acked \in SeqNum /\ call = "none"

StartOver ==
    /\ call' = "Parse"
    /\ covered' \in SUBSET SeqNum
    /\ Runs(covered') <= MaxRanges
    /\ UNCHANGED acked

Refuse ==
    /\ call' = "refused"
    /\ covered' = {}
    /\ UNCHANGED acked

AddRange(range) ==
    /\ call' = "Add"
    /\ covered' = covered \cup range
    /\ UNCHANGED acked

\* Nothing that is not yet acked is lost, and what the ACK itself brings are a
\* few ranges.
Advance(to) ==
    LET kept == { s \in covered : ~Before(s, to) }
    IN  /\ call' = "RemoveAcked"
        /\ ~Before(to, acked)
        /\ covered' \in SUBSET SeqNum
        /\ kept \subseteq covered'
        /\ \A s \in covered' : ~Before(s, to)
        /\ Runs(covered') <= Runs(kept) + MaxRanges
        /\ acked' = to

Next ==
    \/ StartOver \/ Refuse
    \/ \E range \in Ranges : AddRange(range)
    \/ \E to \in SeqNum : Advance(to)

Spec == Init /\ [][Next]_<<covered, acked, call>>
=============================================================================
