------------------------------ MODULE SeqSpace ------------------------------
(***************************************************************************)
(* The arithmetic of TCP sequence numbers that the analyzer is built on    *)
(* (tcp_util in util.cc).  Sequence numbers are unsigned machine words; the *)
(* code has 2^32 of them, a model has SpaceSize, and every comparison below is *)
(* the code's comparison with 0x7FFFFFFF written as SpaceSize \div 2 - 1.      *)
(* X_fault is a faulty variant of X that only serves to test the properties. *)
(***************************************************************************)
EXTENDS Integers

CONSTANT SpaceSize    \* number of sequence numbers (2^32 in the code)

ASSUME SpaceSizeAssumption ==
    /\ SpaceSize \in Nat
    /\ SpaceSize > 6
    /\ \E h \in 0 .. SpaceSize : SpaceSize = 2 * h

SeqNum == 0 .. SpaceSize - 1

\* 2^31 and 0x7FFFFFFF.
HalfSpace == SpaceSize \div 2
MaxForward == HalfSpace - 1

\* uint32_t addition and subtraction; both operands are sequence numbers.
SeqPlus(a, d) == IF a + d < SpaceSize THEN a + d ELSE a + d - SpaceSize
SeqMinus(a, b) == IF a >= b THEN a - b ELSE a - b + SpaceSize

-----------------------------------------------------------------------------
After(first, second) ==
    \/ first > second /\ first - second < MaxForward
    \/ first < second /\ second - first > MaxForward

Before(first, second) == After(second, first)

Between(middle, first, second) ==
    Before(first, middle) /\ After(second, middle)

RangeIncluded(first_start, first_end, second_start, second_end) ==
    /\ first_start = second_start \/ Between(first_start, second_start, second_end)
    /\ first_end = second_end \/ Between(first_end, second_start, second_end)

\* Ranges that only touch (right_a = left_b) overlap as well.
Overlaps_inside_only(left_a, right_a, left_b, right_b) ==
    Before(left_a, right_b) /\ Before(left_b, right_a)

Overlaps(left_a, right_a, left_b, right_b) ==
    ~After(left_a, right_b) /\ ~After(left_b, right_a)
=============================================================================
