--------------------------- MODULE TcpSacksProofs ---------------------------
(***************************************************************************)
(* Proofs about the list of SACK blocks: for windows of any width in a       *)
(* sequence space of any size, wherever the numbers wrap, and for headers    *)
(* with any number of blocks.                                              *)
(*                                                                         *)
(* A block is placed by the distances of its ends from some number w that   *)
(* no block precedes.  Within the window, After compares these distances.   *)
(***************************************************************************)
EXTENDS TcpSacks, CaptureLemmas, FunctionTheorems

Span == Behind + Ahead

Offset(w, s) == SeqMinus(s, w)
From(w, b) == Offset(w, b.start)
To(w, b) == Offset(w, b.end)

Within(w, b) == b \in Block /\ From(w, b) <= To(w, b) /\ To(w, b) <= Span

-----------------------------------------------------------------------------
(***************************************************************************)
(* Blocks of a window: their order, how they overlap, and their bytes.      *)
(***************************************************************************)
LEMMA Offsets ==
    ASSUME NEW w \in SeqNum, NEW a \in SeqNum, NEW b \in SeqNum,
           Offset(w, a) <= Span, Offset(w, b) <= Span
    PROVE  /\ Offset(w, a) \in Nat /\ Offset(w, b) \in Nat
           /\ After(a, b) <=> Offset(w, a) > Offset(w, b)
<1>1. PICK h \in Nat : SpaceSize = 2 * h
  BY SpaceSizeAssumption
<1>2. MaxForward = h - 1
  BY <1>1 DEF MaxForward, HalfSpace
<1>3. Span < h - 1 /\ Span \in Nat
  BY <1>1, <1>2, WindowAssumption DEF Span
<1> HIDE DEF MaxForward
<1> QED BY <1>1, <1>2, <1>3 DEF Offset, SeqMinus, SeqNum, After

LEMMA Placed ==
    ASSUME NEW w \in SeqNum, NEW b, Within(w, b)
    PROVE  /\ From(w, b) \in Nat /\ To(w, b) \in Nat
           /\ From(w, b) <= To(w, b) /\ To(w, b) <= Span
           /\ b.start \in SeqNum /\ b.end \in SeqNum
<1>1. b.start \in SeqNum /\ b.end \in SeqNum
  BY DEF Within, Block
<1>2. From(w, b) \in Nat /\ To(w, b) \in Nat
  BY <1>1, SpaceSizeAssumption DEF From, To, Offset, SeqMinus, SeqNum
<1> QED BY <1>1, <1>2 DEF Within

LEMMA Touching ==
    ASSUME NEW w \in SeqNum, NEW a, Within(w, a), NEW b, Within(w, b)
    PROVE  /\ Overlaps(a.start, a.end, b.start, b.end)
                <=> From(w, a) <= To(w, b) /\ From(w, b) <= To(w, a)
           /\ Before(a.end, b.start) <=> To(w, a) < From(w, b)
           /\ Before(b.start, a.start) <=> From(w, b) < From(w, a)
           /\ After(b.end, a.end) <=> To(w, b) > To(w, a)
<1>1. /\ From(w, a) \in Nat /\ To(w, a) \in Nat /\ From(w, a) <= Span /\ To(w, a) <= Span
      /\ From(w, b) \in Nat /\ To(w, b) \in Nat /\ From(w, b) <= Span /\ To(w, b) <= Span
      /\ a.start \in SeqNum /\ a.end \in SeqNum /\ b.start \in SeqNum /\ b.end \in SeqNum
      /\ Span \in Nat
  BY Placed, WindowAssumption DEF Span
<1>2. /\ After(a.start, b.end) <=> From(w, a) > To(w, b)
      /\ After(b.start, a.end) <=> From(w, b) > To(w, a)
      /\ After(a.start, b.start) <=> From(w, a) > From(w, b)
      /\ After(b.end, a.end) <=> To(w, b) > To(w, a)
  BY ONLY <1>1, Offsets, w \in SeqNum DEF From, To
<1> QED BY <1>1, <1>2 DEF Overlaps, Before

\* The bytes of a block are those between its ends.
LEMMA RangeOf ==
    ASSUME NEW w \in SeqNum, NEW b, Within(w, b)
    PROVE  BlockRange(b) = { s \in SeqNum : From(w, b) <= Offset(w, s) /\ Offset(w, s) < To(w, b) }
<1>1. /\ From(w, b) \in Nat /\ To(w, b) \in Nat
      /\ From(w, b) <= To(w, b) /\ To(w, b) <= Span
      /\ b.start \in SeqNum /\ b.end \in SeqNum
  BY Placed
<1>2. Span \in Nat /\ Span < SpaceSize /\ SpaceSize \in Nat
  BY SpaceSizeAssumption, WindowAssumption DEF Span, MaxForward, HalfSpace
<1>3. BlockBytes(b) = To(w, b) - From(w, b)
  BY <1>1, <1>2 DEF BlockBytes, From, To, Offset, SeqMinus, SeqNum
<1>4. ASSUME NEW d \in 0 .. BlockBytes(b) - 1
      PROVE  /\ SeqPlus(b.start, d) \in SeqNum
             /\ Offset(w, SeqPlus(b.start, d)) = From(w, b) + d
  BY <1>1, <1>2, <1>3 DEF SeqPlus, Offset, From, SeqMinus, SeqNum
<1>5. ASSUME NEW s \in SeqNum, From(w, b) <= Offset(w, s), Offset(w, s) < To(w, b)
      PROVE  \E d \in 0 .. BlockBytes(b) - 1 : s = SeqPlus(b.start, d)
  <2> DEFINE d == Offset(w, s) - From(w, b)
  <2>1. Offset(w, s) \in Nat
    BY <1>2 DEF Offset, SeqMinus, SeqNum
  <2>2. d \in 0 .. BlockBytes(b) - 1
    BY <1>1, <1>3, <1>5, <2>1
  <2>3. s = SeqPlus(b.start, d)
    <3>1. /\ s \in Nat /\ s < SpaceSize /\ w \in Nat /\ w < SpaceSize
          /\ b.start \in Nat /\ b.start < SpaceSize
      BY <1>1, <1>2 DEF SeqNum
    <3>2. /\ Offset(w, s) = IF s >= w THEN s - w ELSE s - w + SpaceSize
          /\ From(w, b) = IF b.start >= w THEN b.start - w ELSE b.start - w + SpaceSize
      BY DEF Offset, From, SeqMinus
    <3>3. b.start + d = s \/ b.start + d = s + SpaceSize
      BY <1>2, <1>5, <3>1, <3>2
    <3>4. d \in Int
      BY <2>2
    <3> HIDE DEF d
    <3> QED BY <1>2, <3>1, <3>3, <3>4 DEF SeqPlus
  <2> QED BY <2>2, <2>3
<1>6. \A d \in 0 .. BlockBytes(b) - 1 : From(w, b) + d < To(w, b) /\ From(w, b) <= From(w, b) + d
  BY <1>1, <1>3
<1> HIDE DEF BlockBytes
<1>7. ASSUME NEW s
      PROVE  s \in BlockRange(b) <=>
                s \in SeqNum /\ From(w, b) <= Offset(w, s) /\ Offset(w, s) < To(w, b)
  <2>1. ASSUME s \in BlockRange(b)
        PROVE  s \in SeqNum /\ From(w, b) <= Offset(w, s) /\ Offset(w, s) < To(w, b)
    <3>1. PICK d \in 0 .. BlockBytes(b) - 1 : s = SeqPlus(b.start, d)
      BY <2>1 DEF BlockRange
    <3> QED BY <1>4, <1>6, <3>1
  <2> QED BY <1>5, <2>1 DEF BlockRange
<1> QED BY <1>7

\* The block that Extend makes of two that overlap, or touch.
Hull(a, b) ==
    [start |-> IF Before(b.start, a.start) THEN b.start ELSE a.start,
     end   |-> IF After(b.end, a.end) THEN b.end ELSE a.end]

LEMMA HullOf ==
    ASSUME NEW w \in SeqNum, NEW a, Within(w, a), NEW b, Within(w, b),
           Overlaps(a.start, a.end, b.start, b.end)
    PROVE  /\ Within(w, Hull(a, b))
           /\ From(w, Hull(a, b)) = IF From(w, b) < From(w, a) THEN From(w, b) ELSE From(w, a)
           /\ To(w, Hull(a, b)) = IF To(w, b) > To(w, a) THEN To(w, b) ELSE To(w, a)
           /\ BlockRange(Hull(a, b)) = BlockRange(a) \cup BlockRange(b)
<1> DEFINE c == Hull(a, b)
<1>1. /\ From(w, a) \in Nat /\ To(w, a) \in Nat /\ From(w, a) <= To(w, a) /\ To(w, a) <= Span
      /\ From(w, b) \in Nat /\ To(w, b) \in Nat /\ From(w, b) <= To(w, b) /\ To(w, b) <= Span
      /\ a.start \in SeqNum /\ a.end \in SeqNum /\ b.start \in SeqNum /\ b.end \in SeqNum
  BY Placed
<1>2. From(w, a) <= To(w, b) /\ From(w, b) <= To(w, a)
  BY Touching
<1>3. /\ From(w, c) = IF From(w, b) < From(w, a) THEN From(w, b) ELSE From(w, a)
      /\ To(w, c) = IF To(w, b) > To(w, a) THEN To(w, b) ELSE To(w, a)
      /\ c \in Block
  <2>1. /\ c.start = IF From(w, b) < From(w, a) THEN b.start ELSE a.start
        /\ c.end = IF To(w, b) > To(w, a) THEN b.end ELSE a.end
        /\ c \in Block
    BY <1>1, Touching DEF Hull, Block
  <2> HIDE DEF c
  <2> QED BY <2>1 DEF From, To
<1>4. Within(w, c)
  <2> HIDE DEF c
  <2> QED BY <1>1, <1>2, <1>3 DEF Within
<1>5. BlockRange(c) = BlockRange(a) \cup BlockRange(b)
  <2> HIDE DEF c
  <2>1. \A s \in SeqNum : Offset(w, s) \in Nat
    BY SpaceSizeAssumption DEF Offset, SeqMinus, SeqNum
  <2>2. /\ BlockRange(a) = { s \in SeqNum : From(w, a) <= Offset(w, s) /\ Offset(w, s) < To(w, a) }
        /\ BlockRange(b) = { s \in SeqNum : From(w, b) <= Offset(w, s) /\ Offset(w, s) < To(w, b) }
        /\ BlockRange(c) = { s \in SeqNum : From(w, c) <= Offset(w, s) /\ Offset(w, s) < To(w, c) }
    BY <1>4, RangeOf
  <2>3. \A s \in SeqNum : From(w, c) <= Offset(w, s) /\ Offset(w, s) < To(w, c) <=>
           \/ From(w, a) <= Offset(w, s) /\ Offset(w, s) < To(w, a)
           \/ From(w, b) <= Offset(w, s) /\ Offset(w, s) < To(w, b)
    BY <1>1, <1>2, <1>3, <2>1
  <2> QED BY ONLY <2>2, <2>3
<1> QED BY <1>3, <1>4, <1>5

-----------------------------------------------------------------------------
(***************************************************************************)
(* Lists in sequence order whose blocks do not even touch.                  *)
(***************************************************************************)
Placement(w, l) == l \in Lists /\ \A i \in 1 .. Len(l) : Within(w, l[i])

Sorted(w, l) ==
    /\ Placement(w, l)
    /\ \A i, j \in 1 .. Len(l) : i < j => To(w, l[i]) < From(w, l[j])

\* The bytes of some of a list's blocks.
CoveredOf(l, s) == UNION { BlockRange(l[i]) : i \in s }

LEMMA PlacedIn ==
    ASSUME NEW w \in SeqNum, NEW l, Placement(w, l), NEW i \in 1 .. Len(l)
    PROVE  /\ From(w, l[i]) \in Nat /\ To(w, l[i]) \in Nat
           /\ From(w, l[i]) <= To(w, l[i]) /\ To(w, l[i]) <= Span
BY Placed DEF Placement

LEMMA AppendedBlock ==
    ASSUME NEW l \in Lists, NEW b \in Block
    PROVE  /\ Append(l, b) \in Lists /\ Len(Append(l, b)) = Len(l) + 1
           /\ \A i \in 1 .. Len(l) : Append(l, b)[i] = l[i]
           /\ Append(l, b)[Len(l) + 1] = b
           /\ Covered(Append(l, b)) = Covered(l) \cup BlockRange(b)
<1>1. /\ Append(l, b) \in Lists /\ Len(Append(l, b)) = Len(l) + 1
      /\ \A i \in 1 .. Len(l) : Append(l, b)[i] = l[i]
      /\ Append(l, b)[Len(l) + 1] = b
  BY AppendProperties DEF Lists
<1>2. DOMAIN l = 1 .. Len(l) /\ DOMAIN Append(l, b) = 1 .. Len(l) + 1 /\ Len(l) \in Nat
  BY <1>1, LenProperties DEF Lists
<1>3. Covered(Append(l, b)) = Covered(l) \cup BlockRange(b)
  <2>1. 1 .. Len(l) + 1 = (1 .. Len(l)) \cup {Len(l) + 1}
    BY <1>2
  <2> QED BY <1>1, <1>2, <2>1, Zenon DEF Covered
<1> QED BY <1>1, <1>3

Replaced(l, k, b) == [l EXCEPT ![k] = b]

LEMMA ReplacedBlock ==
    ASSUME NEW l \in Lists, NEW k \in 1 .. Len(l), NEW b \in Block
    PROVE  /\ Replaced(l, k, b) \in Lists /\ Len(Replaced(l, k, b)) = Len(l)
           /\ \A i \in 1 .. Len(l) : Replaced(l, k, b)[i] = IF i = k THEN b ELSE l[i]
BY ExceptSeq DEF Lists, Replaced

-----------------------------------------------------------------------------
(***************************************************************************)
(* Merge: one block of the list, at p, may reach over later ones.           *)
(***************************************************************************)
OneLong(w, l, p) ==
    \A i, j \in 1 .. Len(l) :
       i < j => IF i = p THEN From(w, l[i]) <= To(w, l[j]) ELSE To(w, l[i]) < From(w, l[j])

\* What the blocks that were kept have to do with one that is still to come.
BeforeBlock(w, kept, long, b) ==
    kept # << >> =>
      /\ \A i \in 1 .. Len(kept) - 1 : To(w, kept[i]) < From(w, b)
      /\ From(w, kept[Len(kept)]) <= To(w, b)
      /\ ~long => To(w, kept[Len(kept)]) < From(w, b)

Merged(w, blocks, p, s, kept) ==
    /\ Sorted(w, kept)
    /\ Covered(kept) = CoveredOf(blocks, s)
    /\ \A j \in 1 .. Len(blocks) :
          (\A y \in s : y < j) => BeforeBlock(w, kept, p \in s, blocks[j])

\* A round that appends the block.
LEMMA MergeAppends ==
    ASSUME NEW w \in SeqNum, NEW kept, Sorted(w, kept), NEW b, Within(w, b),
           NEW long \in BOOLEAN, BeforeBlock(w, kept, long, b),
           kept # << >> => ~Overlaps(kept[Len(kept)].start, kept[Len(kept)].end, b.start, b.end)
    PROVE  /\ Sorted(w, Append(kept, b))
           /\ \A i \in 1 .. Len(kept) : To(w, kept[i]) < From(w, b)
           /\ Covered(Append(kept, b)) = Covered(kept) \cup BlockRange(b)
<1>1. kept \in Lists /\ b \in Block /\ Len(kept) \in Nat /\ Placement(w, kept)
  BY LenProperties DEF Sorted, Placement, Within, Lists
<1>2. \A i \in 1 .. Len(kept) : /\ From(w, kept[i]) \in Nat /\ To(w, kept[i]) \in Nat
                                /\ From(w, kept[i]) <= To(w, kept[i])
  BY <1>1, PlacedIn
<1>3. From(w, b) \in Nat /\ To(w, b) \in Nat /\ From(w, b) <= To(w, b)
  BY Placed
<1>4. ASSUME NEW i \in 1 .. Len(kept)
      PROVE  To(w, kept[i]) < From(w, b)
  <2>1. kept # << >>
    BY <1>1, <1>4, EmptySeq DEF Lists
  <2>2. CASE i = Len(kept)
    <3>1. Within(w, kept[Len(kept)])
      BY <1>1, <1>4, <2>2 DEF Placement
    <3>2. ~(From(w, kept[Len(kept)]) <= To(w, b) /\ From(w, b) <= To(w, kept[Len(kept)]))
      BY <2>1, <3>1, Touching
    <3> QED BY <1>2, <1>3, <2>1, <2>2, <3>2 DEF BeforeBlock
  <2>3. CASE i # Len(kept)
    BY <1>1, <2>1, <2>3 DEF BeforeBlock
  <2> QED BY <2>2, <2>3
<1>5. Sorted(w, Append(kept, b))
  <2> DEFINE l == Append(kept, b)
  <2>1. /\ l \in Lists /\ Len(l) = Len(kept) + 1
        /\ \A i \in 1 .. Len(kept) : l[i] = kept[i]
        /\ l[Len(kept) + 1] = b
    BY <1>1, AppendedBlock
  <2> HIDE DEF l
  <2>2. \A i \in 1 .. Len(l) : i = Len(kept) + 1 \/ i \in 1 .. Len(kept)
    BY <1>1, <2>1
  <2>3. Placement(w, l)
    BY <1>1, <2>1, <2>2 DEF Placement
  <2>4. ASSUME NEW i \in 1 .. Len(l), NEW j \in 1 .. Len(l), i < j
        PROVE  To(w, l[i]) < From(w, l[j])
    <3>1. i \in 1 .. Len(kept)
      BY <1>1, <2>1, <2>4
    <3> QED BY <1>4, <2>1, <2>2, <2>4, <3>1 DEF Sorted
  <2>5. Sorted(w, l)
    BY ONLY <2>3, <2>4 DEF Sorted
  <2> QED BY ONLY <2>5 DEF l
<1>6. Covered(Append(kept, b)) = Covered(kept) \cup BlockRange(b)
  BY <1>1, AppendedBlock
<1> QED BY ONLY <1>4, <1>5, <1>6

\* A round that extends the last kept block.
LEMMA MergeExtends ==
    ASSUME NEW w \in SeqNum, NEW kept, Sorted(w, kept), NEW b, Within(w, b), kept # << >>,
           BeforeBlock(w, kept, TRUE, b),
           Overlaps(kept[Len(kept)].start, kept[Len(kept)].end, b.start, b.end)
    PROVE  /\ Sorted(w, Extend(kept, b))
           /\ Len(Extend(kept, b)) = Len(kept)
           /\ \A i \in 1 .. Len(kept) - 1 : Extend(kept, b)[i] = kept[i]
           /\ From(w, Extend(kept, b)[Len(kept)]) <= From(w, kept[Len(kept)])
           /\ Covered(Extend(kept, b)) = Covered(kept) \cup BlockRange(b)
<1> DEFINE n == Len(kept)
           c == Hull(kept[n], b)
           l == Extend(kept, b)
<1>1. kept \in Lists /\ b \in Block /\ n \in Nat /\ n \in 1 .. n /\ Placement(w, kept)
  BY LenProperties, EmptySeq DEF Sorted, Placement, Within, Lists
<1>2. \A i \in 1 .. n : /\ From(w, kept[i]) \in Nat /\ To(w, kept[i]) \in Nat
                        /\ From(w, kept[i]) <= To(w, kept[i])
  BY <1>1, PlacedIn
<1>3. From(w, b) \in Nat /\ To(w, b) \in Nat /\ From(w, b) <= To(w, b)
  BY Placed
<1>4. Within(w, kept[n])
  BY <1>1 DEF Placement
<1>5. /\ Within(w, c)
      /\ From(w, c) = IF From(w, b) < From(w, kept[n]) THEN From(w, b) ELSE From(w, kept[n])
      /\ BlockRange(c) = BlockRange(kept[n]) \cup BlockRange(b)
  BY <1>4, HullOf
<1>6. c \in Block
  BY <1>5 DEF Within
<1>7. l = Replaced(kept, n, c)
  BY DEF Extend, Hull, Replaced
<1>8. l \in Lists /\ Len(l) = n /\ \A i \in 1 .. n : l[i] = IF i = n THEN c ELSE kept[i]
  <2>1. n = Len(kept) /\ n \in 1 .. Len(kept)
    BY <1>1
  <2> HIDE DEF c, l, n
  <2>2. kept \in Lists /\ n \in 1 .. Len(kept) /\ c \in Block
    BY ONLY <1>1, <1>6, <2>1
  <2>3. /\ Replaced(kept, n, c) \in Lists /\ Len(Replaced(kept, n, c)) = Len(kept)
        /\ \A i \in 1 .. Len(kept) : Replaced(kept, n, c)[i] = IF i = n THEN c ELSE kept[i]
    BY ONLY <2>2, ReplacedBlock
  <2> QED BY ONLY <1>7, <2>1, <2>3
<1>9. \A i \in 1 .. n - 1 : To(w, kept[i]) < From(w, b) /\ To(w, kept[i]) < From(w, kept[n])
  <2>1. \A i \in 1 .. n - 1 : To(w, kept[i]) < From(w, b)
    BY DEF BeforeBlock
  <2>2. \A i \in 1 .. n - 1 : i \in 1 .. n /\ i < n
    BY <1>1
  <2> QED BY <1>1, <2>1, <2>2 DEF Sorted
<1> HIDE DEF c, l, n
<1>10. Placement(w, l)
  <2>1. \A i \in 1 .. n : Within(w, l[i])
    <3>1. \A i \in 1 .. n : Within(w, kept[i])
      BY <1>1 DEF Placement, n
    <3> QED BY ONLY <1>5, <1>8, <3>1
  <2> QED BY <1>8, <2>1 DEF Placement
<1>11. ASSUME NEW i \in 1 .. Len(l), NEW j \in 1 .. Len(l), i < j
       PROVE  To(w, l[i]) < From(w, l[j])
  <2>1. i \in 1 .. n - 1 /\ i \in 1 .. n /\ j \in 1 .. n /\ i # n /\ n \in Nat
    BY <1>1, <1>8, <1>11
  <2>2. l[i] = kept[i]
    BY <1>8, <2>1
  <2>3. CASE j = n
    BY <1>2, <1>3, <1>5, <1>8, <1>9, <2>1, <2>2, <2>3
  <2>4. CASE j # n
    <3>1. l[j] = kept[j]
      BY <1>8, <2>1, <2>4
    <3> QED BY <1>11, <2>1, <2>2, <3>1 DEF Sorted, n
  <2> QED BY <2>3, <2>4
<1>12. Covered(l) = Covered(kept) \cup BlockRange(b)
  <2>1. DOMAIN l = 1 .. n /\ DOMAIN kept = 1 .. n
    BY <1>1, <1>8, LenProperties DEF Lists, n
  <2>2. /\ BlockRange(l[n]) = BlockRange(kept[n]) \cup BlockRange(b)
        /\ \A i \in 1 .. n : i # n => BlockRange(l[i]) = BlockRange(kept[i])
    BY <1>1, <1>5, <1>8
  <2> QED BY ONLY <1>1, <2>1, <2>2 DEF Covered
<1>13. \A i \in 1 .. n - 1 : l[i] = kept[i]
  <2> \A i \in 1 .. n - 1 : i \in 1 .. n /\ i # n
    BY <1>1
  <2> QED BY <1>8
<1>14. From(w, l[n]) <= From(w, kept[n])
  BY <1>1, <1>2, <1>3, <1>5, <1>8
<1>15. Sorted(w, l)
  BY <1>10, <1>11 DEF Sorted
<1> QED BY <1>8, <1>12, <1>13, <1>14, <1>15 DEF l, n

LEMMA MergeStep ==
    ASSUME NEW w \in SeqNum, NEW blocks, Placement(w, blocks), NEW p, OneLong(w, blocks, p),
           NEW s, s \subseteq 1 .. Len(blocks), NEW x \in s, \A y \in s : x >= y,
           NEW kept, Merged(w, blocks, p, s \ {x}, kept)
    PROVE  Merged(w, blocks, p, s, MergeRound(blocks, x, kept))
<1> DEFINE b == blocks[x]
           r == MergeRound(blocks, x, kept)
           long == p \in s \ {x}
<1>1. /\ Len(blocks) \in Nat /\ x \in 1 .. Len(blocks) /\ Within(w, b)
      /\ \A y \in s \ {x} : y < x
  BY LenProperties DEF Placement, Lists
<1>2. /\ Sorted(w, kept) /\ Covered(kept) = CoveredOf(blocks, s \ {x})
      /\ \A j \in 1 .. Len(blocks) :
            (\A y \in s \ {x} : y < j) => BeforeBlock(w, kept, long, blocks[j])
  BY DEF Merged
<1>3. BeforeBlock(w, kept, long, b)
  BY <1>1, <1>2
<1>4. CoveredOf(blocks, s) = CoveredOf(blocks, s \ {x}) \cup BlockRange(b)
  BY DEF CoveredOf
<1>5. \A i \in 1 .. Len(blocks) : /\ From(w, blocks[i]) \in Nat /\ To(w, blocks[i]) \in Nat
                                  /\ From(w, blocks[i]) <= To(w, blocks[i])
  BY PlacedIn
<1>6. kept \in Lists /\ Len(kept) \in Nat
  BY <1>2, LenProperties DEF Sorted, Placement, Lists
<1>7. \A i \in 1 .. Len(kept) : /\ From(w, kept[i]) \in Nat /\ To(w, kept[i]) \in Nat
                                /\ From(w, kept[i]) <= To(w, kept[i])
  BY <1>2, PlacedIn DEF Sorted
<1>8. CASE kept # << >> /\ Overlaps(kept[Len(kept)].start, kept[Len(kept)].end, b.start, b.end)
  <2>1. r = Extend(kept, b)
    BY <1>8 DEF MergeRound
  <2>2. long
    <3> SUFFICES ASSUME ~long PROVE FALSE
      OBVIOUS
    <3>1. Len(kept) \in 1 .. Len(kept)
      BY <1>6, <1>8, EmptySeq DEF Lists
    <3>2. Within(w, kept[Len(kept)])
      BY <1>2, <3>1 DEF Sorted, Placement
    <3>3. From(w, b) <= To(w, kept[Len(kept)])
      BY <1>1, <1>8, <3>2, Touching
    <3>4. To(w, kept[Len(kept)]) < From(w, b)
      BY <1>3, <1>8 DEF BeforeBlock
    <3> QED BY <1>1, <1>5, <1>7, <3>1, <3>3, <3>4
  <2>3. BeforeBlock(w, kept, TRUE, b)
    BY <1>3, <2>2 DEF BeforeBlock
  <2> HIDE DEF b, r
  <2>4. /\ Sorted(w, r)
        /\ Len(r) = Len(kept)
        /\ \A i \in 1 .. Len(kept) - 1 : r[i] = kept[i]
        /\ From(w, r[Len(kept)]) <= From(w, kept[Len(kept)])
        /\ Covered(r) = Covered(kept) \cup BlockRange(b)
    BY <1>1, <1>2, <1>8, <2>1, <2>3, MergeExtends
  <2>5. ASSUME NEW j \in 1 .. Len(blocks), \A y \in s : y < j
        PROVE  BeforeBlock(w, r, p \in s, blocks[j])
    <3>1. BeforeBlock(w, kept, long, blocks[j])
      BY <1>2, <2>5
    <3>2. p \in s
      BY <2>2
    <3>3. Len(kept) \in 1 .. Len(kept)
      BY <1>6, <1>8, EmptySeq DEF Lists
    <3>4. From(w, r[Len(kept)]) \in Nat
      BY <2>4, <3>3, PlacedIn DEF Sorted
    <3>5. From(w, r[Len(kept)]) <= To(w, blocks[j])
      BY <1>5, <1>7, <1>8, <2>4, <3>1, <3>3, <3>4 DEF BeforeBlock
    <3> QED BY <1>8, <2>4, <3>1, <3>2, <3>5 DEF BeforeBlock
  <2> QED BY <1>2, <1>4, <2>4, <2>5 DEF Merged, r
<1>9. CASE ~(kept # << >> /\ Overlaps(kept[Len(kept)].start, kept[Len(kept)].end, b.start, b.end))
  <2>1. r = Append(kept, b)
    BY <1>9 DEF MergeRound
  <2> HIDE DEF b, r
  <2>2. /\ Sorted(w, r)
        /\ \A i \in 1 .. Len(kept) : To(w, kept[i]) < From(w, b)
        /\ Covered(r) = Covered(kept) \cup BlockRange(b)
    <3> long \in BOOLEAN
      OBVIOUS
    <3> HIDE DEF long
    <3> QED BY <1>1, <1>2, <1>3, <1>9, <2>1, MergeAppends
  <2>3. /\ Len(r) = Len(kept) + 1 /\ r[Len(kept) + 1] = b
        /\ \A i \in 1 .. Len(kept) : r[i] = kept[i]
    BY <1>1, <1>6, <2>1, AppendedBlock DEF Within
  <2>4. ASSUME NEW j \in 1 .. Len(blocks), \A y \in s : y < j
        PROVE  BeforeBlock(w, r, p \in s, blocks[j])
    <3>1. BeforeBlock(w, kept, long, blocks[j])
      BY <1>2, <2>4
    <3>2. x < j /\ IF x = p THEN From(w, b) <= To(w, blocks[j]) ELSE To(w, b) < From(w, blocks[j])
      BY <1>1, <2>4 DEF OneLong, b
    <3>3. /\ From(w, b) \in Nat /\ To(w, b) \in Nat /\ From(w, b) <= To(w, b)
          /\ From(w, blocks[j]) \in Nat /\ To(w, blocks[j]) \in Nat
          /\ From(w, blocks[j]) <= To(w, blocks[j])
      BY <1>1, <1>5 DEF b
    <3>4. ASSUME NEW i \in 1 .. Len(kept)
          PROVE  To(w, kept[i]) < From(w, blocks[j])
      <4>0. kept # << >>
        BY <1>6, EmptySeq DEF Lists
      <4>1. CASE x # p
        BY <1>7, <2>2, <3>2, <3>3, <4>1
      <4>2. CASE x = p /\ i # Len(kept)
        BY <1>6, <3>1, <4>0, <4>2 DEF BeforeBlock
      <4>3. CASE x = p /\ i = Len(kept)
        <5> ~long
          BY <4>3
        <5> QED BY <3>1, <4>0, <4>3 DEF BeforeBlock
      <4> QED BY <4>1, <4>2, <4>3
    <3>5. \A i \in 1 .. Len(r) - 1 : To(w, r[i]) < From(w, blocks[j])
      BY <1>6, <2>3, <3>4
    <3>6. From(w, r[Len(r)]) <= To(w, blocks[j])
      BY <2>3, <3>2, <3>3
    <3>7. p \notin s => To(w, r[Len(r)]) < From(w, blocks[j])
      BY <2>3, <3>2
    <3> QED BY <3>5, <3>6, <3>7 DEF BeforeBlock
  <2> QED BY <1>2, <1>4, <2>2, <2>4 DEF Merged, r
<1> QED BY <1>8, <1>9

\* After the walk the list is in order again and stands for the same bytes.
LEMMA MergeSound ==
    ASSUME NEW w \in SeqNum, NEW blocks, Placement(w, blocks), NEW p, OneLong(w, blocks, p)
    PROVE  Sorted(w, Merge(blocks)) /\ Covered(Merge(blocks)) = Covered(blocks)
<1> DEFINE n == Len(blocks)
           S == 1 .. n
           T == [s \in SUBSET S |-> { kept \in Lists : Merged(w, blocks, p, s, kept) }]
<1>1. blocks \in Lists /\ n \in Nat /\ DOMAIN blocks = S /\ S \subseteq 0 .. n
  BY LenProperties DEF Lists, Placement
<1>2. PICK g : MergeWalk!IsWalk(g, blocks, << >>, S) /\ Merge(blocks) = g[S]
  BY <1>1, MergeIsWalk
<1>3. << >> \in T[{}]
  <2>1. << >> \in Lists /\ Len(<< >>) = 0 /\ DOMAIN << >> = {}
    BY EmptySeq DEF Lists
  <2>2. Sorted(w, << >>)
    BY <2>1 DEF Sorted, Placement
  <2>3. Covered(<< >>) = CoveredOf(blocks, {})
    BY <2>1 DEF Covered, CoveredOf
  <2>4. \A j \in 1 .. Len(blocks) : BeforeBlock(w, << >>, p \in {}, blocks[j])
    BY DEF BeforeBlock
  <2>5. Merged(w, blocks, p, {}, << >>)
    BY ONLY <2>2, <2>3, <2>4 DEF Merged
  <2> QED BY <2>1, <2>5
<1>4. ASSUME NEW s \in SUBSET S, NEW x \in s, NEW kept \in T[s \ {x}], \A y \in s : x >= y
      PROVE  MergeRound(blocks, x, kept) \in T[s]
  <2>1. Merged(w, blocks, p, s \ {x}, kept)
    OBVIOUS
  <2>2. Merged(w, blocks, p, s, MergeRound(blocks, x, kept))
    BY ONLY <1>4, <2>1, w \in SeqNum, Placement(w, blocks), OneLong(w, blocks, p), MergeStep
  <2>3. MergeRound(blocks, x, kept) \in Lists
    BY <2>2 DEF Merged, Sorted, Placement
  <2> QED BY ONLY <2>2, <2>3, <1>4
<1>5. Merge(blocks) \in T[S]
  <2> HIDE DEF n, S, T
  <2>1. \A s \in SUBSET S : \A x \in s : \A t \in T[s \ {x}] :
           (\A y \in s : x >= y) => MergeRound(blocks, x, t) \in T[s]
    BY ONLY <1>4
  <2>2. g[S] \in T[S]
    BY ONLY <1>1, <1>2, <1>3, <2>1, MergeOneMore, MergeWalk!WalkReaches
  <2> QED BY ONLY <1>2, <2>2
<1>6. Merged(w, blocks, p, S, Merge(blocks))
  BY <1>5
<1> QED BY <1>1, <1>6 DEF Merged, Covered, CoveredOf

\* A list in order has no block that reaches over others.
LEMMA MergeOfSorted ==
    ASSUME NEW w \in SeqNum, NEW l, Sorted(w, l)
    PROVE  Sorted(w, Merge(l)) /\ Covered(Merge(l)) = Covered(l)
<1>1. OneLong(w, l, 0)
  BY DEF OneLong, Sorted
<1> QED BY <1>1, MergeSound DEF Sorted

-----------------------------------------------------------------------------
(***************************************************************************)
(* Add: wherever the new block belongs, the list is in order afterwards and  *)
(* stands for the bytes of the block as well.                               *)
(***************************************************************************)
LEMMA InsertedBlock ==
    ASSUME NEW l \in Lists, NEW pos \in 1 .. Len(l), NEW b \in Block
    PROVE  /\ InsertAt(l, pos, b) \in Lists
           /\ Len(InsertAt(l, pos, b)) = Len(l) + 1
           /\ \A i \in 1 .. Len(l) + 1 : InsertAt(l, pos, b)[i] =
                 IF i < pos THEN l[i] ELSE IF i = pos THEN b ELSE l[i - 1]
           /\ Covered(InsertAt(l, pos, b)) = Covered(l) \cup BlockRange(b)
<1> DEFINE n == Len(l)
           u == SubSeq(l, 1, pos - 1)
           v == SubSeq(l, pos, n)
           c == InsertAt(l, pos, b)
<1>1. n \in Nat /\ pos \in Int /\ 1 <= pos /\ pos <= n
  BY LenProperties DEF Lists
<1>2. \A i \in 1 .. n : l[i] \in Block
  BY ElementOfSeq DEF Lists
<1>3. /\ u \in Seq(Block) /\ Len(u) = pos - 1
      /\ \A i \in 1 .. pos - 1 : u[i] = l[i]
  <2>1. \A i \in 1 .. pos - 1 : l[i] \in Block
    BY <1>1, <1>2
  <2>2. /\ u \in Seq(Block) /\ Len(u) = IF 1 <= pos - 1 THEN pos - 1 - 1 + 1 ELSE 0
        /\ \A i \in 1 .. pos - 1 - 1 + 1 : u[i] = l[1 + i - 1]
    <3> 1 \in Int /\ pos - 1 \in Int
      BY <1>1
    <3> QED BY ONLY <2>1, 1 \in Int, pos - 1 \in Int, SubSeqProperties
  <2> HIDE DEF u
  <2>3. pos - 1 - 1 + 1 = pos - 1 /\ \A i \in 1 .. pos - 1 : 1 + i - 1 = i
    BY <1>1
  <2> QED BY <1>1, <2>2, <2>3
<1>4. /\ v \in Seq(Block) /\ Len(v) = n - pos + 1
      /\ \A i \in 1 .. n - pos + 1 : v[i] = l[pos + i - 1]
  <2>1. \A i \in pos .. n : l[i] \in Block
    BY <1>1, <1>2
  <2>2. n \in Int
    BY <1>1
  <2>3. /\ v \in Seq(Block) /\ Len(v) = IF pos <= n THEN n - pos + 1 ELSE 0
        /\ \A i \in 1 .. n - pos + 1 : v[i] = l[pos + i - 1]
    BY ONLY <1>1, <2>1, <2>2, SubSeqProperties
  <2> QED BY <1>1, <2>3
<1>5. <<b>> \in Seq(Block) /\ Len(<<b>>) = 1 /\ <<b>>[1] = b
  OBVIOUS
<1>6. c = u \o <<b>> \o v
  BY DEF InsertAt
<1> HIDE DEF u, v, c, n
<1>7. /\ u \o <<b>> \in Seq(Block) /\ Len(u \o <<b>>) = pos
      /\ \A i \in 1 .. pos : (u \o <<b>>)[i] = IF i < pos THEN l[i] ELSE b
  <2>1. /\ u \o <<b>> \in Seq(Block) /\ Len(u \o <<b>>) = Len(u) + Len(<<b>>)
        /\ \A i \in 1 .. Len(u) + Len(<<b>>) :
              (u \o <<b>>)[i] = IF i <= Len(u) THEN u[i] ELSE <<b>>[i - Len(u)]
    BY ONLY <1>3, <1>5, ConcatProperties
  <2>2. Len(u) + Len(<<b>>) = pos
    BY <1>1, <1>3, <1>5
  <2>3. ASSUME NEW i \in 1 .. pos
        PROVE  (u \o <<b>>)[i] = IF i < pos THEN l[i] ELSE b
    <3>1. CASE i < pos
      BY <1>1, <1>3, <2>1, <2>2, <3>1
    <3>2. CASE ~(i < pos)
      <4> i - Len(u) = 1 /\ ~(i <= Len(u))
        BY <1>1, <1>3, <3>2
      <4> QED BY <1>5, <2>1, <2>2, <3>2
    <3> QED BY <3>1, <3>2
  <2> QED BY <2>1, <2>2, <2>3
<1>8. /\ c \in Seq(Block) /\ Len(c) = pos + (n - pos + 1)
      /\ \A i \in 1 .. pos + (n - pos + 1) :
            c[i] = IF i <= pos THEN (u \o <<b>>)[i] ELSE v[i - pos]
  <2> DEFINE t == u \o <<b>>
  <2>1. t \in Seq(Block) /\ Len(t) = pos
    BY <1>7
  <2>2. c = t \o v
    BY <1>6
  <2>3. /\ c \in Seq(Block) /\ Len(c) = Len(t) + Len(v)
        /\ \A i \in 1 .. Len(t) + Len(v) : c[i] = IF i <= Len(t) THEN t[i] ELSE v[i - Len(t)]
    <3> HIDE DEF t
    <3> QED BY ONLY <1>4, <2>1, <2>2, ConcatProperties
  <2>4. Len(t) + Len(v) = pos + (n - pos + 1)
    BY <1>4, <2>1
  <2> QED BY ONLY <2>1, <2>3, <2>4
<1>9. pos + (n - pos + 1) = n + 1
  BY <1>1
<1>10. ASSUME NEW i \in 1 .. n + 1
       PROVE  c[i] = IF i < pos THEN l[i] ELSE IF i = pos THEN b ELSE l[i - 1]
  <2>1. CASE i <= pos
    <3> i \in 1 .. pos + (n - pos + 1) /\ i \in 1 .. pos
      BY <1>1, <1>9, <2>1
    <3> QED BY <1>1, <1>7, <1>8, <2>1
  <2>2. CASE ~(i <= pos)
    <3>1. i - pos \in 1 .. n - pos + 1 /\ pos + (i - pos) - 1 = i - 1
      BY <1>1, <2>2
    <3>2. v[i - pos] = l[i - 1]
      BY <1>4, <3>1
    <3> QED BY <1>1, <1>8, <1>9, <2>2, <3>2
  <2> QED BY <2>1, <2>2
<1>11. Covered(c) = Covered(l) \cup BlockRange(b)
  <2>1. DOMAIN c = 1 .. n + 1 /\ DOMAIN l = 1 .. n
    <3>1. DOMAIN c = 1 .. Len(c)
      BY <1>8, LenProperties
    <3> QED BY <1>8, <1>9, <3>1, LenProperties DEF Lists, n
  <2>2. \A i \in 1 .. n + 1 : i = pos \/ \E j \in 1 .. n : c[i] = l[j]
    <3> TAKE i \in 1 .. n + 1
    <3>1. CASE i < pos
      BY <1>1, <1>10, <3>1
    <3>2. CASE i > pos
      <4> i - 1 \in 1 .. n
        BY <1>1, <3>2
      <4> QED BY <1>1, <1>10, <3>2
    <3> QED BY <1>1, <3>1, <3>2
  <2>3. \A j \in 1 .. n : \E i \in 1 .. n + 1 : c[i] = l[j]
    <3> TAKE j \in 1 .. n
    <3>1. CASE j < pos
      <4> j \in 1 .. n + 1
        BY <1>1
      <4> QED BY <1>1, <1>10, <3>1
    <3>2. CASE ~(j < pos)
      <4> j + 1 \in 1 .. n + 1 /\ ~(j + 1 < pos) /\ j + 1 # pos /\ (j + 1) - 1 = j
        BY <1>1, <3>2
      <4> QED BY <1>10
    <3> QED BY <3>1, <3>2
  <2>4. pos \in 1 .. n + 1 /\ c[pos] = b
    BY <1>1, <1>10
  <2>5. ASSUME NEW x
        PROVE  x \in Covered(c) <=> x \in Covered(l) \/ x \in BlockRange(b)
    <3>1. x \in Covered(c) <=> \E i \in 1 .. n + 1 : x \in BlockRange(c[i])
      BY ONLY <2>1 DEF Covered
    <3>2. x \in Covered(l) <=> \E i \in 1 .. n : x \in BlockRange(l[i])
      BY ONLY <2>1 DEF Covered
    <3> QED BY ONLY <2>2, <2>3, <2>4, <3>1, <3>2
  <2> QED BY ONLY <2>5
<1> QED BY <1>8, <1>9, <1>10, <1>11 DEF c, n, Lists

\* Where the new block goes: after all that end before it starts.
LEMMA PositionOf ==
    ASSUME NEW w \in SeqNum, NEW l, Sorted(w, l), NEW b, Within(w, b),
           NEW pos, pos = InsertPosition(l, b)
    PROVE  /\ pos \in 0 .. Len(l)
           /\ \A i \in 1 .. Len(l) : pos = 0 \/ i < pos => To(w, l[i]) < From(w, b)
           /\ pos # 0 => From(w, b) <= To(w, l[pos])
<1> DEFINE n == Len(l)
           Near(c) == Before(b.end, c.start) \/ Overlaps(c.start, c.end, b.start, b.end)
           I == { i \in 1 .. n : Near(l[i]) }
<1>1. /\ l \in Lists /\ n \in Nat
      /\ \A i \in 1 .. n : /\ Within(w, l[i]) /\ From(w, l[i]) \in Nat /\ To(w, l[i]) \in Nat
                           /\ From(w, l[i]) <= To(w, l[i])
  BY PlacedIn, LenProperties DEF Sorted, Placement, Lists
<1>2. From(w, b) \in Nat /\ To(w, b) \in Nat /\ From(w, b) <= To(w, b)
  BY Placed
<1>3. pos = IF I # {} THEN Min(I) ELSE 0
  BY Zenon DEF InsertPosition, SelectInSeq
<1>4. I # {} => Min(I) \in I /\ \A i \in I : Min(I) <= i
  <2> I \subseteq 0 .. n
    BY <1>1
  <2> HIDE DEF I, n
  <2> QED BY <1>1, MinIsFirst
<1>5. ASSUME NEW i \in 1 .. n
      PROVE  Near(l[i]) <=> From(w, b) <= To(w, l[i])
  <2>1. /\ Before(b.end, l[i].start) <=> To(w, b) < From(w, l[i])
        /\ Overlaps(l[i].start, l[i].end, b.start, b.end)
             <=> From(w, l[i]) <= To(w, b) /\ From(w, b) <= To(w, l[i])
    BY <1>1, Touching
  <2> QED BY <1>1, <1>2, <2>1
<1> HIDE DEF Near
<1>6. \A i \in 1 .. n : i \in I <=> From(w, b) <= To(w, l[i])
  BY <1>5
<1>7. \A i \in I : i \in 1 .. n
  OBVIOUS
<1> HIDE DEF I, n
<1>8. ASSUME NEW i \in 1 .. n, pos = 0 \/ i < pos
      PROVE  To(w, l[i]) < From(w, b)
  <2>1. i \notin I
    BY <1>1, <1>3, <1>4, <1>7, <1>8
  <2> QED BY <1>1, <1>2, <1>6, <2>1
<1>9. pos \in 0 .. n /\ (pos # 0 => From(w, b) <= To(w, l[pos]))
  BY <1>1, <1>3, <1>4, <1>6, <1>7
<1> QED BY <1>8, <1>9 DEF n

LEMMA AddSound ==
    ASSUME NEW w \in SeqNum, NEW list \in SackLists, Sorted(w, list.blocks), NEW b, Within(w, b)
    PROVE  /\ Sorted(w, Add(list, b).blocks)
           /\ Covered(Add(list, b).blocks) = Covered(list.blocks) \cup BlockRange(b)
<1> DEFINE r == Add(list, b)
<1>0. PICK l : l = list.blocks
  OBVIOUS
<1>1. PICK pos : pos = InsertPosition(l, b)
  OBVIOUS
<1>2. /\ Sorted(w, l) /\ Placement(w, l) /\ l \in Lists /\ Len(l) \in Nat /\ b \in Block
  BY <1>0, LenProperties DEF Sorted, Placement, Lists, Within
<1>3. /\ pos \in 0 .. Len(l)
      /\ \A i \in 1 .. Len(l) : pos = 0 \/ i < pos => To(w, l[i]) < From(w, b)
      /\ pos # 0 => From(w, b) <= To(w, l[pos])
  BY ONLY <1>1, <1>2, w \in SeqNum, Within(w, b), PositionOf
<1>4. \A i \in 1 .. Len(l) : /\ Within(w, l[i]) /\ From(w, l[i]) \in Nat /\ To(w, l[i]) \in Nat
                             /\ From(w, l[i]) <= To(w, l[i])
  BY <1>2, PlacedIn DEF Placement
<1>5. From(w, b) \in Nat /\ To(w, b) \in Nat /\ From(w, b) <= To(w, b)
  BY Placed
<1>6. CASE pos = 0
  <2>1. r = [list EXCEPT !.blocks = Append(@, b)]
    BY <1>0, <1>1, <1>6, Zenon DEF Add
  <2>2. r.blocks = Append(l, b)
    BY <1>0, <2>1 DEF SackLists
  <2> DEFINE c == Append(l, b)
  <2>3. /\ c \in Lists /\ Len(c) = Len(l) + 1
        /\ \A i \in 1 .. Len(l) : c[i] = l[i]
        /\ c[Len(l) + 1] = b
        /\ Covered(c) = Covered(l) \cup BlockRange(b)
    BY <1>2, AppendedBlock
  <2> HIDE DEF c
  <2>4. \A i \in 1 .. Len(c) : i = Len(l) + 1 \/ i \in 1 .. Len(l)
    BY <1>2, <2>3
  <2>5. Placement(w, c)
    BY <1>4, <2>3, <2>4 DEF Placement
  <2>6. ASSUME NEW i \in 1 .. Len(c), NEW j \in 1 .. Len(c), i < j
        PROVE  To(w, c[i]) < From(w, c[j])
    <3>1. i \in 1 .. Len(l)
      BY <1>2, <2>3, <2>6
    <3> QED BY <1>2, <1>3, <1>6, <2>3, <2>4, <2>6, <3>1 DEF Sorted
  <2>7. Sorted(w, c)
    BY ONLY <2>5, <2>6 DEF Sorted
  <2> QED BY ONLY <1>0, <2>2, <2>3, <2>7 DEF c
<1>7. CASE pos # 0
  <2> DEFINE c == InsertAt(l, pos, b)
  <2>1. pos \in 1 .. Len(l)
    BY <1>3, <1>7
  <2>2. /\ c \in Lists /\ Len(c) = Len(l) + 1
        /\ \A i \in 1 .. Len(l) + 1 :
              c[i] = IF i < pos THEN l[i] ELSE IF i = pos THEN b ELSE l[i - 1]
        /\ Covered(c) = Covered(l) \cup BlockRange(b)
    BY ONLY <1>2, <2>1, InsertedBlock
  <2>3. r = IF Before(b.end, l[pos].start) THEN UpdateNumBytes(c) ELSE UpdateNumBytes(Merge(c))
    BY <1>0, <1>1, <1>7, Zenon DEF Add
  <2>4. r.blocks = IF Before(b.end, l[pos].start) THEN c ELSE Merge(c)
    BY <2>3 DEF UpdateNumBytes
  <2> HIDE DEF c
  <2>5. \A i \in 1 .. Len(c) : \/ i < pos /\ i \in 1 .. Len(l) /\ c[i] = l[i]
                               \/ i = pos /\ c[i] = b
                               \/ i > pos /\ i - 1 \in pos .. Len(l) /\ i - 1 \in 1 .. Len(l)
                                    /\ c[i] = l[i - 1]
    BY <1>2, <2>1, <2>2
  <2>6. Placement(w, c)
    BY <1>4, <2>2, <2>5 DEF Placement
  \* All blocks but the new one end before the next begins.
  <2>7. ASSUME NEW i \in 1 .. Len(c), NEW j \in 1 .. Len(c), i < j, i # pos
        PROVE  To(w, c[i]) < From(w, c[j])
    <3>1. CASE j = pos
      BY <1>3, <2>1, <2>2, <2>5, <2>7, <3>1
    <3>2. CASE j # pos
      <4>1. PICK k \in 1 .. Len(l) : c[i] = l[k] /\ ((k = i /\ i < pos) \/ (k = i - 1 /\ i > pos))
        BY <1>2, <2>1, <2>2, <2>5, <2>7
      <4>2. PICK m \in 1 .. Len(l) : c[j] = l[m] /\ ((m = j /\ j < pos) \/ (m = j - 1 /\ j > pos))
        BY <1>2, <2>1, <2>2, <2>5, <3>2
      <4>3. k < m
        BY <1>2, <2>1, <2>2, <2>7, <4>1, <4>2
      <4>4. To(w, l[k]) < From(w, l[m])
        BY <1>2, <4>3 DEF Sorted
      <4> QED BY <4>1, <4>2, <4>4
    <3> QED BY <3>1, <3>2
  <2>8. \A j \in pos .. Len(l) : j \in 1 .. Len(l) /\ From(w, l[pos]) <= From(w, l[j])
                                 /\ To(w, l[pos]) <= To(w, l[j])
    <3> TAKE j \in pos .. Len(l)
    <3>1. j \in 1 .. Len(l)
      BY <1>2, <2>1
    <3>2. CASE j = pos
      BY <1>4, <2>1, <3>1, <3>2
    <3>3. CASE j # pos
      <4> pos < j
        BY <2>1, <3>1, <3>3
      <4>1. To(w, l[pos]) < From(w, l[j])
        BY <1>2, <2>1, <3>1 DEF Sorted
      <4> QED BY <1>4, <2>1, <3>1, <4>1
    <3> QED BY <3>2, <3>3
  <2>9. CASE Before(b.end, l[pos].start)
    <3>1. To(w, b) < From(w, l[pos])
      BY <1>4, <2>1, <2>9, Touching
    <3>2. ASSUME NEW i \in 1 .. Len(c), NEW j \in 1 .. Len(c), i < j, i = pos
          PROVE  To(w, c[i]) < From(w, c[j])
      <4>1. c[i] = b /\ j - 1 \in pos .. Len(l) /\ c[j] = l[j - 1]
        BY <2>1, <2>2, <2>5, <3>2
      <4>2. From(w, l[pos]) <= From(w, l[j - 1]) /\ j - 1 \in 1 .. Len(l)
        BY <2>8, <4>1
      <4>3. To(w, b) < From(w, l[j - 1])
        BY <1>4, <1>5, <2>1, <3>1, <4>2
      <4> QED BY <4>1, <4>3, <3>2
    <3>3. Sorted(w, c)
      BY ONLY <2>6, <2>7, <3>2 DEF Sorted
    <3> QED BY ONLY <1>0, <2>2, <2>4, <2>9, <3>3
  <2>10. CASE ~Before(b.end, l[pos].start)
    <3>1. ASSUME NEW i \in 1 .. Len(c), NEW j \in 1 .. Len(c), i < j, i = pos
          PROVE  From(w, c[i]) <= To(w, c[j])
      <4>1. c[i] = b /\ j - 1 \in pos .. Len(l) /\ c[j] = l[j - 1]
        BY <2>1, <2>2, <2>5, <3>1
      <4> QED BY <1>3, <1>4, <1>5, <1>7, <2>1, <2>8, <4>1, SMTT(40)
    <3>2. OneLong(w, c, pos)
      BY ONLY <2>7, <3>1 DEF OneLong
    <3>3. Sorted(w, Merge(c)) /\ Covered(Merge(c)) = Covered(c)
      BY ONLY <2>6, <3>2, w \in SeqNum, MergeSound
    <3> QED BY ONLY <1>0, <2>2, <2>4, <2>10, <3>3
  <2> QED BY <2>9, <2>10
<1> QED BY <1>6, <1>7

(***************************************************************************)
(* The loops over the blocks of one header.                                 *)
(***************************************************************************)
LEMMA AddAllSound ==
    ASSUME NEW w \in SeqNum, NEW list \in SackLists, Sorted(w, list.blocks),
           NEW news, Placement(w, news)
    PROVE  /\ Sorted(w, AddAll(list, news).blocks)
           /\ Covered(AddAll(list, news).blocks) = Covered(list.blocks) \cup Covered(news)
<1> DEFINE n == Len(news)
           S == 1 .. n
           Good(s, t) == /\ t \in SackLists /\ Sorted(w, t.blocks)
                         /\ Covered(t.blocks) = Covered(list.blocks) \cup CoveredOf(news, s)
<1>1. news \in Lists /\ n \in Nat /\ DOMAIN news = S /\ S \subseteq 0 .. n
  BY LenProperties DEF Lists, Placement
<1>2. PICK g : AddWalk!IsWalk(g, news, list, S) /\ AddAll(list, news) = g[S]
  BY <1>1, AddAllIsWalk
<1> DEFINE Done == { s \in SUBSET S : Good(s, g[s]) }
<1>3. {} \in Done
  <2>1. g[{}] = list /\ CoveredOf(news, {}) = {}
    BY <1>2 DEF AddWalk!IsWalk, CoveredOf
  <2> QED BY <2>1
<1>4. ASSUME NEW s \in SUBSET S, NEW x \in s, \A y \in s : x >= y, s \ {x} \in Done
      PROVE  s \in Done
  <2>1. PICK t : t = g[s \ {x}]
    OBVIOUS
  <2>2. g[s] = Add(t, news[x])
    BY <1>2, <1>4, <2>1 DEF AddWalk!IsWalk, AddRound
  <2>3. t \in SackLists /\ Sorted(w, t.blocks)
        /\ Covered(t.blocks) = Covered(list.blocks) \cup CoveredOf(news, s \ {x})
    BY <1>4, <2>1
  <2>4. Within(w, news[x])
    BY DEF Placement
  <2>5. /\ Add(t, news[x]) \in SackLists /\ Sorted(w, Add(t, news[x]).blocks)
        /\ Covered(Add(t, news[x]).blocks) = Covered(t.blocks) \cup BlockRange(news[x])
    BY <2>3, <2>4, AddSound, AddTyped DEF Within
  <2>6. CoveredOf(news, s) = CoveredOf(news, s \ {x}) \cup BlockRange(news[x])
    BY DEF CoveredOf
  <2> QED BY <2>2, <2>3, <2>5, <2>6
<1>5. S \in Done
  <2> HIDE DEF Done, S
  <2> QED BY ONLY <1>1, <1>3, <1>4, OneMoreAtTheEnd
<1>6. CoveredOf(news, S) = Covered(news)
  BY <1>1 DEF CoveredOf, Covered
<1> QED BY <1>2, <1>5, <1>6

LEMMA EmptyList ==
    ASSUME NEW w \in SeqNum
    PROVE  /\ EmptySacks \in SackLists /\ Sorted(w, EmptySacks.blocks)
           /\ Covered(EmptySacks.blocks) = {}
<1>1. EmptySacks.blocks = << >> /\ << >> \in Lists /\ Len(<< >>) = 0 /\ DOMAIN << >> = {}
  BY EmptySeq DEF EmptySacks, Lists
<1>2. EmptySacks \in SackLists
  BY <1>1 DEF EmptySacks, SackLists
<1> QED BY <1>1, <1>2 DEF Sorted, Placement, Covered

LEMMA ParseSound ==
    ASSUME NEW w \in SeqNum, NEW captured, Placement(w, captured)
    PROVE  /\ Sorted(w, ParseBlocks(captured).blocks)
           /\ Covered(ParseBlocks(captured).blocks) = Covered(captured)
           /\ ParseBlocks(captured).num_bytes = NumBytes(ParseBlocks(captured).blocks)
<1> DEFINE l == AddAll(EmptySacks, captured).blocks
<1>1. Sorted(w, l) /\ Covered(l) = Covered(captured)
  BY EmptyList, AddAllSound DEF SackLists
<1>2. Sorted(w, Merge(l)) /\ Covered(Merge(l)) = Covered(l)
  <2> HIDE DEF l
  <2> QED BY <1>1, MergeOfSorted
<1> QED BY <1>1, <1>2 DEF ParseBlocks, UpdateNumBytes

-----------------------------------------------------------------------------
(***************************************************************************)
(* The byte count of a list in order is the number of bytes it stands for.   *)
(***************************************************************************)
LEMMA BytesOfBlock ==
    ASSUME NEW w \in SeqNum, NEW b, Within(w, b)
    PROVE  IsFiniteSet(BlockRange(b)) /\ Cardinality(BlockRange(b)) = BlockBytes(b)
<1> DEFINE n == BlockBytes(b)
           D == 0 .. n - 1
           f == [d \in D |-> SeqPlus(b.start, d)]
<1>1. /\ b.start \in SeqNum /\ b.end \in SeqNum /\ From(w, b) \in Nat
  BY Placed
<1>2. n \in 0 .. SpaceSize - 1 /\ SpaceSize \in Nat
  BY <1>1, SpaceSizeAssumption DEF BlockBytes, SeqMinus, SeqNum
<1> HIDE DEF n
<1>3. f \in Bijection(D, BlockRange(b))
  <2>1. f \in [D -> BlockRange(b)]
    BY DEF BlockRange, n
  <2>2. ASSUME NEW d \in D, NEW e \in D, f[d] = f[e]
        PROVE  d = e
    <3>1. SeqPlus(b.start, d) = SeqPlus(b.start, e)
      BY <2>2
    <3>2. d \in Nat /\ e \in Nat /\ d < SpaceSize /\ e < SpaceSize
      BY <1>2
    <3> HIDE DEF f, D
    <3> QED BY <1>1, <1>2, <3>1, <3>2 DEF SeqPlus, SeqNum
  <2>3. \A x \in BlockRange(b) : \E d \in D : f[d] = x
    BY DEF BlockRange, n
  <2> HIDE DEF f, D
  <2> QED BY ONLY <2>1, <2>2, <2>3, Fun_IsBij
<1>4. IsFiniteSet(D) /\ Cardinality(D) = n
  <2>1. 0 \in Int /\ n - 1 \in Int
    BY <1>2
  <2>2. IsFiniteSet(D) /\ Cardinality(D) = IF 0 > n - 1 THEN 0 ELSE n - 1 - 0 + 1
    BY ONLY <2>1, FS_Interval
  <2> QED BY <1>2, <2>2
<1>5. ExistsBijection(D, BlockRange(b))
  BY <1>3 DEF ExistsBijection
<1> HIDE DEF D
<1> QED BY <1>4, <1>5, FS_Bijection DEF n

LEMMA BytesOfList ==
    ASSUME NEW w \in SeqNum, NEW l, Sorted(w, l)
    PROVE  IsFiniteSet(Covered(l)) /\ NumBytes(l) = Cardinality(Covered(l))
<1> DEFINE n == Len(l)
           S == 1 .. n
           C(s) == CoveredOf(l, s)
<1>1. /\ l \in Lists /\ n \in Nat /\ DOMAIN l = S /\ S \subseteq 0 .. n
      /\ \A i \in S : Within(w, l[i])
  BY LenProperties DEF Lists, Placement, Sorted
<1>2. PICK g : BytesWalk!IsWalk(g, l, 0, S) /\ NumBytes(l) = g[S]
  BY <1>1, NumBytesIsWalk
<1> DEFINE Done == { s \in SUBSET S : IsFiniteSet(C(s)) /\ g[s] = Cardinality(C(s)) }
<1>3. {} \in Done
  <2>1. g[{}] = 0 /\ C({}) = {}
    BY <1>2 DEF BytesWalk!IsWalk, CoveredOf
  <2> QED BY <2>1, FS_EmptySet
<1>4. ASSUME NEW s \in SUBSET S, NEW x \in s, \A y \in s : x >= y, s \ {x} \in Done
      PROVE  s \in Done
  <2> DEFINE A == C(s \ {x})
             B == BlockRange(l[x])
  <2>1. g[s] = g[s \ {x}] + BlockBytes(l[x])
    BY <1>2, <1>4 DEF BytesWalk!IsWalk, BytesRound
  <2>2. IsFiniteSet(A) /\ g[s \ {x}] = Cardinality(A)
    BY <1>4
  <2>3. IsFiniteSet(B) /\ Cardinality(B) = BlockBytes(l[x])
    BY <1>1, BytesOfBlock
  <2>4. C(s) = A \cup B
    BY DEF CoveredOf
  \* No byte is in two blocks: every other one ends before this one starts.
  <2>5. A \cap B = {}
    <3> SUFFICES ASSUME NEW i \in s \ {x}, NEW c \in BlockRange(l[i]), c \in BlockRange(l[x])
                 PROVE  FALSE
      BY DEF CoveredOf
    <3>1. i \in 1 .. Len(l) /\ x \in 1 .. Len(l) /\ i < x
      BY <1>1, <1>4
    <3>2. To(w, l[i]) < From(w, l[x])
      BY <3>1 DEF Sorted
    <3>3. c \in SeqNum /\ Offset(w, c) < To(w, l[i]) /\ From(w, l[x]) <= Offset(w, c)
      BY <1>1, RangeOf
    <3>4. Offset(w, c) \in Nat /\ To(w, l[i]) \in Nat /\ From(w, l[x]) \in Nat
      BY <1>1, <3>3, Placed, SpaceSizeAssumption DEF Offset, SeqMinus, SeqNum
    <3> QED BY ONLY <3>2, <3>3, <3>4
  <2> HIDE DEF A, B
  <2>6. /\ IsFiniteSet(A \cup B)
        /\ Cardinality(A \cup B) = Cardinality(A) + Cardinality(B) - Cardinality(A \cap B)
    BY ONLY <2>2, <2>3, FS_Union
  <2>7. Cardinality(A) \in Nat /\ Cardinality(B) \in Nat /\ Cardinality(A \cap B) = 0
    BY <2>2, <2>3, <2>5, FS_CardinalityType, FS_EmptySet
  <2>8. IsFiniteSet(C(s)) /\ g[s] = Cardinality(C(s))
    <3> HIDE DEF C
    <3> QED BY ONLY <2>1, <2>2, <2>3, <2>4, <2>6, <2>7
  <2> QED BY ONLY <2>8, <1>4
<1>5. S \in Done
  <2> HIDE DEF Done, S
  <2> QED BY ONLY <1>1, <1>3, <1>4, OneMoreAtTheEnd
<1>6. C(S) = Covered(l)
  BY <1>1 DEF CoveredOf, Covered
<1> HIDE DEF C
<1> QED BY <1>2, <1>5, <1>6

-----------------------------------------------------------------------------
(***************************************************************************)
(* RemoveAcked: what is left starts at the ACK number or beyond it, so that  *)
(* it lies in the window of the new ACK number as well.                     *)
(***************************************************************************)
LEMMA Survivors ==
    ASSUME NEW w \in SeqNum, NEW l, Sorted(w, l), NEW acked \in SeqNum, Offset(w, acked) <= Span,
           NEW first, first = SelectInSeq(l, LAMBDA b : After(b.end, acked))
    PROVE  /\ first \in 0 .. Len(l)
           /\ \A i \in 1 .. Len(l) : first = 0 \/ i < first => To(w, l[i]) <= Offset(w, acked)
           /\ first # 0 => To(w, l[first]) > Offset(w, acked)
<1> DEFINE n == Len(l)
           Left(c) == After(c.end, acked)
           I == { i \in 1 .. n : Left(l[i]) }
<1>1. /\ l \in Lists /\ n \in Nat
      /\ \A i \in 1 .. n : /\ l[i].end \in SeqNum /\ To(w, l[i]) \in Nat /\ To(w, l[i]) <= Span
  BY Placed, LenProperties DEF Sorted, Placement, Lists
<1>2. first = IF I # {} THEN Min(I) ELSE 0
  BY Zenon DEF SelectInSeq
<1>3. I # {} => Min(I) \in I /\ \A i \in I : Min(I) <= i
  <2> I \subseteq 0 .. n
    BY <1>1
  <2> HIDE DEF I, n
  <2> QED BY <1>1, MinIsFirst
<1>4. \A i \in 1 .. n : Offset(w, acked) \in Nat /\ (Left(l[i]) <=> To(w, l[i]) > Offset(w, acked))
  BY <1>1, Offsets DEF To
<1> HIDE DEF Left
<1>5. \A i \in 1 .. n : i \in I <=> To(w, l[i]) > Offset(w, acked)
  BY <1>4
<1>6. \A i \in I : i \in 1 .. n
  OBVIOUS
<1> HIDE DEF I, n
<1>7. ASSUME NEW i \in 1 .. n, first = 0 \/ i < first
      PROVE  To(w, l[i]) <= Offset(w, acked)
  <2>1. i \notin I
    BY <1>1, <1>2, <1>3, <1>6, <1>7
  <2> QED BY <1>1, <1>4, <1>5, <2>1
<1>8. first \in 0 .. n /\ (first # 0 => To(w, l[first]) > Offset(w, acked))
  BY <1>1, <1>2, <1>3, <1>5, <1>6
<1> QED BY <1>7, <1>8 DEF n

\* The blocks from one on.
LEMMA Rest ==
    ASSUME NEW l \in Lists, NEW first \in 1 .. Len(l)
    PROVE  /\ SubSeq(l, first, Len(l)) \in Lists
           /\ Len(SubSeq(l, first, Len(l))) = Len(l) - first + 1
           /\ \A i \in 1 .. Len(l) - first + 1 : SubSeq(l, first, Len(l))[i] = l[first + i - 1]
<1> DEFINE n == Len(l)
           r == SubSeq(l, first, n)
<1>1. n \in Int /\ first \in Int /\ first <= n /\ 1 <= first
  BY LenProperties DEF Lists
<1>2. \A i \in first .. n : l[i] \in Block
  <2> \A i \in first .. n : i \in 1 .. n
    BY <1>1
  <2> QED BY ElementOfSeq DEF Lists
<1> HIDE DEF n
<1>3. /\ r \in Seq(Block) /\ Len(r) = IF first <= n THEN n - first + 1 ELSE 0
      /\ \A i \in 1 .. n - first + 1 : r[i] = l[first + i - 1]
  BY ONLY <1>1, <1>2, SubSeqProperties
<1> QED BY <1>1, <1>3 DEF n, Lists

LEMMA CutBlock ==
    ASSUME NEW w \in SeqNum, NEW b, Within(w, b), NEW acked \in SeqNum,
           From(w, b) < Offset(w, acked), Offset(w, acked) < To(w, b),
           NEW c, c = [start |-> acked, end |-> b.end]
    PROVE  /\ Within(w, c) /\ From(w, c) = Offset(w, acked) /\ To(w, c) = To(w, b)
           /\ BlockRange(c) = { s \in BlockRange(b) : Offset(w, s) >= Offset(w, acked) }
<1>1. /\ From(w, b) \in Nat /\ To(w, b) \in Nat /\ To(w, b) <= Span /\ b.end \in SeqNum
  BY Placed
<1>2. \A s \in SeqNum : Offset(w, s) \in Nat
  BY SpaceSizeAssumption DEF Offset, SeqMinus, SeqNum
<1>3. From(w, c) = Offset(w, acked) /\ To(w, c) = To(w, b) /\ c \in Block
  BY <1>1 DEF From, To, Block
<1>4. Within(w, c)
  BY <1>1, <1>2, <1>3 DEF Within
<1>5. /\ BlockRange(c) = { s \in SeqNum : From(w, c) <= Offset(w, s) /\ Offset(w, s) < To(w, c) }
      /\ BlockRange(b) = { s \in SeqNum : From(w, b) <= Offset(w, s) /\ Offset(w, s) < To(w, b) }
  BY <1>4, RangeOf
<1>6. \A s \in SeqNum : From(w, c) <= Offset(w, s) /\ Offset(w, s) < To(w, c) <=>
         /\ From(w, b) <= Offset(w, s) /\ Offset(w, s) < To(w, b)
         /\ Offset(w, s) >= Offset(w, acked)
  BY <1>1, <1>2, <1>3
<1> QED BY ONLY <1>3, <1>4, <1>5, <1>6

LEMMA AckedBytes ==
    ASSUME NEW w \in SeqNum, NEW acked \in SeqNum, Offset(w, acked) <= Span,
           NEW b, Within(w, b), NEW s \in BlockRange(b)
    PROVE  /\ Before(s, acked) <=> Offset(w, s) < Offset(w, acked)
           /\ Offset(w, s) \in Nat /\ Offset(w, acked) \in Nat
           /\ From(w, b) <= Offset(w, s) /\ Offset(w, s) < To(w, b)
<1>1. s \in SeqNum /\ From(w, b) <= Offset(w, s) /\ Offset(w, s) < To(w, b)
  BY RangeOf
<1>2. /\ From(w, b) \in Nat /\ To(w, b) \in Nat /\ To(w, b) <= Span
      /\ Offset(w, s) \in Nat /\ Offset(w, acked) \in Nat /\ Span \in Nat
  BY <1>1, Placed, WindowAssumption, SpaceSizeAssumption DEF Offset, SeqMinus, SeqNum, Span
<1>3. Offset(w, s) <= Span
  BY <1>1, <1>2
<1>4. After(acked, s) <=> Offset(w, acked) > Offset(w, s)
  BY ONLY <1>1, <1>3, w \in SeqNum, acked \in SeqNum, Offset(w, acked) <= Span, Offsets
<1> QED BY <1>1, <1>2, <1>4 DEF Before

\* Blocks left by an ACK, the first one perhaps cut.
LEMMA RemoveAckedSound ==
    ASSUME NEW w \in SeqNum, NEW list, Sorted(w, list.blocks),
           NEW acked \in SeqNum, Offset(w, acked) <= Span
    PROVE  /\ Sorted(w, RemoveAcked(list, acked).blocks)
           /\ \A i \in 1 .. Len(RemoveAcked(list, acked).blocks) :
                 From(w, RemoveAcked(list, acked).blocks[i]) >= Offset(w, acked)
           /\ Covered(RemoveAcked(list, acked).blocks)
                = { s \in Covered(list.blocks) : ~Before(s, acked) }
           /\ RemoveAcked(list, acked).num_bytes = NumBytes(RemoveAcked(list, acked).blocks)
<1> DEFINE r == RemoveAcked(list, acked)
           a == Offset(w, acked)
<1>0. PICK l : l = list.blocks
  OBVIOUS
<1>1. PICK first : first = SelectInSeq(l, LAMBDA b : After(b.end, acked))
  OBVIOUS
<1>2. Sorted(w, l) /\ l \in Lists /\ Len(l) \in Nat /\ DOMAIN l = 1 .. Len(l)
  BY <1>0, LenProperties DEF Sorted, Placement, Lists
<1>3. /\ first \in 0 .. Len(l)
      /\ \A i \in 1 .. Len(l) : first = 0 \/ i < first => To(w, l[i]) <= a
      /\ first # 0 => To(w, l[first]) > a
  BY ONLY <1>1, <1>2, w \in SeqNum, acked \in SeqNum, a <= Span, Survivors
<1>4. a \in Nat /\ \A i \in 1 .. Len(l) :
         /\ Within(w, l[i]) /\ From(w, l[i]) \in Nat /\ To(w, l[i]) \in Nat
         /\ From(w, l[i]) <= To(w, l[i])
         /\ \A s \in BlockRange(l[i]) :
              /\ Before(s, acked) <=> Offset(w, s) < a
              /\ Offset(w, s) \in Nat /\ From(w, l[i]) <= Offset(w, s) /\ Offset(w, s) < To(w, l[i])
  <2>1. a \in Nat
    BY SpaceSizeAssumption DEF Offset, SeqMinus, SeqNum
  <2>2. \A i \in 1 .. Len(l) : Within(w, l[i])
    BY <1>2 DEF Sorted, Placement
  <2> HIDE DEF a
  <2> QED BY <2>1, <2>2, Placed, AckedBytes DEF a
<1>5. CASE first = 0
  <2>1. r = EmptySacks
    BY <1>0, <1>1, <1>5, Zenon DEF RemoveAcked
  <2>2. /\ Sorted(w, EmptySacks.blocks) /\ Covered(EmptySacks.blocks) = {}
        /\ EmptySacks.blocks = << >> /\ EmptySacks.num_bytes = 0
    BY EmptyList DEF EmptySacks
  <2>3. NumBytes(EmptySacks.blocks) = 0
    BY <2>2, BytesOfList, FS_EmptySet
  <2>4. \A s \in Covered(l) : Before(s, acked)
    BY <1>2, <1>3, <1>4, <1>5 DEF Covered
  <2>5. Len(EmptySacks.blocks) = 0
    BY <2>2
  <2> HIDE DEF r, a
  <2> QED BY <1>0, <2>1, <2>2, <2>3, <2>4, <2>5 DEF r, a
<1>6. CASE first # 0
  <2>1. first \in 1 .. Len(l) /\ first \in Int
    BY <1>3, <1>6
  <2>2. PICK rest : rest = SubSeq(l, first, Len(l))
    OBVIOUS
  <2>3. PICK m : m = Len(l) - first + 1
    OBVIOUS
  <2>4. /\ rest \in Lists /\ Len(rest) = m /\ m \in Nat /\ 1 \in 1 .. m
        /\ \A i \in 1 .. m : rest[i] = l[first + i - 1] /\ first + i - 1 \in 1 .. Len(l)
        /\ rest[1] = l[first]
    <3>1. rest \in Lists /\ Len(rest) = m /\ \A i \in 1 .. m : rest[i] = l[first + i - 1]
      BY ONLY <1>2, <2>1, <2>2, <2>3, Rest
    <3>2. m \in Nat /\ 1 \in 1 .. m /\ \A i \in 1 .. m : first + i - 1 \in 1 .. Len(l)
      BY <1>2, <2>1, <2>3
    <3>3. first + 1 - 1 = first
      BY <2>1
    <3> QED BY <3>1, <3>2, <3>3
  <2>5. PICK c : c = IF Before(rest[1].start, acked) THEN [rest EXCEPT ![1].start = acked] ELSE rest
    OBVIOUS
  <2>6. r = UpdateNumBytes(c)
    BY <1>0, <1>1, <1>6, <2>2, <2>5, Zenon DEF RemoveAcked
  <2>7. r.blocks = c /\ r.num_bytes = NumBytes(c)
    BY <2>6 DEF UpdateNumBytes
  <2>8. /\ c \in Lists /\ Len(c) = m
        /\ \A i \in 1 .. m : i # 1 => c[i] = rest[i]
        /\ Within(w, c[1]) /\ From(w, c[1]) >= a /\ To(w, c[1]) = To(w, rest[1])
        /\ BlockRange(c[1]) = { s \in BlockRange(rest[1]) : Offset(w, s) >= a }
    <3>1. /\ Within(w, rest[1]) /\ From(w, rest[1]) \in Nat /\ To(w, rest[1]) \in Nat
          /\ To(w, rest[1]) > a
      BY <1>3, <1>4, <1>6, <2>1, <2>4
    <3>2. Before(rest[1].start, acked) <=> From(w, rest[1]) < a
      <4>1. rest[1].start \in SeqNum /\ Offset(w, rest[1].start) <= Span
        BY <3>1, Placed, WindowAssumption DEF From, Span
      <4>2. After(acked, rest[1].start) <=> Offset(w, acked) > Offset(w, rest[1].start)
        BY ONLY <4>1, w \in SeqNum, acked \in SeqNum, a <= Span, Offsets
      <4> QED BY <1>4, <3>1, <4>2 DEF Before, From
    <3>3. CASE From(w, rest[1]) < a
      <4>1. PICK d : d = [start |-> acked, end |-> rest[1].end]
        OBVIOUS
      <4>2. c = Replaced(rest, 1, d)
        <5>1. rest[1] = [start |-> rest[1].start, end |-> rest[1].end]
          BY <3>1 DEF Within, Block
        <5>2. [rest[1] EXCEPT !.start = acked] = d
          BY <4>1, <5>1
        <5>3. c = [rest EXCEPT ![1].start = acked]
          BY <2>5, <3>2, <3>3
        <5> QED BY <5>2, <5>3 DEF Replaced
      <4>3. /\ Within(w, d) /\ From(w, d) = a /\ To(w, d) = To(w, rest[1])
            /\ BlockRange(d) = { s \in BlockRange(rest[1]) : Offset(w, s) >= a }
        BY ONLY <3>1, <3>3, <4>1, w \in SeqNum, acked \in SeqNum, CutBlock
      <4>4. d \in Block /\ rest \in Lists /\ 1 \in 1 .. Len(rest)
        BY <2>4, <4>3 DEF Within
      <4>5. /\ c \in Lists /\ Len(c) = m
            /\ \A i \in 1 .. m : c[i] = IF i = 1 THEN d ELSE rest[i]
        BY ONLY <2>4, <4>2, <4>4, ReplacedBlock
      <4>6. From(w, d) >= a /\ c[1] = d
        BY <1>4, <2>4, <4>3, <4>5
      <4> HIDE DEF a
      <4> QED BY ONLY <4>3, <4>5, <4>6
    <3>4. CASE ~(From(w, rest[1]) < a)
      <4>1. c = rest
        BY <2>5, <3>2, <3>4
      <4>2. \A s \in BlockRange(rest[1]) : Offset(w, s) >= a
        BY <1>4, <2>1, <2>4, <3>4
      <4>3. From(w, rest[1]) >= a
        BY <1>4, <3>1, <3>4
      <4> HIDE DEF a
      <4> QED BY ONLY <2>4, <3>1, <4>1, <4>2, <4>3
    <3> QED BY <3>3, <3>4
  <2>9. \A i \in 1 .. m : /\ To(w, c[i]) = To(w, l[first + i - 1])
                          /\ i # 1 => c[i] = l[first + i - 1]
    BY <2>4, <2>8
  <2>10. \A i \in 1 .. Len(l) : i > first => From(w, l[i]) >= a /\ ~(i <= first)
    <3> SUFFICES ASSUME NEW i \in 1 .. Len(l), i > first
                 PROVE  From(w, l[i]) >= a
      BY <2>1
    <3>1. To(w, l[first]) < From(w, l[i])
      BY <1>2, <2>1 DEF Sorted
    <3> QED BY <1>3, <1>4, <1>6, <2>1, <3>1
  <2> HIDE DEF r, a
  <2>11. Placement(w, c)
    <3>1. \A i \in 1 .. m : Within(w, c[i])
      BY <1>4, <2>4, <2>8
    <3> QED BY <2>8, <3>1 DEF Placement
  <2>12. ASSUME NEW i \in 1 .. Len(c), NEW j \in 1 .. Len(c), i < j
         PROVE  To(w, c[i]) < From(w, c[j])
    <3>1. /\ i \in 1 .. m /\ j \in 1 .. m /\ j # 1 /\ first + i - 1 < first + j - 1
      BY <2>1, <2>4, <2>8, <2>12
    <3>2. To(w, l[first + i - 1]) < From(w, l[first + j - 1])
      BY <1>2, <2>4, <3>1 DEF Sorted
    <3> QED BY <2>9, <3>1, <3>2
  <2>13. Sorted(w, c)
    BY ONLY <2>11, <2>12 DEF Sorted
  <2>14. ASSUME NEW i \in 1 .. Len(c)
         PROVE  From(w, c[i]) >= a
    <3>1. CASE i = 1
      BY <2>8, <3>1
    <3>2. CASE i # 1
      <4>1. first + i - 1 > first /\ i \in 1 .. m
        BY <2>1, <2>4, <2>8, <3>2
      <4> QED BY <2>4, <2>9, <2>10, <3>2, <4>1
    <3> QED BY <3>1, <3>2
  <2>15. ASSUME NEW s
         PROVE  s \in Covered(c) <=> s \in Covered(l) /\ ~Before(s, acked)
    <3>1. s \in Covered(c) <=> \E i \in 1 .. m : s \in BlockRange(c[i])
      BY <2>8, LenProperties DEF Covered, Lists
    <3>2. s \in Covered(l) <=> \E i \in 1 .. Len(l) : s \in BlockRange(l[i])
      BY <1>2 DEF Covered
    <3>3. ASSUME NEW i \in 1 .. m, s \in BlockRange(c[i])
          PROVE  s \in BlockRange(l[first + i - 1]) /\ ~Before(s, acked)
      <4>1. CASE i = 1
        <5>1. s \in BlockRange(l[first]) /\ Offset(w, s) >= a /\ first + i - 1 = first
          BY <2>1, <2>4, <2>8, <3>3, <4>1
        <5> QED BY <1>4, <2>1, <5>1
      <4>2. CASE i # 1
        <5>1. PICK j \in 1 .. Len(l) : j = first + i - 1 /\ j > first /\ c[i] = l[j]
          <6>1. first + i - 1 \in 1 .. Len(l) /\ c[i] = l[first + i - 1]
            BY ONLY <2>4, <2>9, <4>2, i \in 1 .. m
          <6>2. first + i - 1 > first
            BY ONLY <2>1, <2>4, <4>2, i \in 1 .. m
          <6> QED BY ONLY <6>1, <6>2
        <5>2. s \in BlockRange(l[j]) /\ From(w, l[j]) >= a
          BY <2>10, <3>3, <5>1
        <5> QED BY <1>4, <5>1, <5>2
      <4> QED BY <4>1, <4>2
    <3>4. ASSUME NEW i \in 1 .. Len(l), s \in BlockRange(l[i]), ~Before(s, acked)
          PROVE  \E j \in 1 .. m : s \in BlockRange(c[j])
      <4>1. Offset(w, s) >= a /\ Offset(w, s) < To(w, l[i])
        BY <1>4, <3>4
      <4>2. ~(i < first)
        BY <1>3, <1>4, <3>4, <4>1
      <4>3. CASE i = first
        BY <2>4, <2>8, <3>4, <4>1, <4>3
      <4>4. CASE i > first
        <5>1. i - first + 1 \in 1 .. m /\ i - first + 1 # 1 /\ first + (i - first + 1) - 1 = i
          BY <1>2, <2>1, <2>3, <4>4
        <5>2. c[i - first + 1] = l[i]
          BY <2>9, <5>1
        <5> QED BY <3>4, <5>1, <5>2
      <4> QED BY <2>1, <4>2, <4>3, <4>4
    <3> QED BY ONLY <2>4, <3>1, <3>2, <3>3, <3>4
  <2>16. Covered(c) = { s \in Covered(l) : ~Before(s, acked) }
    BY ONLY <2>15
  <2> QED BY ONLY <1>0, <2>7, <2>13, <2>14, <2>16 DEF r, a
<1> QED BY <1>5, <1>6

-----------------------------------------------------------------------------
(***************************************************************************)
(* The window moves with the ACK number; what lies in both windows is in the *)
(* same order in both.                                                     *)
(***************************************************************************)
LEMMA WindowMoves ==
    ASSUME NEW w \in SeqNum, NEW d \in Nat, d < SpaceSize,
           NEW l, Sorted(w, l), \A i \in 1 .. Len(l) : From(w, l[i]) >= d
    PROVE  SeqPlus(w, d) \in SeqNum /\ Sorted(SeqPlus(w, d), l)
<1>1. PICK v : v = SeqPlus(w, d)
  OBVIOUS
<1>2. v \in SeqNum
  BY <1>1, SpaceSizeAssumption DEF SeqPlus, SeqNum
<1>3. ASSUME NEW s \in SeqNum, Offset(w, s) >= d
      PROVE  Offset(v, s) = Offset(w, s) - d
  BY <1>1, <1>3, SpaceSizeAssumption DEF SeqPlus, SeqNum, Offset, SeqMinus
<1>4. ASSUME NEW i \in 1 .. Len(l)
      PROVE  /\ Within(v, l[i])
             /\ From(v, l[i]) = From(w, l[i]) - d /\ To(v, l[i]) = To(w, l[i]) - d
  <2>1. Within(w, l[i])
    BY DEF Sorted, Placement
  <2>2. /\ l[i].start \in SeqNum /\ l[i].end \in SeqNum
        /\ From(w, l[i]) \in Nat /\ To(w, l[i]) \in Nat /\ From(w, l[i]) <= To(w, l[i])
        /\ To(w, l[i]) <= Span /\ From(w, l[i]) >= d
    BY <2>1, Placed
  <2>3. From(v, l[i]) = From(w, l[i]) - d
    BY <1>3, <2>2 DEF From
  <2>4. To(w, l[i]) >= d
    BY <2>2
  <2>5. To(v, l[i]) = To(w, l[i]) - d
    BY <1>3, <2>2, <2>4 DEF To
  <2>6. Span \in Nat
    BY WindowAssumption DEF Span
  <2> QED BY <2>1, <2>2, <2>3, <2>5, <2>6 DEF Within
<1>5. ASSUME NEW i \in 1 .. Len(l), NEW j \in 1 .. Len(l), i < j
      PROVE  To(v, l[i]) < From(v, l[j])
  <2>1. To(w, l[i]) < From(w, l[j])
    BY <1>5 DEF Sorted
  <2>2. To(w, l[i]) \in Nat /\ From(w, l[j]) \in Nat
    BY PlacedIn DEF Sorted
  <2> QED BY <1>4, <2>1, <2>2
<1>6. Sorted(v, l)
  BY <1>4, <1>5 DEF Sorted, Placement
<1> QED BY <1>1, <1>2, <1>6

\* The window of an ACK number.
LEMMA WindowOf ==
    ASSUME seq_acked \in SeqNum
    PROVE  /\ WindowStart \in SeqNum /\ Offset(WindowStart, seq_acked) = Behind
           /\ \A d \in 0 .. Ahead :
                /\ SeqPlus(seq_acked, d) \in SeqNum
                /\ Offset(WindowStart, SeqPlus(seq_acked, d)) = Behind + d
                /\ Behind + d <= Span /\ d < SpaceSize
                /\ SeqMinus(SeqPlus(seq_acked, d), Behind) = SeqPlus(WindowStart, d)
<1>1. Behind \in Nat /\ Ahead \in Nat /\ Behind + Ahead < SpaceSize /\ SpaceSize \in Nat
  BY SpaceSizeAssumption, WindowAssumption DEF MaxForward, HalfSpace
<1> QED BY <1>1 DEF WindowStart, SeqMinus, SeqPlus, SeqNum, Offset, Span

LEMMA WindowBlocksPlaced ==
    ASSUME seq_acked \in SeqNum
    PROVE  /\ \A b \in WindowBlocks : Within(WindowStart, b)
           /\ \A news \in SeqOf(WindowBlocks, MaxCaptured) : Placement(WindowStart, news)
<1>1. /\ Span \in Nat /\ Span < SpaceSize /\ SpaceSize \in Nat
      /\ WindowStart \in SeqNum
  BY WindowOf, SpaceSizeAssumption, WindowAssumption DEF MaxForward, HalfSpace, Span
<1>2. \A d \in 0 .. Span : SeqPlus(WindowStart, d) \in SeqNum
                           /\ Offset(WindowStart, SeqPlus(WindowStart, d)) = d
  <2> HIDE DEF WindowStart, Span
  <2> QED BY <1>1 DEF SeqPlus, SeqMinus, SeqNum, Offset
<1>3. ASSUME NEW b \in WindowBlocks
      PROVE  Within(WindowStart, b)
  <2>1. PICK e \in (0 .. Span) \X (0 .. Span) :
           e[1] <= e[2] /\ b = [start |-> SeqPlus(WindowStart, e[1]), end |-> SeqPlus(WindowStart, e[2])]
    BY DEF WindowBlocks, Span
  <2>2. b \in Block /\ From(WindowStart, b) = e[1] /\ To(WindowStart, b) = e[2]
    BY <1>2, <2>1 DEF Block, From, To
  <2> QED BY <1>1, <2>1, <2>2 DEF Within
<1>4. ASSUME NEW news \in SeqOf(WindowBlocks, MaxCaptured)
      PROVE  Placement(WindowStart, news)
  <2>1. PICK m \in 0 .. MaxCaptured : news \in [1 .. m -> WindowBlocks]
    BY DEF SeqOf
  <2>2. m \in Nat
    BY WindowAssumption
  <2>3. WindowBlocks \subseteq Block
    BY <1>3 DEF Within
  <2>4. news \in [1 .. m -> Block]
    BY <2>1, <2>3
  <2>5. news \in Lists /\ Len(news) = m
    BY <2>2, <2>4, SeqDef, LenProperties DEF Lists
  <2> QED BY <1>3, <2>1, <2>5 DEF Placement
<1> QED BY <1>3, <1>4

-----------------------------------------------------------------------------
(***************************************************************************)
(* What every step keeps: the list is in order as seen from the window of    *)
(* its owner's ACK number.                                                 *)
(***************************************************************************)
ListInv ==
    /\ TypeOK /\ sacks \in SackLists
    /\ Sorted(WindowStart, sacks.blocks)
    /\ HoldsWhatWasAdded
    /\ SettledNumBytes

LEMMA CoveredNumbers ==
    ASSUME NEW w \in SeqNum, NEW l, Placement(w, l)
    PROVE  Covered(l) \subseteq SeqNum
<1>1. \A i \in DOMAIN l : BlockRange(l[i]) \subseteq SeqNum
  <2> SUFFICES ASSUME NEW i \in DOMAIN l PROVE BlockRange(l[i]) \subseteq SeqNum
    OBVIOUS
  <2>1. Within(w, l[i])
    BY LenProperties DEF Placement, Lists
  <2> QED BY <2>1, RangeOf
<1> QED BY <1>1 DEF Covered

LEMMA ListInvInit == Init => ListInv
<1> SUFFICES ASSUME Init PROVE ListInv
  OBVIOUS
<1>1. seq_acked \in SeqNum /\ sacks = EmptySacks /\ held = {} /\ num_sacks = 0 /\ last_call = "none"
  BY DEF Init
<1>2. WindowStart \in SeqNum
  BY <1>1, WindowOf
<1>3. sacks \in SackLists /\ Sorted(WindowStart, sacks.blocks) /\ Covered(sacks.blocks) = {}
  <2> HIDE DEF WindowStart
  <2> QED BY <1>1, <1>2, EmptyList
<1>4. TypeOK
  BY <1>1, <1>3 DEF TypeOK, SackLists, Lists
<1> QED BY <1>1, <1>3, <1>4 DEF ListInv, HoldsWhatWasAdded, SettledNumBytes

\* A new list or a longer one, at an unchanged ACK number.
LEMMA ParseKeeps ==
    ASSUME ListInv, NEW opt_size \in {10, 13, 18, 42}, NEW captured, Placement(WindowStart, captured),
           Parse(opt_size, captured)
    PROVE  ListInv'
<1>1. /\ seq_acked \in SeqNum /\ seq_acked' = seq_acked /\ sacks \in SackLists
      /\ WindowStart \in SeqNum /\ WindowStart' = WindowStart
  BY WindowOf DEF ListInv, TypeOK, Parse, WindowStart
<1> HIDE DEF WindowStart
<1>2. captured \in Lists /\ Covered(captured) \subseteq SeqNum
  BY <1>1, CoveredNumbers DEF Placement
<1>3. CASE opt_size % 8 = 2 /\ opt_size <= 40
  <2>1. /\ sacks' = ParseBlocks(captured) /\ held' = Covered(captured)
        /\ num_sacks' = (opt_size - 2) \div 8 /\ last_call' = "Parse"
    BY <1>3 DEF Parse
  <2>2. /\ Sorted(WindowStart, sacks'.blocks) /\ Covered(sacks'.blocks) = Covered(captured)
        /\ sacks'.num_bytes = NumBytes(sacks'.blocks) /\ sacks' \in SackLists
    BY <1>1, <1>2, <2>1, ParseSound, ParseTyped
  <2>3. sacks'.num_bytes = Cardinality(Covered(sacks'.blocks))
    BY <1>1, <2>2, BytesOfList
  <2>4. num_sacks' \in 0 .. 4
    BY <1>3, <2>1
  <2>5. TypeOK'
    BY <1>1, <1>2, <2>1, <2>2, <2>4 DEF TypeOK, SackLists, Lists
  <2> QED BY <1>1, <2>1, <2>2, <2>3, <2>5 DEF ListInv, HoldsWhatWasAdded, SettledNumBytes
<1>4. CASE ~(opt_size % 8 = 2 /\ opt_size <= 40)
  <2>1. /\ sacks' = [sacks EXCEPT !.blocks = << >>] /\ held' = {}
        /\ num_sacks' = 0 /\ last_call' = "refused"
    BY <1>4 DEF Parse
  <2>2. sacks' \in SackLists /\ sacks'.blocks = EmptySacks.blocks
    BY <1>1, <2>1, EmptySeq DEF SackLists, EmptySacks, Lists
  <2>3. Sorted(WindowStart, sacks'.blocks) /\ Covered(sacks'.blocks) = {}
    BY <1>1, <2>2, EmptyList
  <2>4. TypeOK'
    BY <1>1, <2>1, <2>2 DEF TypeOK, SackLists, Lists
  <2> QED BY <1>1, <2>1, <2>2, <2>3, <2>4 DEF ListInv, HoldsWhatWasAdded, SettledNumBytes
<1> QED BY <1>3, <1>4

LEMMA AddBlockKeeps ==
    ASSUME ListInv, NEW new, Within(WindowStart, new), AddBlock(new)
    PROVE  ListInv'
<1>1. /\ seq_acked \in SeqNum /\ seq_acked' = seq_acked /\ sacks \in SackLists
      /\ WindowStart \in SeqNum /\ WindowStart' = WindowStart
      /\ num_sacks \in 0 .. 4 /\ held \subseteq SeqNum
  BY WindowOf DEF ListInv, TypeOK, AddBlock, WindowStart
<1> HIDE DEF WindowStart
<1>2. /\ sacks' = Add(sacks, new) /\ held' = held \cup BlockRange(new)
      /\ last_call' = "Add" /\ num_sacks' = num_sacks
  BY DEF AddBlock
<1>3. /\ Sorted(WindowStart, sacks'.blocks) /\ sacks' \in SackLists
      /\ Covered(sacks'.blocks) = Covered(sacks.blocks) \cup BlockRange(new)
  BY <1>1, <1>2, AddSound, AddTyped DEF ListInv, Within
<1>4. BlockRange(new) \subseteq SeqNum
  BY <1>1, RangeOf
<1>5. TypeOK'
  BY <1>1, <1>2, <1>3, <1>4 DEF TypeOK, SackLists, Lists
<1> QED BY <1>1, <1>2, <1>3, <1>5 DEF ListInv, HoldsWhatWasAdded, SettledNumBytes

\* The blocks of an ACK are added in its old window and trimmed into its new one.
LEMMA RemoveKeeps ==
    ASSUME ListInv, NEW news, Placement(WindowStart, news), NEW d \in 0 .. Ahead,
           AddAndRemoveAcked(news, SeqPlus(seq_acked, d))
    PROVE  ListInv'
<1> DEFINE to == SeqPlus(seq_acked, d)
           w == WindowStart
<1>1. /\ seq_acked \in SeqNum /\ sacks \in SackLists /\ num_sacks \in 0 .. 4 /\ held \subseteq SeqNum
      /\ Sorted(w, sacks.blocks) /\ Covered(sacks.blocks) = held
  BY DEF ListInv, TypeOK, HoldsWhatWasAdded
<1>2. /\ w \in SeqNum /\ to \in SeqNum /\ Offset(w, to) = Behind + d /\ Behind + d <= Span
      /\ SeqMinus(to, Behind) = SeqPlus(w, d) /\ d < SpaceSize
  BY <1>1, WindowOf
<1>3. /\ sacks' = RemoveAcked(AddAll(sacks, news), to) /\ seq_acked' = to
      /\ last_call' = "RemoveAcked" /\ num_sacks' = num_sacks
      /\ held' = { s \in held \cup Covered(news) : ~Before(s, to) }
  BY DEF AddAndRemoveAcked
<1>4. WindowStart' = SeqPlus(w, d)
  BY <1>2, <1>3 DEF WindowStart
<1> HIDE DEF to, w
<1>5. PICK list : list = AddAll(sacks, news)
  OBVIOUS
<1>6. /\ list \in SackLists /\ Sorted(w, list.blocks)
      /\ Covered(list.blocks) = held \cup Covered(news)
  <2>1. Placement(w, news) /\ news \in Lists
    BY DEF w, Placement
  <2> QED BY <1>1, <1>2, <1>5, <2>1, AddAllSound, AddAllTyped
<1>7. PICK r : r = RemoveAcked(list, to)
  OBVIOUS
<1>8. /\ Sorted(w, r.blocks)
      /\ \A i \in 1 .. Len(r.blocks) : From(w, r.blocks[i]) >= Behind + d
      /\ Covered(r.blocks) = { s \in Covered(list.blocks) : ~Before(s, to) }
      /\ r.num_bytes = NumBytes(r.blocks)
  <2>1. Offset(w, to) <= Span
    BY <1>2
  <2> QED BY ONLY <1>2, <1>6, <1>7, <2>1, RemoveAckedSound
<1>9. r \in SackLists
  <2>1. r = EmptySacks \/ \E l : r = UpdateNumBytes(l)
    BY <1>7, Zenon DEF RemoveAcked
  <2>2. r.blocks \in Lists
    BY <1>8 DEF Sorted, Placement
  <2>3. CASE \E l : r = UpdateNumBytes(l)
    <3>1. r = UpdateNumBytes(r.blocks)
      BY <2>3 DEF UpdateNumBytes
    <3> QED BY <2>2, <3>1, UpdateTyped
  <2> QED BY <1>2, <2>1, <2>3, EmptyList
<1>10. Sorted(SeqPlus(w, d), r.blocks)
  <2>1. \A i \in 1 .. Len(r.blocks) : From(w, r.blocks[i]) >= d
    <3>1. \A i \in 1 .. Len(r.blocks) : From(w, r.blocks[i]) \in Nat
      BY <1>2, <1>8, PlacedIn DEF Sorted
    <3> QED BY <1>8, <3>1, WindowAssumption
  <2>2. d \in Nat
    BY WindowAssumption
  <2> QED BY ONLY <1>2, <1>8, <2>1, <2>2, WindowMoves
<1>11. r.num_bytes = Cardinality(Covered(r.blocks))
  BY <1>2, <1>8, BytesOfList
<1>12. Covered(news) \subseteq SeqNum
  BY <1>2, CoveredNumbers DEF w
<1>13. sacks' = r
  BY <1>3, <1>5, <1>7
<1>14. TypeOK'
  BY <1>1, <1>2, <1>3, <1>9, <1>12, <1>13 DEF TypeOK, SackLists, Lists
<1> QED BY <1>3, <1>4, <1>6, <1>8, <1>9, <1>10, <1>11, <1>13, <1>14
        DEF ListInv, HoldsWhatWasAdded, SettledNumBytes

LEMMA ListInvStep == ListInv /\ [Next]_vars => ListInv'
<1> SUFFICES ASSUME ListInv, [Next]_vars PROVE ListInv'
  OBVIOUS
<1>1. seq_acked \in SeqNum /\ WindowStart \in SeqNum
  BY WindowOf DEF ListInv, TypeOK
<1>2. /\ \A b \in WindowBlocks : Within(WindowStart, b)
      /\ \A news \in SeqOf(WindowBlocks, MaxCaptured) : Placement(WindowStart, news)
  BY <1>1, WindowBlocksPlaced
<1>3. CASE \E opt_size \in {10, 18}, captured \in SeqOf(WindowBlocks, MaxCaptured) :
              Parse(opt_size, captured)
  BY <1>2, <1>3, ParseKeeps
<1>4. CASE \E opt_size \in {13, 42} : Parse(opt_size, << >>)
  <2>1. Placement(WindowStart, << >>)
    BY EmptySeq DEF Placement, Lists
  <2> QED BY <1>4, <2>1, ParseKeeps
<1>5. CASE \E new \in WindowBlocks : AddBlock(new)
  BY <1>2, <1>5, AddBlockKeeps
<1>6. CASE \E news \in SeqOf(WindowBlocks, MaxCaptured), d \in 0 .. Ahead :
              AddAndRemoveAcked(news, SeqPlus(seq_acked, d))
  BY <1>2, <1>6, RemoveKeeps
<1>7. CASE UNCHANGED vars
  BY <1>7 DEF vars, ListInv, TypeOK, WindowStart, HoldsWhatWasAdded, SettledNumBytes
<1> QED BY <1>3, <1>4, <1>5, <1>6, <1>7 DEF Next

LEMMA ListInvariant == Spec => []ListInv
<1> QED BY ListInvInit, ListInvStep, PTL DEF Spec

(***************************************************************************)
(* The variables of a TcpSacks object keep their types: no arithmetic of      *)
(* Add, Merge or RemoveAcked leaves the sequence space, and the announced     *)
(* number of blocks is one that an option can hold.                         *)
(***************************************************************************)
THEOREM ListTyped == Spec => []TypeOK
<1>1. ListInv => TypeOK
  BY DEF ListInv
<1> QED BY <1>1, ListInvariant, PTL

(***************************************************************************)
(* Blocks stay in sequence order and apart, for any window narrower than     *)
(* half the sequence space and wherever the numbers wrap.                   *)
(***************************************************************************)
THEOREM BlocksStayApart == Spec => []SortedAndApart
<1>1. ListInv => SortedAndApart
  <2> SUFFICES ASSUME ListInv, NEW i \in DOMAIN sacks.blocks, NEW j \in DOMAIN sacks.blocks, i < j
               PROVE  Before(sacks.blocks[i].end, sacks.blocks[j].start)
    BY DEF SortedAndApart
  <2>1. WindowStart \in SeqNum /\ Sorted(WindowStart, sacks.blocks)
    BY WindowOf DEF ListInv, TypeOK
  <2> HIDE DEF WindowStart
  <2>2. i \in 1 .. Len(sacks.blocks) /\ j \in 1 .. Len(sacks.blocks)
    BY <2>1, LenProperties DEF Sorted, Placement, Lists
  <2>3. /\ Within(WindowStart, sacks.blocks[i]) /\ Within(WindowStart, sacks.blocks[j])
        /\ To(WindowStart, sacks.blocks[i]) < From(WindowStart, sacks.blocks[j])
    BY <2>1, <2>2 DEF Sorted, Placement
  <2> QED BY <2>1, <2>3, Touching
<1> QED BY <1>1, ListInvariant, PTL

(***************************************************************************)
(* The cached byte count is exact whenever Parse or ProcessAck left it: the  *)
(* bytes in flight that GetUnackedBytes reports count no byte twice.         *)
(***************************************************************************)
THEOREM CountIsExact == Spec => []SettledNumBytes
<1>1. ListInv => SettledNumBytes
  BY DEF ListInv
<1> QED BY <1>1, ListInvariant, PTL

(***************************************************************************)
(* The list stands for exactly the bytes it was given and that are not acked *)
(* yet, however many blocks a header has and however they overlap.           *)
(***************************************************************************)
THEOREM NothingLostOrInvented == Spec => []HoldsWhatWasAdded
<1>1. ListInv => HoldsWhatWasAdded
  BY DEF ListInv
<1> QED BY <1>1, ListInvariant, PTL

-----------------------------------------------------------------------------
(***************************************************************************)
(* The refinement of SackedBytes.  Runs of bytes are counted by their first  *)
(* bytes, and a header with n blocks begins at most n runs.                  *)
(***************************************************************************)
RunStarts(bytes) == { s \in bytes : SeqMinus(s, 1) \notin bytes }

\* A byte of a block that does not start it follows one of the same block.
LEMMA PreviousByte ==
    ASSUME NEW w \in SeqNum, NEW b, Within(w, b), NEW s \in BlockRange(b), s # b.start
    PROVE  SeqMinus(s, 1) \in BlockRange(b) /\ Offset(w, SeqMinus(s, 1)) = Offset(w, s) - 1
<1>1. s \in SeqNum /\ From(w, b) <= Offset(w, s) /\ Offset(w, s) < To(w, b)
  BY RangeOf
<1>2. b.start \in SeqNum /\ From(w, b) \in Nat /\ To(w, b) \in Nat
  BY Placed
<1>3. SpaceSize \in Nat /\ SpaceSize > 6
  BY SpaceSizeAssumption
<1>4. Offset(w, s) > From(w, b)
  BY <1>1, <1>2, <1>3 DEF Offset, From, SeqMinus, SeqNum
<1>5. SeqMinus(s, 1) \in SeqNum /\ Offset(w, SeqMinus(s, 1)) = Offset(w, s) - 1
  BY <1>1, <1>2, <1>3, <1>4 DEF Offset, SeqMinus, SeqNum
<1>6. Offset(w, s) \in Nat
  BY <1>1, <1>3 DEF Offset, SeqMinus, SeqNum
<1>7. From(w, b) <= Offset(w, SeqMinus(s, 1)) /\ Offset(w, SeqMinus(s, 1)) < To(w, b)
  BY <1>1, <1>2, <1>4, <1>5, <1>6
<1> QED BY <1>5, <1>7, RangeOf

\* Blocks that an ACK number may cut begin no more runs than there are blocks.
LEMMA FewRuns ==
    ASSUME NEW w \in SeqNum, NEW news, Placement(w, news), Len(news) <= MaxCaptured,
           NEW to \in SeqNum, Offset(w, to) <= Span,
           NEW old, old \subseteq SeqNum, \A s \in old : ~Before(s, to),
           NEW all, all = old \cup { s \in Covered(news) : ~Before(s, to) }
    PROVE  Cardinality(RunStarts(all)) <= Cardinality(RunStarts(old)) + MaxCaptured
<1> DEFINE n == Len(news)
           D == 1 .. n
           f == [i \in D |-> IF Before(news[i].start, to) THEN to ELSE news[i].start]
           F == { f[i] : i \in D }
<1>1. /\ n \in Nat /\ DOMAIN news = D /\ MaxCaptured \in Nat
      /\ \A i \in D : Within(w, news[i])
  BY LenProperties, WindowAssumption DEF Placement, Lists
<1>2. RunStarts(all) \subseteq RunStarts(old) \cup F
  <2> SUFFICES ASSUME NEW s \in RunStarts(all), s \notin RunStarts(old)
               PROVE  s \in F
    OBVIOUS
  <2>1. s \in all /\ SeqMinus(s, 1) \notin all /\ s \notin old
    BY DEF RunStarts
  <2>2. PICK i \in D : s \in BlockRange(news[i])
    BY <1>1, <2>1 DEF Covered
  <2>3. ~Before(s, to)
    BY <2>1
  <2>4. f[i] = IF Before(news[i].start, to) THEN to ELSE news[i].start
    OBVIOUS
  <2>5. CASE s = news[i].start
    BY <2>2, <2>3, <2>4, <2>5
  <2>6. CASE s # news[i].start
    <3>1. SeqMinus(s, 1) \in BlockRange(news[i]) /\ Offset(w, SeqMinus(s, 1)) = Offset(w, s) - 1
      BY <1>1, <2>2, <2>6, PreviousByte
    <3>2. Before(SeqMinus(s, 1), to)
      <4>1. SeqMinus(s, 1) \in Covered(news)
        BY <1>1, <2>2, <3>1 DEF Covered
      <4> QED BY <2>1, <4>1
    <3>3. /\ Offset(w, SeqMinus(s, 1)) < Offset(w, to) /\ ~(Offset(w, s) < Offset(w, to))
          /\ Offset(w, s) \in Nat /\ Offset(w, to) \in Nat
          /\ From(w, news[i]) <= Offset(w, SeqMinus(s, 1))
      BY <1>1, <2>2, <2>3, <3>1, <3>2, AckedBytes
    <3>4. s = to
      <4>1. s \in SeqNum
        BY <1>1, <2>2, RangeOf
      <4>2. Offset(w, s) = Offset(w, to)
        BY <3>1, <3>3
      <4> QED BY <4>1, <4>2, SpaceSizeAssumption DEF Offset, SeqMinus, SeqNum
    <3>5. Before(news[i].start, to)
      <4>1. /\ news[i].start \in SeqNum /\ From(w, news[i]) \in Nat /\ From(w, news[i]) <= Span
        BY <1>1, Placed, WindowAssumption DEF Span
      <4>2. From(w, news[i]) < Offset(w, to)
        BY <3>1, <3>3, <4>1
      <4>3. After(to, news[i].start) <=> Offset(w, to) > Offset(w, news[i].start)
        BY <4>1, Offsets DEF From
      <4> QED BY <3>3, <4>1, <4>2, <4>3 DEF Before, From
    <3> QED BY <2>2, <2>4, <3>4, <3>5
  <2> QED BY <2>5, <2>6
<1>3. IsFiniteSet(F) /\ Cardinality(F) <= n
  <2>1. f \in Surjection(D, F)
    <3>1. f \in [D -> F] /\ \A x \in F : \E i \in D : f[i] = x
      OBVIOUS
    <3> HIDE DEF f, F, D
    <3> QED BY ONLY <3>1, Fun_IsSurj
  <2>2. IsFiniteSet(D) /\ Cardinality(D) = n
    <3>1. 1 \in Int /\ n \in Int
      BY <1>1
    <3>2. IsFiniteSet(D) /\ Cardinality(D) = IF 1 > n THEN 0 ELSE n - 1 + 1
      BY ONLY <3>1, FS_Interval
    <3> QED BY <1>1, <3>2
  <2> HIDE DEF f, F, D
  <2> QED BY <2>1, <2>2, FS_Surjection
<1>4. IsFiniteSet(RunStarts(old))
  <2>1. IsFiniteSet(SeqNum)
    <3>1. 0 \in Int /\ SpaceSize - 1 \in Int
      BY SpaceSizeAssumption
    <3> QED BY ONLY <3>1, FS_Interval DEF SeqNum
  <2>2. RunStarts(old) \subseteq SeqNum
    BY DEF RunStarts
  <2> QED BY <2>1, <2>2, FS_Subset
<1> HIDE DEF F, n
<1>5. /\ IsFiniteSet(RunStarts(old) \cup F)
      /\ Cardinality(RunStarts(old) \cup F)
           = Cardinality(RunStarts(old)) + Cardinality(F) - Cardinality(RunStarts(old) \cap F)
  BY <1>3, <1>4, FS_Union
<1>6. IsFiniteSet(RunStarts(old) \cap F)
  BY <1>3, FS_Subset
<1>7. /\ Cardinality(RunStarts(all)) <= Cardinality(RunStarts(old) \cup F)
      /\ IsFiniteSet(RunStarts(all))
  BY <1>2, <1>5, FS_Subset
<1>8. /\ Cardinality(RunStarts(all)) \in Nat /\ Cardinality(RunStarts(old)) \in Nat
      /\ Cardinality(F) \in Nat /\ Cardinality(RunStarts(old) \cap F) \in Nat
  BY <1>3, <1>4, <1>6, <1>7, FS_CardinalityType
<1>9. n <= MaxCaptured
  BY DEF n
<1> QED BY ONLY <1>1, <1>3, <1>5, <1>7, <1>8, <1>9

\* Both specifications count in the same sequence space.
LEMMA SameSpace ==
    /\ Abstract!SeqNum = SeqNum
    /\ \A start, len : Abstract!Bytes(start, len) = { SeqPlus(start, d) : d \in 0 .. len - 1 }
    /\ \A bytes : Abstract!Runs(bytes) = Cardinality(RunStarts(bytes))
    /\ \A s, t : Abstract!Before(s, t) <=> Before(s, t)
<1>1. Abstract!SeqNum = SeqNum
  BY DEF Abstract!SeqNum, SeqNum
<1>2. \A start, len : Abstract!Bytes(start, len) = { SeqPlus(start, d) : d \in 0 .. len - 1 }
  BY DEF Abstract!Bytes, Abstract!SeqPlus, SeqPlus
<1>3. \A bytes : Abstract!Runs(bytes) = Cardinality(RunStarts(bytes))
  <2>1. \A s : Abstract!SeqMinus(s, 1) = SeqMinus(s, 1)
    BY DEF Abstract!SeqMinus, SeqMinus
  <2> TAKE bytes
  <2>2. { s \in bytes : Abstract!SeqMinus(s, 1) \notin bytes } = RunStarts(bytes)
    BY ONLY <2>1 DEF RunStarts
  <2>3. \A S : Abstract!Cardinality(S) = Cardinality(S)
    BY Zenon DEF Abstract!Cardinality, Cardinality
  <2> QED BY ONLY <2>2, <2>3 DEF Abstract!Runs
<1>4. \A s, t : Abstract!Before(s, t) <=> Before(s, t)
  BY DEF Abstract!Before, Before, Abstract!After, After, Abstract!MaxForward, MaxForward,
         Abstract!HalfSpace, HalfSpace
<1> QED BY <1>1, <1>2, <1>3, <1>4

LEMMA HeaderBlocks ==
    ASSUME NEW news \in SeqOf(WindowBlocks, MaxCaptured), seq_acked \in SeqNum
    PROVE  Placement(WindowStart, news) /\ Len(news) <= MaxCaptured
<1>1. PICK m \in 0 .. MaxCaptured : news \in [1 .. m -> WindowBlocks]
  BY DEF SeqOf
<1>2. news \in Seq(WindowBlocks) /\ m \in Nat /\ m <= MaxCaptured
  BY <1>1, WindowAssumption, SeqDef
<1>3. Len(news) = m
  BY <1>1, <1>2, LenProperties
<1> QED BY <1>2, <1>3, WindowBlocksPlaced

LEMMA ParseRefines ==
    ASSUME ListInv, NEW opt_size \in {10, 13, 18, 42}, NEW captured,
           Placement(WindowStart, captured), Len(captured) <= MaxCaptured,
           Parse(opt_size, captured), ListInv'
    PROVE  Abstract!StartOver \/ Abstract!Refuse
<1>1. seq_acked' = seq_acked /\ Covered(sacks.blocks)' = held'
  BY DEF Parse, ListInv, HoldsWhatWasAdded
<1>2. seq_acked \in SeqNum /\ WindowStart \in SeqNum
  BY WindowOf DEF ListInv, TypeOK
<1> HIDE DEF WindowStart
<1>3. CASE opt_size % 8 = 2 /\ opt_size <= 40
  <2>1. held' = Covered(captured) /\ last_call' = "Parse"
    BY <1>3 DEF Parse
  <2>2. Covered(captured) \subseteq SeqNum
    BY <1>2, CoveredNumbers
  \* No ACK number cuts the blocks of a header: take the start of the window.
  <2>3. PICK all : all = Covered(captured)
    OBVIOUS
  <2>4. Offset(WindowStart, WindowStart) <= Span /\ \A s \in Covered(captured) : ~Before(s, WindowStart)
    <3>1. Offset(WindowStart, WindowStart) = 0 /\ Span \in Nat
      BY <1>2, WindowAssumption DEF Offset, SeqMinus, SeqNum, Span
    <3>2. ASSUME NEW s \in Covered(captured)
          PROVE  ~Before(s, WindowStart)
      <4>1. PICK i \in 1 .. Len(captured) : s \in BlockRange(captured[i])
        BY LenProperties DEF Covered, Placement, Lists
      <4>2. Within(WindowStart, captured[i])
        BY DEF Placement
      <4>3. /\ Before(s, WindowStart) <=> Offset(WindowStart, s) < Offset(WindowStart, WindowStart)
            /\ Offset(WindowStart, s) \in Nat
        BY <1>2, <3>1, <4>1, <4>2, AckedBytes
      <4> QED BY <3>1, <4>3
    <3> QED BY <3>1, <3>2
  <2>5. all = {} \cup { s \in Covered(captured) : ~Before(s, WindowStart) }
    BY <2>3, <2>4
  <2>6. Cardinality(RunStarts(all)) <= Cardinality(RunStarts({})) + MaxCaptured
    <3>1. {} \subseteq SeqNum /\ \A s \in {} : ~Before(s, WindowStart)
      OBVIOUS
    <3> QED BY ONLY <1>2, <2>4, <2>5, <3>1, Placement(WindowStart, captured),
                    Len(captured) <= MaxCaptured, FewRuns
  <2>7. Cardinality(RunStarts({})) = 0 /\ MaxCaptured \in Nat
    <3>1. RunStarts({}) = {}
      BY DEF RunStarts
    <3> QED BY <3>1, FS_EmptySet, WindowAssumption
  <2>8. Cardinality(RunStarts(all)) <= MaxCaptured
    BY ONLY <2>6, <2>7
  <2>9. Abstract!Runs(all) = Cardinality(RunStarts(all))
    BY SameSpace
  <2>10. Covered(sacks.blocks)' = all /\ all \in SUBSET Abstract!SeqNum
    BY <1>1, <2>1, <2>2, <2>3, SameSpace
  <2>11. Abstract!StartOver
    BY ONLY <1>1, <2>1, <2>8, <2>9, <2>10 DEF Abstract!StartOver
  <2> QED BY <2>11
<1>4. CASE ~(opt_size % 8 = 2 /\ opt_size <= 40)
  <2>1. held' = {} /\ last_call' = "refused"
    BY <1>4 DEF Parse
  <2> QED BY <1>1, <2>1 DEF Abstract!Refuse
<1> QED BY <1>3, <1>4

LEMMA AddRefines ==
    ASSUME ListInv, NEW new, Within(WindowStart, new), AddBlock(new), ListInv'
    PROVE  \E range \in Abstract!Ranges : Abstract!AddRange(range)
<1>1. /\ seq_acked' = seq_acked /\ last_call' = "Add"
      /\ Covered(sacks.blocks)' = Covered(sacks.blocks) \cup BlockRange(new)
  BY DEF AddBlock, ListInv, HoldsWhatWasAdded
<1>2. WindowStart \in SeqNum
  BY WindowOf DEF ListInv, TypeOK
<1> HIDE DEF WindowStart
<1>3. BlockRange(new) \in Abstract!Ranges
  <2>1. /\ new.start \in SeqNum /\ new.end \in SeqNum
        /\ From(WindowStart, new) \in Nat /\ To(WindowStart, new) \in Nat
        /\ From(WindowStart, new) <= To(WindowStart, new) /\ To(WindowStart, new) <= Span
    BY <1>2, Placed
  <2>2. BlockBytes(new) = To(WindowStart, new) - From(WindowStart, new)
    <3>1. Span < SpaceSize /\ Span \in Nat /\ SpaceSize \in Nat
      BY SpaceSizeAssumption, WindowAssumption DEF Span, MaxForward, HalfSpace
    <3> QED BY <1>2, <2>1, <3>1 DEF BlockBytes, From, To, Offset, SeqMinus, SeqNum
  <2>3. BlockBytes(new) \in 0 .. Behind + Ahead
    BY <2>1, <2>2, WindowAssumption DEF Span
  <2>4. BlockRange(new) = Abstract!Bytes(new.start, BlockBytes(new))
    BY SameSpace DEF BlockRange
  <2> QED BY <2>1, <2>3, <2>4, SameSpace DEF Abstract!Ranges
<1> QED BY <1>1, <1>3 DEF Abstract!AddRange

LEMMA RemoveRefines ==
    ASSUME ListInv, NEW news, Placement(WindowStart, news), Len(news) <= MaxCaptured,
           NEW d \in 0 .. Ahead, AddAndRemoveAcked(news, SeqPlus(seq_acked, d)), ListInv'
    PROVE  \E to \in SeqNum : Abstract!Advance(to)
<1> DEFINE to == SeqPlus(seq_acked, d)
           w == WindowStart
           kept == { s \in Covered(sacks.blocks) : ~Before(s, to) }
           all == Covered(sacks'.blocks)
<1>1. /\ seq_acked \in SeqNum /\ Covered(sacks.blocks) = held /\ held \subseteq SeqNum
      /\ all = held' /\ held' \subseteq SeqNum
  BY DEF ListInv, TypeOK, HoldsWhatWasAdded
<1>2. /\ w \in SeqNum /\ to \in SeqNum /\ Offset(w, to) = Behind + d /\ Behind + d <= Span
      /\ Offset(w, seq_acked) = Behind
  BY <1>1, WindowOf
<1>3. /\ seq_acked' = to /\ last_call' = "RemoveAcked"
      /\ all = { s \in held \cup Covered(news) : ~Before(s, to) }
  BY <1>1 DEF AddAndRemoveAcked
<1>4. all = kept \cup { s \in Covered(news) : ~Before(s, to) }
  BY <1>1, <1>3
<1>5. ~Before(to, seq_acked)
  <2>1. Behind \in Nat /\ d \in Nat /\ Behind <= Span /\ Behind + d \in Nat /\ Behind <= Behind + d
    BY WindowAssumption DEF Span
  <2>2. After(seq_acked, to) <=> Offset(w, seq_acked) > Offset(w, to)
    <3> HIDE DEF w, to
    <3> QED BY <1>1, <1>2, <2>1, Offsets
  <2> QED BY <1>2, <2>1, <2>2 DEF Before
<1> HIDE DEF kept, all, to, w
<1>6. Cardinality(RunStarts(all)) <= Cardinality(RunStarts(kept)) + MaxCaptured
  <2>1. kept \subseteq SeqNum /\ \A s \in kept : ~Before(s, to)
    BY <1>1 DEF kept
  <2>2. Placement(w, news) /\ Len(news) <= MaxCaptured /\ Offset(w, to) <= Span
    BY <1>2 DEF w
  <2> QED BY ONLY <1>2, <1>4, <2>1, <2>2, FewRuns
<1>7. Abstract!Runs(all) <= Abstract!Runs(kept) + MaxCaptured
  BY <1>6, SameSpace
<1>8. all \in SUBSET SeqNum /\ kept \subseteq all /\ \A s \in all : ~Before(s, to)
  BY <1>1, <1>3, <1>4
<1>9. Covered(sacks.blocks)' = all /\ kept = { s \in Covered(sacks.blocks) : ~Before(s, to) }
  BY DEF all, kept
<1>10. Abstract!Advance(to)
  <2>1. kept = { s \in Covered(sacks.blocks) : ~Abstract!Before(s, to) }
    BY <1>9, SameSpace
  <2>2. /\ all \in SUBSET Abstract!SeqNum /\ \A s \in all : ~Abstract!Before(s, to)
        /\ ~Abstract!Before(to, seq_acked)
    BY <1>5, <1>8, SameSpace
  <2> QED BY ONLY <1>3, <1>7, <1>8, <1>9, <2>1, <2>2 DEF Abstract!Advance
<1> QED BY <1>2, <1>10

(***************************************************************************)
(* The list of blocks implements the set of bytes: every call of the code is *)
(* one step of SackedBytes or leaves the set alone.                         *)
(***************************************************************************)
THEOREM ListImplementsBytes == Spec => ImplementsSackedBytes
<1>1. Init => Abstract!Init
  <2> SUFFICES ASSUME Init PROVE Abstract!Init
    OBVIOUS
  <2>1. seq_acked \in SeqNum /\ last_call = "none" /\ sacks = EmptySacks
    BY DEF Init
  <2>2. Covered(sacks.blocks) = {}
    BY <2>1, EmptyList
  <2> QED BY <2>1, <2>2, SameSpace DEF Abstract!Init
<1>2. ListInv /\ [Next]_vars /\ ListInv'
        => [Abstract!Next]_<<Covered(sacks.blocks), seq_acked, last_call>>
  <2> SUFFICES ASSUME ListInv, [Next]_vars, ListInv'
               PROVE  Abstract!Next \/ UNCHANGED <<Covered(sacks.blocks), seq_acked, last_call>>
    OBVIOUS
  <2>1. seq_acked \in SeqNum
    BY DEF ListInv, TypeOK
  <2>2. /\ \A b \in WindowBlocks : Within(WindowStart, b)
        /\ \A news \in SeqOf(WindowBlocks, MaxCaptured) :
              Placement(WindowStart, news) /\ Len(news) <= MaxCaptured
    BY <2>1, WindowBlocksPlaced, HeaderBlocks
  <2>3. CASE \E opt_size \in {10, 18}, captured \in SeqOf(WindowBlocks, MaxCaptured) :
                Parse(opt_size, captured)
    BY <2>2, <2>3, ParseRefines DEF Abstract!Next
  <2>4. CASE \E opt_size \in {13, 42} : Parse(opt_size, << >>)
    <3>1. Placement(WindowStart, << >>) /\ Len(<< >>) <= MaxCaptured
      BY EmptySeq, WindowAssumption DEF Placement, Lists
    <3> QED BY <2>4, <3>1, ParseRefines DEF Abstract!Next
  <2>5. CASE \E new \in WindowBlocks : AddBlock(new)
    BY <2>2, <2>5, AddRefines DEF Abstract!Next
  <2>6. CASE \E news \in SeqOf(WindowBlocks, MaxCaptured), d \in 0 .. Ahead :
                AddAndRemoveAcked(news, SeqPlus(seq_acked, d))
    BY <2>2, <2>6, RemoveRefines, SameSpace DEF Abstract!Next
  <2>7. CASE UNCHANGED vars
    BY <2>7 DEF vars
  <2> QED BY <2>3, <2>4, <2>5, <2>6, <2>7 DEF Next
<1> QED BY <1>1, <1>2, ListInvariant, PTL DEF Spec, ImplementsSackedBytes, Abstract!Spec
=============================================================================
