---------------------------- MODULE CaptureLemmas ----------------------------
(***************************************************************************)
(* Facts about the positions that a capture is made of, and about the        *)
(* operations on lists of SACK blocks: what they make of any list.          *)
(***************************************************************************)
EXTENDS SackOps, SequenceTheorems, FiniteSetTheorems, WellFoundedInduction, TLAPS

(***************************************************************************)
(* A set of positions has a last one, if it has any.                        *)
(***************************************************************************)
LEMMA HasLast ==
    ASSUME NEW n \in Nat, NEW S, S \subseteq 0 .. n, S # {}
    PROVE  \E x \in S : \A y \in S : x >= y
\* The distances from n are natural numbers; a smallest one has no other below it.
<1> DEFINE R == { ss \in Nat \X Nat : ss[1] < ss[2] }
           T == { n - i : i \in S }
<1>1. IsWellFoundedOn(R, Nat)
  BY NatLessThanWellFounded DEF OpToRel
<1>2. T \subseteq Nat /\ T # {}
  <2>1. \A i \in S : n - i \in Nat
    <3> \A i \in S : i \in 0 .. n
      OBVIOUS
    <3> QED OBVIOUS
  <2> QED BY <2>1
<1>3. \E t \in T : \A u \in T : <<u, t>> \notin R
  <2> HIDE DEF R, T
  <2> QED BY <1>1, <1>2, WFMin
<1>4. PICK t \in T : \A u \in T : <<u, t>> \notin R
  BY <1>3
<1>5. PICK x \in S : t = n - x
  OBVIOUS
<1>6. \A y \in S : x >= y
  <2> SUFFICES ASSUME NEW y \in S PROVE x >= y
    OBVIOUS
  <2>1. n - y \in T /\ n - y \in Nat /\ n - x \in Nat
    BY <1>2, <1>5
  <2>2. ~(n - y < n - x)
    BY <1>4, <1>5, <2>1
  <2>3. x \in 0 .. n /\ y \in 0 .. n
    OBVIOUS
  <2> QED BY <2>2, <2>3
<1> QED BY <1>6

(***************************************************************************)
(* Max picks a member that no other exceeds (the searches from the back of  *)
(* a list find the latest packet).                                         *)
(***************************************************************************)
LEMMA MaxIsLast ==
    ASSUME NEW n \in Nat, NEW S, S \subseteq 0 .. n, S # {}
    PROVE  /\ Max(S) \in S
           /\ \A i \in S : i <= Max(S)
<1>1. \E x \in S : \A y \in S : x >= y
  BY HasLast
<1> HIDE DEF Max
<1>2. Max(S) \in S /\ \A y \in S : Max(S) >= y
  BY <1>1 DEF Max
<1>3. \A y \in S : Max(S) >= y => y <= Max(S)
  BY <1>2
<1> QED BY <1>2, <1>3

\* Min picks a member that exceeds no other.
LEMMA MinIsFirst ==
    ASSUME NEW n \in Nat, NEW S, S \subseteq 0 .. n, S # {}
    PROVE  /\ Min(S) \in S
           /\ \A i \in S : Min(S) <= i
<1> DEFINE T == { n - i : i \in S }
<1>1. T \subseteq 0 .. n /\ T # {}
  <2>1. \A i \in S : n - i \in 0 .. n
    OBVIOUS
  <2> QED BY <2>1
<1>2. PICK t \in T : \A y \in T : t >= y
  <2> HIDE DEF T
  <2> QED BY <1>1, HasLast
<1>3. PICK m \in S : t = n - m
  OBVIOUS
<1>4. \A i \in S : m <= i
  <2> SUFFICES ASSUME NEW i \in S PROVE m <= i
    OBVIOUS
  <2>1. n - m >= n - i
    BY <1>2, <1>3
  <2>2. m \in 0 .. n /\ i \in 0 .. n
    OBVIOUS
  <2> QED BY <2>1, <2>2
<1>5. Min(S) \in S /\ \A i \in S : Min(S) <= i
  BY <1>3, <1>4 DEF Min
<1> QED BY <1>5

\* Max is the last one of every set of positions.
LEMMA LastOfEach ==
    ASSUME NEW n \in Nat, NEW S, S \subseteq 0 .. n
    PROVE  \A s \in SUBSET S : s # {} =>
              /\ Max(s) \in s
              /\ \A x \in s : (\A y \in s : x >= y) <=> x = Max(s)
<1> SUFFICES ASSUME NEW s \in SUBSET S, s # {}
             PROVE  /\ Max(s) \in s
                    /\ \A x \in s : (\A y \in s : x >= y) <=> x = Max(s)
  OBVIOUS
<1>1. s \subseteq 0 .. n
  OBVIOUS
<1>2. Max(s) \in s /\ \A i \in s : i <= Max(s)
  BY <1>1, MaxIsLast
<1> HIDE DEF Max
<1>3. ASSUME NEW x \in s, NEW m \in s, \A i \in s : i <= m
      PROVE  (\A y \in s : x >= y) <=> x = m
  <2> x \in Int /\ \A i \in s : i \in Int
    BY <1>1
  <2> QED BY <1>3
<1> QED BY <1>2, <1>3

\* Counting up to a number.
LEMMA CountingUp ==
    ASSUME NEW n \in Nat, NEW G, 0 \in G, \A k \in 0 .. n - 1 : k \in G => k + 1 \in G
    PROVE  n \in G
<1> DEFINE S == G \cap (0 .. n)
<1>1. PICK x \in S : \A y \in S : x >= y
  <2> S \subseteq 0 .. n /\ S # {}
    OBVIOUS
  <2> HIDE DEF S
  <2> QED BY HasLast
<1>2. x \in G /\ x \in 0 .. n
  OBVIOUS
<1>3. x = n
  <2> SUFFICES ASSUME x # n PROVE FALSE
    OBVIOUS
  <2>1. x \in 0 .. n - 1
    BY <1>2
  <2>2. x + 1 \in S
    BY <1>2, <2>1
  <2> QED BY <1>1, <1>2, <2>2
<1> QED BY <1>2, <1>3

(***************************************************************************)
(* What holds without any position, and with one more at the end, holds of  *)
(* every set of positions.                                                 *)
(***************************************************************************)
LEMMA OneMoreAtTheEnd ==
    ASSUME NEW n \in Nat, NEW S, S \subseteq 0 .. n, NEW Good, {} \in Good,
           \A s \in SUBSET S : \A x \in s :
              (\A y \in s : x >= y) /\ s \ {x} \in Good => s \in Good
    PROVE  S \in Good
<1> DEFINE G == { k \in 0 .. n + 1 : \A s \in SUBSET S : (\A y \in s : y < k) => s \in Good }
<1>1. 0 \in G
  <2> SUFFICES ASSUME NEW s \in SUBSET S, \A y \in s : y < 0
               PROVE  s \in Good
    OBVIOUS
  <2> s = {}
    OBVIOUS
  <2> QED OBVIOUS
<1>2. ASSUME NEW k \in 0 .. (n + 1) - 1, k \in G
      PROVE  k + 1 \in G
  <2> SUFFICES ASSUME NEW s \in SUBSET S, \A y \in s : y < k + 1
               PROVE  s \in Good
    OBVIOUS
  <2>1. \A y \in s : y \in 0 .. n
    OBVIOUS
  <2>2. CASE k \in s
    <3>1. s \ {k} \in SUBSET S /\ \A y \in s \ {k} : y < k
      BY <2>1
    <3>2. s \ {k} \in Good
      BY <1>2, <3>1
    <3>3. \A y \in s : k >= y
      BY <2>1
    <3> QED BY <2>2, <3>2, <3>3
  <2>3. CASE k \notin s
    <3> \A y \in s : y < k
      BY <2>1, <2>3
    <3> QED BY <1>2
  <2> QED BY <2>2, <2>3
<1>3. n + 1 \in G
  <2> HIDE DEF G
  <2> n + 1 \in Nat
    OBVIOUS
  <2> QED BY <1>1, <1>2, CountingUp
<1>4. \A y \in S : y < n + 1
  OBVIOUS
<1> QED BY <1>3, <1>4

\* Of the numbers that positions have, one is largest.
LEMMA HasLargest ==
    ASSUME NEW n \in Nat, NEW S, S \subseteq 0 .. n, S # {}, NEW f, \A i \in S : f[i] \in Nat
    PROVE  \E i \in S : \A j \in S : f[j] <= f[i]
<1> DEFINE Good == { s \in SUBSET S : s # {} => \E i \in s : \A j \in s : f[j] <= f[i] }
<1>1. {} \in Good
  OBVIOUS
<1>2. ASSUME NEW s \in SUBSET S, NEW x \in s, \A y \in s : x >= y, s \ {x} \in Good
      PROVE  s \in Good
  <2>1. \A i \in s : f[i] \in Nat
    OBVIOUS
  <2>2. CASE s \ {x} = {}
    <3> s = {x}
      BY <2>2
    <3> \A j \in s : f[j] <= f[x]
      BY <2>1
    <3> QED OBVIOUS
  <2>3. CASE s \ {x} # {}
    <3>1. PICK i \in s \ {x} : \A j \in s \ {x} : f[j] <= f[i]
      BY <1>2, <2>3
    <3>2. CASE f[x] <= f[i]
      <4> \A j \in s : f[j] <= f[i]
        BY <3>1, <3>2
      <4> QED OBVIOUS
    <3>3. CASE ~(f[x] <= f[i])
      <4> \A j \in s : f[j] <= f[x]
        BY <2>1, <3>1, <3>3
      <4> QED OBVIOUS
    <3> QED BY <3>2, <3>3
  <2> QED BY <2>2, <2>3
<1>3. S \in Good
  <2> HIDE DEF Good
  <2> QED BY <1>1, <1>2, OneMoreAtTheEnd
<1> QED BY <1>3

-----------------------------------------------------------------------------
(***************************************************************************)
(* The walk of Merge, round by round.                                       *)
(***************************************************************************)
MergeRound(blocks, i, kept) ==
    IF kept # << >> /\ Overlaps(kept[Len(kept)].start, kept[Len(kept)].end,
                                blocks[i].start, blocks[i].end)
    THEN Extend(kept, blocks[i]) ELSE Append(kept, blocks[i])

MergeWalk == INSTANCE Walks WITH Step <- MergeRound

LEMMA MergeOneMore == MergeWalk!OneMoreSuffices
BY OneMoreAtTheEnd DEF MergeWalk!OneMoreSuffices

LEMMA MergeIsWalk ==
    ASSUME NEW n \in Nat, NEW blocks, DOMAIN blocks = 1 .. n
    PROVE  \E g : /\ MergeWalk!IsWalk(g, blocks, << >>, 1 .. n)
                  /\ Merge(blocks) = g[1 .. n]
<1> DEFINE S == DOMAIN blocks
           G(g) == g = [s \in SUBSET S |-> IF s = {} THEN << >>
                          ELSE MergeRound(blocks, Max(s), g[s \ {Max(s)}])]
           h == CHOOSE g : G(g)
<1>1. S \subseteq 0 .. n
  OBVIOUS
<1>2. PICK f : MergeWalk!IsWalk(f, blocks, << >>, S)
  <2> HIDE DEF S
  <2> QED BY <1>1, MergeOneMore, MergeWalk!WalkExists
<1>3. G(f)
  <2> HIDE DEF S
  <2> QED BY <1>1, <1>2, LastOfEach DEF MergeWalk!IsWalk
<1>4. G(h)
  <2> HIDE DEF G
  <2> QED BY <1>3
<1>5. Merge(blocks) = h[S]
  BY Zenon DEF Merge, FoldLeft, MapThenFoldSet, MergeRound
<1>6. MergeWalk!IsWalk(h, blocks, << >>, S)
  <2> HIDE DEF S, h
  <2> QED BY <1>1, <1>4, LastOfEach DEF MergeWalk!IsWalk
<1> QED BY <1>5, <1>6

\* The sum of NumBytes and the loop of AddAll, in the same way.
BytesRound(blocks, i, sum) == sum + BlockBytes(blocks[i])

BytesWalk == INSTANCE Walks WITH Step <- BytesRound

LEMMA BytesOneMore == BytesWalk!OneMoreSuffices
BY OneMoreAtTheEnd DEF BytesWalk!OneMoreSuffices

LEMMA NumBytesIsWalk ==
    ASSUME NEW n \in Nat, NEW blocks, DOMAIN blocks = 1 .. n
    PROVE  \E g : /\ BytesWalk!IsWalk(g, blocks, 0, 1 .. n)
                  /\ NumBytes(blocks) = g[1 .. n]
<1> DEFINE S == DOMAIN blocks
           G(g) == g = [s \in SUBSET S |-> IF s = {} THEN 0
                          ELSE BytesRound(blocks, Max(s), g[s \ {Max(s)}])]
           h == CHOOSE g : G(g)
<1>1. S \subseteq 0 .. n
  OBVIOUS
<1>2. PICK f : BytesWalk!IsWalk(f, blocks, 0, S)
  <2> HIDE DEF S
  <2> QED BY <1>1, BytesOneMore, BytesWalk!WalkExists
<1>3. G(f)
  <2> HIDE DEF S
  <2> QED BY <1>1, <1>2, LastOfEach DEF BytesWalk!IsWalk
<1>4. G(h)
  <2> HIDE DEF G
  <2> QED BY <1>3
<1>5. NumBytes(blocks) = h[S]
  BY Zenon DEF NumBytes, FoldLeft, MapThenFoldSet, BytesRound
<1>6. BytesWalk!IsWalk(h, blocks, 0, S)
  <2> HIDE DEF S, h
  <2> QED BY <1>1, <1>4, LastOfEach DEF BytesWalk!IsWalk
<1> QED BY <1>5, <1>6

AddRound(news, i, sacks) == Add(sacks, news[i])

AddWalk == INSTANCE Walks WITH Step <- AddRound

LEMMA AddOneMore == AddWalk!OneMoreSuffices
BY OneMoreAtTheEnd DEF AddWalk!OneMoreSuffices

LEMMA AddAllIsWalk ==
    ASSUME NEW n \in Nat, NEW sacks, NEW news, DOMAIN news = 1 .. n
    PROVE  \E g : /\ AddWalk!IsWalk(g, news, sacks, 1 .. n)
                  /\ AddAll(sacks, news) = g[1 .. n]
<1> DEFINE S == DOMAIN news
           G(g) == g = [s \in SUBSET S |-> IF s = {} THEN sacks
                          ELSE AddRound(news, Max(s), g[s \ {Max(s)}])]
           h == CHOOSE g : G(g)
<1>1. S \subseteq 0 .. n
  OBVIOUS
<1>2. PICK f : AddWalk!IsWalk(f, news, sacks, S)
  <2> HIDE DEF S
  <2> QED BY <1>1, AddOneMore, AddWalk!WalkExists
<1>3. G(f)
  <2> HIDE DEF S
  <2> QED BY <1>1, <1>2, LastOfEach DEF AddWalk!IsWalk
<1>4. G(h)
  <2> HIDE DEF G
  <2> QED BY <1>3
<1>5. AddAll(sacks, news) = h[S]
  BY Zenon DEF AddAll, FoldLeft, MapThenFoldSet, AddRound
<1>6. AddWalk!IsWalk(h, news, sacks, S)
  <2> HIDE DEF S, h
  <2> QED BY <1>1, <1>4, LastOfEach DEF AddWalk!IsWalk
<1> QED BY <1>5, <1>6

-----------------------------------------------------------------------------
(***************************************************************************)
(* Lists of blocks stay lists of blocks.                                    *)
(***************************************************************************)
Lists == Seq(Block)

LEMMA ExtendTyped ==
    ASSUME NEW kept \in Lists, kept # << >>, NEW b \in Block
    PROVE  Extend(kept, b) \in Lists /\ Len(Extend(kept, b)) = Len(kept)
<1>1. Len(kept) \in 1 .. Len(kept)
  BY EmptySeq, LenProperties DEF Lists
<1>2. kept[Len(kept)] \in Block
  BY <1>1, ElementOfSeq DEF Lists
<1>3. \A x \in Block : [kept EXCEPT ![Len(kept)] = x] \in Lists
                     /\ Len([kept EXCEPT ![Len(kept)] = x]) = Len(kept)
  BY <1>1, ExceptSeq DEF Lists
<1> QED BY <1>2, <1>3 DEF Extend, Block

LEMMA MergeTyped ==
    ASSUME NEW blocks \in Lists
    PROVE  Merge(blocks) \in Lists
<1> DEFINE n == Len(blocks)
           S == 1 .. n
<1>1. n \in Nat /\ DOMAIN blocks = S /\ S \subseteq 0 .. n
  BY LenProperties DEF Lists
<1>2. PICK g : MergeWalk!IsWalk(g, blocks, << >>, S) /\ Merge(blocks) = g[S]
  BY <1>1, MergeIsWalk
<1>3. ASSUME NEW i \in S, NEW kept \in Lists
      PROVE  MergeRound(blocks, i, kept) \in Lists
  <2>1. blocks[i] \in Block
    BY <1>1, ElementOfSeq DEF Lists
  <2>2. Append(kept, blocks[i]) \in Lists
    BY <2>1, AppendProperties DEF Lists
  <2> QED BY <2>1, <2>2, ExtendTyped DEF MergeRound
<1>4. << >> \in Lists
  BY EmptySeq DEF Lists
<1>5. \A i \in S : \A kept \in Lists : MergeRound(blocks, i, kept) \in Lists
  BY <1>3
<1> HIDE DEF n, S
<1>6. g[S] \in Lists
  BY ONLY <1>1, <1>2, <1>4, <1>5, MergeOneMore, MergeWalk!WalkStays
<1> QED BY <1>2, <1>6

\* The bytes of a list are a number.
LEMMA NumBytesTyped ==
    ASSUME NEW blocks \in Lists
    PROVE  NumBytes(blocks) \in Nat
<1> DEFINE n == Len(blocks)
           S == 1 .. n
           Sums == Nat
<1>1. n \in Nat /\ DOMAIN blocks = S /\ S \subseteq 0 .. n
  BY LenProperties DEF Lists
<1>2. PICK g : BytesWalk!IsWalk(g, blocks, 0, S) /\ NumBytes(blocks) = g[S]
  BY <1>1, NumBytesIsWalk
<1>3. ASSUME NEW i \in S, NEW sum \in Sums
      PROVE  BytesRound(blocks, i, sum) \in Sums
  <2>1. blocks[i] \in Block
    BY <1>1, ElementOfSeq DEF Lists
  <2> QED BY <2>1, SpaceSizeAssumption DEF BytesRound, BlockBytes, SeqMinus, Block, SeqNum
<1>4. 0 \in Sums
  OBVIOUS
<1>5. \A i \in S : \A sum \in Sums : BytesRound(blocks, i, sum) \in Sums
  BY <1>3
<1>6. g[S] \in Sums
  <2> HIDE DEF n, S, Sums
  <2> QED BY ONLY <1>1, <1>2, <1>4, <1>5, BytesOneMore, BytesWalk!WalkStays
<1> QED BY <1>2, <1>6

SackLists == [blocks : Lists, num_bytes : Nat]

LEMMA UpdateTyped ==
    ASSUME NEW blocks \in Lists
    PROVE  UpdateNumBytes(blocks) \in SackLists
BY NumBytesTyped DEF UpdateNumBytes, SackLists

\* The position at which a block is inserted is one of the list, or none.
LEMMA Inserted ==
    ASSUME NEW blocks \in Lists, NEW new \in Block
    PROVE  LET pos == InsertPosition(blocks, new)
           IN  /\ pos \in 0 .. Len(blocks)
               /\ pos # 0 => InsertAt(blocks, pos, new) \in Lists
<1> DEFINE pos == InsertPosition(blocks, new)
           I == { i \in 1 .. Len(blocks) :
                    \/ Before(new.end, blocks[i].start)
                    \/ Overlaps(blocks[i].start, blocks[i].end, new.start, new.end) }
<1>1. pos = IF I # {} THEN Min(I) ELSE 0
  BY DEF InsertPosition, SelectInSeq
<1>2. Len(blocks) \in Nat
  BY LenProperties DEF Lists
<1>3. I # {} => Min(I) \in I
  <2> I \subseteq 0 .. Len(blocks)
    BY <1>2
  <2> HIDE DEF I
  <2> QED BY <1>2, MinIsFirst
<1>4. pos \in 0 .. Len(blocks)
  BY <1>1, <1>2, <1>3
<1>5. ASSUME pos # 0
      PROVE  InsertAt(blocks, pos, new) \in Lists
  <2>1. pos \in 1 .. Len(blocks)
    BY <1>2, <1>4, <1>5
  <2> HIDE DEF pos
  <2>2. \A i \in 1 .. Len(blocks) : blocks[i] \in Block
    BY ElementOfSeq DEF Lists
  <2>3. SubSeq(blocks, 1, pos - 1) \in Seq(Block) /\ SubSeq(blocks, pos, Len(blocks)) \in Seq(Block)
    <3>1. \A i \in 1 .. pos - 1 : blocks[i] \in Block
      BY <1>2, <2>1, <2>2
    <3>2. \A i \in pos .. Len(blocks) : blocks[i] \in Block
      BY <1>2, <2>1, <2>2
    <3> QED BY <1>2, <2>1, <3>1, <3>2, SubSeqProperties
  <2>4. <<new>> \in Seq(Block)
    OBVIOUS
  <2> QED BY <2>3, <2>4, ConcatProperties DEF InsertAt, Lists
<1> QED BY <1>4, <1>5

(***************************************************************************)
(* Add, AddAll and Parse keep a list a list.                                *)
(***************************************************************************)
LEMMA AddTyped ==
    ASSUME NEW sacks \in SackLists, NEW new \in Block
    PROVE  Add(sacks, new) \in SackLists
<1> DEFINE pos == InsertPosition(sacks.blocks, new)
           inserted == InsertAt(sacks.blocks, pos, new)
<1>1. sacks.blocks \in Lists /\ sacks.num_bytes \in Nat
  BY DEF SackLists
<1>2. pos # 0 => inserted \in Lists
  BY <1>1, Inserted
<1>3. pos # 0 => /\ UpdateNumBytes(inserted) \in SackLists
                 /\ UpdateNumBytes(Merge(inserted)) \in SackLists
  BY <1>2, MergeTyped, UpdateTyped
<1>4. Append(sacks.blocks, new) \in Lists
  BY <1>1, AppendProperties DEF Lists
<1>5. [sacks EXCEPT !.blocks = Append(@, new)] \in SackLists
  BY <1>1, <1>4 DEF SackLists
<1>6. Add(sacks, new) \in {[sacks EXCEPT !.blocks = Append(@, new)]} \cup
         (IF pos = 0 THEN {} ELSE {UpdateNumBytes(inserted), UpdateNumBytes(Merge(inserted))})
  BY DEF Add
<1> HIDE DEF pos, inserted
<1> QED BY <1>3, <1>5, <1>6

LEMMA AddAllTyped ==
    ASSUME NEW sacks \in SackLists, NEW news \in Lists
    PROVE  AddAll(sacks, news) \in SackLists
<1> DEFINE n == Len(news)
           S == 1 .. n
<1>1. n \in Nat /\ DOMAIN news = S /\ S \subseteq 0 .. n
  BY LenProperties DEF Lists
<1>2. PICK g : AddWalk!IsWalk(g, news, sacks, S) /\ AddAll(sacks, news) = g[S]
  BY <1>1, AddAllIsWalk
<1>3. ASSUME NEW i \in S, NEW l \in SackLists
      PROVE  AddRound(news, i, l) \in SackLists
  <2>1. news[i] \in Block
    BY <1>1, ElementOfSeq DEF Lists
  <2> QED BY <2>1, AddTyped DEF AddRound
<1>4. \A i \in S : \A l \in SackLists : AddRound(news, i, l) \in SackLists
  BY <1>3
<1> HIDE DEF n, S
<1>5. g[S] \in SackLists
  BY ONLY <1>1, <1>2, <1>4, AddOneMore, AddWalk!WalkStays
<1> QED BY <1>2, <1>5

LEMMA ParseTyped ==
    ASSUME NEW captured \in Lists
    PROVE  ParseBlocks(captured) \in SackLists
<1>1. EmptySacks \in SackLists
  BY EmptySeq DEF EmptySacks, SackLists, Lists
<1>2. AddAll(EmptySacks, captured).blocks \in Lists
  BY <1>1, AddAllTyped DEF SackLists
<1> QED BY <1>2, MergeTyped, UpdateTyped DEF ParseBlocks

\* Cutting a list at an ACK number leaves a list.
LEMMA RemoveTyped ==
    ASSUME NEW list \in SackLists, NEW n \in SeqNum
    PROVE  RemoveAcked(list, n) \in SackLists
<1> DEFINE first == SelectInSeq(list.blocks, LAMBDA b : After(b.end, n))
           I == { i \in 1 .. Len(list.blocks) : After(list.blocks[i].end, n) }
           rest == SubSeq(list.blocks, first, Len(list.blocks))
           cut == [rest EXCEPT ![1].start = n]
<1>1. first = IF I # {} THEN Min(I) ELSE 0
  BY DEF SelectInSeq
<1>2. Len(list.blocks) \in Nat /\ list.blocks \in Lists
  BY LenProperties DEF Lists, SackLists
<1>3. I # {} => Min(I) \in I
  <2> I \subseteq 0 .. Len(list.blocks)
    BY <1>2
  <2> HIDE DEF I
  <2> QED BY <1>2, MinIsFirst
<1>4. first \in 0 .. Len(list.blocks)
  BY <1>1, <1>2, <1>3
<1>5. EmptySacks \in SackLists
  BY EmptySeq DEF EmptySacks, SackLists, Lists
<1>6. CASE first = 0
  <2> RemoveAcked(list, n) = EmptySacks
    BY <1>6, Zenon DEF RemoveAcked
  <2> QED BY <1>5
<1>7. CASE first # 0
  <2> HIDE DEF first
  <2>1. first \in 1 .. Len(list.blocks)
    BY <1>2, <1>4, <1>7
  <2>2. \A i \in first .. Len(list.blocks) : list.blocks[i] \in Block
    <3> \A i \in 1 .. Len(list.blocks) : list.blocks[i] \in Block
      BY <1>2, ElementOfSeq DEF Lists
    <3> QED BY <1>2, <2>1
  <2>3. rest \in Seq(Block) /\ Len(rest) = Len(list.blocks) - first + 1
    BY <1>2, <2>1, <2>2, SubSeqProperties
  <2>4. 1 \in 1 .. Len(rest)
    BY <1>2, <2>1, <2>3
  <2>5. rest[1] \in Block
    BY <2>3, <2>4, ElementOfSeq
  <2> DEFINE b == [rest[1] EXCEPT !.start = n]
  <2>6. b \in Block
    BY <2>5 DEF Block
  <2>7. cut = [rest EXCEPT ![1] = b]
    OBVIOUS
  <2> HIDE DEF rest, b
  <2>8. [rest EXCEPT ![1] = b] \in Seq(Block)
    BY <2>3, <2>4, <2>6, ExceptSeq
  <2>9. cut \in Lists /\ rest \in Lists
    BY <2>3, <2>7, <2>8 DEF Lists
  <2>10. RemoveAcked(list, n) \in {EmptySacks, UpdateNumBytes(cut), UpdateNumBytes(rest)}
    BY Zenon DEF RemoveAcked, first, rest
  <2> QED BY <1>5, <2>9, <2>10, UpdateTyped
<1> QED BY <1>6, <1>7
=============================================================================
