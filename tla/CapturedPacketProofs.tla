------------------------ MODULE CapturedPacketProofs -------------------------
(***************************************************************************)
(* Proofs about the parser of captured packets: for any list of options that *)
(* a header can have, any payload behind it and a capture that ends anywhere, *)
(* what comes of a well-formed header is what was captured of it.           *)
(***************************************************************************)
EXTENDS CapturedPacket, SequenceTheorems, FiniteSetTheorems, CaptureLemmas

Opt == [kind : Byte, size : Byte, bytes : Nat \ {0}]

-----------------------------------------------------------------------------
(***************************************************************************)
(* Where the options of a header start.                                     *)
(***************************************************************************)
LengthOf(options) == FoldLeft(LAMBDA sum, o : sum + o.bytes, 0, options)

LengthRound(options, i, sum) == sum + options[i].bytes

LengthWalk == INSTANCE Walks WITH Step <- LengthRound

LEMMA LengthOneMore == LengthWalk!OneMoreSuffices
BY OneMoreAtTheEnd DEF LengthWalk!OneMoreSuffices

LEMMA LengthIsWalk ==
    ASSUME NEW n \in Nat, NEW options, DOMAIN options = 1 .. n
    PROVE  \E g : /\ LengthWalk!IsWalk(g, options, 0, 1 .. n)
                  /\ LengthOf(options) = g[1 .. n]
<1> DEFINE S == DOMAIN options
           G(g) == g = [s \in SUBSET S |-> IF s = {} THEN 0
                          ELSE LengthRound(options, Max(s), g[s \ {Max(s)}])]
           h == CHOOSE g : G(g)
<1>1. S \subseteq 0 .. n
  OBVIOUS
<1>2. PICK f : LengthWalk!IsWalk(f, options, 0, S)
  <2> HIDE DEF S
  <2> QED BY <1>1, LengthOneMore, LengthWalk!WalkExists
<1>3. G(f)
  <2> HIDE DEF S
  <2> QED BY <1>1, <1>2, LastOfEach DEF LengthWalk!IsWalk
<1>4. G(h)
  <2> HIDE DEF G
  <2> QED BY <1>3
<1>5. LengthOf(options) = h[S]
  BY Zenon DEF LengthOf, FoldLeft, MapThenFoldSet, LengthRound
<1>6. LengthWalk!IsWalk(h, options, 0, S)
  <2> HIDE DEF S, h
  <2> QED BY <1>1, <1>4, LastOfEach DEF LengthWalk!IsWalk
<1> QED BY <1>5, <1>6

\* Each option starts where the one before it ends.
LEMMA StartOfNext ==
    ASSUME NEW options \in Seq(Opt)
    PROVE  /\ StartOf(options, 1) = 0
           /\ \A k \in DOMAIN options : StartOf(options, k + 1) = StartOf(options, k) + options[k].bytes
<1>1. \A k \in 1 .. Len(options) + 1 :
         StartOf(options, k) = LengthOf(SubSeq(options, 1, k - 1))
  BY Zenon DEF StartOf, LengthOf
<1>2. Len(options) \in Nat /\ DOMAIN options = 1 .. Len(options)
  OBVIOUS
<1>3. \A i \in 0 .. Len(options) :
         /\ DOMAIN SubSeq(options, 1, i) = 1 .. i
         /\ \A j \in 1 .. i : SubSeq(options, 1, i)[j] = options[j]
  BY <1>2
<1>4. StartOf(options, 1) = 0
  <2> DEFINE e == SubSeq(options, 1, 1 - 1)
  <2>1. DOMAIN e = 1 .. 0
    BY <1>2, <1>3
  <2> HIDE DEF e
  <2>2. PICK g : LengthWalk!IsWalk(g, e, 0, 1 .. 0) /\ LengthOf(e) = g[1 .. 0]
    BY <2>1, LengthIsWalk
  <2>3. LengthOf(e) = 0
    BY <2>2 DEF LengthWalk!IsWalk
  <2> QED BY <1>1, <1>2, <2>3 DEF e
<1>5. ASSUME NEW k \in DOMAIN options
      PROVE  StartOf(options, k + 1) = StartOf(options, k) + options[k].bytes
  <2> DEFINE a == SubSeq(options, 1, k - 1)
             b == SubSeq(options, 1, k)
             S == 1 .. k - 1
  <2>1. /\ k \in Nat /\ k - 1 \in Nat /\ S \subseteq 0 .. k - 1 /\ 1 .. k = S \cup {k} /\ k \notin S
        /\ DOMAIN a = S /\ DOMAIN b = 1 .. k
        /\ \A j \in S : a[j] = options[j] /\ b[j] = options[j]
        /\ b[k] = options[k]
    BY <1>2, <1>3
  <2>2. StartOf(options, k) = LengthOf(a) /\ StartOf(options, k + 1) = LengthOf(b)
    <3>1. (k + 1) - 1 = k /\ k \in 1 .. Len(options) + 1 /\ k + 1 \in 1 .. Len(options) + 1
      BY <1>2
    <3> QED BY <1>1, <3>1
  <2> HIDE DEF a, b
  <2>3. PICK g : LengthWalk!IsWalk(g, a, 0, S) /\ LengthOf(a) = g[S]
    BY <2>1, LengthIsWalk
  <2>4. PICK h : LengthWalk!IsWalk(h, b, 0, 1 .. k) /\ LengthOf(b) = h[1 .. k]
    BY <2>1, LengthIsWalk
  <2> HIDE DEF S
  \* Both walks take the same way as far as the shorter one goes.
  <2>5. g[S] = h[S]
    <3> DEFINE T == [s \in SUBSET S |-> {h[s]}]
    <3>1. 0 \in T[{}]
      BY <2>4 DEF LengthWalk!IsWalk
    <3>2. ASSUME NEW s \in SUBSET S, NEW x \in s, \A y \in s : x >= y
          PROVE  \A t \in T[s \ {x}] : LengthRound(a, x, t) \in T[s]
      <4>1. s \in SUBSET (1 .. k) /\ s \ {x} \in SUBSET S
        BY <2>1
      <4>2. h[s] = LengthRound(b, x, h[s \ {x}])
        BY <2>4, <3>2, <4>1 DEF LengthWalk!IsWalk
      <4>3. LengthRound(a, x, h[s \ {x}]) = h[s]
        BY <2>1, <4>2 DEF LengthRound
      <4> QED BY <4>1, <4>3
    <3>3. \A s \in SUBSET S : \A x \in s : \A t \in T[s \ {x}] :
             (\A y \in s : x >= y) => LengthRound(a, x, t) \in T[s]
      BY <3>2
    <3>4. T[S] = {h[S]}
      OBVIOUS
    <3> HIDE DEF T
    <3>5. g[S] \in T[S]
      BY ONLY <2>1, <2>3, <3>1, <3>3, LengthOneMore, LengthWalk!WalkReaches
    <3> QED BY <3>4, <3>5
  <2>6. h[1 .. k] = LengthRound(b, k, h[S])
    <3>1. k \in 1 .. k /\ (1 .. k) \ {k} = S /\ \A y \in 1 .. k : k >= y
      BY <2>1
    <3> QED BY <2>4, <3>1 DEF LengthWalk!IsWalk
  <2> QED BY <2>1, <2>2, <2>3, <2>4, <2>5, <2>6 DEF LengthRound
<1> QED BY <1>4, <1>5

\* An option ends before those behind it start.
StartsRise(options) ==
    \A k \in 1 .. Len(options) + 1 :
        /\ StartOf(options, k) \in Nat
        /\ \A j \in 1 .. k - 1 : StartOf(options, j) + options[j].bytes <= StartOf(options, k)

LEMMA OptionsInOrder ==
    ASSUME NEW options \in Seq(Opt)
    PROVE  StartsRise(options)
<1> DEFINE n == Len(options)
           S(k) == StartOf(options, k)
           Good(k) == /\ S(k + 1) \in Nat
                      /\ \A j \in 1 .. k : S(j) + options[j].bytes <= S(k + 1)
           G == { k \in 0 .. n : \A i \in 0 .. k : Good(i) }
<1>1. n \in Nat /\ DOMAIN options = 1 .. n
  OBVIOUS
<1>2. S(1) = 0 /\ \A k \in 1 .. n : S(k + 1) = S(k) + options[k].bytes
  BY <1>1, StartOfNext
<1>3. \A k \in 1 .. n : options[k].bytes \in Nat \ {0}
  <2> SUFFICES ASSUME NEW k \in 1 .. n PROVE options[k].bytes \in Nat \ {0}
    OBVIOUS
  <2>1. options[k] \in Opt
    BY <1>1
  <2> QED BY <2>1 DEF Opt
<1> HIDE DEF n, S
<1>4. 0 \in G
  BY <1>1, <1>2
<1>5. ASSUME NEW k \in 0 .. n - 1, k \in G
      PROVE  k + 1 \in G
  <2>1. k \in Nat /\ k + 1 \in 1 .. n /\ k + 1 \in 0 .. n
    BY <1>1
  <2>2. Good(k) /\ \A i \in 0 .. k : Good(i)
    BY <1>5, <2>1
  <2>3. S((k + 1) + 1) = S(k + 1) + options[k + 1].bytes /\ options[k + 1].bytes \in Nat
    BY <1>2, <1>3, <2>1
  <2>4. S((k + 1) + 1) \in Nat
    BY <2>2, <2>3
  <2>5. ASSUME NEW j \in 1 .. k + 1
        PROVE  S(j) + options[j].bytes <= S((k + 1) + 1)
    <3>1. CASE j = k + 1
      BY <2>2, <2>3, <3>1
    <3>2. CASE j # k + 1
      <4>1. j \in 1 .. k /\ j - 1 \in 0 .. k /\ (j - 1) + 1 = j /\ j \in 1 .. n
        BY <1>1, <2>1, <3>2
      <4>2. S(j) \in Nat /\ options[j].bytes \in Nat
        BY <1>3, <2>2, <4>1
      <4>3. S(j) + options[j].bytes <= S(k + 1)
        BY <2>2, <4>1
      <4> QED BY <2>2, <2>3, <4>2, <4>3, SMTT(40)
    <3> QED BY <3>1, <3>2
  <2>6. Good(k + 1)
    BY <2>4, <2>5
  <2>7. \A i \in 0 .. k + 1 : i \in 0 .. k \/ i = k + 1
    BY <2>1
  <2> HIDE DEF Good
  <2> QED BY <2>1, <2>2, <2>6, <2>7
<1>6. n \in G
  <2> HIDE DEF G
  <2> QED BY <1>1, <1>4, <1>5, CountingUp
<1>7. ASSUME NEW k \in 1 .. n + 1
      PROVE  S(k) \in Nat /\ \A j \in 1 .. k - 1 : S(j) + options[j].bytes <= S(k)
  <2>1. k - 1 \in 0 .. n /\ (k - 1) + 1 = k
    BY <1>1
  <2>2. Good(k - 1)
    BY <1>6, <2>1
  <2> QED BY <2>1, <2>2
<1> QED BY <1>7 DEF StartsRise, n, S

-----------------------------------------------------------------------------
(***************************************************************************)
(* The types.                                                              *)
(***************************************************************************)
\* Until its header is reached, nothing of a packet is parsed.
LayersOK ==
    /\ layer \in {"link", "ip", "tcp", "none"}
    /\ caplen \in Nat /\ frame \in Frames \cup OtherFrames
    /\ layer \in {"link", "ip"} => Unparsed
    /\ pc \in {"options", "cut"} => OptLen \in Nat \ {0}

TypeInv == TypeOK /\ LayersOK

LEMMA FoundTyped ==
    ASSUME header \in Header, NEW o \in Found
    PROVE  o.kind \in Byte /\ o.size \in Byte
<1> DEFINE options == header.options
<1>1. \A x \in Junk : x.kind \in Byte /\ x.size \in Byte
  BY HeaderAssumption
<1>2. options \in Seq(Opt)
  BY DEF Header, Opt
<1>3. ASSUME NEW k \in DOMAIN options
      PROVE  options[k].kind \in Byte /\ options[k].size \in Byte
  <2>1. options[k] \in Opt
    <3> HIDE DEF options
    <3> QED BY <1>2
  <2> HIDE DEF options
  <2> QED BY <2>1 DEF Opt
<1>4. \A k \in DOMAIN options : k < Len(options) => k + 1 \in DOMAIN options
  BY <1>2
<1> HIDE DEF options
<1>5. CASE \E x \in Junk : o = [kind |-> x.kind, size |-> x.size]
  BY <1>1, <1>5
<1>6. CASE \E k \in DOMAIN options : \E s : /\ o = [kind |-> options[k].kind, size |-> s]
                                           /\ \/ s = options[k].size
                                              \/ k < Len(options) /\ s = options[k + 1].kind
                                              \/ \E x \in Junk : s = x.size
  BY <1>1, <1>3, <1>4, <1>6
<1>7. \/ \E x \in Junk : o = [kind |-> x.kind, size |-> x.size]
      \/ \E k \in DOMAIN options : \E s : /\ o = [kind |-> options[k].kind, size |-> s]
                                          /\ \/ s = options[k].size
                                             \/ k < Len(options) /\ s = options[k + 1].kind
                                             \/ \E x \in Junk : s = x.size
  <2> DEFINE at == { k \in DOMAIN options : StartOf(options, k) = used }
             next(k) == IF k < Len(options) THEN { options[k + 1].kind } ELSE { x.size : x \in Junk }
             reads(k) == IF options[k].kind # EOL THEN { options[k].size } ELSE next(k)
             any == { [kind |-> x.kind, size |-> x.size] : x \in Junk }
             here == UNION { { [kind |-> options[k].kind, size |-> s] : s \in reads(k) } : k \in at }
  <2>1. o \in (IF at = {} THEN any ELSE here)
    BY Zenon DEF Found, options
  <2>2. CASE o \in any
    BY <2>2
  <2>3. CASE o \in here
    <3>1. PICK k \in at : o \in { [kind |-> options[k].kind, size |-> s] : s \in reads(k) }
      <4> HIDE DEF at, reads
      <4> QED BY <2>3
    <3>2. PICK s \in reads(k) : o = [kind |-> options[k].kind, size |-> s]
      <4> HIDE DEF at, reads
      <4> QED BY <3>1
    <3>3. \/ s = options[k].size
          \/ k < Len(options) /\ s = options[k + 1].kind
          \/ \E x \in Junk : s = x.size
      BY <3>2
    <3>4. k \in DOMAIN options
      OBVIOUS
    <3> HIDE DEF at, reads
    <3> QED BY <3>2, <3>3, <3>4
  <2> HIDE DEF at, any, here
  <2> QED BY <2>1, <2>2, <2>3
<1> QED BY <1>5, <1>6, <1>7

LEMMA SackSizes ==
    ASSUME NEW size \in Byte, SackSizeFits(size)
    PROVE  (size - 2) \div 8 \in 0 .. 4 /\ size >= 2
BY DEF SackSizeFits, Byte

LEMMA ReadTyped ==
    ASSUME TypeInv, ReadOption
    PROVE  TypeOK'
<1>1. /\ header \in Header /\ pc = "options" /\ Remaining > 0 /\ used \in Nat
      /\ header' = header /\ unknown_option_size' = unknown_option_size
  BY DEF TypeInv, TypeOK, ReadOption
<1>2. /\ CapOptLen \in Int /\ OptLen \in Nat \ {0}
      /\ CapOptLen' = CapOptLen /\ OptLen' = OptLen
  <2>1. header.caplen \in Nat
    BY <1>1 DEF Header
  <2> QED BY <1>1, <2>1 DEF HeaderLen, CapOptLen, OptLen, TypeInv, LayersOK
<1>3. Remaining \in Nat /\ used < CapOptLen
  BY <1>1, <1>2 DEF Remaining
<1> DEFINE fails(o) == SackFails(o) \/ (o.kind # NOP /\ Remaining > 1 /\ SizeFails(o))
<1>4. PICK o \in Found :
        /\ Note(o)
        /\ is_bogus' = fails(o)
        /\ pc' = IF fails(o) THEN "done"
                 ELSE IF o.kind # NOP /\ Remaining = 1 THEN "cut" ELSE pc
        /\ used' = IF fails(o) THEN used
                   ELSE IF o.kind = NOP THEN used + 1
                   ELSE IF Remaining = 1 THEN used ELSE used + o.size
  BY DEF ReadOption
<1>5. o.kind \in Byte /\ o.size \in Byte
  BY <1>1, FoundTyped
<1>6. is_bogus' \in BOOLEAN /\ pc' \in {"new", "options", "cut", "done"}
  BY <1>1, <1>4
<1>7. used' \in Nat /\ (used' = 0 \/ used' < CapOptLen + OptLen)
  <2>1. CASE used' = used
    BY <1>1, <1>2, <1>3, <2>1
  <2>2. CASE used' = used + 1
    BY <1>1, <1>2, <1>3, <2>2
  <2>3. CASE used' = used + o.size /\ ~SizeFails(o)
    <3>1. o.size \in Nat /\ o.size <= OptLen
      BY <1>2, <1>5, <2>3 DEF SizeFails, Byte
    <3> QED BY <1>1, <1>2, <1>3, <2>3, <3>1
  <2>4. used' = used + o.size => ~SizeFails(o) \/ used' = used \/ used' = used + 1
    <3>1. Remaining = 1 \/ Remaining > 1
      BY <1>1, <1>3
    <3> QED BY <1>4, <3>1
  <2> QED BY <1>4, <2>1, <2>2, <2>3, <2>4
<1>8. mss_opt_value' \in {0, 1} /\ timestamp_ok' \in BOOLEAN
  BY <1>4 DEF Note, NoteMSS, TypeInv, TypeOK
<1>9. num_sacks' \in 0 .. 4 /\ blocks' \in 0 .. num_sacks'
  <2> DEFINE m == (o.size - 2) \div 8
             r == (Remaining - 2) \div 8
  <2>1. SackSizeFits(o.size) => m \in 0 .. 4
    BY <1>5, SackSizes
  <2>2. Remaining >= 2 => r \in Nat
    BY <1>3
  <2>3. /\ num_sacks' = IF o.kind # SACK THEN num_sacks
                        ELSE IF Remaining < 2 THEN 0
                        ELSE IF SackSizeFits(o.size) THEN m ELSE num_sacks
        /\ blocks' = IF o.kind # SACK THEN blocks
                     ELSE IF Remaining >= 2 /\ SackSizeFits(o.size)
                     THEN SmallerOf(r, m) ELSE 0
    BY <1>4 DEF Note, NoteSacks
  <2>4. num_sacks \in 0 .. 4 /\ blocks \in 0 .. num_sacks
    BY DEF TypeInv, TypeOK
  <2>5. Remaining >= 2 /\ SackSizeFits(o.size) => SmallerOf(r, m) \in 0 .. m
    BY <2>1, <2>2 DEF SmallerOf
  <2> HIDE DEF m, r
  <2>6. Remaining < 2 \/ Remaining >= 2
    BY <1>3
  <2> QED BY <1>3, <2>1, <2>3, <2>4, <2>5, <2>6
<1> QED BY <1>1, <1>2, <1>6, <1>7, <1>8, <1>9 DEF TypeInv, TypeOK

LEMMA ParserTyped ==
    ASSUME TypeInv, Next
    PROVE  TypeOK' /\ (pc' \in {"options", "cut"} => OptLen' \in Nat \ {0})
<1>1. /\ header \in Header /\ header' = header
      /\ OptLen \in Int /\ CapOptLen \in Int /\ used \in Nat
      /\ OptLen' = OptLen /\ CapOptLen' = CapOptLen
  <2>1. header \in Header /\ header' = header /\ used \in Nat
    BY DEF TypeInv, TypeOK, Next, NewPacket, ReadOption, EndOfOptions
  <2>2. header.caplen \in Nat /\ header.offset \in Nat
    BY <2>1 DEF Header
  <2> QED BY <2>1, <2>2 DEF OptLen, CapOptLen, HeaderLen
<1>2. CASE NewPacket
  <2>1. CheckBogus \in BOOLEAN
    BY DEF CheckBogus
  <2>2. is_bogus' \in BOOLEAN /\ UNCHANGED <<header, used, facts>>
    BY <1>2 DEF NewPacket
  <2>3. CASE header.caplen < HeaderLen \/ CheckBogus
    BY <1>1, <1>2, <2>2, <2>3 DEF NewPacket, TypeInv, TypeOK, facts
  <2>4. CASE ~(header.caplen < HeaderLen \/ CheckBogus)
    <3>1. OptLen \in Nat
      <4>1. header.offset \in Nat /\ ~(header.offset < HeaderLen)
        BY <1>1, <2>4 DEF CheckBogus, Header
      <4> QED BY <4>1 DEF OptLen, HeaderLen
    <3>2. Options
      BY <1>2, <2>4 DEF NewPacket
    <3>3. /\ pc' \in {"options", "done"} /\ unknown_option_size' \in {unknown_option_size, OptLen}
          /\ pc' = "options" => OptLen # 0
      BY <3>2 DEF Options, UnknownAtOnce
    <3>4. unknown_option_size' \in {0} \cup 0 .. OptLen
      BY <3>1, <3>3 DEF TypeInv, TypeOK
    <3> QED BY <1>1, <2>2, <3>1, <3>3, <3>4 DEF TypeInv, TypeOK, facts
  <2> QED BY <2>3, <2>4
<1>3. CASE ReadOption
  <2>1. TypeOK'
    BY <1>3, ReadTyped
  <2>2. OptLen \in Nat \ {0}
    BY <1>3 DEF ReadOption, TypeInv, LayersOK
  <2> QED BY <1>1, <2>1, <2>2
<1>4. CASE EndOfOptions
  <2>1. UnknownBytes \in {0} \cup 0 .. OptLen
    BY <1>1 DEF UnknownBytes
  <2> QED BY <1>1, <1>4, <2>1 DEF EndOfOptions, TypeInv, TypeOK, facts
<1> QED BY <1>2, <1>3, <1>4 DEF Next

LEMMA FrameLengths ==
    ASSUME NEW f \in Frames \cup OtherFrames, NEW h \in Header
    PROVE  LinkHeaderLen(f.link) \in Nat /\ FrameLen(f, h) \in Nat
<1>1. LinkHeaderLen(f.link) \in Nat
  BY FrameAssumption DEF LinkHeaderLen
<1>2. h.len \in Nat
  BY DEF Header
<1> QED BY <1>1, <1>2 DEF FrameLen, IpHeaderLen, MinFrame

\* Headers with options are headers.
LEMMA HeaderOfOptions ==
    ASSUME NEW options \in OptionLists, NEW payload \in Payloads, NEW c \in Nat
    PROVE  Packet(options, payload, c) \in Header
<1>1. options \in Seq(Opt) /\ payload \in Nat
  BY HeaderAssumption DEF Opt
<1>2. StartOf(options, Len(options) + 1) \in Nat
  <2>1. StartsRise(options) /\ Len(options) + 1 \in 1 .. Len(options) + 1
    BY <1>1, OptionsInOrder
  <2> QED BY <2>1 DEF StartsRise
<1>3. options \in Seq([kind : Byte, size : Byte, bytes : Nat \ {0}])
  BY HeaderAssumption
<1> QED BY <1>1, <1>2, <1>3 DEF Packet, Header, HeaderLen

LEMMA TypedAtFirst == CapturedInit => TypeInv
<1> SUFFICES ASSUME CapturedInit
             PROVE  TypeInv
  OBVIOUS
<1>1. header \in Header /\ frame \in Frames \cup OtherFrames
  <2>1. CASE header \in OtherHeaders /\ frame \in Frames \cup OtherFrames
    BY <2>1, HeaderAssumption
  <2>2. CASE \E options \in OptionLists, payload \in Payloads :
               header = Packet(options, payload, 0) /\ frame \in Frames
    <3> 0 \in Nat
      OBVIOUS
    <3> QED BY <2>2, HeaderOfOptions
  <2> QED BY <2>1, <2>2 DEF CapturedInit
<1>2. caplen \in Nat
  <2>1. FrameLen(frame, header) \in Nat
    BY <1>1, FrameLengths
  <2> QED BY <2>1 DEF CapturedInit
<1>3. Unparsed /\ layer = "link"
  BY DEF CapturedInit
<1>4. TypeOK
  <2>1. 0 \in Nat /\ 0 \in 0 .. 4 /\ 0 \in 0 .. 0
    OBVIOUS
  <2>2. /\ pc = "new" /\ used = 0 /\ mss_opt_value = 0 /\ timestamp_ok = FALSE
        /\ num_sacks = 0 /\ blocks = 0 /\ is_bogus = FALSE /\ unknown_option_size = 0
    BY <1>3 DEF Unparsed
  <2> QED BY ONLY <1>1, <2>1, <2>2, Zenon DEF TypeOK
<1>5. LayersOK
  BY <1>1, <1>2, <1>3 DEF Unparsed, LayersOK
<1> QED BY <1>4, <1>5 DEF TypeInv

LEMMA TypesKept == TypeInv /\ [CapturedNext]_packetVars => TypeInv'
<1> SUFFICES ASSUME TypeInv, [CapturedNext]_packetVars
             PROVE  TypeInv'
  OBVIOUS
<1>1. CASE EthernetPacket
  <2>1. /\ UNCHANGED <<vars, frame, caplen>> /\ layer' \in {"ip", "none"} /\ layer = "link"
    BY <1>1 DEF EthernetPacket
  <2>2. TypeOK'
    BY <2>1 DEF TypeInv, TypeOK, vars, facts, OptLen, CapOptLen
  <2>3. LayersOK'
    BY <2>1 DEF TypeInv, LayersOK, Unparsed, vars, facts, OptLen
  <2> QED BY <2>2, <2>3 DEF TypeInv
<1>2. CASE IpPacket
  <2>1. /\ UNCHANGED <<pc, used, facts, is_bogus, unknown_option_size, frame, caplen>>
        /\ layer' \in {"tcp", "none"} /\ used = 0 /\ unknown_option_size = 0 /\ pc = "new"
    BY <1>2 DEF IpPacket, TypeInv, LayersOK, Unparsed
  <2>2. header' \in Header
    <3>1. CASE TcpCapLen > 0 /\ header' = [header EXCEPT !.caplen = TcpCapLen]
      <4>1. TcpCapLen \in Nat
        <5>1. caplen \in Nat /\ LinkHeaderLen(frame.link) \in Nat
          BY FrameLengths DEF TypeInv, TypeOK, LayersOK
        <5> QED BY <3>1, <5>1 DEF TcpCapLen, IpCapLen, IpHeaderLen
      <4> QED BY <3>1, <4>1 DEF TypeInv, TypeOK, Header
    <3>2. CASE header' = header
      BY <3>2 DEF TypeInv, TypeOK
    <3> QED BY <1>2, <3>1, <3>2 DEF IpPacket
  <2>3. TypeOK'
    BY <2>1, <2>2 DEF TypeInv, TypeOK, facts
  <2>4. LayersOK'
    BY <2>1 DEF TypeInv, LayersOK
  <2> QED BY <2>3, <2>4 DEF TypeInv
<1>3. CASE TcpPacket
  <2>1. TypeOK' /\ (pc' \in {"options", "cut"} => OptLen' \in Nat \ {0})
    BY <1>3, ParserTyped DEF TcpPacket
  <2> QED BY <1>3, <2>1 DEF TcpPacket, TypeInv, LayersOK
<1>4. CASE UNCHANGED packetVars
  BY <1>4 DEF packetVars, vars, facts, TypeInv, TypeOK, LayersOK, Unparsed, OptLen, CapOptLen
<1> QED BY <1>1, <1>2, <1>3, <1>4 DEF CapturedNext

(***************************************************************************)
(* The parser stays within its numbers, whatever bytes follow the header:   *)
(* no option takes it further than the options are long, there are four     *)
(* SACK blocks at most, and not more bytes are unknown than there are        *)
(* (tcp_packet.cc:78).                                                     *)
(***************************************************************************)
THEOREM TypeCorrect == CapturedSpec => []TypeOK
<1>1. TypeInv => TypeOK
  BY DEF TypeInv
<1> QED BY <1>1, TypedAtFirst, TypesKept, PTL DEF CapturedSpec
-----------------------------------------------------------------------------
(***************************************************************************)
(* A well-formed header, of which at most the options were captured.         *)
(***************************************************************************)
Start(k) == StartOf(header.options, k)

Ends == Len(header.options) + 1

\* The size of the k-th option was captured.
Known(k) == Bytes(k) >= IF header.options[k].kind = NOP THEN 1 ELSE 2

\* The k-th option leaves this behind as far as it was captured.
NumSacksOf(k) == IF Bytes(k) >= 2 THEN (header.options[k].size - 2) \div 8 ELSE 0

BlocksOf(k) == IF Bytes(k) >= 2
               THEN SmallerOf((Bytes(k) - 2) \div 8, (header.options[k].size - 2) \div 8) ELSE 0

\* What is known of the options is what those of a set say.
FactsOf(K) ==
    /\ timestamp_ok = (\E k \in K : header.options[k].kind = TIMESTAMP)
    /\ mss_opt_value = 1 <=> \E k \in K : header.options[k].kind = MAXSEG /\ Bytes(k) >= 4
    /\ \A k \in K : header.options[k].kind = SACK => num_sacks = NumSacksOf(k) /\ blocks = BlocksOf(k)
    /\ (\A k \in K : header.options[k].kind # SACK) => num_sacks = 0 /\ blocks = 0

\* The loop has come to the k-th option, or to the end of the list.
Reading(k) ==
    /\ Shown >= 2 /\ used = Start(k)
    /\ \A j \in 1 .. k - 1 : Known(j)
    /\ FactsOf(1 .. k - 1)

\* It has read the kind of the k-th option and nothing else is left.
CutAt(k) ==
    /\ k < Ends /\ Shown >= 2 /\ used = Start(k)
    /\ \A j \in 1 .. k - 1 : Known(j)
    /\ Bytes(k) = 1 /\ header.options[k].kind # NOP
    /\ FactsOf(1 .. k)

\* The k-th option is the first one whose size it has not read.
ReadUpTo(k) ==
    /\ \A j \in 1 .. k - 1 : Known(j)
    /\ k < Ends => ~Known(k)
    /\ unknown_option_size = OptLen - Start(k)
    /\ FactsOf({ j \in DOMAIN header.options : Bytes(j) >= 1 })

ReadSoFar ==
    /\ layer # "none" /\ ~is_bogus
    /\ layer = "tcp" => header.caplen = Shown + HeaderLen
    /\ pc = "options" => \E k \in 1 .. Ends : Reading(k)
    /\ pc = "cut" => \E k \in 1 .. Ends : CutAt(k)
    /\ pc = "done" => \/ Shown < 2 /\ unknown_option_size = OptLen
                      \/ Shown >= 2 /\ \E k \in 1 .. Ends : ReadUpTo(k)

(***************************************************************************)
(* A packet that is not parsed yet has no facts and no unknown bytes; from   *)
(* there the loop keeps to the options, one after the other, as far as they  *)
(* were captured.                                                          *)
(***************************************************************************)
ParseInv ==
    /\ pc = "new" => Unparsed
    /\ WellFormed /\ HeaderOnly => ReadSoFar

\* Where the options stand in a header that is as a sender writes it.
Laid(options, n) ==
    /\ n \in Nat /\ n = Len(options) /\ DOMAIN options = 1 .. n
    /\ Shown \in Nat /\ OptLen \in Nat /\ Shown <= OptLen
    /\ StartOf(options, 1) = 0 /\ StartOf(options, n + 1) = OptLen
    /\ \A k \in 1 .. n + 1 : StartOf(options, k) \in Nat
    /\ \A k \in 1 .. n :
          /\ StartOf(options, k + 1) = StartOf(options, k) + options[k].bytes
          /\ \A j \in k + 1 .. n + 1 : StartOf(options, k) + options[k].bytes <= StartOf(options, j)

Written(o) ==
    /\ o.kind \in Byte \ {EOL} /\ o.size \in Byte /\ o.bytes \in Nat \ {0}
    /\ o.bytes = IF o.kind = NOP THEN 1 ELSE o.size
    /\ o.kind = SACK => o.size \in {10, 18, 26, 34}

LEMMA OptionsLaid ==
    ASSUME TypeInv, WellFormed, HeaderOnly
    PROVE  /\ Laid(header.options, Len(header.options))
           /\ \A k \in DOMAIN header.options : Written(header.options[k])
<1> DEFINE options == header.options
           n == Len(options)
<1>1. options \in Seq(Opt) /\ header.offset \in Nat
  BY DEF TypeInv, TypeOK, Header, Opt
<1>2. n \in Nat /\ DOMAIN options = 1 .. n
  BY <1>1
<1>3. Shown \in Nat /\ OptLen \in Nat /\ Shown <= OptLen
  <2>1. caplen \in Nat /\ LinkHeaderLen(frame.link) \in Nat
    BY FrameLengths DEF TypeInv, TypeOK, LayersOK
  <2>2. Shown \in Int /\ OptLen \in Int
    BY <1>1, <2>1 DEF Shown, OptLen, HeaderLen, IpHeaderLen
  <2> QED BY <2>2 DEF WellFormed, HeaderOnly
<1>4. StartOf(options, n + 1) = OptLen
  BY DEF WellFormed
<1>5. StartsRise(options)
  BY <1>1, OptionsInOrder
<1>6. StartOf(options, 1) = 0 /\ \A k \in 1 .. n : StartOf(options, k + 1) = StartOf(options, k) + options[k].bytes
  BY <1>1, <1>2, StartOfNext
<1>7. Laid(options, n)
  <2>1. \A k \in 1 .. n : \A j \in k + 1 .. n + 1 : j \in 1 .. n + 1 /\ k \in 1 .. j - 1
    BY <1>2
  <2>2. /\ \A k \in 1 .. n + 1 : StartOf(options, k) \in Nat
        /\ \A k \in 1 .. n : \A j \in k + 1 .. n + 1 :
              StartOf(options, k) + options[k].bytes <= StartOf(options, j)
    BY <1>5, <2>1 DEF StartsRise
  <2> HIDE DEF n, options
  <2> QED BY <1>2, <1>3, <1>4, <1>6, <2>2 DEF Laid, n
<1>8. ASSUME NEW k \in DOMAIN options
      PROVE  Written(options[k])
  <2>1. options[k] \in Opt
    <3> HIDE DEF options
    <3> QED BY <1>1
  <2>2. options[k] \in ToSet(options)
    BY DEF ToSet
  <2>3. /\ options[k].kind # EOL /\ Sizes(options[k])
        /\ options[k].bytes = IF options[k].kind = NOP THEN 1 ELSE options[k].size
    BY <2>2 DEF WellFormed
  <2> HIDE DEF options
  <2>4. options[k].kind = SACK => options[k].size \in {10, 18, 26, 34}
    BY <2>3 DEF Sizes, SACK, NOP
  <2>5. options[k].kind \in Byte /\ options[k].size \in Byte /\ options[k].bytes \in Nat \ {0}
    BY <2>1 DEF Opt
  <2> QED BY <2>3, <2>4, <2>5 DEF Written
<1> QED BY <1>7, <1>8

\* Where an option starts, that one is found and no other.
LEMMA FoundThere ==
    ASSUME TypeInv, WellFormed, HeaderOnly,
           NEW k \in DOMAIN header.options, used = Start(k), NEW o \in Found
    PROVE  o.kind = header.options[k].kind /\ o.size = header.options[k].size
<1> DEFINE options == header.options
           n == Len(options)
           at == { j \in DOMAIN options : StartOf(options, j) = used }
           next(j) == IF j < Len(options) THEN { options[j + 1].kind } ELSE { x.size : x \in Junk }
           reads(j) == IF options[j].kind # EOL THEN { options[j].size } ELSE next(j)
           any == { [kind |-> x.kind, size |-> x.size] : x \in Junk }
           here == UNION { { [kind |-> options[j].kind, size |-> s] : s \in reads(j) } : j \in at }
<1>1. Laid(options, n) /\ \A j \in DOMAIN options : Written(options[j])
  BY OptionsLaid
<1>2. o \in (IF at = {} THEN any ELSE here)
  BY Zenon DEF Found, options
<1>3. k \in at
  BY DEF Start
<1>4. \A j \in at : j = k
  <2> SUFFICES ASSUME NEW j \in at PROVE j = k
    OBVIOUS
  <2>1. j \in DOMAIN options /\ StartOf(options, j) = StartOf(options, k) /\ k \in DOMAIN options
    BY DEF Start
  <2> HIDE DEF options, n
  <2>2. ASSUME NEW i \in 1 .. n, NEW m \in 1 .. n, i < m
        PROVE  StartOf(options, i) # StartOf(options, m)
    <3>1. m \in i + 1 .. n + 1 /\ i \in 1 .. n + 1 /\ m \in 1 .. n + 1 /\ i \in DOMAIN options
      BY <1>1, <2>2 DEF Laid
    <3>2. options[i].bytes \in Nat \ {0}
      BY <1>1, <3>1 DEF Written
    <3>3. /\ StartOf(options, i) \in Nat /\ StartOf(options, m) \in Nat
          /\ StartOf(options, i) + options[i].bytes <= StartOf(options, m)
      BY <1>1, <3>1 DEF Laid
    <3> QED BY <3>2, <3>3
  <2>3. j \in 1 .. n /\ k \in 1 .. n /\ n \in Nat
    BY <1>1, <2>1 DEF Laid
  <2> QED BY <2>1, <2>2, <2>3
<1>5. o \in here
  <2> HIDE DEF at, here, any
  <2> QED BY <1>2, <1>3
<1>6. PICK j \in at : o \in { [kind |-> options[j].kind, size |-> s] : s \in reads(j) }
  <2> HIDE DEF at, reads
  <2> QED BY <1>5
<1>7. o \in { [kind |-> options[k].kind, size |-> s] : s \in reads(k) }
  BY <1>4, <1>6
<1>8. reads(k) = { options[k].size }
  BY <1>1 DEF Written
<1> QED BY <1>7, <1>8

\* A step that leaves the packet alone leaves alone what its header says.
SamePacket == header' = header /\ frame' = frame /\ caplen' = caplen

LEMMA SameMeaning ==
    ASSUME SamePacket
    PROVE  /\ WellFormed' <=> WellFormed
           /\ HeaderOnly' <=> HeaderOnly
           /\ Shown' = Shown /\ OptLen' = OptLen /\ Ends' = Ends
           /\ \A k : /\ Start(k)' = Start(k) /\ Bytes(k)' = Bytes(k) /\ Known(k)' = Known(k)
                     /\ NumSacksOf(k)' = NumSacksOf(k) /\ BlocksOf(k)' = BlocksOf(k)
<1>1. Shown' = Shown /\ OptLen' = OptLen /\ Ends' = Ends /\ DataLen' = DataLen
  BY DEF SamePacket, Shown, OptLen, Ends, DataLen
<1>2. \A k : Start(k)' = Start(k) /\ Bytes(k)' = Bytes(k)
  BY <1>1 DEF SamePacket, Start, Bytes
<1>3. \A k : /\ Known(k)' = Known(k)
             /\ NumSacksOf(k)' = NumSacksOf(k) /\ BlocksOf(k)' = BlocksOf(k)
  BY <1>2 DEF SamePacket, Known, NumSacksOf, BlocksOf
<1>4. CheckBogus' <=> CheckBogus
  BY <1>1 DEF SamePacket, CheckBogus
<1>5. WellFormed' <=> WellFormed
  BY <1>1, <1>4 DEF SamePacket, WellFormed
<1>6. HeaderOnly' <=> HeaderOnly
  BY <1>1 DEF HeaderOnly
<1> QED BY <1>1, <1>2, <1>3, <1>5, <1>6

LEMMA FactsWithNext ==
    ASSUME TypeInv, WellFormed, HeaderOnly, SamePacket,
           NEW k \in DOMAIN header.options, FactsOf(1 .. k - 1),
           Remaining = Bytes(k), Remaining > 0,
           NEW o, o.kind = header.options[k].kind, o.size = header.options[k].size, Note(o)
    PROVE  FactsOf(1 .. k)'
<1> DEFINE options == header.options
           n == Len(options)
           kind(j) == options[j].kind
<1>1. Laid(options, n) /\ \A j \in DOMAIN options : Written(options[j])
  BY OptionsLaid
<1>2. k \in Nat /\ k \in 1 .. k /\ 1 .. k - 1 \subseteq 1 .. k /\ \A j \in 1 .. k : j # k => j \in 1 .. k - 1
  BY <1>1 DEF Laid
<1>3. \A j \in 1 .. k : j \in DOMAIN options
  BY <1>1, <1>2 DEF Laid
<1>4. kind(k) \in Byte \ {EOL} /\ options[k].size \in Byte /\ (kind(k) = SACK => options[k].size \in {10, 18, 26, 34})
  BY <1>1 DEF Written
<1>5. Bytes(k) \in Nat
  <2>1. Start(k) \in Nat /\ Shown \in Nat
    <3>1. k \in 1 .. n + 1
      BY <1>1 DEF Laid
    <3> QED BY <1>1, <3>1 DEF Start, Laid
  <2>2. Bytes(k) = Shown - Start(k)
    BY DEF Bytes, Start
  <2> QED BY <2>1, <2>2
<1>6. \A j : Bytes(j)' = Bytes(j) /\ NumSacksOf(j)' = NumSacksOf(j) /\ BlocksOf(j)' = BlocksOf(j)
  BY SameMeaning
<1>7. header'.options = options
  BY DEF SamePacket
<1>8. /\ timestamp_ok = (\E j \in 1 .. k - 1 : kind(j) = TIMESTAMP)
      /\ mss_opt_value = 1 <=> \E j \in 1 .. k - 1 : kind(j) = MAXSEG /\ Bytes(j) >= 4
      /\ \A j \in 1 .. k - 1 : kind(j) = SACK => num_sacks = NumSacksOf(j) /\ blocks = BlocksOf(j)
      /\ (\A j \in 1 .. k - 1 : kind(j) # SACK) => num_sacks = 0 /\ blocks = 0
  BY DEF FactsOf
<1>9. timestamp_ok' = (\E j \in 1 .. k : kind(j) = TIMESTAMP)
  <2>1. timestamp_ok' = (timestamp_ok \/ kind(k) = TIMESTAMP)
    BY DEF Note
  <2> HIDE DEF options
  <2> QED BY <1>2, <1>8, <2>1
<1>10. mss_opt_value' = 1 <=> \E j \in 1 .. k : kind(j) = MAXSEG /\ Bytes(j) >= 4
  <2>1. mss_opt_value' = IF kind(k) = MAXSEG /\ Bytes(k) >= 4 THEN 1 ELSE mss_opt_value
    BY DEF Note, NoteMSS
  <2> HIDE DEF kind
  <2> QED BY <1>2, <1>8, <2>1
<1>11. CASE kind(k) # SACK
  <2>1. num_sacks' = num_sacks /\ blocks' = blocks
    BY <1>11 DEF Note, NoteSacks
  <2>2. \A j \in 1 .. k : kind(j) = SACK => j \in 1 .. k - 1
    BY <1>2, <1>11
  <2> HIDE DEF kind
  <2>3. /\ \A j \in 1 .. k : kind(j) = SACK => num_sacks' = NumSacksOf(j) /\ blocks' = BlocksOf(j)
        /\ (\A j \in 1 .. k : kind(j) # SACK) => num_sacks' = 0 /\ blocks' = 0
    BY <1>2, <1>8, <2>1, <2>2
  <2> QED BY <1>6, <1>7, <1>9, <1>10, <2>3 DEF FactsOf, kind
<1>12. CASE kind(k) = SACK
  <2>1. SackSizeFits(o.size)
    BY <1>4, <1>12 DEF SackSizeFits
  <2>2. num_sacks' = NumSacksOf(k) /\ blocks' = BlocksOf(k)
    <3>1. Remaining < 2 \/ Remaining >= 2
      BY <1>5
    <3>2. ~(Remaining < 2 /\ Remaining >= 2)
      BY <1>5
    <3> QED BY <1>12, <2>1, <3>1, <3>2, Zenon DEF Note, NoteSacks, NumSacksOf, BlocksOf, kind
  <2>3. \A j \in DOMAIN options : kind(j) = SACK => j = k
    BY <1>12 DEF WellFormed
  <2>4. \A j \in 1 .. k : kind(j) = SACK => num_sacks' = NumSacksOf(j) /\ blocks' = BlocksOf(j)
    BY <1>3, <2>2, <2>3
  <2> HIDE DEF kind
  <2> QED BY <1>2, <1>6, <1>7, <1>9, <1>10, <1>12, <2>4 DEF FactsOf, kind
<1> QED BY <1>11, <1>12

\* One turn of the loop reads one option.
LEMMA NextOption ==
    ASSUME TypeInv, WellFormed, HeaderOnly, header.caplen = Shown + HeaderLen,
           UNCHANGED <<frame, caplen>>, ReadOption,
           NEW k \in 1 .. Ends, Reading(k)
    PROVE  /\ ~is_bogus' /\ k + 1 \in 1 .. Ends
           /\ \/ pc' = "cut" /\ CutAt(k)'
              \/ pc' = "options" /\ Reading(k + 1)'
<1> DEFINE options == header.options
           n == Len(options)
<1>1. SamePacket
  BY DEF ReadOption, SamePacket
<1>2. Laid(options, n) /\ \A j \in DOMAIN options : Written(options[j])
  BY OptionsLaid
<1>3. /\ n \in Nat /\ Ends = n + 1 /\ DOMAIN options = 1 .. n
      /\ Start(n + 1) = OptLen /\ Start(k) \in Nat /\ Shown \in Nat /\ OptLen \in Nat
      /\ Shown <= OptLen
  BY <1>2 DEF Laid, Ends, Start
<1>4. /\ pc = "options" /\ Remaining > 0 /\ used = Start(k) /\ Shown >= 2
      /\ \A j \in 1 .. k - 1 : Known(j)
      /\ FactsOf(1 .. k - 1)
  BY DEF Reading, ReadOption
<1>5. Remaining = Bytes(k) /\ Remaining \in Nat /\ Bytes(k) = Shown - Start(k)
  BY <1>3, <1>4 DEF Remaining, CapOptLen, Bytes, Start, HeaderLen
<1>6. k \in DOMAIN options /\ k + 1 \in 1 .. Ends /\ k \in Nat
  <2>1. k # n + 1
    BY <1>3, <1>4, <1>5
  <2> QED BY <1>3, <2>1
<1>7. /\ Start(k + 1) = Start(k) + options[k].bytes /\ Start(k + 1) <= OptLen
      /\ Start(k + 1) \in Nat
  <2>1. n + 1 \in k + 1 .. n + 1 /\ k \in 1 .. n /\ k + 1 \in 1 .. n + 1
    BY <1>3, <1>6
  <2> QED BY <1>2, <2>1 DEF Laid, Start
<1> DEFINE fails(o) == SackFails(o) \/ (o.kind # NOP /\ Remaining > 1 /\ SizeFails(o))
<1>8. PICK o \in Found :
        /\ Note(o)
        /\ is_bogus' = fails(o)
        /\ pc' = IF fails(o) THEN "done"
                 ELSE IF o.kind # NOP /\ Remaining = 1 THEN "cut" ELSE pc
        /\ used' = IF fails(o) THEN used
                   ELSE IF o.kind = NOP THEN used + 1
                   ELSE IF Remaining = 1 THEN used ELSE used + o.size
  BY DEF ReadOption
<1>9. o.kind = options[k].kind /\ o.size = options[k].size
  BY <1>4, <1>6, FoundThere
<1>10. Written(options[k])
  BY <1>2, <1>6
<1>11. ~fails(o)
  <2>1. ~SackFails(o)
    <3>1. o.kind = SACK => o.size \in {10, 18, 26, 34}
      BY <1>9, <1>10 DEF Written
    <3>2. o.kind = SACK => SackSizeFits(o.size)
      BY <3>1 DEF SackSizeFits
    <3> QED BY <3>2 DEF SackFails
  <2>2. o.kind # NOP => ~SizeFails(o)
    <3>1. o.kind # NOP => o.size = options[k].bytes /\ o.size \in Nat \ {0}
      BY <1>9, <1>10 DEF Written
    <3> QED BY <1>3, <1>7, <3>1, SMTT(40) DEF SizeFails
  <2> QED BY <2>1, <2>2
<1>12. FactsOf(1 .. k)'
  BY <1>1, <1>4, <1>5, <1>6, <1>8, <1>9, FactsWithNext
<1>13. /\ Shown' = Shown /\ Ends' = Ends
       /\ \A j : Start(j)' = Start(j) /\ Bytes(j)' = Bytes(j) /\ Known(j)' = Known(j)
  BY <1>1, SameMeaning
<1>14. header'.options = options
  BY <1>1 DEF SamePacket
<1>15. ~is_bogus'
  BY <1>8, <1>11
<1>16. CASE o.kind # NOP /\ Remaining = 1
  <2>1. pc' = "cut" /\ used' = Start(k)
    BY <1>4, <1>8, <1>11, <1>16
  <2>2. k < Ends
    BY <1>3, <1>6
  <2>3. CutAt(k)'
    BY <1>4, <1>5, <1>9, <1>12, <1>13, <1>14, <1>16, <2>1, <2>2 DEF CutAt
  <2> QED BY <1>6, <1>15, <2>1, <2>3
<1>17. CASE ~(o.kind # NOP /\ Remaining = 1)
  <2>1. pc' = "options"
    BY <1>4, <1>8, <1>11, <1>17
  <2>2. used' = Start(k + 1)
    <3>1. o.kind = NOP => options[k].bytes = 1
      BY <1>9, <1>10 DEF Written
    <3>2. o.kind # NOP => options[k].bytes = o.size
      BY <1>9, <1>10 DEF Written
    <3> HIDE DEF fails, options
    <3> QED BY <1>4, <1>7, <1>8, <1>11, <1>17, <3>1, <3>2
  <2>3. Known(k)
    BY <1>4, <1>5, <1>9, <1>17 DEF Known
  <2>4. \A j \in 1 .. (k + 1) - 1 : Known(j)
    <3>1. \A j \in 1 .. (k + 1) - 1 : j = k \/ j \in 1 .. k - 1
      BY <1>6
    <3> QED BY <1>4, <2>3, <3>1
  <2>5. (k + 1) - 1 = k
    BY <1>6
  <2>6. FactsOf(1 .. (k + 1) - 1)'
    BY <1>12, <2>5
  <2>7. Reading(k + 1)'
    BY <1>4, <1>13, <2>2, <2>4, <2>6 DEF Reading
  <2> QED BY <1>6, <1>15, <2>1, <2>7
<1> QED BY <1>16, <1>17

\* A loop that has ended leaves what it did not read unknown.
LEMMA EndReached ==
    ASSUME TypeInv, WellFormed, HeaderOnly, header.caplen = Shown + HeaderLen,
           UNCHANGED <<frame, caplen>>, EndOfOptions,
           NEW k \in 1 .. Ends, \/ pc = "cut" /\ CutAt(k)
                                \/ pc = "options" /\ Reading(k)
    PROVE  Shown >= 2 /\ ReadUpTo(k)'
<1> DEFINE options == header.options
           n == Len(options)
           C == { j \in DOMAIN options : Bytes(j) >= 1 }
<1>1. SamePacket /\ UNCHANGED facts
  BY DEF EndOfOptions, SamePacket
<1>2. Laid(options, n) /\ \A j \in DOMAIN options : Written(options[j])
  BY OptionsLaid
<1>3. /\ n \in Nat /\ Ends = n + 1 /\ DOMAIN options = 1 .. n
      /\ Start(n + 1) = OptLen /\ Start(k) \in Nat /\ Shown \in Nat /\ OptLen \in Nat
      /\ Shown <= OptLen
  BY <1>2 DEF Laid, Ends, Start
<1>4. used = Start(k) /\ Shown >= 2 /\ \A j \in 1 .. k - 1 : Known(j)
  BY DEF CutAt, Reading
<1>5. \A j \in 1 .. n : Bytes(j) \in Int /\ Bytes(j) = Shown - Start(j) /\ Start(j) \in Nat
  <2>1. \A j \in 1 .. n : j \in 1 .. n + 1
    BY <1>3
  <2> QED BY <1>2, <1>3, <2>1 DEF Bytes, Start, Laid
<1>6. \A i \in 1 .. n : \A j \in 1 .. n + 1 : i < j => Start(i) + options[i].bytes <= Start(j)
  <2>1. \A i \in 1 .. n : \A j \in 1 .. n + 1 : i < j => j \in i + 1 .. n + 1
    BY <1>3
  <2> QED BY <1>2, <2>1 DEF Laid, Start
<1>7. \A j \in 1 .. n : options[j].bytes \in Nat \ {0}
  BY <1>2, <1>3 DEF Written
<1>8. k \in 1 .. n + 1 /\ k \in Nat
  BY <1>3
<1> HIDE DEF options, n
\* Of the options before the k-th one, each was captured.
<1>9. \A j \in 1 .. k - 1 : j \in C
  <2> SUFFICES ASSUME NEW j \in 1 .. k - 1 PROVE j \in C
    OBVIOUS
  <2>1. j \in 1 .. n /\ Known(j)
    BY <1>3, <1>4, <1>8
  <2>2. Bytes(j) >= 1
    BY <1>5, <2>1 DEF Known
  <2> QED BY <1>3, <2>1, <2>2
\* Of those behind it, none.
<1>10. ASSUME NEW j \in 1 .. n, j > k
       PROVE  /\ k \in 1 .. n
              /\ Bytes(k) \in Int /\ Bytes(j) \in Int /\ Bytes(j) < Bytes(k)
  <2>1. k \in 1 .. n /\ j \in 1 .. n + 1
    BY <1>3, <1>8, <1>10
  <2>2. Start(k) + options[k].bytes <= Start(j)
    BY <1>6, <1>8, <1>10, <2>1
  <2>3. /\ Bytes(k) = Shown - Start(k) /\ Bytes(j) = Shown - Start(j)
        /\ Start(j) \in Nat /\ options[k].bytes \in Nat \ {0}
    BY <1>5, <1>7, <2>1
  <2> QED BY <1>3, <2>1, <2>2, <2>3, SMTT(40)
<1>11. unknown_option_size' = OptLen - Start(k)
  <2>1. CASE k = n + 1
    BY <1>3, <1>4, <2>1 DEF EndOfOptions, UnknownBytes
  <2>2. CASE k # n + 1
    <3>1. Start(k) + options[k].bytes <= Start(n + 1) /\ options[k].bytes \in Nat \ {0}
      BY <1>3, <1>6, <1>7, <1>8, <2>2
    <3> QED BY <1>3, <1>4, <3>1 DEF EndOfOptions, UnknownBytes
  <2> QED BY <2>1, <2>2
<1>12. /\ OptLen' = OptLen /\ Ends' = Ends
       /\ \A j : /\ Start(j)' = Start(j) /\ Bytes(j)' = Bytes(j) /\ Known(j)' = Known(j)
                 /\ NumSacksOf(j)' = NumSacksOf(j) /\ BlocksOf(j)' = BlocksOf(j)
  BY <1>1, SameMeaning
<1>13. header'.options = header.options
  BY <1>1 DEF SamePacket
<1>14. (k < Ends => ~Known(k)) /\ FactsOf(C)
  <2>1. CASE pc = "cut" /\ CutAt(k)
    <3>1. Bytes(k) = 1 /\ options[k].kind # NOP /\ k < Ends /\ FactsOf(1 .. k)
      BY <2>1 DEF CutAt, options
    <3>2. ~Known(k)
      BY <3>1 DEF Known, options
    <3>3. 1 .. k = C
      <4>1. \A j \in 1 .. k : j \in 1 .. k - 1 \/ j = k
        BY <1>8
      <4>2. k \in C
        BY <1>3, <1>8, <3>1
      <4>3. \A j \in C : j \in 1 .. k
        <5> SUFFICES ASSUME NEW j \in C, j > k PROVE FALSE
          BY <1>3, <1>8
        <5> QED BY <1>3, <1>10, <3>1
      <4> HIDE DEF C
      <4> QED BY <1>9, <4>1, <4>2, <4>3
    <3> QED BY <3>1, <3>2, <3>3
  <2>2. CASE pc = "options" /\ Reading(k)
    <3>1. Remaining <= 0 /\ FactsOf(1 .. k - 1)
      BY <2>2 DEF EndOfOptions, Reading
    <3>2. Shown <= Start(k)
      BY <1>3, <1>4, <3>1 DEF Remaining, CapOptLen, HeaderLen
    <3>3. k \in 1 .. n => Bytes(k) <= 0
      BY <1>3, <1>5, <3>2
    <3>4. k < Ends => ~Known(k)
      <4>1. k < Ends => k \in 1 .. n
        BY <1>3, <1>8
      <4> QED BY <1>5, <3>3, <4>1 DEF Known
    <3>5. 1 .. k - 1 = C
      <4>1. \A j \in C : j \in 1 .. k - 1
        <5> SUFFICES ASSUME NEW j \in C, j >= k PROVE FALSE
          BY <1>3, <1>8
        <5>1. j \in 1 .. n /\ Bytes(j) >= 1 /\ (j > k \/ j = k)
          BY <1>3, <1>8
        <5> QED BY <1>5, <1>10, <3>3, <5>1
      <4> HIDE DEF C
      <4> QED BY <1>9, <4>1
    <3> QED BY <3>1, <3>4, <3>5
  <2> QED BY <2>1, <2>2
<1>15. FactsOf({ j \in DOMAIN header.options : Bytes(j) >= 1 })'
  <2>1. /\ timestamp_ok' = timestamp_ok /\ mss_opt_value' = mss_opt_value
        /\ num_sacks' = num_sacks /\ blocks' = blocks
    BY <1>1 DEF facts
  <2>2. FactsOf({ j \in DOMAIN header.options : Bytes(j) >= 1 })
    BY <1>14 DEF options
  <2> HIDE DEF C
  <2> QED BY <1>12, <1>13, <2>1, <2>2 DEF FactsOf
<1> QED BY <1>4, <1>11, <1>12, <1>14, <1>15 DEF ReadUpTo

-----------------------------------------------------------------------------
(***************************************************************************)
(* The layers and the parser, step by step.                                 *)
(***************************************************************************)
Complete == TypeInv /\ ParseInv

LEMMA ParsedAtFirst == CapturedInit => Complete
<1> SUFFICES ASSUME CapturedInit
             PROVE  Complete
  OBVIOUS
<1>1. TypeInv
  BY TypedAtFirst
<1>2. Unparsed /\ layer = "link"
  BY DEF CapturedInit
<1> QED BY <1>1, <1>2 DEF Complete, ParseInv, ReadSoFar, Unparsed

\* The fixed header is behind its link and IP headers.
LEMMA ReachesTcp ==
    ASSUME TypeInv, WellFormed
    PROVE  IpCapLen > 0 /\ TcpCapLen > 0 /\ TcpCapLen = Shown + HeaderLen /\ Shown \in Nat
<1>1. caplen \in Nat /\ LinkHeaderLen(frame.link) \in Nat
  BY FrameLengths DEF TypeInv, TypeOK, LayersOK
<1>2. Shown >= 0
  BY DEF WellFormed
<1> QED BY <1>1, <1>2 DEF Shown, TcpCapLen, IpCapLen, IpHeaderLen, HeaderLen

LEMMA LinkLayerRead ==
    ASSUME Complete, EthernetPacket
    PROVE  ParseInv'
<1>1. /\ SamePacket /\ UNCHANGED vars /\ Unparsed
      /\ layer' = IF frame.link # "other" /\ frame.ip /\ IpCapLen > 0 THEN "ip" ELSE "none"
  BY DEF EthernetPacket, SamePacket, vars, Complete, TypeInv, LayersOK
<1>2. Unparsed'
  BY <1>1 DEF vars, facts, Unparsed
<1>3. WellFormed' => layer' = "ip"
  <2>1. WellFormed' => WellFormed
    BY <1>1, SameMeaning
  <2>2. WellFormed => IpCapLen > 0 /\ frame.link # "other" /\ frame.ip
    BY ReachesTcp DEF Complete, WellFormed
  <2> QED BY <1>1, <2>1, <2>2
<1> QED BY <1>2, <1>3 DEF ParseInv, ReadSoFar, Unparsed

LEMMA IpLayerRead ==
    ASSUME Complete, IpPacket
    PROVE  ParseInv'
<1>1. Unparsed /\ header \in Header
  BY DEF IpPacket, Complete, TypeInv, TypeOK, LayersOK
<1>2. Unparsed'
  BY <1>1 DEF IpPacket, facts, Unparsed
<1>3. /\ frame' = frame /\ caplen' = caplen
      /\ header'.ports = header.ports /\ header'.ack = header.ack /\ header'.flags = header.flags
      /\ header'.options = header.options /\ header'.offset = header.offset /\ header'.len = header.len
  BY <1>1 DEF IpPacket, Header
<1>4. WellFormed' => WellFormed
  <2>1. Shown' = Shown /\ OptLen' = OptLen /\ DataLen' = DataLen
    BY <1>3 DEF Shown, OptLen, DataLen
  <2>2. CheckBogus' <=> CheckBogus
    BY <1>3, <2>1 DEF CheckBogus
  <2> QED BY <1>3, <2>1, <2>2 DEF WellFormed
<1>5. WellFormed' => layer' = "tcp" /\ header'.caplen = Shown' + HeaderLen
  <2> SUFFICES ASSUME WellFormed PROVE layer' = "tcp" /\ header'.caplen = Shown' + HeaderLen
    BY <1>4
  <2>1. TcpCapLen > 0 /\ TcpCapLen = Shown + HeaderLen /\ frame.tcp
    BY ReachesTcp DEF Complete, WellFormed
  <2>2. TcpCapLen \in Int
    BY <2>1, ReachesTcp DEF Complete, HeaderLen
  <2>3. layer' = "tcp" /\ header' = [header EXCEPT !.caplen = TcpCapLen]
    BY <2>1, <2>2 DEF IpPacket
  <2>4. Shown' = Shown
    BY <1>3 DEF Shown
  <2> QED BY <1>1, <2>1, <2>3, <2>4 DEF Header
<1> QED BY <1>2, <1>5 DEF ParseInv, ReadSoFar, Unparsed

LEMMA OptionsRead ==
    ASSUME Complete, TcpPacket
    PROVE  ParseInv'
<1>1. SamePacket /\ layer = "tcp" /\ layer' = "tcp" /\ Next /\ UNCHANGED <<frame, caplen>>
  BY DEF TcpPacket, Next, NewPacket, ReadOption, EndOfOptions, SamePacket
<1>2. pc' # "new"
  BY <1>1 DEF Next, NewPacket, Options, ReadOption, EndOfOptions
<1> SUFFICES ASSUME WellFormed, HeaderOnly
             PROVE  ReadSoFar'
  BY <1>1, <1>2, SameMeaning DEF ParseInv
<1>3. /\ TypeInv /\ ReadSoFar /\ header.caplen = Shown + HeaderLen /\ ~is_bogus
      /\ pc = "new" => Unparsed
  BY <1>1 DEF Complete, ParseInv, ReadSoFar
<1>4. Laid(header.options, Len(header.options))
  BY <1>3, OptionsLaid
<1>5. Shown \in Nat /\ OptLen \in Nat /\ Shown <= OptLen /\ 1 \in 1 .. Ends /\ Start(1) = 0
  BY <1>4 DEF Laid, Ends, Start
<1>6. /\ Shown' = Shown /\ OptLen' = OptLen /\ Ends' = Ends /\ header' = header
      /\ \A j : Start(j)' = Start(j)
  BY <1>1, SameMeaning DEF SamePacket
<1>7. CASE NewPacket
  <2>1. /\ ~is_bogus' /\ Options /\ UNCHANGED <<used, facts>>
    <3>1. ~CheckBogus
      BY DEF WellFormed
    <3>2. ~(header.caplen < HeaderLen)
      BY <1>3, <1>5 DEF HeaderLen
    <3> QED BY <1>7, <3>1, <3>2 DEF NewPacket
  <2>2. CapOptLen = Shown
    BY <1>3, <1>5 DEF CapOptLen, HeaderLen
  <2>3. CASE OptLen = 0 \/ CapOptLen < 2
    <3>1. pc' = "done" /\ unknown_option_size' = OptLen
      BY <2>1, <2>2, <2>3, <1>5 DEF Options, UnknownAtOnce
    <3>2. Shown < 2
      BY <1>5, <2>2, <2>3
    <3> QED BY <1>1, <1>3, <1>6, <2>1, <3>1, <3>2 DEF ReadSoFar
  <2>4. CASE ~(OptLen = 0 \/ CapOptLen < 2)
    <3>1. pc' = "options" /\ Shown >= 2
      BY <2>1, <2>2, <2>4, <1>5 DEF Options
    <3>2. Unparsed
      BY <1>3, <1>7 DEF NewPacket
    <3>3. /\ used' = 0 /\ mss_opt_value' = 0 /\ timestamp_ok' = FALSE
          /\ num_sacks' = 0 /\ blocks' = 0
      BY <2>1, <3>2 DEF Unparsed, facts
    <3>4. 1 .. 1 - 1 = {}
      OBVIOUS
    <3>5. Reading(1)'
      <4>1. FactsOf(1 .. 1 - 1)'
        <5> mss_opt_value' # 1
          BY <3>3
        <5> \A j : j \notin 1 .. 1 - 1
          BY <3>4
        <5> QED BY <3>3, Zenon DEF FactsOf
      <4>2. \A j \in 1 .. 1 - 1 : Known(j)'
        BY <3>4
      <4>3. used' = Start(1)' /\ Shown' >= 2
        BY <1>5, <1>6, <3>1, <3>3
      <4> QED BY <4>1, <4>2, <4>3, Zenon DEF Reading
    <3> QED BY <1>1, <1>3, <1>5, <1>6, <2>1, <3>1, <3>5 DEF ReadSoFar
  <2> QED BY <2>3, <2>4
<1>8. CASE ReadOption
  <2>1. PICK k \in 1 .. Ends : Reading(k)
    BY <1>3, <1>8 DEF ReadOption, ReadSoFar
  <2>2. /\ ~is_bogus' /\ k + 1 \in 1 .. Ends
        /\ \/ pc' = "cut" /\ CutAt(k)'
           \/ pc' = "options" /\ Reading(k + 1)'
    BY <1>1, <1>3, <1>8, <2>1, NextOption
  <2> QED BY <1>1, <1>3, <1>6, <2>1, <2>2 DEF ReadSoFar
<1>9. CASE EndOfOptions
  <2>1. \/ pc = "cut" /\ \E k \in 1 .. Ends : CutAt(k)
        \/ pc = "options" /\ \E k \in 1 .. Ends : Reading(k)
    BY <1>3, <1>9 DEF EndOfOptions, ReadSoFar
  <2>2. PICK k \in 1 .. Ends : \/ pc = "cut" /\ CutAt(k)
                               \/ pc = "options" /\ Reading(k)
    BY <2>1
  <2>3. Shown >= 2 /\ ReadUpTo(k)'
    BY <1>1, <1>3, <1>9, <2>2, EndReached
  <2>4. pc' = "done" /\ is_bogus' = is_bogus
    BY <1>9 DEF EndOfOptions
  <2> QED BY <1>1, <1>3, <1>6, <2>3, <2>4 DEF ReadSoFar
<1> QED BY <1>1, <1>7, <1>8, <1>9 DEF Next

LEMMA ParsingKept == Complete /\ [CapturedNext]_packetVars => Complete'
<1> SUFFICES ASSUME Complete, [CapturedNext]_packetVars
             PROVE  Complete'
  OBVIOUS
<1>1. TypeInv'
  BY TypesKept DEF Complete
<1>2. CASE UNCHANGED packetVars
  <2>1. SamePacket /\ UNCHANGED <<pc, used, facts, is_bogus, unknown_option_size, layer>>
    BY <1>2 DEF packetVars, vars, SamePacket
  <2>2. /\ WellFormed' <=> WellFormed
        /\ HeaderOnly' <=> HeaderOnly
        /\ Shown' = Shown /\ OptLen' = OptLen /\ Ends' = Ends
        /\ \A k : /\ Start(k)' = Start(k) /\ Bytes(k)' = Bytes(k) /\ Known(k)' = Known(k)
                  /\ NumSacksOf(k)' = NumSacksOf(k) /\ BlocksOf(k)' = BlocksOf(k)
    BY <2>1, SameMeaning
  <2>3. header' = header
    BY <2>1 DEF SamePacket
  <2>4. Unparsed' <=> Unparsed
    BY <2>1 DEF Unparsed, facts
  <2>5. ReadSoFar => ReadSoFar'
    BY <2>1, <2>2, <2>3, ZenonT(40) DEF ReadSoFar, Reading, CutAt, ReadUpTo, FactsOf, facts
  <2>6. ParseInv'
    BY <2>1, <2>2, <2>4, <2>5 DEF ParseInv, Complete
  <2> QED BY <1>1, <2>6 DEF Complete
<1> QED BY <1>1, <1>2, LinkLayerRead, IpLayerRead, OptionsRead DEF CapturedNext, Complete

LEMMA AlwaysComplete == CapturedSpec => []Complete
<1> QED BY ParsedAtFirst, ParsingKept, PTL DEF CapturedSpec

-----------------------------------------------------------------------------
(***************************************************************************)
(* "packets with invalid header settings" (tcp_packet.h:172): wherever the   *)
(* capture cuts a well-formed header, the packet is not bogus.              *)
(***************************************************************************)
THEOREM CutsAreNotBogus == CapturedSpec => []CutIsNotBogus
<1>1. Complete => CutIsNotBogus
  BY DEF Complete, ParseInv, ReadSoFar, CutIsNotBogus
<1> QED BY <1>1, AlwaysComplete, PTL

\* Counting the blocks up to a number.
LEMMA BlocksCounted ==
    ASSUME NEW bytes \in Nat, NEW said \in 0 .. 4
    PROVE  Cardinality({ b \in 1 .. 4 : b <= said /\ bytes >= 2 + 8 * b })
               = IF bytes >= 2 THEN SmallerOf((bytes - 2) \div 8, said) ELSE 0
<1> DEFINE B == { b \in 1 .. 4 : b <= said /\ bytes >= 2 + 8 * b }
<1>1. CASE bytes >= 2
  <2> DEFINE r == (bytes - 2) \div 8
             m == SmallerOf(r, said)
  <2>1. r \in Nat /\ \A b \in 1 .. 4 : bytes >= 2 + 8 * b <=> b <= r
    <3> DEFINE d == bytes - 2
    <3>1. d \in Nat /\ \A b \in 1 .. 4 : bytes >= 2 + 8 * b <=> d >= 8 * b
      BY <1>1
    <3> HIDE DEF d
    <3>2. d \div 8 \in Nat /\ 8 * (d \div 8) <= d /\ d < 8 * (d \div 8) + 8
      BY <3>1
    <3>3. \A b \in 1 .. 4 : d >= 8 * b <=> b <= d \div 8
      BY <3>1, <3>2
    <3> QED BY <3>1, <3>2, <3>3 DEF d
  <2> HIDE DEF r
  <2>2. m \in 0 .. 4 /\ B = 1 .. m
    BY <2>1 DEF SmallerOf
  <2>3. Cardinality(1 .. m) = m
    <3> HIDE DEF m
    <3>1. 1 \in Int /\ m \in Int /\ (IF 1 > m THEN 0 ELSE m - 1 + 1) = m
      BY <2>2
    <3>2. Cardinality(1 .. m) = IF 1 > m THEN 0 ELSE m - 1 + 1
      BY ONLY <3>1, FS_Interval
    <3> QED BY <3>1, <3>2
  <2> QED BY <1>1, <2>2, <2>3 DEF r
<1>2. CASE ~(bytes >= 2)
  <2>1. B = {}
    BY <1>2
  <2> QED BY <1>2, <2>1, FS_EmptySet
<1> QED BY <1>1, <1>2

(***************************************************************************)
(* Each option counts as far as it was captured, wherever it stands and     *)
(* whatever is beside it (tcp_packet.cc:78).                                *)
(***************************************************************************)
THEOREM OptionsCountAsCaptured == CapturedSpec => []OptionsAsCaptured
<1>1. Complete => OptionsAsCaptured
  <2> SUFFICES ASSUME Complete, pc = "done", WellFormed, HeaderOnly, Shown >= 2
               PROVE  /\ timestamp_ok = (\E k \in OfKind(TIMESTAMP) : Bytes(k) >= 1)
                      /\ mss_opt_value = 1 <=> \E k \in OfKind(MAXSEG) : Bytes(k) >= 4
                      /\ \A k \in OfKind(SACK) :
                            /\ num_sacks = IF Bytes(k) >= 2 THEN header.options[k].bytes \div 8 ELSE 0
                            /\ blocks = Cardinality({ b \in 1 .. 4 : /\ b <= header.options[k].bytes \div 8
                                                                     /\ Bytes(k) >= 2 + 8 * b })
    BY DEF OptionsAsCaptured
  <2> DEFINE options == header.options
             K == { j \in DOMAIN options : Bytes(j) >= 1 }
  <2>1. FactsOf(K)
    <3>1. Shown \in Nat
      BY ReachesTcp DEF Complete
    <3>2. \E k \in 1 .. Ends : ReadUpTo(k)
      BY <3>1 DEF Complete, ParseInv, ReadSoFar
    <3> QED BY <3>2 DEF ReadUpTo
  <2>2. Laid(options, Len(options)) /\ \A j \in DOMAIN options : Written(options[j])
    BY OptionsLaid DEF Complete
  <2>3. \A j \in DOMAIN options : Bytes(j) \in Int
    <3>1. \A j \in DOMAIN options : j \in 1 .. Len(options) + 1
      BY <2>2 DEF Laid
    <3> QED BY <2>2, <3>1 DEF Bytes, Laid
  <2>4. timestamp_ok = (\E k \in OfKind(TIMESTAMP) : Bytes(k) >= 1)
    <3>1. timestamp_ok = (\E k \in K : options[k].kind = TIMESTAMP)
      BY <2>1 DEF FactsOf
    <3>2. (\E k \in K : options[k].kind = TIMESTAMP) <=> (\E k \in OfKind(TIMESTAMP) : Bytes(k) >= 1)
      BY DEF OfKind
    <3> QED BY <3>1, <3>2
  <2>5. mss_opt_value = 1 <=> \E k \in OfKind(MAXSEG) : Bytes(k) >= 4
    <3>1. mss_opt_value = 1 <=> \E k \in K : options[k].kind = MAXSEG /\ Bytes(k) >= 4
      BY <2>1 DEF FactsOf
    <3>2. \A k \in DOMAIN options : Bytes(k) >= 4 => Bytes(k) >= 1
      BY <2>3
    <3> QED BY <3>1, <3>2 DEF OfKind
  <2>6. ASSUME NEW k \in OfKind(SACK)
        PROVE  /\ num_sacks = IF Bytes(k) >= 2 THEN options[k].bytes \div 8 ELSE 0
               /\ blocks = Cardinality({ b \in 1 .. 4 : /\ b <= options[k].bytes \div 8
                                                        /\ Bytes(k) >= 2 + 8 * b })
    <3> DEFINE said == options[k].bytes \div 8
               B == { b \in 1 .. 4 : b <= said /\ Bytes(k) >= 2 + 8 * b }
    <3>1. k \in DOMAIN options /\ options[k].kind = SACK
      BY DEF OfKind
    <3>2. options[k].size \in {10, 18, 26, 34} /\ options[k].bytes = options[k].size
      BY <2>2, <3>1 DEF Written, SACK, NOP
    <3>3. said \in 0 .. 4 /\ (options[k].size - 2) \div 8 = said
      BY <3>2
    <3>4. Bytes(k) \in Int
      BY <2>3, <3>1
    <3> HIDE DEF said
    <3>5. CASE Bytes(k) >= 1
      <4>1. num_sacks = NumSacksOf(k) /\ blocks = BlocksOf(k)
        BY <2>1, <3>1, <3>5 DEF FactsOf
      <4>2. Bytes(k) \in Nat
        BY <3>4, <3>5
      <4>3. Cardinality(B) = BlocksOf(k)
        <5> DEFINE bytes == Bytes(k)
        <5>1. bytes \in Nat /\ B = { b \in 1 .. 4 : b <= said /\ bytes >= 2 + 8 * b }
          BY <4>2
        <5>2. BlocksOf(k) = IF bytes >= 2 THEN SmallerOf((bytes - 2) \div 8, said) ELSE 0
          BY <3>3 DEF BlocksOf
        <5> HIDE DEF bytes, B
        <5> QED BY <3>3, <5>1, <5>2, BlocksCounted
      <4>4. num_sacks = IF Bytes(k) >= 2 THEN said ELSE 0
        BY <3>3, <4>1 DEF NumSacksOf
      <4> QED BY <4>1, <4>3, <4>4 DEF said
    <3>6. CASE Bytes(k) < 1
      <4>1. \A j \in K : options[j].kind # SACK
        <5>1. \A j \in DOMAIN options : options[j].kind = SACK => j = k
          BY <3>1 DEF WellFormed
        <5>2. k \notin K
          BY <3>4, <3>6
        <5> QED BY <5>1, <5>2
      <4>2. num_sacks = 0 /\ blocks = 0
        BY <2>1, <4>1 DEF FactsOf
      <4>3. B = {} /\ ~(Bytes(k) >= 2)
        BY <3>4, <3>6
      <4>4. Cardinality(B) = 0
        BY <4>3, FS_EmptySet
      <4> QED BY <4>2, <4>3, <4>4 DEF said
    <3> QED BY <3>4, <3>5, <3>6
  <2> QED BY <2>4, <2>5, <2>6
<1> QED BY <1>1, AlwaysComplete, PTL

(***************************************************************************)
(* unknown_option_size_ counts the options from the first one on of which   *)
(* kind and size were not both captured, that one whole, for any list of     *)
(* options and any cut.                                                    *)
(***************************************************************************)
THEOREM UnknownStartsAtFirstCut == CapturedSpec => []UnknownFromFirstCut
<1> DEFINE known(k) == Bytes(k) >= IF header.options[k].kind = NOP THEN 1 ELSE 2
           hidden == { k \in DOMAIN header.options : Shown < 2 \/ ~known(k) }
           from == CHOOSE k \in hidden : \A j \in hidden : k <= j
<1>1. Complete => UnknownFromFirstCut
  <2> SUFFICES ASSUME Complete, pc = "done", WellFormed, HeaderOnly
               PROVE  unknown_option_size =
                          IF hidden = {} THEN 0 ELSE OptLen - StartOf(header.options, from)
    BY Zenon DEF UnknownFromFirstCut
  <2> DEFINE options == header.options
             n == Len(options)
  <2>1. Laid(options, n)
    BY OptionsLaid DEF Complete
  <2>2. /\ n \in Nat /\ DOMAIN options = 1 .. n /\ Ends = n + 1
        /\ Shown \in Nat /\ OptLen \in Nat /\ Start(1) = 0 /\ Start(n + 1) = OptLen /\ Shown <= OptLen
    BY <2>1 DEF Laid, Ends, Start
  <2>3. \A k : known(k) <=> Known(k)
    BY DEF Known
  <2>4. ReadSoFar
    BY DEF Complete, ParseInv
  <2> HIDE DEF known
  \* The least member of a set is the one that is chosen.
  <2>5. ASSUME NEW k \in hidden, \A j \in hidden : k <= j
        PROVE  hidden # {} /\ from = k
    <3>1. hidden \subseteq 1 .. n
      BY <2>2
    <3> HIDE DEF hidden
    <3>2. from \in hidden /\ \A j \in hidden : from <= j
      BY <2>5
    <3> HIDE DEF from
    <3>3. k \in hidden /\ k \in 1 .. n /\ from \in 1 .. n
      BY ONLY <3>1, <3>2, k \in hidden
    <3>4. from <= k /\ k <= from
      BY <2>5, <3>2, <3>3
    <3> QED BY <2>2, <3>3, <3>4
  <2>6. CASE Shown < 2
    <3>1. unknown_option_size = OptLen
      BY <2>2, <2>4, <2>6 DEF ReadSoFar
    <3>2. hidden = 1 .. n
      BY <2>2, <2>6
    <3>3. CASE n = 0
      BY <2>2, <3>1, <3>2, <3>3
    <3>4. CASE n # 0
      <4>1. 1 \in hidden /\ \A j \in hidden : 1 <= j
        BY <2>2, <3>2, <3>4
      <4>2. hidden # {} /\ from = 1
        BY <2>5, <4>1
      <4> HIDE DEF hidden, from
      <4> QED BY <2>2, <3>1, <4>2 DEF Start
    <3> QED BY <3>3, <3>4
  <2>7. CASE Shown >= 2
    <3>1. PICK k \in 1 .. Ends : ReadUpTo(k)
      BY <2>2, <2>4, <2>7 DEF ReadSoFar
    <3>2. /\ \A j \in 1 .. k - 1 : Known(j)
          /\ k < Ends => ~Known(k)
          /\ unknown_option_size = OptLen - Start(k)
      BY <3>1 DEF ReadUpTo
    <3>3. ~(Shown < 2)
      BY <2>2, <2>7
    <3>4. \A j \in hidden : j \in 1 .. n /\ ~Known(j) /\ j >= k
      <4> SUFFICES ASSUME NEW j \in hidden PROVE j \in 1 .. n /\ ~Known(j) /\ j >= k
        OBVIOUS
      <4>1. j \in 1 .. n /\ ~Known(j)
        BY <2>2, <2>3, <3>3
      <4>2. j \notin 1 .. k - 1
        BY <3>2, <4>1
      <4> QED BY <2>2, <4>1, <4>2
    <3>5. CASE k = n + 1
      <4>1. hidden = {}
        <5> HIDE DEF hidden
        <5> QED BY <2>2, <3>4, <3>5
      <4> QED BY <2>2, <3>2, <3>5, <4>1
    <3>6. CASE k # n + 1
      <4>1. k \in 1 .. n /\ k < Ends
        BY <2>2, <3>6
      <4>2. k \in hidden
        BY <2>2, <2>3, <3>2, <4>1
      <4>3. \A j \in hidden : k <= j
        <5> HIDE DEF hidden
        <5> QED BY <3>4, <4>1
      <4>4. hidden # {} /\ from = k
        BY <2>5, <4>2, <4>3
      <4> HIDE DEF hidden, from
      <4> QED BY <3>2, <4>4 DEF Start
    <3> QED BY <3>5, <3>6
  <2> QED BY <2>2, <2>6, <2>7
<1> QED BY <1>1, AlwaysComplete, PTL

(***************************************************************************)
(* An ACK with SACK blocks never passes for one without: their number was    *)
(* captured, or enough bytes are unknown (tcp_endpoint.cc:488).              *)
(***************************************************************************)
THEOREM SacksAreNotOverlooked == CapturedSpec => []SackNotOverlooked
<1>1. Complete => SackNotOverlooked
  <2> SUFFICES ASSUME Complete, pc = "done", WellFormed, HeaderOnly, NEW k \in OfKind(SACK)
               PROVE  num_sacks > 0 \/ unknown_option_size >= 10
    BY DEF SackNotOverlooked
  <2> DEFINE options == header.options
             n == Len(options)
  <2>1. Laid(options, n) /\ \A j \in DOMAIN options : Written(options[j])
    BY OptionsLaid DEF Complete
  <2>2. /\ n \in Nat /\ DOMAIN options = 1 .. n /\ Ends = n + 1
        /\ Shown \in Nat /\ OptLen \in Nat /\ Start(n + 1) = OptLen
    BY <2>1 DEF Laid, Ends, Start
  <2>3. k \in 1 .. n /\ options[k].kind = SACK /\ n + 1 \in k + 1 .. n + 1
    BY <2>2 DEF OfKind
  <2>4. options[k].size \in {10, 18, 26, 34} /\ options[k].bytes = options[k].size
    BY <2>1, <2>2, <2>3 DEF Written, SACK, NOP
  <2>5. Start(k) \in Nat /\ Start(k) + 10 <= OptLen
    <3>1. Start(k) + options[k].bytes <= Start(n + 1) /\ Start(k) \in Nat
      <4> k \in 1 .. n + 1
        BY <2>2, <2>3
      <4> QED BY <2>1, <2>3 DEF Laid, Start
    <3> QED BY <2>2, <2>4, <3>1
  <2>6. ReadSoFar
    BY DEF Complete, ParseInv
  <2>7. CASE Shown < 2
    <3>1. unknown_option_size = OptLen
      BY <2>2, <2>6, <2>7 DEF ReadSoFar
    <3> QED BY <2>2, <2>5, <3>1
  <2>8. CASE Shown >= 2
    <3>1. PICK m \in 1 .. Ends : ReadUpTo(m)
      BY <2>2, <2>6, <2>8 DEF ReadSoFar
    <3>2. /\ \A j \in 1 .. m - 1 : Known(j)
          /\ unknown_option_size = OptLen - Start(m)
          /\ FactsOf({ j \in DOMAIN options : Bytes(j) >= 1 })
      BY <3>1 DEF ReadUpTo
    <3>3. Bytes(k) \in Int
      BY <2>2, <2>5 DEF Bytes, Start
    <3>4. CASE Bytes(k) >= 2
      <4>1. Bytes(k) >= 1
        BY <3>3, <3>4
      <4>2. num_sacks = NumSacksOf(k)
        BY <2>2, <2>3, <3>2, <4>1 DEF FactsOf
      <4>3. (options[k].size - 2) \div 8 > 0
        BY <2>4
      <4> QED BY <3>4, <4>2, <4>3 DEF NumSacksOf
    <3>5. CASE ~(Bytes(k) >= 2)
      <4>1. ~Known(k)
        BY <2>3, <3>5 DEF Known, SACK, NOP
      <4>2. m <= k /\ m \in 1 .. n + 1
        <5>1. k \notin 1 .. m - 1
          BY <3>2, <4>1
        <5> QED BY <2>2, <2>3, <5>1
      <4>3. Start(m) \in Nat /\ Start(m) <= Start(k)
        <5>1. CASE m = k
          BY <2>5, <5>1
        <5>2. CASE m # k
          <6>1. m \in 1 .. n /\ k \in m + 1 .. n + 1 /\ m \in DOMAIN options
            BY <2>2, <2>3, <4>2, <5>2
          <6>2. Start(m) + options[m].bytes <= Start(k) /\ Start(m) \in Nat
            BY <2>1, <4>2, <6>1 DEF Laid, Start
          <6>3. options[m].bytes \in Nat
            BY <2>1, <6>1 DEF Written
          <6> QED BY <2>5, <6>2, <6>3
        <5> QED BY <5>1, <5>2
      <4> QED BY <2>2, <2>5, <3>2, <4>3
    <3> QED BY <3>4, <3>5
  <2> QED BY <2>2, <2>7, <2>8
<1> QED BY <1>1, AlwaysComplete, PTL
===============================================================================
