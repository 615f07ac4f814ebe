-------------------------------- MODULE Walks --------------------------------
(***************************************************************************)
(* The walk of a container from its front to its back, as a function: what  *)
(* has come of every set of positions, from what has come of the set        *)
(* without its last position.  Step is one round of the walk's loop, c what *)
(* the loop uses from outside; a module instantiates it for each of its     *)
(* loops.                                                                  *)
(***************************************************************************)
EXTENDS Integers

CONSTANT Step(_, _, _)

IsWalk(g, c, base, S) ==
    /\ g = [s \in SUBSET S |-> g[s]]
    /\ g[{}] = base
    /\ \A s \in SUBSET S : \A x \in s :
          (\A y \in s : x >= y) => g[s] = Step(c, x, g[s \ {x}])

\* What holds without any position, and with one more at the end, holds of every set of
\* positions.  CaptureLemmas proves it (OneMoreAtTheEnd); here it is a hypothesis, so that
\* an instance of this module does not repeat the library that the proof rests on.
OneMoreSuffices ==
    \A n \in Nat : \A S : S \subseteq 0 .. n =>
        \A Good :
            /\ {} \in Good
            /\ \A s \in SUBSET S : \A x \in s :
                  (\A y \in s : x >= y) /\ s \ {x} \in Good => s \in Good
            => S \in Good

(***************************************************************************)
(* Every loop over a set of positions has such a function.                  *)
(***************************************************************************)
LEMMA WalkExists ==
    ASSUME OneMoreSuffices, NEW n \in Nat, NEW S, S \subseteq 0 .. n, NEW c, NEW base
    PROVE  \E g : IsWalk(g, c, base, S)
<1> DEFINE Good == { s \in SUBSET S : \E g : IsWalk(g, c, base, s) }
<1>1. {} \in Good
  <2> DEFINE g == [s \in SUBSET {} |-> base]
  <2>1. g = [s \in SUBSET {} |-> g[s]] /\ g[{}] = base
    OBVIOUS
  <2> HIDE DEF g
  <2>2. IsWalk(g, c, base, {})
    BY <2>1 DEF IsWalk
  <2> QED BY <2>2
<1>2. ASSUME NEW s \in SUBSET S, NEW x \in s, \A y \in s : x >= y, s \ {x} \in Good
      PROVE  s \in Good
  <2>1. PICK g : IsWalk(g, c, base, s \ {x})
    BY <1>2
  <2> DEFINE h == [t \in SUBSET s |-> IF x \in t THEN Step(c, x, g[t \ {x}]) ELSE g[t]]
  <2>2. \A t \in SUBSET s : /\ t \ {x} \in SUBSET (s \ {x})
                            /\ x \notin t => t \in SUBSET (s \ {x})
    OBVIOUS
  <2>3. \A t \in SUBSET (s \ {x}) : t \in SUBSET s /\ x \notin t /\ h[t] = g[t]
    OBVIOUS
  <2>4. h = [t \in SUBSET s |-> h[t]]
    OBVIOUS
  <2>5. h[{}] = base
    BY <2>1, <2>3 DEF IsWalk
  <2>6. ASSUME NEW t \in SUBSET s, NEW z \in t, \A y \in t : z >= y
        PROVE  h[t] = Step(c, z, h[t \ {z}])
    <3>1. CASE x \in t
      <4>1. z = x
        <5> z >= x /\ x >= z /\ x \in 0 .. n /\ z \in 0 .. n
          BY <1>2, <2>6, <3>1
        <5> QED OBVIOUS
      <4>2. h[t] = Step(c, x, g[t \ {x}])
        BY <3>1
      <4>3. h[t \ {x}] = g[t \ {x}]
        BY <2>2, <2>3
      <4> QED BY <4>1, <4>2, <4>3
    <3>2. CASE x \notin t
      <4>1. t \in SUBSET (s \ {x}) /\ t \ {z} \in SUBSET (s \ {x})
        BY <2>2, <3>2
      <4>2. g[t] = Step(c, z, g[t \ {z}])
        BY <2>1, <2>6, <4>1 DEF IsWalk
      <4> QED BY <2>3, <4>1, <4>2
    <3> QED BY <3>1, <3>2
  <2> HIDE DEF h
  <2>7. IsWalk(h, c, base, s)
    BY <2>4, <2>5, <2>6 DEF IsWalk
  <2> QED BY <2>7
<1>3. S \in Good
  <2> HIDE DEF Good
  <2> QED BY <1>1, <1>2 DEF OneMoreSuffices
<1> QED BY <1>3

(***************************************************************************)
(* What holds before the walk and is kept by every round holds after it; T   *)
(* tells what may have come of each set of positions.                      *)
(***************************************************************************)
LEMMA WalkReaches ==
    ASSUME OneMoreSuffices, NEW n \in Nat, NEW S, S \subseteq 0 .. n, NEW c, NEW base,
           NEW g, IsWalk(g, c, base, S), NEW T, base \in T[{}],
           \A s \in SUBSET S : \A x \in s : \A t \in T[s \ {x}] :
              (\A y \in s : x >= y) => Step(c, x, t) \in T[s]
    PROVE  g[S] \in T[S]
<1> DEFINE Good == { s \in SUBSET S : g[s] \in T[s] }
<1>1. {} \in Good
  BY DEF IsWalk
<1>2. ASSUME NEW s \in SUBSET S, NEW x \in s, \A y \in s : x >= y, s \ {x} \in Good
      PROVE  s \in Good
  <2>1. g[s] = Step(c, x, g[s \ {x}]) /\ g[s \ {x}] \in T[s \ {x}]
    BY <1>2 DEF IsWalk
  <2> QED BY <1>2, <2>1
<1>3. S \in Good
  <2> HIDE DEF Good
  <2> QED BY <1>1, <1>2 DEF OneMoreSuffices
<1> QED BY <1>3

\* What is the same for every set of positions.
LEMMA WalkStays ==
    ASSUME OneMoreSuffices, NEW n \in Nat, NEW S, S \subseteq 0 .. n, NEW c, NEW base,
           NEW g, IsWalk(g, c, base, S), NEW T, base \in T,
           \A x \in S : \A t \in T : Step(c, x, t) \in T
    PROVE  g[S] \in T
<1> DEFINE U == [s \in SUBSET S |-> T]
<1>1. /\ {} \in SUBSET S /\ S \in SUBSET S
      /\ \A s \in SUBSET S : U[s] = T /\ \A x \in s : s \ {x} \in SUBSET S
  OBVIOUS
<1>2. /\ base \in U[{}]
      /\ \A s \in SUBSET S : \A x \in s : \A t \in U[s \ {x}] :
            (\A y \in s : x >= y) => Step(c, x, t) \in U[s]
  <2> HIDE DEF U
  <2>1. ASSUME NEW s \in SUBSET S, NEW x \in s, NEW t \in U[s \ {x}]
        PROVE  Step(c, x, t) \in U[s]
    <3> x \in S /\ U[s] = T /\ U[s \ {x}] = T
      BY <1>1
    <3> QED BY <2>1
  <2> QED BY <1>1, <2>1
<1>3. g[S] \in U[S]
  <2> HIDE DEF U
  <2> QED BY <1>2, WalkReaches
<1> QED BY <1>1, <1>3

\* Every recursion that counts up to a number has a function too (a recursive call is
\* a round with one call more).
IsRecursion(h, c, base, n) ==
    /\ h = [k \in 0 .. n |-> h[k]]
    /\ h[0] = Step(c, 0, base)
    /\ \A k \in 1 .. n : h[k] = Step(c, k, h[k - 1])

LEMMA RecursionExists ==
    ASSUME OneMoreSuffices, NEW n \in Nat, NEW c, NEW base
    PROVE  \E h : IsRecursion(h, c, base, n)
<1> DEFINE S == 0 .. n
<1>1. PICK g : IsWalk(g, c, base, S)
  <2> S \subseteq 0 .. n
    OBVIOUS
  <2> HIDE DEF S
  <2> QED BY WalkExists
<1> DEFINE h == [k \in 0 .. n |-> g[0 .. k]]
<1>2. ASSUME NEW k \in 0 .. n
      PROVE  g[0 .. k] = Step(c, k, g[0 .. k - 1])
  <2>1. 0 .. k \in SUBSET S /\ k \in 0 .. k /\ \A y \in 0 .. k : k >= y
    OBVIOUS
  <2>2. (0 .. k) \ {k} = 0 .. k - 1
    OBVIOUS
  <2> HIDE DEF S
  <2>3. g[0 .. k] = Step(c, k, g[(0 .. k) \ {k}])
    BY <1>1, <2>1 DEF IsWalk
  <2> QED BY <2>2, <2>3
<1>3. h[0] = Step(c, 0, base)
  <2>1. 0 .. 0 - 1 = {} /\ 0 \in 0 .. n
    OBVIOUS
  <2>2. g[{}] = base
    BY <1>1 DEF IsWalk
  <2>3. g[0 .. 0] = Step(c, 0, base)
    BY <1>2, <2>1, <2>2
  <2> QED BY <2>1, <2>3
<1>4. ASSUME NEW k \in 1 .. n
      PROVE  h[k] = Step(c, k, h[k - 1])
  <2>1. k \in 0 .. n /\ k - 1 \in 0 .. n
    OBVIOUS
  <2>2. g[0 .. k] = Step(c, k, g[0 .. k - 1])
    BY <1>2, <2>1
  <2> QED BY <2>1, <2>2
<1>5. h = [k \in 0 .. n |-> h[k]]
  OBVIOUS
<1> HIDE DEF h
<1>6. IsRecursion(h, c, base, n)
  BY <1>3, <1>4, <1>5 DEF IsRecursion
<1> QED BY <1>6
=============================================================================
