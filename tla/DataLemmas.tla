----------------------------- MODULE DataLemmas -----------------------------
(***************************************************************************)
(* Facts about sequences and finite sets that the proofs about cards and   *)
(* dice rest on: induction over the natural numbers for a set instead of a *)
(* predicate, recursive functions over an interval, and what the operators *)
(* on sequences keep.                                                      *)
(***************************************************************************)
EXTENDS Filtering, Integers, FiniteSets, SequencesExt,
        WellFoundedInduction, FiniteSetTheorems, FunctionTheorems, SequenceTheorems, TLAPS

-----------------------------------------------------------------------------
(* Induction and recursion. *)

\* Induction: a set of natural numbers that has 0, and with a number the next.
LEMMA SetInduction ==
  ASSUME NEW T \in SUBSET Nat, 0 \in T, \A n \in T : n + 1 \in T
  PROVE  T = Nat
<1>. DEFINE R == OpToRel(<, Nat)
<1>1. SUFFICES ASSUME Nat \ T # {} PROVE FALSE
  BY Zenon
<1>2. IsWellFoundedOn(R, Nat)
  BY NatLessThanWellFounded, Zenon
<1>3. PICK x \in Nat \ T : \A y \in Nat \ T : ~(<<y, x>> \in R)
  <2>1. Nat \ T \subseteq Nat
    OBVIOUS
  <2>. HIDE DEF R
  <2>. QED BY <1>1, <1>2, <2>1, WFMin, Zenon
<1>4. x - 1 \in Nat \ T
  OBVIOUS
<1>5. <<x - 1, x>> \in R
  BY <1>4 DEF OpToRel
<1>. QED BY <1>3, <1>4, <1>5

\* A set of natural numbers that is not empty has a least element.
LEMMA LeastElement ==
  ASSUME NEW T \in SUBSET Nat, T # {}
  PROVE  \E x \in T : \A y \in T : x <= y
<1>. DEFINE R == OpToRel(<, Nat)
<1>1. IsWellFoundedOn(R, Nat)
  BY NatLessThanWellFounded, Zenon
<1>2. PICK x \in T : \A y \in T : ~(<<y, x>> \in R)
  <2>. HIDE DEF R
  <2>. QED BY <1>1, WFMin, Zenon
<1>3. \A y \in T : x <= y
  <2>1. ASSUME NEW y \in T, y < x PROVE FALSE
    <3>1. <<y, x>> \in R
      BY <2>1 DEF OpToRel
    <3>. QED BY <1>2, <3>1
  <2>. QED BY <2>1
<1>. QED BY <1>3

\* And a greatest one if it is bounded.
LEMMA GreatestElement ==
  ASSUME NEW n \in Nat, NEW T \in SUBSET (0..n), T # {}
  PROVE  \E x \in T : \A y \in T : x >= y
<1>. DEFINE U == {n - x : x \in T}
<1>1. U \in SUBSET Nat /\ U # {}
  <2>1. \A x \in T : x \in 0..n
    OBVIOUS
  <2>2. \A x \in T : n - x \in Nat
    BY <2>1
  <2>3. PICK x : x \in T
    OBVIOUS
  <2>4. n - x \in U
    BY <2>3
  <2>. QED BY <2>2, <2>4
<1>2. PICK u \in U : \A v \in U : u <= v
  <2>. HIDE DEF U
  <2>. QED BY <1>1, LeastElement, Zenon
<1>3. PICK x \in T : u = n - x
  OBVIOUS
<1>4. ASSUME NEW y \in T PROVE x >= y
  <2>1. n - x <= n - y
    BY <1>2, <1>3
  <2>2. x \in Nat /\ y \in Nat
    OBVIOUS
  <2>. QED BY <2>1, <2>2
<1>. QED BY <1>4

\* Induction up to a bound.
LEMMA BoundedInduction ==
  ASSUME NEW n \in Nat, NEW T, 0 \in T, \A k \in 0..n - 1 : k \in T => k + 1 \in T
  PROVE  \A k \in 0..n : k \in T
<1>. DEFINE U == {m \in Nat : m <= n => m \in T}
<1>1. U \in SUBSET Nat /\ 0 \in U
  OBVIOUS
<1>2. \A m \in U : m + 1 \in U
  OBVIOUS
<1>3. U = Nat
  <2>. HIDE DEF U
  <2>. QED BY <1>1, <1>2, SetInduction
<1>. QED BY <1>3

\* f starts with a and goes on by step up to n.
GoesOn(f, S, n, a, step) ==
  /\ f \in [0..n -> S] /\ f[0] = a
  /\ \A k \in 1..n : f[k] = step[k][f[k - 1]]

\* A function that is defined by recursion over 0..n exists.
LEMMA Recursion ==
  ASSUME NEW S, NEW n \in Nat, NEW a \in S, NEW step \in [1..n -> [S -> S]]
  PROVE  \E f : GoesOn(f, S, n, a, step)
<1>. DEFINE Defined(f, m) ==
              f[0] = a /\ \A k \in 1..m : f[k] = step[k][f[k - 1]]
            T == {m \in 0..n : \E f \in [0..m -> S] : Defined(f, m)}
<1>1. 0 \in T
  <2>. DEFINE f == [k \in 0..0 |-> a]
  <2>1. f \in [0..0 -> S] /\ f[0] = a /\ 1..0 = {}
    OBVIOUS
  <2>2. Defined(f, 0)
    BY <2>1
  <2>. HIDE DEF f, Defined
  <2>. QED BY <2>1, <2>2
<1>2. ASSUME NEW m \in 0..n - 1, m \in T PROVE m + 1 \in T
  <2>1. PICK f \in [0..m -> S] : Defined(f, m)
    BY <1>2
  <2>. DEFINE g == [k \in 0..m + 1 |-> IF k <= m THEN f[k] ELSE step[m + 1][f[m]]]
  <2>2. step[m + 1][f[m]] \in S
    OBVIOUS
  <2>3. g \in [0..m + 1 -> S] /\ g[0] = a
    BY <2>1, <2>2
  <2>4. ASSUME NEW k \in 1..m + 1 PROVE g[k] = step[k][g[k - 1]]
    <3>1. CASE k \in 1..m
      BY <3>1, <2>1
    <3>2. CASE k = m + 1
      <4>1. g[k] = step[m + 1][f[m]] /\ g[k - 1] = f[m]
        BY <3>2
      <4>. QED BY <4>1, <3>2
    <3>. QED BY <3>1, <3>2
  <2>5. m + 1 \in 0..n
    OBVIOUS
  <2>. QED BY <2>3, <2>4, <2>5
<1>3. n \in T
  <2>. HIDE DEF T
  <2>1. \A k \in 0..n : k \in T
    BY <1>1, <1>2, BoundedInduction, Zenon
  <2>. QED BY <2>1
<1>. QED BY <1>3 DEF GoesOn

\* What that says of its values.
LEMMA RecursionStep ==
  ASSUME NEW S, NEW n \in Nat, NEW a, NEW step, NEW f, GoesOn(f, S, n, a, step),
         NEW k \in 1..n
  PROVE  f[k - 1] \in S /\ f[k] \in S /\ f[k] = step[k][f[k - 1]]
BY DEF GoesOn

\* Whatever function goes on like that has its values in S.
LEMMA RecursionType ==
  ASSUME NEW S, NEW n \in Nat, NEW a \in S, NEW step \in [1..n -> [S -> S]],
         NEW f, f = [k \in 0..n |-> f[k]], f[0] = a,
         \A k \in 1..n : f[k - 1] \in S => f[k] = step[k][f[k - 1]]
  PROVE  GoesOn(f, S, n, a, step)
<1>. DEFINE T == {k \in 0..n : f[k] \in S}
<1>1. 0 \in T
  OBVIOUS
<1>2. ASSUME NEW k \in 0..n - 1, k \in T PROVE k + 1 \in T
  <2>1. k + 1 \in 1..n /\ k + 1 \in 0..n /\ f[(k + 1) - 1] = f[k] /\ f[k] \in S
    BY <1>2
  <2>2. f[k + 1] = step[k + 1][f[k]] /\ step[k + 1][f[k]] \in S
    BY <2>1
  <2>. QED BY <2>1, <2>2
<1>3. \A k \in 0..n : f[k] \in S
  <2>. HIDE DEF T
  <2>1. \A k \in 0..n : k \in T
    BY <1>1, <1>2, BoundedInduction
  <2>. QED BY <2>1 DEF T
<1>4. f \in [0..n -> S]
  BY <1>3
<1>5. \A k \in 1..n : k - 1 \in 0..n
  OBVIOUS
<1>. QED BY <1>3, <1>4, <1>5 DEF GoesOn

\* f starts with a and goes on by next, always within G.
GoesWithin(f, G, n, a, next) ==
  /\ f[0] = a /\ f = [k \in 0..n |-> f[k]]
  /\ \A k \in 0..n : f[k] \in G[k]
  /\ \A k \in 1..n : f[k] = next[k][f[k - 1]]

\* A recursion exists whose steps are defined only within G, if none leaves G.
LEMMA GuardedRecursion ==
  ASSUME NEW S, NEW n \in Nat, NEW G \in [0..n -> SUBSET S], NEW a \in G[0], NEW next,
         \A k \in 1..n : \A r \in G[k - 1] : next[k][r] \in G[k]
  PROVE  \E f : GoesWithin(f, G, n, a, next)
<1>. DEFINE step == [k \in 1..n |-> [r \in S |-> IF next[k][r] \in S THEN next[k][r] ELSE r]]
<1>1. step \in [1..n -> [S -> S]] /\ a \in S
  OBVIOUS
<1>2. \A k \in 1..n, r \in S : next[k][r] \in S => step[k][r] = next[k][r]
  OBVIOUS
<1>. HIDE DEF step
<1>3. PICK f : GoesOn(f, S, n, a, step)
  BY <1>1, Recursion, Zenon
<1>4. f[0] = a /\ f = [k \in 0..n |-> f[k]] /\ \A k \in 1..n : f[k] = step[k][f[k - 1]]
  BY <1>3 DEF GoesOn
<1>. DEFINE T == {k \in 0..n : f[k] \in G[k]}
<1>5. ASSUME NEW m \in 1..n, f[m - 1] \in G[m - 1]
      PROVE  f[m] = next[m][f[m - 1]] /\ f[m] \in G[m]
  <2>1. m - 1 \in 0..n /\ m \in 0..n
    OBVIOUS
  <2>2. next[m][f[m - 1]] \in G[m] /\ G[m] \subseteq S /\ f[m - 1] \in S
    BY <1>5, <2>1
  <2>. QED BY <1>2, <1>4, <2>2
<1>6. 0 \in T
  BY <1>4
<1>7. ASSUME NEW k \in 0..n - 1, k \in T PROVE k + 1 \in T
  <2>1. PICK m : m = k + 1
    OBVIOUS
  <2>2. m \in 1..n /\ m - 1 = k /\ m \in 0..n
    BY <2>1
  <2>3. f[m] \in G[m]
    BY <1>5, <1>7, <2>2
  <2>. QED BY <2>1, <2>2, <2>3
<1>8. \A k \in 0..n : f[k] \in G[k]
  <2>. HIDE DEF T
  <2>1. \A k \in 0..n : k \in T
    BY <1>6, <1>7, BoundedInduction, Zenon
  <2>. QED BY <2>1 DEF T
<1>9. \A k \in 1..n : f[k] = next[k][f[k - 1]]
  <2>1. \A k \in 1..n : k - 1 \in 0..n
    OBVIOUS
  <2>. QED BY <1>5, <1>8, <2>1
<1>. QED BY <1>4, <1>8, <1>9 DEF GoesWithin

-----------------------------------------------------------------------------
(* Elements kept of a sequence. *)

\* What Kept does at the element k.
KeptStep(S, s, T) ==
  [k \in 1..Len(s) |-> [r \in Seq(S) |-> IF s[k] \in T THEN Append(r, s[k]) ELSE r]]

\* The steps are functions on sequences.
LEMMA KeptStepType ==
  ASSUME NEW S, NEW s \in Seq(S), NEW T
  PROVE  KeptStep(S, s, T) \in [1..Len(s) -> [Seq(S) -> Seq(S)]]
BY DEF KeptStep

\* What a step does with the next element.
LEMMA KeptStepValue ==
  ASSUME NEW S, NEW s \in Seq(S), NEW T, NEW k \in 1..Len(s), NEW r \in Seq(S)
  PROVE  KeptStep(S, s, T)[k][r] = IF s[k] \in T THEN Append(r, s[k]) ELSE r
BY DEF KeptStep

\* The function by which Kept is defined.
LEMMA KeptRecursion ==
  ASSUME NEW S, NEW s \in Seq(S), NEW T
  PROVE  \E f : /\ GoesOn(f, Seq(S), Len(s), <<>>, KeptStep(S, s, T))
                /\ Kept(s, T) = f[Len(s)]
<1>. DEFINE Is(f) == f = [k \in 0..Len(s) |->
                            IF k = 0 THEN <<>>
                            ELSE IF s[k] \in T THEN Append(f[k - 1], s[k])
                                               ELSE f[k - 1]]
<1>1. Len(s) \in Nat /\ <<>> \in Seq(S)
  OBVIOUS
<1>2. KeptStep(S, s, T) \in [1..Len(s) -> [Seq(S) -> Seq(S)]]
  BY KeptStepType
<1>3. PICK g : GoesOn(g, Seq(S), Len(s), <<>>, KeptStep(S, s, T))
  BY <1>1, <1>2, Recursion, Zenon
<1>4. Is(g)
  <2>1. ASSUME NEW k \in 1..Len(s)
        PROVE  g[k] = IF s[k] \in T THEN Append(g[k - 1], s[k]) ELSE g[k - 1]
    <3>1. g[k - 1] \in Seq(S) /\ g[k] = KeptStep(S, s, T)[k][g[k - 1]]
      BY <1>1, <1>3, RecursionStep
    <3>2. KeptStep(S, s, T)[k][g[k - 1]] = IF s[k] \in T THEN Append(g[k - 1], s[k]) ELSE g[k - 1]
      BY <3>1, KeptStepValue, SMT
    <3>. QED BY <3>1, <3>2, Zenon
  <2>2. g[0] = <<>> /\ g = [k \in 0..Len(s) |-> g[k]]
    BY <1>3 DEF GoesOn
  <2>3. \A k \in 0..Len(s) : k = 0 \/ k \in 1..Len(s)
    BY <1>1
  <2>. QED BY <2>1, <2>2, <2>3, Zenon
<1>5. PICK kept : Is(kept) /\ Kept(s, T) = kept[Len(s)]
  <2>. DEFINE h == CHOOSE f : Is(f)
  <2>1. Is(h)
    BY <1>4, Zenon
  <2>2. Kept(s, T) = h[Len(s)]
    BY Zenon DEF Kept
  <2>. QED BY <2>1, <2>2, Zenon
<1>6. /\ kept[0] = <<>> /\ kept = [k \in 0..Len(s) |-> kept[k]]
      /\ \A k \in 1..Len(s) :
           kept[k] = IF s[k] \in T THEN Append(kept[k - 1], s[k]) ELSE kept[k - 1]
  <2>. DEFINE new == [k \in 0..Len(s) |->
                        IF k = 0 THEN <<>>
                        ELSE IF s[k] \in T THEN Append(kept[k - 1], s[k]) ELSE kept[k - 1]]
  <2>1. kept = new
    BY <1>5, Zenon
  <2>2. /\ new[0] = <<>> /\ new = [k \in 0..Len(s) |-> new[k]]
        /\ \A k \in 1..Len(s) :
             new[k] = IF s[k] \in T THEN Append(kept[k - 1], s[k]) ELSE kept[k - 1]
    BY <1>1
  <2>. HIDE DEF new
  <2>. QED BY <2>1, <2>2
<1>7. ASSUME NEW k \in 1..Len(s), kept[k - 1] \in Seq(S)
      PROVE  kept[k] = KeptStep(S, s, T)[k][kept[k - 1]]
  <2>1. KeptStep(S, s, T)[k][kept[k - 1]] = IF s[k] \in T THEN Append(kept[k - 1], s[k]) ELSE kept[k - 1]
    BY <1>7, KeptStepValue, SMT
  <2>. QED BY <2>1, <1>6, Zenon
<1>8. GoesOn(kept, Seq(S), Len(s), <<>>, KeptStep(S, s, T))
  <2>. QED BY <1>1, <1>2, <1>6, <1>7, RecursionType, Zenon
<1>. QED BY <1>5, <1>8, Zenon

\* r are the elements of s that are in T, all of them, in their order: g says
\* where they are.
IsKept(r, g, S, s, T) ==
  /\ r \in Seq(S) /\ g \in [1..Len(r) -> 1..Len(s)]
  /\ \A i, j \in 1..Len(r) : i < j => g[i] < g[j]
  /\ \A i \in 1..Len(r) : r[i] = s[g[i]] /\ s[g[i]] \in T
  /\ \A j \in 1..Len(s) : s[j] \in T => \E i \in 1..Len(r) : g[i] = j

\* What is kept are the elements of T, in their order.
LEMMA KeptPositions ==
  ASSUME NEW S, NEW s \in Seq(S), NEW T
  PROVE  \E g : IsKept(Kept(s, T), g, S, s, T)
<1>1. PICK f : /\ f \in [0..Len(s) -> Seq(S)] /\ f[0] = <<>> /\ Kept(s, T) = f[Len(s)]
               /\ \A k \in 1..Len(s) :
                    f[k] = IF s[k] \in T THEN Append(f[k - 1], s[k]) ELSE f[k - 1]
  <2>1. PICK f : /\ GoesOn(f, Seq(S), Len(s), <<>>, KeptStep(S, s, T))
                 /\ Kept(s, T) = f[Len(s)]
    BY KeptRecursion, Zenon
  <2>2. f \in [0..Len(s) -> Seq(S)] /\ f[0] = <<>>
    BY <2>1 DEF GoesOn
  <2>3. Len(s) \in Nat
    OBVIOUS
  <2>4. ASSUME NEW k \in 1..Len(s)
        PROVE  f[k] = IF s[k] \in T THEN Append(f[k - 1], s[k]) ELSE f[k - 1]
    <3>1. f[k - 1] \in Seq(S) /\ f[k] = KeptStep(S, s, T)[k][f[k - 1]]
      BY <2>1, <2>3, RecursionStep
    <3>2. KeptStep(S, s, T)[k][f[k - 1]] =
            IF s[k] \in T THEN Append(f[k - 1], s[k]) ELSE f[k - 1]
      BY <3>1, KeptStepValue, SMT
    <3>. QED BY <3>1, <3>2, Zenon
  <2>. QED BY <2>1, <2>2, <2>4, Zenon
<1>. DEFINE Places(k, g) ==
              /\ \A i, j \in 1..Len(f[k]) : i < j => g[i] < g[j]
              /\ \A i \in 1..Len(f[k]) : f[k][i] = s[g[i]] /\ s[g[i]] \in T
              /\ \A j \in 1..k : s[j] \in T => \E i \in 1..Len(f[k]) : g[i] = j
            U == {k \in 0..Len(s) : \E g \in [1..Len(f[k]) -> 1..k] : Places(k, g)}
<1>2. Len(s) \in Nat /\ \A k \in 0..Len(s) : f[k] \in Seq(S) /\ Len(f[k]) \in Nat
  BY <1>1
<1>3. 0 \in U
  <2>1. Len(f[0]) = 0 /\ 1..0 = {}
    BY <1>1
  <2>2. <<>> \in [1..Len(f[0]) -> 1..0] /\ Places(0, <<>>)
    BY <2>1
  <2>3. 0 \in 0..Len(s)
    BY <1>2
  <2>. HIDE DEF Places
  <2>. QED BY <2>2, <2>3, Zenon
<1>4. ASSUME NEW k \in 0..Len(s) - 1, k \in U PROVE k + 1 \in U
  <2>1. PICK g \in [1..Len(f[k]) -> 1..k] : Places(k, g)
    BY <1>4
  <2>2. /\ k + 1 \in 1..Len(s) /\ k + 1 \in 0..Len(s) /\ k \in 0..Len(s) /\ s[k + 1] \in S
        /\ f[k + 1] = IF s[k + 1] \in T THEN Append(f[k], s[k + 1]) ELSE f[k]
    BY <1>1, <1>2
  <2>3. \E h \in [1..Len(f[k + 1]) -> 1..k + 1] : Places(k + 1, h)
    <3>1. CASE s[k + 1] \notin T
      <4>1. f[k + 1] = f[k]
        BY <2>2, <3>1
      <4>2. g \in [1..Len(f[k + 1]) -> 1..k + 1]
        BY <4>1, <1>2
      <4>3. Places(k + 1, g)
        <5>1. ASSUME NEW j \in 1..k + 1, s[j] \in T PROVE j \in 1..k
          BY <5>1, <3>1
        <5>. QED BY <4>1, <2>1, <5>1, Zenon
      <4>. QED BY <4>2, <4>3
    <3>2. CASE s[k + 1] \in T
      <4>. DEFINE m == Len(f[k])
                  h == [i \in 1..m + 1 |-> IF i <= m THEN g[i] ELSE k + 1]
      <4>1. /\ m \in Nat /\ Len(f[k + 1]) = m + 1 /\ f[k + 1][m + 1] = s[k + 1]
            /\ \A i \in 1..m : f[k + 1][i] = f[k][i]
        BY <2>2, <3>2, <1>2, AppendProperties
      <4>2. /\ h \in [1..m + 1 -> 1..k + 1] /\ h[m + 1] = k + 1
            /\ \A i \in 1..m : h[i] = g[i] /\ h[i] \in 1..k
        <5>1. \A i \in 1..m : g[i] \in 1..k
          BY <2>1
        <5>2. ASSUME NEW i \in 1..m + 1 PROVE h[i] = (IF i <= m THEN g[i] ELSE k + 1)
          OBVIOUS
        <5>3. k \in Nat
          BY <1>2
        <5>4. \A i \in 1..m + 1 : h[i] \in 1..k + 1
          <6>. HIDE DEF m, h
          <6>. QED BY <5>1, <5>2, <5>3, <4>1
        <5>5. h = [i \in 1..m + 1 |-> h[i]]
          OBVIOUS
        <5>. HIDE DEF m, h
        <5>. QED BY <5>1, <5>2, <5>3, <5>4, <5>5, <4>1
      <4>3. Places(k + 1, h)
        <5>. HIDE DEF m, h
        <5>1. ASSUME NEW i \in 1..m + 1, NEW j \in 1..m + 1, i < j PROVE h[i] < h[j]
          <6>1. CASE j = m + 1
            <7>1. i \in 1..m
              BY <5>1, <6>1, <4>1
            <7>. QED BY <7>1, <6>1, <4>2
          <6>2. CASE j \in 1..m
            <7>1. i \in 1..m
              BY <5>1, <6>2, <4>1
            <7>2. g[i] < g[j]
              BY <7>1, <6>2, <5>1, <2>1 DEF m
            <7>. QED BY <7>1, <7>2, <6>2, <4>2
          <6>. QED BY <6>1, <6>2, <4>1
        <5>2. ASSUME NEW i \in 1..m + 1 PROVE f[k + 1][i] = s[h[i]] /\ s[h[i]] \in T
          <6>1. CASE i = m + 1
            BY <6>1, <4>1, <4>2, <3>2
          <6>2. CASE i \in 1..m
            <7>1. f[k][i] = s[g[i]] /\ s[g[i]] \in T
              BY <6>2, <2>1 DEF m
            <7>. QED BY <6>2, <7>1, <4>1, <4>2
          <6>. QED BY <6>1, <6>2, <4>1
        <5>3. ASSUME NEW j \in 1..k + 1, s[j] \in T PROVE \E i \in 1..m + 1 : h[i] = j
          <6>1. CASE j \in 1..k
            BY <6>1, <5>3, <4>1, <4>2, <2>1 DEF m
          <6>2. CASE j = k + 1
            BY <6>2, <4>1, <4>2
          <6>. QED BY <6>1, <6>2
        <5>. QED BY <5>1, <5>2, <5>3, <4>1
      <4>. HIDE DEF Places, h
      <4>. QED BY <4>1, <4>2, <4>3
    <3>. QED BY <3>1, <3>2
  <2>. HIDE DEF Places
  <2>. QED BY <2>2, <2>3
<1>5. Len(s) \in U
  <2>. HIDE DEF U
  <2>1. \A k \in 0..Len(s) : k \in U
    BY <1>2, <1>3, <1>4, BoundedInduction, Zenon
  <2>. QED BY <2>1, <1>2
<1>6. PICK g \in [1..Len(f[Len(s)]) -> 1..Len(s)] : Places(Len(s), g)
  BY <1>5
<1>7. f[Len(s)] \in Seq(S)
  BY <1>1, <1>2
<1>8. IsKept(f[Len(s)], g, S, s, T)
  BY <1>6, <1>7, Zenon DEF IsKept
<1>. QED BY <1>1, <1>8, Zenon

-----------------------------------------------------------------------------
(* One element more, one element less. *)

\* t is a followed by b.
IsJoin(t, S, a, b) ==
  /\ t \in Seq(S) /\ Len(t) = Len(a) + Len(b) /\ Len(a) \in Nat /\ Len(b) \in Nat
  /\ \A j \in 1..Len(a) : t[j] = a[j]
  /\ \A j \in 1..Len(b) : t[Len(a) + j] = b[j]

\* Of \o.
LEMMA Joined ==
  ASSUME NEW S, NEW a \in Seq(S), NEW b \in Seq(S), NEW t, t = a \o b
  PROVE  IsJoin(t, S, a, b)
<1>1. t \in Seq(S) /\ Len(t) = Len(a) + Len(b) /\ Len(a) \in Nat /\ Len(b) \in Nat
  BY ConcatProperties
<1>2. ASSUME NEW j \in 1..Len(a) PROVE t[j] = a[j]
  <2>1. j \in 1..Len(a) + Len(b) /\ j <= Len(a)
    BY <1>1
  <2>. QED BY <2>1, ConcatProperties
<1>3. ASSUME NEW j \in 1..Len(b) PROVE t[Len(a) + j] = b[j]
  <2>1. Len(a) + j \in 1..Len(a) + Len(b) /\ ~(Len(a) + j <= Len(a)) /\ Len(a) + j - Len(a) = j
    BY <1>1
  <2>. QED BY <2>1, ConcatProperties
<1>. QED BY <1>1, <1>2, <1>3 DEF IsJoin

\* t is the part of s from m to n.
IsPart(t, S, s, m, n) ==
  /\ t \in Seq(S) /\ Len(t) = n - m + 1
  /\ \A j \in 1..n - m + 1 : t[j] = s[m + j - 1]

\* Of SubSeq.
LEMMA Part ==
  ASSUME NEW S, NEW s \in Seq(S), NEW m \in 1..Len(s) + 1, NEW n \in m - 1..Len(s),
         NEW t, t = SubSeq(s, m, n)
  PROVE  IsPart(t, S, s, m, n)
<1>1. Len(s) \in Nat /\ m \in Int /\ n \in Int
  OBVIOUS
<1>2. \A j \in m..n : s[j] \in S
  BY <1>1
<1>. QED BY <1>1, <1>2, SubSeqProperties DEF IsPart

\* t is s with c at the position i.
IsInsertion(t, S, s, i, c) ==
  /\ t \in Seq(S) /\ Len(t) = Len(s) + 1 /\ Len(s) \in Nat
  /\ \A j \in 1..i - 1 : t[j] = s[j]
  /\ t[i] = c
  /\ \A j \in i + 1..Len(s) + 1 : t[j] = s[j - 1]

\* Of InsertAt.
LEMMA InsertAtElements ==
  ASSUME NEW S, NEW s \in Seq(S), NEW i \in 1..Len(s) + 1, NEW c \in S,
         NEW t, t = InsertAt(s, i, c)
  PROVE  IsInsertion(t, S, s, i, c)
<1>1. Len(s) \in Nat /\ i \in 1..Len(s) + 1 /\ 1 \in 1..Len(s) + 1
      /\ i - 1 \in 1 - 1..Len(s) /\ Len(s) \in i - 1..Len(s)
  OBVIOUS
<1>2. PICK a : a = SubSeq(s, 1, i - 1)
  OBVIOUS
<1>3. PICK d : d = SubSeq(s, i, Len(s))
  OBVIOUS
<1>4. PICK b : b = a \o <<c>>
  OBVIOUS
<1>5. t = b \o d
  BY <1>2, <1>3, <1>4 DEF InsertAt
<1>6. a \in Seq(S) /\ Len(a) = i - 1 /\ \A j \in 1..i - 1 : a[j] = s[j]
  <2>1. IsPart(a, S, s, 1, i - 1)
    BY <1>1, <1>2, Part, Zenon
  <2>. QED BY <2>1 DEF IsPart
<1>7. d \in Seq(S) /\ Len(d) = Len(s) - i + 1 /\ \A j \in 1..Len(s) - i + 1 : d[j] = s[i + j - 1]
  <2>1. IsPart(d, S, s, i, Len(s))
    BY <1>1, <1>3, Part, Zenon
  <2>. QED BY <2>1 DEF IsPart
<1>8. <<c>> \in Seq(S) /\ Len(<<c>>) = 1 /\ <<c>>[1] = c
  OBVIOUS
<1>9. b \in Seq(S) /\ Len(b) = i /\ b[i] = c /\ \A j \in 1..i - 1 : b[j] = s[j]
  <2>0. IsJoin(b, S, a, <<c>>)
    BY <1>4, <1>6, <1>8, Joined, Zenon
  <2>1. /\ b \in Seq(S) /\ Len(b) = Len(a) + Len(<<c>>)
        /\ \A j \in 1..Len(a) : b[j] = a[j]
        /\ \A j \in 1..Len(<<c>>) : b[Len(a) + j] = <<c>>[j]
    BY <2>0, Zenon DEF IsJoin
  <2>2. Len(b) = i
    BY <2>1, <1>6, <1>8
  <2>3. b[i] = c
    <3>1. 1 \in 1..Len(<<c>>) /\ Len(a) + 1 = i
      BY <1>6, <1>8
    <3>. QED BY <2>1, <3>1, <1>8, Zenon
  <2>. QED BY <2>1, <2>2, <2>3, <1>6
<1>10. /\ t \in Seq(S) /\ Len(t) = i + Len(d)
       /\ \A j \in 1..i : t[j] = b[j]
       /\ \A j \in 1..Len(d) : t[i + j] = d[j]
  <2>1. IsJoin(t, S, b, d)
    BY <1>5, <1>7, <1>9, Joined, Zenon
  <2>. QED BY <2>1, <1>9 DEF IsJoin
<1>11. Len(t) = Len(s) + 1
  BY <1>10, <1>7, <1>1
<1>12. ASSUME NEW j \in i + 1..Len(s) + 1 PROVE t[j] = s[j - 1]
  <2>1. j - i \in 1..Len(d) /\ j - i \in 1..Len(s) - i + 1 /\ i + (j - i) = j /\ i + (j - i) - 1 = j - 1
    BY <1>7, <1>1
  <2>. QED BY <2>1, <1>10, <1>7, Zenon
<1>13. t[i] = c /\ \A j \in 1..i - 1 : t[j] = s[j]
  <2>1. i \in 1..i /\ \A j \in 1..i - 1 : j \in 1..i
    BY <1>1
  <2>. QED BY <2>1, <1>10, <1>9, Zenon
<1>. QED BY <1>1, <1>10, <1>11, <1>12, <1>13 DEF IsInsertion

\* t is s without what is at the position i.
IsRemoval(t, S, s, i) ==
  /\ t \in Seq(S) /\ Len(t) = Len(s) - 1 /\ Len(s) \in Nat
  /\ \A j \in 1..i - 1 : t[j] = s[j]
  /\ \A j \in i..Len(s) - 1 : t[j] = s[j + 1]

\* Of RemoveAt.
LEMMA RemoveAtElements ==
  ASSUME NEW S, NEW s \in Seq(S), NEW i \in 1..Len(s), NEW t, t = RemoveAt(s, i)
  PROVE  IsRemoval(t, S, s, i)
<1>1. Len(s) \in Nat /\ i + 1 \in 1..Len(s) + 1 /\ 1 \in 1..Len(s) + 1
      /\ i - 1 \in 1 - 1..Len(s) /\ Len(s) \in i + 1 - 1..Len(s)
  OBVIOUS
<1>2. PICK a : a = SubSeq(s, 1, i - 1)
  OBVIOUS
<1>3. PICK d : d = SubSeq(s, i + 1, Len(s))
  OBVIOUS
<1>4. t = a \o d
  BY <1>2, <1>3 DEF RemoveAt
<1>5. a \in Seq(S) /\ Len(a) = i - 1 /\ \A j \in 1..i - 1 : a[j] = s[j]
  <2>1. IsPart(a, S, s, 1, i - 1)
    BY <1>1, <1>2, Part, Zenon
  <2>. QED BY <2>1 DEF IsPart
<1>6. d \in Seq(S) /\ Len(d) = Len(s) - i /\ \A j \in 1..Len(s) - i : d[j] = s[i + j]
  <2>1. PICK m \in 1..Len(s) + 1 : m = i + 1
    BY <1>1
  <2>2. Len(s) \in m - 1..Len(s) /\ d = SubSeq(s, m, Len(s))
    BY <2>1, <1>1, <1>3
  <2>3. IsPart(d, S, s, m, Len(s))
    BY <2>2, Part, Zenon
  <2>. QED BY <2>1, <2>3, <1>1 DEF IsPart
<1>7. /\ t \in Seq(S) /\ Len(t) = Len(a) + Len(d)
      /\ \A j \in 1..Len(a) : t[j] = a[j]
      /\ \A j \in 1..Len(d) : t[Len(a) + j] = d[j]
  <2>1. IsJoin(t, S, a, d)
    BY <1>4, <1>5, <1>6, Joined, Zenon
  <2>. QED BY <2>1, Zenon DEF IsJoin
<1>8. Len(t) = Len(s) - 1
  BY <1>5, <1>6, <1>7, <1>1
<1>9. ASSUME NEW j \in i..Len(s) - 1 PROVE t[j] = s[j + 1]
  <2>1. /\ j - (i - 1) \in 1..Len(d) /\ j - (i - 1) \in 1..Len(s) - i
        /\ Len(a) + (j - (i - 1)) = j /\ i + (j - (i - 1)) = j + 1
    BY <1>5, <1>6, <1>1
  <2>2. t[j] = d[j - (i - 1)] /\ d[j - (i - 1)] = s[i + (j - (i - 1))]
    BY <2>1, <1>7, <1>6
  <2>. QED BY <2>1, <2>2
<1>. QED BY <1>1, <1>5, <1>7, <1>8, <1>9 DEF IsRemoval

-----------------------------------------------------------------------------
(* Sequences that list a set. *)

\* t has the elements of X, each of them once.
Lists(t, X) ==
  /\ t \in Seq(X)
  /\ \A i, j \in 1..Len(t) : t[i] = t[j] => i = j
  /\ \A x \in X : \E i \in 1..Len(t) : t[i] = x

\* The elements, the length and the positions of a list.
LEMMA ListsBasics ==
  ASSUME NEW X, NEW t, Lists(t, X)
  PROVE  /\ Len(t) \in Nat /\ DOMAIN t = 1..Len(t) /\ ToSet(t) = X
         /\ IsInjective(t) /\ IsFiniteSet(X) /\ Cardinality(X) = Len(t)
<1>1. Len(t) \in Nat /\ DOMAIN t = 1..Len(t) /\ t \in [1..Len(t) -> X]
  BY LenProperties DEF Lists
<1>2. ToSet(t) = X
  BY <1>1 DEF Lists, ToSet
<1>3. IsInjective(t)
  BY <1>1 DEF Lists, IsInjective
<1>4. t \in Bijection(1..Len(t), X)
  <2>1. t \in Injection(1..Len(t), X)
    BY <1>1, <1>3, Zenon DEF Injection
  <2>2. t \in Surjection(1..Len(t), X)
    BY <1>1 DEF Lists, Surjection
  <2>. QED BY <2>1, <2>2, Zenon DEF Bijection
<1>5. ExistsBijection(1..Len(t), X)
  BY <1>4, Zenon DEF ExistsBijection
<1>. QED BY <1>1, <1>2, <1>3, <1>5, FS_NatBijection, FS_CountingElements, Zenon

\* A new element inserted.
LEMMA ListsInsert ==
  ASSUME NEW X, NEW s, Lists(s, X), NEW c, c \notin X, NEW i \in 1..Len(s) + 1
  PROVE  Lists(InsertAt(s, i, c), X \union {c})
<1>. DEFINE Y == X \union {c}
<1>1. Len(s) \in Nat /\ s \in Seq(Y) /\ c \in Y /\ s \in Seq(X)
  BY DEF Lists
<1>2. PICK t : t = InsertAt(s, i, c)
  OBVIOUS
<1>3. /\ t \in Seq(Y) /\ Len(t) = Len(s) + 1
      /\ \A j \in 1..i - 1 : t[j] = s[j]
      /\ t[i] = c
      /\ \A j \in i + 1..Len(s) + 1 : t[j] = s[j - 1]
  <2>. HIDE DEF Y
  <2>1. IsInsertion(t, Y, s, i, c)
    BY <1>1, <1>2, InsertAtElements, Zenon
  <2>. QED BY <2>1, Zenon DEF IsInsertion
<1>4. \A j \in 1..Len(s) : s[j] \in X
  BY <1>1
<1>5. ASSUME NEW j \in 1..Len(t), NEW k \in 1..Len(t), t[j] = t[k], j < k PROVE FALSE
  <2>1. CASE k < i
    BY <2>1, <1>1, <1>3, <1>5 DEF Lists
  <2>2. CASE k = i
    <3>1. t[j] = s[j] /\ t[k] = c /\ j \in 1..Len(s)
      BY <2>2, <1>1, <1>3, <1>5
    <3>. QED BY <3>1, <1>4, <1>5
  <2>3. CASE j = i
    <3>1. t[k] = s[k - 1] /\ t[j] = c /\ k - 1 \in 1..Len(s)
      BY <2>3, <1>1, <1>3, <1>5
    <3>. QED BY <3>1, <1>4, <1>5
  <2>4. CASE j < i /\ i < k
    <3>1. t[k] = s[k - 1] /\ t[j] = s[j] /\ k - 1 \in 1..Len(s) /\ j \in 1..Len(s) /\ k - 1 # j
      BY <2>4, <1>1, <1>3, <1>5
    <3>. QED BY <3>1, <1>5 DEF Lists
  <2>5. CASE i < j
    <3>1. /\ t[k] = s[k - 1] /\ t[j] = s[j - 1] /\ k - 1 \in 1..Len(s) /\ j - 1 \in 1..Len(s)
          /\ k - 1 # j - 1
      BY <2>5, <1>1, <1>3, <1>5
    <3>. QED BY <3>1, <1>5 DEF Lists
  <2>. QED BY <2>1, <2>2, <2>3, <2>4, <2>5, <1>1, <1>3
<1>6. ASSUME NEW x \in Y PROVE \E j \in 1..Len(t) : t[j] = x
  <2>1. CASE x = c
    BY <2>1, <1>1, <1>3
  <2>2. CASE x \in X
    <3>1. PICK j \in 1..Len(s) : s[j] = x
      BY <2>2 DEF Lists
    <3>2. CASE j < i
      <4>1. t[j] = x /\ j \in 1..Len(t)
        BY <3>1, <3>2, <1>1, <1>3
      <4>. QED BY <4>1
    <3>3. CASE j >= i
      <4>1. t[j + 1] = x /\ j + 1 \in 1..Len(t)
        BY <3>1, <3>3, <1>1, <1>3
      <4>. QED BY <4>1
    <3>. QED BY <3>2, <3>3, <1>1
  <2>. QED BY <2>1, <2>2
<1>7. \A j, k \in 1..Len(t) : t[j] = t[k] => j = k
  BY <1>1, <1>3, <1>5
<1>. QED BY <1>2, <1>3, <1>6, <1>7 DEF Lists

\* A list of other elements at the end.
LEMMA ListsAppend ==
  ASSUME NEW X, NEW s, Lists(s, X), NEW c, c \notin X
  PROVE  Lists(Append(s, c), X \union {c})
<1>. DEFINE Y == X \union {c}
<1>1. Len(s) \in Nat /\ s \in Seq(Y) /\ c \in Y /\ s \in Seq(X)
  BY DEF Lists
<1>2. PICK t : t = Append(s, c)
  OBVIOUS
<1>3. /\ t \in Seq(Y) /\ Len(t) = Len(s) + 1
      /\ \A j \in 1..Len(s) : t[j] = s[j]
      /\ t[Len(s) + 1] = c
  <2>. HIDE DEF Y
  <2>. QED BY <1>1, <1>2, AppendProperties
<1>4. \A j \in 1..Len(s) : s[j] \in X
  BY <1>1
<1>5. ASSUME NEW j \in 1..Len(t), NEW k \in 1..Len(t), t[j] = t[k] PROVE j = k
  <2>1. \A m \in 1..Len(t) : m = Len(s) + 1 \/ m \in 1..Len(s)
    BY <1>1, <1>3
  <2>2. CASE j \in 1..Len(s) /\ k \in 1..Len(s)
    BY <2>2, <1>3, <1>5 DEF Lists
  <2>3. CASE j \notin 1..Len(s) \/ k \notin 1..Len(s)
    BY <2>1, <2>3, <1>3, <1>4, <1>5, Zenon
  <2>. QED BY <2>2, <2>3
<1>6. ASSUME NEW x \in Y PROVE \E j \in 1..Len(t) : t[j] = x
  <2>1. CASE x = c
    <3>1. Len(s) + 1 \in 1..Len(t)
      BY <1>1, <1>3
    <3>. QED BY <3>1, <2>1, <1>3
  <2>2. CASE x \in X
    <3>1. PICK j \in 1..Len(s) : s[j] = x
      BY <2>2 DEF Lists
    <3>2. j \in 1..Len(t) /\ t[j] = x
      BY <3>1, <1>1, <1>3
    <3>. QED BY <3>2
  <2>. QED BY <2>1, <2>2
<1>. QED BY <1>2, <1>3, <1>5, <1>6 DEF Lists

\* An element removed.
LEMMA ListsRemove ==
  ASSUME NEW X, NEW s, Lists(s, X), NEW i \in 1..Len(s)
  PROVE  Lists(RemoveAt(s, i), X \ {s[i]})
<1>. DEFINE Y == X \ {s[i]}
<1>1. Len(s) \in Nat /\ s \in Seq(X) /\ \A j \in 1..Len(s) : s[j] \in X
  BY DEF Lists
<1>2. PICK t : t = RemoveAt(s, i)
  OBVIOUS
<1>3. /\ t \in Seq(X) /\ Len(t) = Len(s) - 1
      /\ \A j \in 1..i - 1 : t[j] = s[j]
      /\ \A j \in i..Len(s) - 1 : t[j] = s[j + 1]
  <2>1. IsRemoval(t, X, s, i)
    BY <1>1, <1>2, RemoveAtElements, Zenon
  <2>. QED BY <2>1, Zenon DEF IsRemoval
<1>. DEFINE at(j) == IF j < i THEN j ELSE j + 1
<1>4. ASSUME NEW j \in 1..Len(t)
      PROVE  t[j] = s[at(j)] /\ at(j) \in 1..Len(s) /\ at(j) # i
  BY <1>1, <1>3
<1>5. ASSUME NEW j \in 1..Len(t) PROVE t[j] \in Y
  <2>. HIDE DEF at
  <2>1. s[at(j)] # s[i]
    BY <1>4 DEF Lists
  <2>. QED BY <2>1, <1>1, <1>4
<1>6. t \in Seq(Y)
  BY <1>3, <1>5, LenProperties
<1>7. ASSUME NEW j \in 1..Len(t), NEW k \in 1..Len(t), t[j] = t[k] PROVE j = k
  <2>1. at(j) = at(k)
    <3>. HIDE DEF at
    <3>1. at(j) \in 1..Len(s) /\ at(k) \in 1..Len(s) /\ s[at(j)] = s[at(k)]
      BY <1>4, <1>7
    <3>. QED BY <3>1 DEF Lists
  <2>. QED BY <2>1, <1>1, <1>3
<1>8. ASSUME NEW x \in Y PROVE \E j \in 1..Len(t) : t[j] = x
  <2>1. PICK j \in 1..Len(s) : s[j] = x
    BY DEF Lists
  <2>2. CASE j < i
    <3>1. t[j] = x /\ j \in 1..Len(t)
      BY <2>1, <2>2, <1>1, <1>3
    <3>. QED BY <3>1
  <2>3. CASE j > i
    <3>1. t[j - 1] = x /\ j - 1 \in 1..Len(t)
      BY <2>1, <2>3, <1>1, <1>3
    <3>. QED BY <3>1
  <2>. QED BY <2>1, <2>2, <2>3, <1>1
<1>. QED BY <1>2, <1>6, <1>7, <1>8 DEF Lists

\* What is kept of a list is a list.
LEMMA ListsKept ==
  ASSUME NEW X, NEW s, Lists(s, X), NEW T
  PROVE  Lists(Kept(s, T), X \cap T)
<1>1. s \in Seq(X) /\ Len(s) \in Nat /\ \A j \in 1..Len(s) : s[j] \in X
  BY DEF Lists
<1>2. PICK r : r = Kept(s, T)
  OBVIOUS
<1>3. PICK g : IsKept(r, g, X, s, T)
  BY <1>1, <1>2, KeptPositions, Zenon
<1>4. Len(r) \in Nat /\ r \in Seq(X)
  BY <1>3 DEF IsKept
<1>5. \A j \in 1..Len(r) : g[j] \in 1..Len(s) /\ r[j] = s[g[j]] /\ r[j] \in X \cap T
  BY <1>1, <1>3 DEF IsKept
<1>6. r \in Seq(X \cap T)
  BY <1>4, <1>5, LenProperties
<1>7. ASSUME NEW j \in 1..Len(r), NEW k \in 1..Len(r), r[j] = r[k] PROVE j = k
  <2>1. g[j] = g[k]
    BY <1>5, <1>7 DEF Lists
  <2>2. g[j] \in Int /\ g[k] \in Int
    BY <1>5
  <2>. QED BY <2>1, <2>2, <1>3, <1>4 DEF IsKept
<1>8. ASSUME NEW x \in X \cap T PROVE \E j \in 1..Len(r) : r[j] = x
  <2>1. PICK k \in 1..Len(s) : s[k] = x
    BY DEF Lists
  <2>2. PICK j \in 1..Len(r) : g[j] = k
    BY <2>1, <1>3, Zenon DEF IsKept
  <2>. QED BY <2>1, <2>2, <1>5
<1>. QED BY <1>2, <1>6, <1>7, <1>8 DEF Lists

\* The first n elements of a list.
LEMMA ListsPart ==
  ASSUME NEW X, NEW s, Lists(s, X), NEW n \in 0..Len(s)
  PROVE  /\ Lists(SubSeq(s, 1, n), {s[i] : i \in 1..n}) /\ Len(SubSeq(s, 1, n)) = n
         /\ \A i \in 1..n : SubSeq(s, 1, n)[i] = s[i]
<1>1. s \in Seq(X) /\ Len(s) \in Nat /\ 1 \in 1..Len(s) + 1 /\ n \in 1 - 1..Len(s)
  BY DEF Lists
<1>2. PICK t : t = SubSeq(s, 1, n)
  OBVIOUS
<1>3. IsPart(t, X, s, 1, n)
  BY <1>1, <1>2, Part, Zenon
<1>4. t \in Seq(X) /\ Len(t) = n /\ \A i \in 1..n : t[i] = s[i]
  BY <1>1, <1>3 DEF IsPart
<1>5. t \in Seq({s[i] : i \in 1..n})
  BY <1>4, LenProperties
<1>6. ASSUME NEW i \in 1..Len(t), NEW j \in 1..Len(t), t[i] = t[j] PROVE i = j
  <2>1. i \in 1..Len(s) /\ j \in 1..Len(s) /\ s[i] = s[j]
    BY <1>1, <1>4, <1>6
  <2>. QED BY <2>1 DEF Lists
<1>7. \A x \in {s[i] : i \in 1..n} : \E i \in 1..Len(t) : t[i] = x
  BY <1>4
<1>. QED BY <1>2, <1>4, <1>5, <1>6, <1>7 DEF Lists

\* A finite set is listed by SetToSeq.
LEMMA ListsSetToSeq ==
  ASSUME NEW X, IsFiniteSet(X)
  PROVE  Lists(SetToSeq(X), X)
<1>. DEFINE n == Cardinality(X)
            t == CHOOSE f \in [1..n -> X] : IsInjective(f)
<1>1. n \in Nat /\ ExistsBijection(1..n, X)
  BY FS_CardinalityType
<1>2. \E f \in [1..n -> X] : IsInjective(f)
  BY <1>1 DEF ExistsBijection, Bijection, Injection
<1>3. t \in [1..n -> X] /\ IsInjective(t)
  BY <1>2, Zenon
<1>4. SetToSeq(X) = t
  BY Zenon DEF SetToSeq
<1>. HIDE DEF t
<1>5. t \in Seq(X) /\ Len(t) = n
  BY <1>1, <1>3
<1>6. \A i, j \in 1..Len(t) : t[i] = t[j] => i = j
  BY <1>3, <1>5 DEF IsInjective
<1>7. t \in Surjection(1..n, X)
  <2>1. t \in Injection(1..n, X)
    BY <1>3, Zenon DEF Injection
  <2>2. Cardinality(1..n) = n
    BY <1>1, FS_Interval
  <2>. HIDE DEF n
  <2>. QED BY <2>1, <2>2, FS_Injection DEF n
<1>8. \A x \in X : \E i \in 1..Len(t) : t[i] = x
  BY <1>5, <1>7 DEF Surjection
<1>. QED BY <1>4, <1>5, <1>6, <1>8 DEF Lists

-----------------------------------------------------------------------------
(* Finite sets that are matched with one another. *)

\* A set goes into another that has as many elements.
LEMMA NoMore ==
  ASSUME NEW A, NEW B, IsFiniteSet(A), IsFiniteSet(B), Cardinality(A) <= Cardinality(B)
  PROVE  \E k \in [A -> B] : \A x, y \in A : k[x] = k[y] => x = y
<1>1. PICK m, n : m = Cardinality(A) /\ n = Cardinality(B)
  OBVIOUS
<1>2. m \in Nat /\ n \in Nat /\ m <= n
  BY <1>1, FS_CardinalityType
<1>3. ExistsBijection(A, 1..m) /\ ExistsBijection(1..n, B)
  BY <1>1, FS_CardinalityType, Fun_ExistsBijSymmetric
<1>4. PICK p \in Bijection(A, 1..m) : TRUE
  BY <1>3, Zenon DEF ExistsBijection
<1>5. PICK q \in Bijection(1..n, B) : TRUE
  BY <1>3, Zenon DEF ExistsBijection
<1>6. p \in [A -> 1..m] /\ \A x, y \in A : p[x] = p[y] => x = y
  BY <1>4, Fun_BijectionProperties
<1>7. q \in [1..n -> B] /\ \A x, y \in 1..n : q[x] = q[y] => x = y
  BY <1>5, Fun_BijectionProperties
<1>8. \A x \in A : p[x] \in 1..n
  BY <1>2, <1>6
<1>. DEFINE k == [x \in A |-> q[p[x]]]
<1>9. k \in [A -> B]
  BY <1>7, <1>8
<1>10. \A x, y \in A : k[x] = k[y] => x = y
  BY <1>6, <1>7, <1>8, Zenon
<1>. QED BY <1>9, <1>10

\* g maps no two elements of C to the same.
OneToOne(g, C) == \A x, y \in C : g[x] = g[y] => x = y

\* There are as many images as there are elements.
LEMMA Images ==
  ASSUME NEW g, NEW C, IsFiniteSet(C), OneToOne(g, C)
  PROVE  /\ IsFiniteSet({g[x] : x \in C})
         /\ Cardinality({g[x] : x \in C}) = Cardinality(C)
<1>. DEFINE D == {g[x] : x \in C}
            h == [x \in C |-> g[x]]
<1>1. h \in [C -> D] /\ (\A t \in D : \E x \in C : h[x] = t) /\ \A x \in C : h[x] = g[x]
  OBVIOUS
<1>2. \A x, y \in C : h[x] = h[y] => x = y
  BY <1>1, Zenon DEF OneToOne
<1>3. ExistsBijection(C, D)
  <2>. HIDE DEF D, h
  <2>1. h \in Bijection(C, D)
    BY <1>1, <1>2, Fun_IsBij
  <2>. QED BY <2>1, Zenon DEF ExistsBijection
<1>. HIDE DEF D
<1>4. IsFiniteSet(D) /\ Cardinality(D) = Cardinality(C)
  BY <1>3, FS_Bijection
<1>. QED BY <1>4 DEF D

\* h matches A with B, and C as g does.
Extends(h, A, B, C, g) == h \in Bijection(A, B) /\ \A x \in C : h[x] = g[x]

\* What is matched already stays so when all of A is matched with all of B.
LEMMA Extended ==
  ASSUME NEW A, NEW B, IsFiniteSet(A), IsFiniteSet(B), Cardinality(A) = Cardinality(B),
         NEW C \in SUBSET A, NEW g \in [C -> B], OneToOne(g, C)
  PROVE  \E h : Extends(h, A, B, C, g)
<1>0. \A x, y \in C : g[x] = g[y] => x = y
  BY DEF OneToOne
<1>. DEFINE D == {g[x] : x \in C}
<1>1. D \in SUBSET B /\ IsFiniteSet(C)
  BY FS_Subset
<1>2. g \in Bijection(C, D)
  <2>1. g \in [C -> D] /\ \A t \in D : \E x \in C : g[x] = t
    OBVIOUS
  <2>. HIDE DEF D
  <2>. QED BY <1>0, <2>1, Fun_IsBij
<1>. HIDE DEF D
<1>3. IsFiniteSet(D) /\ Cardinality(D) = Cardinality(C)
  <2>1. ExistsBijection(C, D)
    BY <1>2, Zenon DEF ExistsBijection
  <2>. QED BY <1>1, <2>1, FS_Bijection
<1>4. IsFiniteSet(A \ C) /\ IsFiniteSet(B \ D) /\ Cardinality(A \ C) = Cardinality(B \ D)
  <2>1. A \cap C = C /\ B \cap D = D
    BY <1>1
  <2>2. Cardinality(A \ C) = Cardinality(A) - Cardinality(A \cap C)
        /\ Cardinality(B \ D) = Cardinality(B) - Cardinality(B \cap D)
        /\ IsFiniteSet(A \ C) /\ IsFiniteSet(B \ D)
    BY FS_Difference
  <2>. QED BY <1>3, <2>1, <2>2
<1>5. PICK k \in Bijection(A \ C, B \ D) : TRUE
  <2>1. ExistsBijection(A \ C, B \ D)
    BY <1>4, FS_SameCardinalityBij
  <2>. QED BY <2>1, Zenon DEF ExistsBijection
<1>6. /\ k \in [A \ C -> B \ D] /\ (\A x, y \in A \ C : k[x] = k[y] => x = y)
      /\ \A t \in B \ D : \E x \in A \ C : k[x] = t
  BY <1>5, Fun_BijectionProperties
<1>7. g \in [C -> D] /\ \A t \in D : \E x \in C : g[x] = t
  BY <1>2, Fun_BijectionProperties
<1>. DEFINE h == [x \in A |-> IF x \in C THEN g[x] ELSE k[x]]
<1>8. h \in [A -> B]
  BY <1>1, <1>6
<1>9. (\A x \in C : h[x] = g[x]) /\ (\A x \in A \ C : h[x] = k[x])
  OBVIOUS
<1>. HIDE DEF h
<1>10. ASSUME NEW x \in A, NEW y \in A, h[x] = h[y] PROVE x = y
  <2>1. CASE x \in C /\ y \in C
    BY <1>0, <1>9, <1>10, <2>1
  <2>2. CASE x \notin C /\ y \notin C
    BY <1>6, <1>9, <1>10, <2>2
  <2>3. CASE x \in C /\ y \notin C
    BY <1>6, <1>7, <1>9, <1>10, <2>3
  <2>4. CASE x \notin C /\ y \in C
    BY <1>6, <1>7, <1>9, <1>10, <2>4
  <2>. QED BY <2>1, <2>2, <2>3, <2>4
<1>11. ASSUME NEW t \in B PROVE \E x \in A : h[x] = t
  <2>1. CASE t \in D
    BY <1>7, <1>9, <2>1
  <2>2. CASE t \notin D
    BY <1>6, <1>9, <2>2
  <2>. QED BY <2>1, <2>2
<1>12. h \in Bijection(A, B)
  BY <1>8, <1>10, <1>11, Fun_IsBij
<1>. QED BY <1>9, <1>12, Zenon DEF Extends

\* The pairs of A with the first component t.
OfType(A, t) == {u \in A : u[1] = t}

\* A set of pairs that has no more than another of any type has no more at all.
LEMMA NoMoreOfAny ==
  ASSUME NEW A, NEW B, IsFiniteSet(A), IsFiniteSet(B), NEW m \in Nat,
         \A u \in A : u[1] \in 0..m, \A u \in B : u[1] \in 0..m,
         \A t \in 0..m : Cardinality(OfType(A, t)) <= Cardinality(OfType(B, t))
  PROVE  Cardinality(A) <= Cardinality(B)
<1>. DEFINE Below(S, k) == {u \in S : u[1] < k}
            F == {k \in 0..m + 1 : Cardinality(Below(A, k)) <= Cardinality(Below(B, k))}
<1>1. m + 1 \in Nat
  OBVIOUS
<1>2. 0 \in F
  <2>1. Below(A, 0) = {} /\ Below(B, 0) = {}
    OBVIOUS
  <2>2. Cardinality(Below(A, 0)) = 0 /\ Cardinality(Below(B, 0)) = 0
    BY <2>1, FS_EmptySet
  <2>. HIDE DEF Below
  <2>. QED BY <2>2
<1>3. ASSUME NEW k \in 0..m, NEW S, IsFiniteSet(S), \A u \in S : u[1] \in 0..m
      PROVE  /\ Cardinality(Below(S, k + 1)) = Cardinality(Below(S, k)) + Cardinality(OfType(S, k))
             /\ Cardinality(Below(S, k)) \in Nat /\ Cardinality(OfType(S, k)) \in Nat
  <2>1. /\ Below(S, k) \in SUBSET S /\ OfType(S, k) \in SUBSET S
        /\ Below(S, k) \cap OfType(S, k) = {}
        /\ Below(S, k + 1) = Below(S, k) \union OfType(S, k)
    BY <1>3 DEF OfType
  <2>2. /\ IsFiniteSet(Below(S, k)) /\ IsFiniteSet(OfType(S, k))
        /\ Cardinality(Below(S, k)) \in Nat /\ Cardinality(OfType(S, k)) \in Nat
    <3>. HIDE DEF Below
    <3>. QED BY <1>3, <2>1, FS_Subset, FS_CardinalityType
  <2>3. Cardinality(Below(S, k) \union OfType(S, k))
          = Cardinality(Below(S, k)) + Cardinality(OfType(S, k)) - 0
    <3>. HIDE DEF Below
    <3>. QED BY <2>1, <2>2, FS_Union, FS_EmptySet
  <2>. HIDE DEF Below
  <2>4. Cardinality(Below(S, k + 1)) = Cardinality(Below(S, k)) + Cardinality(OfType(S, k)) - 0
    BY <2>1, <2>3, Zenon
  <2>. QED BY <2>2, <2>4
<1>4. ASSUME NEW k \in 0..(m + 1) - 1, k \in F PROVE k + 1 \in F
  <2>1. k \in 0..m /\ k + 1 \in 0..m + 1
    OBVIOUS
  <2>2. Cardinality(Below(A, k)) <= Cardinality(Below(B, k))
    BY <1>4
  <2>3. Cardinality(OfType(A, k)) <= Cardinality(OfType(B, k))
    BY <2>1
  <2>. HIDE DEF Below
  <2>4. Cardinality(Below(A, k + 1)) <= Cardinality(Below(B, k + 1))
    BY <1>3, <2>1, <2>2, <2>3
  <2>. QED BY <2>1, <2>4
<1>5. \A k \in 0..m + 1 : k \in F
  <2>. HIDE DEF F
  <2>. QED BY <1>1, <1>2, <1>4, BoundedInduction
<1>6. Below(A, m + 1) = A /\ Below(B, m + 1) = B
  OBVIOUS
<1>7. m + 1 \in 0..m + 1
  OBVIOUS
<1>. HIDE DEF Below
<1>. QED BY <1>5, <1>6, <1>7
=============================================================================
