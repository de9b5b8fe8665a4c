-------------------------- MODULE ActionCostProofs --------------------------
(***************************************************************************)
(* Theorems of ActionCost, for every set of printed costs that the         *)
(* builders can make and every bound: costs stay well formed, modifiers    *)
(* do what they say, the check of dice is a matching of dice and units,    *)
(* and the greedy choice finds one whenever there is one.                  *)
(***************************************************************************)
EXTENDS ActionCost, DataLemmas

-----------------------------------------------------------------------------
(* Elements at positions. *)

\* g numbers the elements of S upwards.
Numbers(g, S) ==
  /\ g \in [1..Cardinality(S) -> S]
  /\ \A k, l \in 1..Cardinality(S) : k < l => g[k] < g[l]
  /\ \A i \in S : \E k \in 1..Cardinality(S) : g[k] = i

\* r are the elements of s at the positions g[1], g[2] and so on.
IsPicked(r, g, s, S) ==
  /\ Numbers(g, S) /\ Cardinality(S) \in Nat
  /\ r = [k \in 1..Cardinality(S) |-> s[g[k]]]

\* The positions are picked in their order, each of them once.
LEMMA PickedPositions ==
  ASSUME NEW S \in SUBSET Nat, IsFiniteSet(S), NEW s
  PROVE  \E g : IsPicked(Picked(s, S), g, s, S)
<1>. DEFINE below(i) == {j \in S : j < i}
            rank == [i \in S |-> Cardinality(below(i)) + 1]
            n == Cardinality(S)
            at(k) == CHOOSE i \in S : Cardinality({j \in S : j < i}) = k - 1
            g == [k \in 1..n |-> at(k)]
<1>1. n \in Nat
  BY FS_CardinalityType
<1>2. \A i \in S : IsFiniteSet(below(i)) /\ Cardinality(below(i)) \in Nat
                   /\ Cardinality(below(i)) < n
  <2>1. SUFFICES ASSUME NEW i \in S
                 PROVE  IsFiniteSet(below(i)) /\ Cardinality(below(i)) \in Nat
                        /\ Cardinality(below(i)) < n
    OBVIOUS
  <2>2. below(i) \in SUBSET S /\ i \notin below(i)
    OBVIOUS
  <2>3. IsFiniteSet(below(i)) /\ Cardinality(below(i)) <= n /\ (n = Cardinality(below(i)) => S = below(i))
    <3>. HIDE DEF below
    <3>. QED BY <2>2, FS_Subset
  <2>4. Cardinality(below(i)) \in Nat
    <3>. HIDE DEF below
    <3>. QED BY <2>3, FS_CardinalityType
  <2>. HIDE DEF below
  <2>. QED BY <1>1, <2>2, <2>3, <2>4
<1>3. \A i, j \in S : i < j => Cardinality(below(i)) < Cardinality(below(j))
  <2>1. SUFFICES ASSUME NEW i \in S, NEW j \in S, i < j
                 PROVE  Cardinality(below(i)) < Cardinality(below(j))
    BY Zenon
  <2>2. below(i) \in SUBSET below(j) /\ i \in below(j) /\ i \notin below(i)
    <3>1. i \in Nat /\ j \in Nat /\ \A k \in S : k \in Nat
      OBVIOUS
    <3>2. \A k \in S : k < i => k < j
      BY <2>1, <3>1
    <3>3. ~(i < i)
      BY <3>1
    <3>. HIDE DEF rank, n, g
    <3>. QED BY <2>1, <3>2, <3>3, Zenon
  <2>3. /\ Cardinality(below(i)) <= Cardinality(below(j))
        /\ Cardinality(below(j)) = Cardinality(below(i)) => below(j) = below(i)
    <3>. HIDE DEF below
    <3>. QED BY <1>2, <2>2, FS_Subset
  <2>4. Cardinality(below(i)) \in Nat /\ Cardinality(below(j)) \in Nat
    <3>. HIDE DEF below
    <3>. QED BY <1>2
  <2>. HIDE DEF below
  <2>. QED BY <2>2, <2>3, <2>4
<1>4. rank \in [S -> 1..n]
  <2>. HIDE DEF below
  <2>. QED BY <1>1, <1>2
<1>5. \A i \in S : rank[i] = Cardinality(below(i)) + 1
  OBVIOUS
<1>6. \A i, j \in S : i < j <=> rank[i] < rank[j]
  <2>. HIDE DEF below, rank
  <2>1. \A i, j \in S : i < j \/ i = j \/ j < i
    OBVIOUS
  <2>2. \A i, j \in S : i < j => rank[i] < rank[j]
    BY <1>2, <1>3, <1>5
  <2>. QED BY <1>4, <2>1, <2>2
<1>7. \A k \in 1..n : \E i \in S : rank[i] = k
  <2>1. \A i, j \in S : rank[i] = rank[j] => i = j
    <3>. HIDE DEF rank, n
    <3>. QED BY <1>1, <1>4, <1>6
  <2>2. rank \in Injection(S, 1..n)
    <3>. HIDE DEF rank, n
    <3>. QED BY <1>4, <2>1 DEF Injection, IsInjective
  <2>3. IsFiniteSet(1..n) /\ Cardinality(1..n) = n
    <3>. HIDE DEF n
    <3>1. n \in Int /\ 1 \in Int /\ (IF 1 > n THEN 0 ELSE n - 1 + 1) = n
      BY <1>1
    <3>. QED BY <3>1, FS_Interval
  <2>4. rank \in Surjection(S, 1..n)
    <3>. HIDE DEF rank
    <3>. QED BY <2>2, <2>3, FS_Injection
  <2>. QED BY <2>4, Zenon DEF Surjection
<1>8. \A k \in 1..n : g[k] \in S /\ rank[g[k]] = k
  <2>1. SUFFICES ASSUME NEW k \in 1..n PROVE g[k] \in S /\ rank[g[k]] = k
    BY Zenon
  <2>2. g[k] = CHOOSE i \in S : Cardinality({j \in S : j < i}) = k - 1
    OBVIOUS
  <2>3. PICK i \in S : rank[i] = k
    BY <1>7, Zenon
  <2>4. Cardinality(below(i)) = k - 1
    <3>. HIDE DEF below, rank
    <3>. QED BY <1>1, <1>2, <1>5, <2>3
  <2>5. g[k] \in S /\ Cardinality(below(g[k])) = k - 1
    <3>. HIDE DEF g
    <3>. QED BY <2>2, <2>4, Zenon
  <2>6. rank[g[k]] = Cardinality(below(g[k])) + 1
    <3>. HIDE DEF below, rank, g
    <3>. QED BY <1>5, <2>5
  <2>. HIDE DEF below, rank, g, n
  <2>. QED BY <1>1, <2>5, <2>6
<1>9. Numbers(g, S)
  <2>1. g \in [1..n -> S]
    <3>1. g = [k \in 1..n |-> g[k]]
      <4>. HIDE DEF at
      <4>. QED OBVIOUS
    <3>. HIDE DEF g, n, rank
    <3>. QED BY <1>8, <3>1
  <2>. HIDE DEF g, rank, below
  <2>2. \A k, l \in 1..n : k < l => g[k] < g[l]
    BY <1>6, <1>8
  <2>3. \A i \in S : \E k \in 1..n : g[k] = i
    <3>1. SUFFICES ASSUME NEW i \in S PROVE \E k \in 1..n : g[k] = i
      OBVIOUS
    <3>2. PICK k : k = rank[i]
      OBVIOUS
    <3>3. k \in 1..n /\ g[k] \in S /\ rank[g[k]] = k
      BY <1>4, <1>8, <3>2
    <3>4. ~(k < k)
      BY <1>1, <3>3
    <3>5. ~(g[k] < i) /\ ~(i < g[k])
      BY <1>6, <3>2, <3>3, <3>4
    <3>6. g[k] \in Nat /\ i \in Nat
      BY <3>3
    <3>7. g[k] = i
      BY <3>5, <3>6
    <3>. QED BY <3>3, <3>7
  <2>. QED BY <2>1, <2>2, <2>3 DEF Numbers
<1>10. Picked(s, S) = [k \in 1..n |-> s[g[k]]]
  BY DEF Picked
<1>. HIDE DEF g
<1>. QED BY <1>1, <1>9, <1>10 DEF IsPicked

-----------------------------------------------------------------------------
(***************************************************************************)
(* Requirements: their entries and their units.                            *)
(***************************************************************************)

\* A map has a key once.
Once(req) == \A i, j \in DOMAIN req : req[i].type = req[j].type => i = j

\* The keys that stand for dice.
DiceTypes == Colors \union {Void, Aligned}

\* The entries of a requirement.
LEMMA Entries ==
  ASSUME NEW req \in Requirements
  PROVE  /\ Len(req) \in Nat /\ DOMAIN req = 1..Len(req)
         /\ \A i \in DOMAIN req :
              /\ req[i].type \in Needs /\ req[i].count \in Nat
              /\ req[i] = [type |-> req[i].type, count |-> req[i].count]
<1>. DEFINE E == [type : Needs, count : Nat]
<1>1. req \in Seq(E)
  BY DEF Requirements
<1>2. Len(req) \in Nat /\ DOMAIN req = 1..Len(req) /\ \A i \in DOMAIN req : req[i] \in E
  <2>. HIDE DEF E
  <2>. QED BY <1>1
<1>. QED BY <1>2

\* What Map.get says is a number, and that of the entry with the key.
LEMMA GetCount ==
  ASSUME NEW req \in Requirements, NEW t
  PROVE  Get(req, t) \in Nat /\ (Get(req, t) > 0 => Has(req, t) /\ t \in Needs)
<1>1. CASE Has(req, t)
  <2>1. \E i \in DOMAIN req : req[i].type = t
    BY <1>1 DEF Has
  <2>2. PICK i : i = CHOOSE j \in DOMAIN req : req[j].type = t
    OBVIOUS
  <2>3. i \in DOMAIN req /\ req[i].type = t
    BY <2>1, <2>2, Zenon
  <2>4. Get(req, t) = req[i].count
    BY <1>1, <2>2, Zenon DEF Get
  <2>. QED BY <1>1, <2>3, <2>4, Entries
<1>2. CASE ~Has(req, t)
  BY <1>2 DEF Get
<1>. QED BY <1>1, <1>2

\* An entry is what Map.get says of its type.
LEMMA GetEntry ==
  ASSUME NEW req \in Requirements, Once(req), NEW i \in DOMAIN req
  PROVE  Has(req, req[i].type) /\ Get(req, req[i].type) = req[i].count
<1>1. Has(req, req[i].type)
  BY Zenon DEF Has
<1>2. PICK j : j = CHOOSE k \in DOMAIN req : req[k].type = req[i].type
  OBVIOUS
<1>3. j \in DOMAIN req /\ req[j].type = req[i].type
  BY <1>2, Zenon
<1>4. j = i
  BY <1>3, Zenon DEF Once
<1>. QED BY <1>1, <1>2, <1>4, Zenon DEF Get

\* The units of the types in T.
UnitsIn(req, T) ==
  {u \in T \X Nat : 1 <= u[2] /\ u[2] <= Get(req, u[1])}

\* A type and a number are a unit of T.
LEMMA UnitIn ==
  ASSUME NEW req, NEW T, NEW u
  PROVE  u \in UnitsIn(req, T)
           <=> \E t \in T, n \in Nat : u = <<t, n>> /\ 1 <= n /\ n <= Get(req, t)
BY DEF UnitsIn

\* All units of a requirement.
LEMMA UnitsOf ==
  ASSUME NEW req \in Requirements, Once(req)
  PROVE  Units(req) = UnitsIn(req, DiceTypes)
<1>1. ASSUME NEW u \in Units(req) PROVE u \in UnitsIn(req, DiceTypes)
  <2>1. PICK i, n : i \in DOMAIN req /\ req[i].type # Energy /\ n \in 1..req[i].count
                    /\ u = <<req[i].type, n>>
    BY DEF Units
  <2>2. req[i].type \in DiceTypes /\ req[i].count \in Nat
    BY <2>1, Entries DEF Needs, DiceTypes
  <2>3. Get(req, req[i].type) = req[i].count
    BY <2>1, GetEntry
  <2>4. n \in Nat /\ 1 <= n /\ n <= Get(req, req[i].type)
    BY <2>1, <2>2, <2>3
  <2>. QED BY <2>1, <2>2, <2>4, UnitIn
<1>2. ASSUME NEW u \in UnitsIn(req, DiceTypes) PROVE u \in Units(req)
  <2>1. PICK t, n : t \in DiceTypes /\ n \in Nat /\ u = <<t, n>> /\ 1 <= n /\ n <= Get(req, t)
    BY UnitIn
  <2>2. Get(req, t) \in Nat /\ Has(req, t)
    BY <2>1, GetCount
  <2>3. PICK i \in DOMAIN req : req[i].type = t
    BY <2>2 DEF Has
  <2>4. Get(req, t) = req[i].count
    BY <2>3, GetEntry
  <2>5. t # Energy
    BY <2>1, ActionCostConstants DEF DiceTypes, Energy, Void, Aligned
  <2>6. n \in 1..req[i].count
    BY <2>1, <2>2, <2>4
  <2>7. u \in {<<req[i].type, j>> : j \in 1..req[i].count}
    BY <2>1, <2>3, <2>6
  <2>. QED BY <2>3, <2>5, <2>7 DEF Units
<1>. QED BY <1>1, <1>2

\* Requirements that agree on T have the same units there.
LEMMA UnitsSame ==
  ASSUME NEW req, NEW r, NEW T, \A t \in T : Get(r, t) = Get(req, t)
  PROVE  UnitsIn(r, T) = UnitsIn(req, T)
BY DEF UnitsIn

\* As many units of a type as the entry says.
LEMMA TypeUnits ==
  ASSUME NEW req \in Requirements, NEW t
  PROVE  IsFiniteSet(UnitsIn(req, {t})) /\ Cardinality(UnitsIn(req, {t})) = Get(req, t)
<1>1. PICK n : n = Get(req, t)
  OBVIOUS
<1>2. n \in Nat
  BY <1>1, GetCount
<1>. DEFINE f == [j \in 1..n |-> <<t, j>>]
<1>3. f \in [1..n -> UnitsIn(req, {t})]
  <2>1. \A j \in 1..n : <<t, j>> \in UnitsIn(req, {t})
    BY <1>1, <1>2, UnitIn
  <2>. QED BY <2>1
<1>4. \A i, j \in 1..n : f[i] = f[j] => i = j
  OBVIOUS
<1>5. \A u \in UnitsIn(req, {t}) : \E j \in 1..n : f[j] = u
  <2>1. SUFFICES ASSUME NEW u \in UnitsIn(req, {t}) PROVE \E j \in 1..n : f[j] = u
    OBVIOUS
  <2>2. PICK j \in Nat : u = <<t, j>> /\ 1 <= j /\ j <= n
    BY <1>1, UnitIn
  <2>3. j \in 1..n
    BY <1>2, <2>2
  <2>. QED BY <2>2, <2>3
<1>6. ExistsBijection(1..n, UnitsIn(req, {t}))
  <2>. HIDE DEF f
  <2>1. f \in Bijection(1..n, UnitsIn(req, {t}))
    BY <1>3, <1>4, <1>5 DEF Bijection, Injection, Surjection, IsInjective
  <2>. QED BY <2>1, Zenon DEF ExistsBijection
<1>7. IsFiniteSet(1..n) /\ Cardinality(1..n) = n
  <2>1. n \in Int /\ 1 \in Int /\ (IF 1 > n THEN 0 ELSE n - 1 + 1) = n
    BY <1>2
  <2>. QED BY <2>1, FS_Interval
<1>. QED BY <1>1, <1>6, <1>7, FS_Bijection

\* The units of types that are different are different.
LEMMA UnitsSplit ==
  ASSUME NEW req, NEW A, NEW B, A \cap B = {},
         IsFiniteSet(UnitsIn(req, A)), IsFiniteSet(UnitsIn(req, B))
  PROVE  /\ IsFiniteSet(UnitsIn(req, A \union B))
         /\ Cardinality(UnitsIn(req, A \union B))
              = Cardinality(UnitsIn(req, A)) + Cardinality(UnitsIn(req, B))
<1>1. UnitsIn(req, A \union B) = UnitsIn(req, A) \union UnitsIn(req, B)
  BY DEF UnitsIn
<1>2. UnitsIn(req, A) \cap UnitsIn(req, B) = {}
  BY DEF UnitsIn
<1>3. Cardinality({}) = 0 /\ Cardinality(UnitsIn(req, A)) \in Nat
      /\ Cardinality(UnitsIn(req, B)) \in Nat
  BY FS_EmptySet, FS_CardinalityType
<1>4. /\ IsFiniteSet(UnitsIn(req, A) \union UnitsIn(req, B))
      /\ Cardinality(UnitsIn(req, A) \union UnitsIn(req, B))
           = Cardinality(UnitsIn(req, A)) + Cardinality(UnitsIn(req, B)) - Cardinality({})
  BY <1>2, FS_Union
<1>5. /\ IsFiniteSet(UnitsIn(req, A \union B))
      /\ Cardinality(UnitsIn(req, A \union B))
           = Cardinality(UnitsIn(req, A)) + Cardinality(UnitsIn(req, B)) - 0
  BY <1>1, <1>3, <1>4, Zenon
<1>6. \A a, b \in Nat : a + b - 0 = a + b
  OBVIOUS
<1>. QED BY <1>3, <1>5, <1>6, Zenon

\* The units are finitely many.
LEMMA UnitsFinite ==
  ASSUME NEW req \in Requirements, NEW T \in SUBSET DiceTypes
  PROVE  IsFiniteSet(UnitsIn(req, T)) /\ Cardinality(UnitsIn(req, T)) \in Nat
<1>. DEFINE F == {k \in Nat : IsFiniteSet(UnitsIn(req, 0..k))}
<1>1. 0 \in F
  <2>1. 0..0 = {0}
    OBVIOUS
  <2>. QED BY <2>1, TypeUnits
<1>2. \A k \in F : k + 1 \in F
  <2>1. SUFFICES ASSUME NEW k \in F PROVE k + 1 \in F
    OBVIOUS
  <2>2. 0..k + 1 = (0..k) \union {k + 1} /\ (0..k) \cap {k + 1} = {}
    OBVIOUS
  <2>3. IsFiniteSet(UnitsIn(req, (0..k) \union {k + 1}))
    BY <2>2, TypeUnits, UnitsSplit
  <2>4. IsFiniteSet(UnitsIn(req, 0..k + 1))
    BY <2>2, <2>3, Zenon
  <2>. QED BY <2>4
<1>3. F = Nat
  <2>1. F \in SUBSET Nat
    OBVIOUS
  <2>. HIDE DEF F
  <2>. QED BY <1>1, <1>2, <2>1, SetInduction
<1>4. IsFiniteSet(UnitsIn(req, 0..8))
  BY <1>3
<1>5. T \subseteq 0..8
  BY ActionCostConstants DEF DiceTypes, Void, Aligned
<1>6. UnitsIn(req, T) \in SUBSET UnitsIn(req, 0..8)
  BY <1>5 DEF UnitsIn
<1>7. IsFiniteSet(UnitsIn(req, T))
  BY <1>4, <1>6, FS_Subset
<1>. QED BY <1>7, FS_CardinalityType

-----------------------------------------------------------------------------
(***************************************************************************)
(* What the operations on a requirement do to its entries and counts.      *)
(***************************************************************************)

\* f[k] is what the first k types ask for.
Sums(f, req, types) ==
  /\ f \in [0..Len(types) -> Nat] /\ f[0] = 0
  /\ \A k \in 1..Len(types) : f[k] = f[k - 1] + Get(req, types[k])

\* What the type at k adds.
SumStep(req, types) == [k \in 1..Len(types) |-> [r \in Nat |-> r + Get(req, types[k])]]

\* The steps are functions on numbers.
LEMMA SumStepType ==
  ASSUME NEW req \in Requirements, NEW types
  PROVE  SumStep(req, types) \in [1..Len(types) -> [Nat -> Nat]]
BY GetCount DEF SumStep

\* What a step adds.
LEMMA SumStepValue ==
  ASSUME NEW req \in Requirements, NEW types, NEW k \in 1..Len(types), NEW r \in Nat
  PROVE  SumStep(req, types)[k][r] = r + Get(req, types[k])
BY DEF SumStep

\* covered() adds the counts up.
LEMMA CoveredSums ==
  ASSUME NEW req \in Requirements, NEW S, NEW types \in Seq(S)
  PROVE  Sums(covered(req, types), req, types)
<1>. DEFINE Is(f) == f = [k \in 0..Len(types) |->
                            IF k = 0 THEN 0 ELSE f[k - 1] + Get(req, types[k])]
<1>1. Len(types) \in Nat /\ 0 \in Nat
  OBVIOUS
<1>2. SumStep(req, types) \in [1..Len(types) -> [Nat -> Nat]]
  BY SumStepType, Zenon
<1>3. PICK g : GoesOn(g, Nat, Len(types), 0, SumStep(req, types))
  BY <1>1, <1>2, Recursion, Zenon
<1>4. Is(g)
  <2>1. ASSUME NEW k \in 1..Len(types) PROVE g[k] = g[k - 1] + Get(req, types[k])
    <3>1. g[k - 1] \in Nat /\ g[k] = SumStep(req, types)[k][g[k - 1]]
      BY <1>1, <1>3 DEF GoesOn
    <3>2. SumStep(req, types)[k][g[k - 1]] = g[k - 1] + Get(req, types[k])
      BY <3>1, SumStepValue, Zenon
    <3>. QED BY <3>1, <3>2, Zenon
  <2>2. g[0] = 0 /\ g = [k \in 0..Len(types) |-> g[k]]
    BY <1>3 DEF GoesOn
  <2>3. \A k \in 0..Len(types) : k = 0 \/ k \in 1..Len(types)
    BY <1>1
  <2>. QED BY <2>1, <2>2, <2>3, Zenon
<1>5. PICK f : Is(f) /\ covered(req, types) = f
  <2>. DEFINE h == CHOOSE f : Is(f)
  <2>1. Is(h)
    BY <1>4, Zenon
  <2>2. covered(req, types) = h
    BY Zenon DEF covered
  <2>. QED BY <2>1, <2>2, Zenon
<1>6. /\ f[0] = 0 /\ f = [k \in 0..Len(types) |-> f[k]]
      /\ \A k \in 1..Len(types) : f[k] = f[k - 1] + Get(req, types[k])
  <2>. DEFINE new == [k \in 0..Len(types) |->
                        IF k = 0 THEN 0 ELSE f[k - 1] + Get(req, types[k])]
  <2>1. f = new
    BY <1>5, Zenon
  <2>2. /\ new[0] = 0 /\ new = [k \in 0..Len(types) |-> new[k]]
        /\ \A k \in 1..Len(types) : new[k] = f[k - 1] + Get(req, types[k])
    BY <1>1
  <2>. HIDE DEF new
  <2>. QED BY <2>1, <2>2
<1>7. ASSUME NEW k \in 1..Len(types), f[k - 1] \in Nat
      PROVE  f[k] = SumStep(req, types)[k][f[k - 1]]
  <2>1. SumStep(req, types)[k][f[k - 1]] = f[k - 1] + Get(req, types[k])
    BY <1>7, SumStepValue, Zenon
  <2>. QED BY <2>1, <1>6, Zenon
<1>8. GoesOn(f, Nat, Len(types), 0, SumStep(req, types))
  BY <1>1, <1>2, <1>6, <1>7, RecursionType, Zenon
<1>9. Sums(f, req, types)
  BY <1>6, <1>8 DEF GoesOn, Sums
<1>. QED BY <1>5, <1>9, Zenon

\* The deduction of n ends with the type at last.
EndsAt(last, f, types, n) ==
  /\ last \in 1..Len(types)
  /\ \/ f[last] >= n /\ f[last - 1] < n
     \/ last = Len(types) /\ f[last] < n

\* What is left of the type t then.
LeftOf(last, f, types, n, t) ==
  IF t = types[last] /\ f[last] > n THEN f[last] - n ELSE 0

\* The types that are passed on the way.
PassedBy(last, types) == {types[k] : k \in 1..last}

\* The entries that the deduction makes of those that are there.
Reduced(req, types, n, f, last) ==
  [i \in DOMAIN req |->
     IF req[i].type \in PassedBy(last, types)
     THEN [req[i] EXCEPT !.count = LeftOf(last, f, types, n, req[i].type)]
     ELSE req[i]]

\* The positions of the types that it enters.
Lacked(req, types, last) == {k \in 1..last : ~Has(req, types[k])}

\* The entries that the types on the way are given when the map lacks them.
Entered(req, types, last) ==
  [i \in 1..Cardinality(Lacked(req, types, last)) |->
     [type |-> Picked(types, Lacked(req, types, last))[i], count |-> 0]]

\* r is what deductCost() makes of req, with last the type that it stops at.
IsDeduction(r, last, req, types, n) ==
  /\ EndsAt(last, covered(req, types), types, n)
  /\ r = Reduced(req, types, n, covered(req, types), last) \o Entered(req, types, last)

\* deductCost() is a deduction that ends somewhere.
LEMMA DeductShape ==
  ASSUME NEW req \in Requirements, NEW S, NEW types \in Seq(S), Len(types) > 0,
         NEW n \in Nat \ {0}
  PROVE  \E last : IsDeduction(deductCost(req, types, n), last, req, types, n)
<1>1. PICK f : f = covered(req, types)
  OBVIOUS
<1>2. Sums(f, req, types)
  BY <1>1, CoveredSums, Zenon
<1>3. Len(types) \in Nat /\ DOMAIN types = 1..Len(types) /\ f[0] = 0
      /\ f \in [0..Len(types) -> Nat]
  BY <1>2 DEF Sums
<1>. DEFINE enough == {k \in DOMAIN types : f[k] >= n}
            end == IF enough = {} THEN Len(types) ELSE Min(enough)
<1>4. PICK last : last = end
  OBVIOUS
<1>5. ASSUME enough = {} PROVE EndsAt(last, f, types, n)
  <2>1. last = Len(types)
    BY <1>4, <1>5, Zenon
  <2>2. last \in 1..Len(types) /\ last \in DOMAIN types /\ f[last] \in Nat
    BY <1>3, <2>1
  <2>3. ~(f[last] >= n)
    BY <1>5, <2>2
  <2>4. EndsAt(last, f, types, n)
    BY <2>1, <2>2, <2>3 DEF EndsAt
  <2>. QED BY <2>4
<1>6. ASSUME enough # {} PROVE EndsAt(last, f, types, n)
  <2>1. last = Min(enough)
    BY <1>4, <1>6, Zenon
  <2>2. enough \in SUBSET Nat
    BY <1>3
  <2>3. \E x \in enough : \A y \in enough : x <= y
    <3>. HIDE DEF enough
    <3>. QED BY <1>6, <2>2, LeastElement, Zenon
  <2>4. last \in enough /\ \A y \in enough : last <= y
    <3>. HIDE DEF enough
    <3>. QED BY <2>1, <2>3, Zenon DEF Min
  <2>5. last \in 1..Len(types) /\ f[last] >= n
    BY <1>3, <2>4
  <2>6. f[last - 1] < n
    <3>1. CASE last = 1
      <4>1. last - 1 = 0
        BY <3>1
      <4>. QED BY <1>3, <4>1
    <3>2. CASE last # 1
      <4>1. last - 1 \in DOMAIN types /\ ~(last <= last - 1) /\ f[last - 1] \in Nat
        BY <1>3, <2>5, <3>2
      <4>2. last - 1 \notin enough
        <5>. HIDE DEF enough
        <5>. QED BY <2>4, <4>1, Zenon
      <4>3. ~(f[last - 1] >= n)
        BY <4>1, <4>2
      <4>. QED BY <4>1, <4>3
    <3>. QED BY <3>1, <3>2
  <2>. QED BY <2>5, <2>6 DEF EndsAt
<1>7. EndsAt(last, f, types, n)
  BY <1>5, <1>6, Zenon
<1>. DEFINE passed == SubSeq(types, 1, last)
            left(t) == IF t = types[last] /\ f[last] > n THEN f[last] - n ELSE 0
            missing == Picked(types, {k \in 1..last : ~Has(req, types[k])})
            first == [i \in DOMAIN req |-> IF Contains(passed, req[i].type)
                                           THEN [req[i] EXCEPT !.count = left(req[i].type)]
                                           ELSE req[i]]
            second == [i \in DOMAIN missing |-> [type |-> missing[i], count |-> 0]]
<1>8. deductCost(req, types, n) = first \o second
  <2>. HIDE DEF enough
  <2>1. last = IF {k \in DOMAIN types : f[k] >= n} = {} THEN Len(types)
               ELSE Min({k \in DOMAIN types : f[k] >= n})
    BY <1>4 DEF enough
  <2>. QED BY <1>1, <2>1, Zenon DEF deductCost
<1>9. \A t : Contains(passed, t) <=> t \in PassedBy(last, types)
  <2>0. last \in 1..Len(types)
    BY <1>7, Zenon DEF EndsAt
  <2>1. last \in 1 - 1..Len(types) /\ 1 \in 1..Len(types) + 1
    <3>. HIDE DEF first, second
    <3>. QED BY <1>3, <2>0
  <2>2. IsPart(passed, S, types, 1, last)
    <3>. HIDE DEF passed
    <3>1. passed = SubSeq(types, 1, last)
      BY DEF passed
    <3>. QED BY <2>1, <3>1, Part, Zenon
  <2>3. Len(passed) = last /\ \A j \in 1..last : passed[j] = types[j]
    <3>. HIDE DEF passed
    <3>. QED BY <2>0, <2>1, <2>2 DEF IsPart
  <2>. HIDE DEF passed
  <2>. QED BY <2>3 DEF Contains, PassedBy
<1>10. first = Reduced(req, types, n, f, last)
  <2>. HIDE DEF passed
  <2>. QED BY <1>9, Zenon DEF Reduced, LeftOf
<1>11. second = Entered(req, types, last)
  <2>1. DOMAIN missing = 1..Cardinality({k \in 1..last : ~Has(req, types[k])})
    BY DEF Picked
  <2>. HIDE DEF missing
  <2>2. missing = Picked(types, Lacked(req, types, last))
    BY Zenon DEF missing, Lacked
  <2>. QED BY <2>1, <2>2, Zenon DEF Entered, Lacked
<1>12. IsDeduction(deductCost(req, types, n), last, req, types, n)
  <2>. HIDE DEF first, second
  <2>. QED BY <1>1, <1>7, <1>8, <1>10, <1>11, Zenon DEF IsDeduction
<1>. QED BY <1>12, Zenon

\* r is a followed by b, which has none of its types.
IsUnion(r, a, b) ==
  /\ r \in Requirements /\ Once(r)
  /\ \A t : Has(r, t) <=> Has(a, t) \/ Has(b, t)
  /\ \A t : Get(r, t) = IF Has(a, t) THEN Get(a, t) ELSE Get(b, t)

\* One list of entries after another, when they have no type in common.
LEMMA UnionOfEntries ==
  ASSUME NEW a \in Requirements, NEW b \in Requirements, Once(a), Once(b),
         \A t : ~(Has(a, t) /\ Has(b, t)), NEW r, r = a \o b
  PROVE  IsUnion(r, a, b)
<1>. DEFINE E == [type : Needs, count : Nat]
<1>1. IsJoin(r, E, a, b)
  <2>1. a \in Seq(E) /\ b \in Seq(E)
    BY DEF Requirements
  <2>. HIDE DEF E
  <2>. QED BY <2>1, Joined, Zenon
<1>2. /\ r \in Requirements /\ Len(r) = Len(a) + Len(b) /\ Len(a) \in Nat /\ Len(b) \in Nat
      /\ \A j \in 1..Len(a) : r[j] = a[j]
      /\ \A j \in 1..Len(b) : r[Len(a) + j] = b[j]
  BY <1>1, Zenon DEF IsJoin, Requirements
<1>3. DOMAIN r = 1..Len(r) /\ DOMAIN a = 1..Len(a) /\ DOMAIN b = 1..Len(b)
  BY <1>2, Entries
<1>4. \A i \in DOMAIN r : \/ i \in DOMAIN a /\ r[i] = a[i]
                          \/ \E j \in DOMAIN b : i = Len(a) + j /\ r[i] = b[j]
  <2>1. SUFFICES ASSUME NEW i \in DOMAIN r
                 PROVE  \/ i \in DOMAIN a /\ r[i] = a[i]
                        \/ \E j \in DOMAIN b : i = Len(a) + j /\ r[i] = b[j]
    OBVIOUS
  <2>2. CASE i <= Len(a)
    <3>1. i \in 1..Len(a)
      BY <1>2, <1>3, <2>2
    <3>. QED BY <1>2, <1>3, <3>1
  <2>3. CASE ~(i <= Len(a))
    <3>1. PICK j : j = i - Len(a)
      OBVIOUS
    <3>2. j \in 1..Len(b) /\ i = Len(a) + j
      BY <1>2, <1>3, <2>3, <3>1
    <3>. QED BY <1>2, <1>3, <3>2
  <2>. QED BY <2>2, <2>3
<1>5. /\ \A j \in DOMAIN a : j \in DOMAIN r /\ r[j] = a[j]
      /\ \A j \in DOMAIN b : Len(a) + j \in DOMAIN r /\ r[Len(a) + j] = b[j]
  BY <1>2, <1>3
<1>. HIDE DEF E
<1>6. \A t : Has(r, t) <=> Has(a, t) \/ Has(b, t)
  <2>1. ASSUME NEW t, Has(r, t) PROVE Has(a, t) \/ Has(b, t)
    <3>1. PICK i \in DOMAIN r : r[i].type = t
      BY <2>1, Zenon DEF Has
    <3>2. CASE i \in DOMAIN a /\ r[i] = a[i]
      BY <3>1, <3>2, Zenon DEF Has
    <3>3. CASE \E j \in DOMAIN b : i = Len(a) + j /\ r[i] = b[j]
      BY <3>1, <3>3, Zenon DEF Has
    <3>. QED BY <1>4, <3>2, <3>3, Zenon
  <2>2. ASSUME NEW t, Has(a, t) PROVE Has(r, t)
    <3>1. PICK i \in DOMAIN a : a[i].type = t
      BY <2>2, Zenon DEF Has
    <3>. QED BY <1>5, <3>1, Zenon DEF Has
  <2>3. ASSUME NEW t, Has(b, t) PROVE Has(r, t)
    <3>1. PICK i \in DOMAIN b : b[i].type = t
      BY <2>3, Zenon DEF Has
    <3>. QED BY <1>5, <3>1, Zenon DEF Has
  <2>. QED BY <2>1, <2>2, <2>3, Zenon
<1>7. Once(r)
  <2>1. SUFFICES ASSUME NEW i \in DOMAIN r, NEW j \in DOMAIN r, r[i].type = r[j].type
                 PROVE  i = j
    BY Zenon DEF Once
  <2>2. \A k \in DOMAIN a : Has(a, a[k].type)
    BY Zenon DEF Has
  <2>3. \A k \in DOMAIN b : Has(b, b[k].type)
    BY Zenon DEF Has
  <2>4. CASE i \in DOMAIN a /\ r[i] = a[i]
    <3>1. CASE j \in DOMAIN a /\ r[j] = a[j]
      BY <2>1, <2>4, <3>1, Zenon DEF Once
    <3>2. CASE \E k \in DOMAIN b : j = Len(a) + k /\ r[j] = b[k]
      <4>1. Has(a, r[i].type) /\ Has(b, r[i].type)
        BY <2>1, <2>2, <2>3, <2>4, <3>2, Zenon
      <4>. QED BY <4>1, Zenon
    <3>. QED BY <1>4, <3>1, <3>2, Zenon
  <2>5. CASE \E k \in DOMAIN b : i = Len(a) + k /\ r[i] = b[k]
    <3>1. CASE j \in DOMAIN a /\ r[j] = a[j]
      <4>1. Has(a, r[i].type) /\ Has(b, r[i].type)
        BY <2>1, <2>2, <2>3, <2>5, <3>1, Zenon
      <4>. QED BY <4>1, Zenon
    <3>2. CASE \E k \in DOMAIN b : j = Len(a) + k /\ r[j] = b[k]
      <4>1. PICK k \in DOMAIN b : i = Len(a) + k /\ r[i] = b[k]
        BY <2>5, Zenon
      <4>2. PICK l \in DOMAIN b : j = Len(a) + l /\ r[j] = b[l]
        BY <3>2, Zenon
      <4>3. k = l
        BY <2>1, <4>1, <4>2, Zenon DEF Once
      <4>. QED BY <4>1, <4>2, <4>3, Zenon
    <3>. QED BY <1>4, <3>1, <3>2, Zenon
  <2>. QED BY <1>4, <2>4, <2>5, Zenon
<1>8. ASSUME NEW t PROVE Get(r, t) = IF Has(a, t) THEN Get(a, t) ELSE Get(b, t)
  <2>1. CASE Has(a, t)
    <3>1. PICK j \in DOMAIN a : a[j].type = t
      BY <2>1, Zenon DEF Has
    <3>2. j \in DOMAIN r /\ r[j] = a[j]
      BY <1>5
    <3>3. Get(a, t) = a[j].count
      BY <3>1, GetEntry
    <3>4. Get(r, t) = r[j].count
      BY <1>2, <1>7, <3>1, <3>2, GetEntry
    <3>. QED BY <2>1, <3>2, <3>3, <3>4, Zenon
  <2>2. CASE ~Has(a, t) /\ Has(b, t)
    <3>1. PICK j \in DOMAIN b : b[j].type = t
      BY <2>2, Zenon DEF Has
    <3>2. PICK i \in DOMAIN r : r[i] = b[j]
      BY <1>5
    <3>3. Get(b, t) = b[j].count
      BY <3>1, GetEntry
    <3>4. Get(r, t) = r[i].count
      BY <1>2, <1>7, <3>1, <3>2, GetEntry
    <3>. QED BY <2>2, <3>2, <3>3, <3>4, Zenon
  <2>3. CASE ~Has(a, t) /\ ~Has(b, t)
    BY <1>6, <2>3, Zenon DEF Get
  <2>. QED BY <2>1, <2>2, <2>3, Zenon
<1>. QED BY <1>2, <1>6, <1>7, <1>8, Zenon DEF IsUnion

\* r has the types of req with the counts c.
HasCounts(r, req, c) ==
  /\ r \in Requirements /\ Once(r) /\ DOMAIN r = DOMAIN req
  /\ \A i \in DOMAIN req : r[i].type = req[i].type
  /\ \A t : Has(r, t) <=> Has(req, t)
  /\ \A i \in DOMAIN req : Get(r, req[i].type) = c[i]
  /\ \A t : ~Has(req, t) => Get(r, t) = 0

\* Other counts at the same types.
LEMMA NewCounts ==
  ASSUME NEW req \in Requirements, Once(req), NEW c \in [DOMAIN req -> Nat],
         NEW r, r = [i \in DOMAIN req |-> [type |-> req[i].type, count |-> c[i]]]
  PROVE  HasCounts(r, req, c)
<1>. DEFINE E == [type : Needs, count : Nat]
<1>1. Len(req) \in Nat /\ DOMAIN req = 1..Len(req) /\ \A i \in DOMAIN req : req[i].type \in Needs
  BY Entries
<1>2. DOMAIN r = DOMAIN req
  OBVIOUS
<1>3. \A i \in DOMAIN req : r[i].type = req[i].type /\ r[i].count = c[i] /\ r[i] \in E
  BY <1>1
<1>4. r \in Seq(E)
  <2>1. r = [i \in 1..Len(req) |-> r[i]]
    BY <1>1
  <2>. HIDE DEF E
  <2>2. r \in [1..Len(req) -> E]
    BY <1>1, <1>3, <2>1
  <2>. QED BY <1>1, <2>2
<1>5. r \in Requirements
  BY <1>4 DEF Requirements
<1>6. Once(r)
  BY <1>2, <1>3, Zenon DEF Once
<1>7. \A t : Has(r, t) <=> Has(req, t)
  BY <1>2, <1>3, Zenon DEF Has
<1>8. \A i \in DOMAIN req : Get(r, req[i].type) = c[i]
  <2>1. SUFFICES ASSUME NEW i \in DOMAIN req PROVE Get(r, req[i].type) = c[i]
    BY Zenon
  <2>2. Get(r, r[i].type) = r[i].count
    BY <1>2, <1>5, <1>6, GetEntry
  <2>. QED BY <1>3, <2>2, Zenon
<1>9. \A t : ~Has(req, t) => Get(r, t) = 0
  BY <1>7, Zenon DEF Get
<1>. QED BY <1>2, <1>3, <1>5, <1>6, <1>7, <1>8, <1>9, Zenon DEF HasCounts

\* The types that the map lacks are entered with 0, each of them once.
IsEntered(b, req, types, last) ==
  /\ b \in Requirements
  /\ (\A i, j \in 1..Len(types) : types[i] = types[j] => i = j) => Once(b)
  /\ \A t : Has(b, t) <=> t \in PassedBy(last, types) /\ ~Has(req, t)
  /\ \A t : Get(b, t) = 0

\* The new entries are those of the types that were lacking, with 0.
LEMMA EnteredEntries ==
  ASSUME NEW req, NEW types \in Seq(DiceTypes), NEW last \in 1..Len(types)
  PROVE  IsEntered(Entered(req, types, last), req, types, last)
<1>1. PICK b : b = Entered(req, types, last)
  OBVIOUS
<1>2. PICK L : L = Lacked(req, types, last)
  OBVIOUS
<1>3. Len(types) \in Nat /\ DOMAIN types = 1..Len(types)
      /\ \A k \in 1..Len(types) : types[k] \in DiceTypes
  <2>1. PICK D : D = DiceTypes
    OBVIOUS
  <2>. QED BY <2>1
<1>4. last \in Nat /\ \A k \in 1..last : k \in 1..Len(types)
  BY <1>3
<1>5. L \in SUBSET Nat /\ IsFiniteSet(L) /\ L \subseteq 1..last
  <2>1. L \in SUBSET (1..last)
    BY <1>2 DEF Lacked
  <2>2. IsFiniteSet(1..last)
    <3>1. last \in Int /\ 1 \in Int
      BY <1>4
    <3>. QED BY <3>1, FS_Interval
  <2>3. IsFiniteSet(L)
    BY <2>1, <2>2, FS_Subset
  <2>. QED BY <2>1, <2>3
<1>6. PICK g : IsPicked(Picked(types, L), g, types, L)
  BY <1>5, PickedPositions, Zenon
<1>7. PICK m : m = Cardinality(L)
  OBVIOUS
<1>8. /\ m \in Nat /\ g \in [1..m -> L] /\ \A k, l \in 1..m : k < l => g[k] < g[l]
      /\ \A i \in L : \E k \in 1..m : g[k] = i
      /\ Picked(types, L) = [k \in 1..m |-> types[g[k]]]
  BY <1>6, <1>7, Zenon DEF IsPicked, Numbers
<1>9. b = [i \in 1..m |-> [type |-> Picked(types, L)[i], count |-> 0]]
  BY <1>1, <1>2, <1>7, Zenon DEF Entered
<1>10. b = [i \in 1..m |-> [type |-> types[g[i]], count |-> 0]]
  BY <1>8, <1>9
<1>11. \A i \in 1..m : g[i] \in 1..last /\ g[i] \in 1..Len(types) /\ ~Has(req, types[g[i]])
  <2>1. \A i \in 1..m : g[i] \in L
    BY <1>8
  <2>. QED BY <1>2, <1>4, <1>5, <2>1, Zenon DEF Lacked
<1>12. DOMAIN b = 1..m /\ \A i \in 1..m : b[i].type = types[g[i]] /\ b[i].count = 0
  BY <1>10
<1>13. b \in Requirements
  <2>. DEFINE E == [type : Needs, count : Nat]
  <2>1. \A i \in 1..m : b[i] \in E
    <3>1. \A i \in 1..m : types[g[i]] \in Needs
      BY <1>3, <1>11 DEF DiceTypes, Needs
    <3>. QED BY <1>10, <3>1
  <2>2. b = [i \in 1..m |-> b[i]]
    BY <1>10
  <2>3. b \in Seq(E)
    <3>. HIDE DEF E
    <3>1. b \in [1..m -> E]
      BY <2>1, <2>2
    <3>. QED BY <1>8, <3>1
  <2>. QED BY <2>3 DEF Requirements
<1>14. (\A i, j \in 1..Len(types) : types[i] = types[j] => i = j) => Once(b)
  <2>1. SUFFICES ASSUME \A i, j \in 1..Len(types) : types[i] = types[j] => i = j,
                        NEW i \in 1..m, NEW j \in 1..m, b[i].type = b[j].type
                 PROVE  i = j
    BY <1>12, Zenon DEF Once
  <2>2. g[i] = g[j]
    BY <1>11, <1>12, <2>1
  <2>3. g[i] \in Nat /\ i \in Nat /\ j \in Nat
    BY <1>11
  <2>4. ~(i < j) /\ ~(j < i)
    BY <1>8, <2>2, <2>3
  <2>. QED BY <2>3, <2>4
<1>15. \A t : Has(b, t) <=> t \in PassedBy(last, types) /\ ~Has(req, t)
  <2>1. ASSUME NEW t, Has(b, t) PROVE t \in PassedBy(last, types) /\ ~Has(req, t)
    <3>1. PICK i \in 1..m : b[i].type = t
      BY <1>12, <2>1, Zenon DEF Has
    <3>2. t = types[g[i]]
      BY <1>12, <3>1
    <3>. QED BY <1>11, <3>2 DEF PassedBy
  <2>2. ASSUME NEW t, t \in PassedBy(last, types), ~Has(req, t) PROVE Has(b, t)
    <3>1. PICK k \in 1..last : t = types[k]
      BY <2>2, Zenon DEF PassedBy
    <3>2. k \in L
      BY <1>2, <2>2, <3>1, Zenon DEF Lacked
    <3>3. PICK i \in 1..m : g[i] = k
      BY <1>8, <3>2, Zenon
    <3>4. b[i].type = t
      BY <1>12, <3>1, <3>3
    <3>. QED BY <1>12, <3>4, Zenon DEF Has
  <2>. QED BY <2>1, <2>2, Zenon
<1>16. ASSUME NEW t PROVE Get(b, t) = 0
  <2>1. CASE Has(b, t)
    <3>1. PICK i : i = CHOOSE j \in DOMAIN b : b[j].type = t
      OBVIOUS
    <3>2. i \in DOMAIN b
      BY <2>1, <3>1, Zenon DEF Has
    <3>3. Get(b, t) = b[i].count
      BY <2>1, <3>1, Zenon DEF Get
    <3>. QED BY <1>12, <3>2, <3>3
  <2>2. CASE ~Has(b, t)
    BY <2>2, Zenon DEF Get
  <2>. QED BY <2>1, <2>2, Zenon
<1>17. IsEntered(b, req, types, last)
  BY <1>13, <1>14, <1>15, <1>16, Zenon DEF IsEntered
<1>. QED BY <1>1, <1>17, Zenon

\* t has the count n now, the other types have what they had.
IsPut(r, req, t, n) ==
  /\ r \in Requirements /\ Once(r)
  /\ \A s : Has(r, s) <=> Has(req, s) \/ s = t
  /\ \A s : Get(r, s) = IF s = t THEN n ELSE Get(req, s)

\* Map.set
LEMMA PutCounts ==
  ASSUME NEW req \in Requirements, Once(req), NEW t \in Needs, NEW n \in Nat
  PROVE  IsPut(Put(req, t, n), req, t, n)
<1>1. CASE Has(req, t)
  <2>. DEFINE c == [i \in DOMAIN req |-> IF req[i].type = t THEN n ELSE req[i].count]
              r == [i \in DOMAIN req |-> [type |-> req[i].type, count |-> c[i]]]
  <2>1. c \in [DOMAIN req -> Nat]
    BY Entries
  <2>2. Put(req, t, n) = r
    <3>1. \A i \in DOMAIN req :
            (IF req[i].type = t THEN [req[i] EXCEPT !.count = n] ELSE req[i])
              = [type |-> req[i].type, count |-> c[i]]
      BY Entries
    <3>2. Put(req, t, n) = [i \in DOMAIN req |->
            IF req[i].type = t THEN [req[i] EXCEPT !.count = n] ELSE req[i]]
      BY <1>1, Zenon DEF Put
    <3>. HIDE DEF c
    <3>. QED BY <3>1, <3>2
  <2>3. HasCounts(r, req, c)
    <3>. HIDE DEF c
    <3>. QED BY <2>1, NewCounts
  <2>4. \A i \in DOMAIN req : c[i] = IF req[i].type = t THEN n ELSE req[i].count
    OBVIOUS
  <2>. HIDE DEF c, r
  <2>5. ASSUME NEW s PROVE Get(r, s) = IF s = t THEN n ELSE Get(req, s)
    <3>1. CASE Has(req, s)
      <4>1. PICK i \in DOMAIN req : req[i].type = s
        BY <3>1, Zenon DEF Has
      <4>2. Get(r, s) = c[i] /\ Get(req, s) = req[i].count
        BY <2>3, <4>1, GetEntry, Zenon DEF HasCounts
      <4>. QED BY <2>4, <4>1, <4>2, Zenon
    <3>2. CASE ~Has(req, s)
      <4>1. s # t
        BY <1>1, <3>2, Zenon
      <4>2. Get(r, s) = 0 /\ Get(req, s) = 0
        BY <2>3, <3>2, Zenon DEF HasCounts, Get
      <4>. QED BY <4>1, <4>2, Zenon
    <3>. QED BY <3>1, <3>2
  <2>6. r \in Requirements /\ Once(r) /\ \A s : Has(r, s) <=> Has(req, s)
    BY <2>3, Zenon DEF HasCounts
  <2>. QED BY <1>1, <2>2, <2>5, <2>6, Zenon DEF IsPut
<1>2. CASE ~Has(req, t)
  <2>1. PICK e : e = [type |-> t, count |-> n]
    OBVIOUS
  <2>2. <<e>> \in Requirements /\ DOMAIN <<e>> = {1} /\ <<e>>[1] = e /\ e.type = t /\ e.count = n
    <3>. DEFINE E == [type : Needs, count : Nat]
    <3>1. e \in E
      BY <2>1
    <3>2. <<e>> \in Seq(E) /\ DOMAIN <<e>> = {1}
      <4>. HIDE DEF E
      <4>. QED BY <3>1
    <3>. QED BY <2>1, <3>2 DEF Requirements
  <2>3. PICK b : b = <<e>>
    OBVIOUS
  <2>4. Once(b) /\ \A s : Has(b, s) <=> s = t
    BY <2>2, <2>3 DEF Once, Has
  <2>5. Get(b, t) = n
    BY <2>2, <2>3, <2>4, GetEntry
  <2>6. Put(req, t, n) = req \o b
    <3>1. req \in Seq([type : Needs, count : Nat])
      BY DEF Requirements
    <3>2. Put(req, t, n) = Append(req, e)
      BY <1>2, <2>1, Zenon DEF Put
    <3>. HIDE DEF Requirements
    <3>3. \A S : req \in Seq(S) => Append(req, e) = req \o <<e>>
      OBVIOUS
    <3>. QED BY <2>3, <3>1, <3>2, <3>3, Zenon
  <2>7. PICK r : r = Put(req, t, n)
    OBVIOUS
  <2>8. IsUnion(r, req, b)
    <3>1. \A s : ~(Has(req, s) /\ Has(b, s))
      BY <1>2, <2>4
    <3>2. b \in Requirements
      BY <2>2, <2>3
    <3>. QED BY <2>4, <2>6, <2>7, <3>1, <3>2, UnionOfEntries
  <2>9. ASSUME NEW s PROVE Get(r, s) = IF s = t THEN n ELSE Get(req, s)
    <3>1. Get(r, s) = IF Has(req, s) THEN Get(req, s) ELSE Get(b, s)
      BY <2>8, Zenon DEF IsUnion
    <3>2. CASE s = t
      BY <1>2, <2>5, <3>1, <3>2, Zenon
    <3>3. CASE s # t
      <4>1. Get(b, s) = 0
        BY <2>4, <3>3, Zenon DEF Get
      <4>2. ~Has(req, s) => Get(req, s) = 0
        BY Zenon DEF Get
      <4>. QED BY <3>1, <3>3, <4>1, <4>2, Zenon
    <3>. QED BY <3>2, <3>3
  <2>10. r \in Requirements /\ Once(r) /\ \A s : Has(r, s) <=> Has(req, s) \/ s = t
    BY <2>4, <2>8, Zenon DEF IsUnion
  <2>. QED BY <2>7, <2>9, <2>10, Zenon DEF IsPut
<1>. QED BY <1>1, <1>2

\* The types that are passed are entered, and the last keeps what is left.
Deducts(r, last, req, types, n) ==
  /\ EndsAt(last, covered(req, types), types, n)
  /\ r \in Requirements /\ Once(r)
  /\ \A t : Has(r, t) <=> Has(req, t) \/ t \in PassedBy(last, types)
  /\ \A t : Get(r, t) = IF t \in PassedBy(last, types)
                        THEN LeftOf(last, covered(req, types), types, n, t)
                        ELSE Get(req, t)

\* The dice types in some order.
Types(types) ==
  /\ types \in Seq(DiceTypes) /\ Len(types) > 0
  /\ \A i, j \in 1..Len(types) : types[i] = types[j] => i = j

\* What deductCost() does to every count.
LEMMA DeductCounts ==
  ASSUME NEW req \in Requirements, Once(req), NEW types, Types(types), NEW n \in Nat \ {0}
  PROVE  \E last : Deducts(deductCost(req, types, n), last, req, types, n)
<1>1. types \in Seq(DiceTypes) /\ Len(types) > 0
      /\ \A i, j \in 1..Len(types) : types[i] = types[j] => i = j
  BY Zenon DEF Types
<1>2. PICK last : IsDeduction(deductCost(req, types, n), last, req, types, n)
  BY <1>1, DeductShape, Zenon
<1>3. PICK f : f = covered(req, types)
  OBVIOUS
<1>4. Sums(f, req, types)
  BY <1>1, <1>3, CoveredSums, Zenon
<1>5. PICK r : r = deductCost(req, types, n)
  OBVIOUS
<1>6. EndsAt(last, f, types, n) /\ r = Reduced(req, types, n, f, last) \o Entered(req, types, last)
  BY <1>2, <1>3, <1>5, Zenon DEF IsDeduction
<1>7. PICK a : a = Reduced(req, types, n, f, last)
  OBVIOUS
<1>8. PICK b : b = Entered(req, types, last)
  OBVIOUS
<1>9. last \in 1..Len(types) /\ f[last] \in Nat /\ f[last - 1] \in Nat
      /\ f[last] = f[last - 1] + Get(req, types[last])
  <2>1. last \in 1..Len(types)
    BY <1>6, Zenon DEF EndsAt
  <2>2. PICK m : m = Len(types)
    OBVIOUS
  <2>3. m \in Nat
    BY <1>1, <2>2
  <2>4. last \in 0..m /\ last - 1 \in 0..m /\ last \in 1..m
    BY <2>1, <2>2, <2>3
  <2>. QED BY <1>4, <2>2, <2>4 DEF Sums
<1>10. \A t : LeftOf(last, f, types, n, t) \in Nat
  BY <1>9 DEF LeftOf
<1>11. \A t : Get(req, t) = 0 => LeftOf(last, f, types, n, t) = 0
  <2>1. SUFFICES ASSUME Get(req, types[last]) = 0 PROVE ~(f[last] > n)
    BY Zenon DEF LeftOf
  <2>2. f[last] = f[last - 1]
    BY <1>9, <2>1
  <2>. QED BY <1>6, <1>9, <2>2 DEF EndsAt
<1>. DEFINE c == [i \in DOMAIN req |-> IF req[i].type \in PassedBy(last, types)
                                       THEN LeftOf(last, f, types, n, req[i].type)
                                       ELSE req[i].count]
<1>12. HasCounts(a, req, c)
  <2>1. c \in [DOMAIN req -> Nat]
    BY <1>10, Entries
  <2>2. a = [i \in DOMAIN req |-> [type |-> req[i].type, count |-> c[i]]]
    <3>1. \A i \in DOMAIN req :
            (IF req[i].type \in PassedBy(last, types)
             THEN [req[i] EXCEPT !.count = LeftOf(last, f, types, n, req[i].type)]
             ELSE req[i])
              = [type |-> req[i].type, count |-> c[i]]
      BY Entries
    <3>. HIDE DEF c
    <3>. QED BY <1>7, <3>1 DEF Reduced
  <2>. HIDE DEF c
  <2>. QED BY <2>1, <2>2, NewCounts
<1>13. \A i \in DOMAIN req :
         c[i] = IF req[i].type \in PassedBy(last, types)
                THEN LeftOf(last, f, types, n, req[i].type) ELSE req[i].count
  OBVIOUS
<1>. HIDE DEF c
<1>14. IsEntered(b, req, types, last)
  BY <1>1, <1>8, <1>9, EnteredEntries, Zenon
<1>15. IsUnion(r, a, b)
  <2>1. a \in Requirements /\ Once(a) /\ \A t : Has(a, t) <=> Has(req, t)
    BY <1>12, Zenon DEF HasCounts
  <2>2. b \in Requirements /\ Once(b) /\ \A t : ~(Has(b, t) /\ Has(req, t))
    BY <1>1, <1>14, Zenon DEF IsEntered
  <2>3. \A t : ~(Has(a, t) /\ Has(b, t))
    BY <2>1, <2>2, Zenon
  <2>. QED BY <1>6, <1>7, <1>8, <2>1, <2>2, <2>3, UnionOfEntries
<1>16. ASSUME NEW t
       PROVE  Get(r, t) = IF t \in PassedBy(last, types) THEN LeftOf(last, f, types, n, t)
                                                         ELSE Get(req, t)
  <2>1. Get(r, t) = IF Has(a, t) THEN Get(a, t) ELSE Get(b, t)
    BY <1>15, Zenon DEF IsUnion
  <2>2. CASE Has(req, t)
    <3>1. PICK i \in DOMAIN req : req[i].type = t
      BY <2>2, Zenon DEF Has
    <3>2. Has(a, t) /\ Get(a, t) = c[i]
      BY <1>12, <2>2, <3>1, Zenon DEF HasCounts
    <3>3. Get(req, t) = req[i].count
      BY <3>1, GetEntry
    <3>. QED BY <1>13, <2>1, <3>1, <3>2, <3>3, Zenon
  <2>3. CASE ~Has(req, t)
    <3>1. ~Has(a, t) /\ Get(b, t) = 0 /\ Get(req, t) = 0
      BY <1>12, <1>14, <2>3, Zenon DEF HasCounts, IsEntered, Get
    <3>. QED BY <1>11, <2>1, <3>1, Zenon
  <2>. QED BY <2>2, <2>3
<1>17. r \in Requirements /\ Once(r)
  BY <1>15, Zenon DEF IsUnion
<1>18. \A t : Has(r, t) <=> Has(req, t) \/ t \in PassedBy(last, types)
  <2>1. \A t : Has(r, t) <=> Has(a, t) \/ Has(b, t)
    BY <1>15, Zenon DEF IsUnion
  <2>2. \A t : Has(a, t) <=> Has(req, t)
    BY <1>12, Zenon DEF HasCounts
  <2>3. \A t : Has(b, t) <=> t \in PassedBy(last, types) /\ ~Has(req, t)
    BY <1>14, Zenon DEF IsEntered
  <2>. QED BY <2>1, <2>2, <2>3, Zenon
<1>19. Deducts(r, last, req, types, n)
  BY <1>3, <1>6, <1>16, <1>17, <1>18, Zenon DEF Deducts
<1>. QED BY <1>5, <1>19, Zenon

-----------------------------------------------------------------------------
(***************************************************************************)
(* How many dice a requirement asks for.                                   *)
(***************************************************************************)

\* The number of units of the types in T.
SizeIn(req, T) == Cardinality(UnitsIn(req, T))

\* A part has no more units, and the rest has the others.
LEMMA SizeSplit ==
  ASSUME NEW req \in Requirements, NEW A \in SUBSET DiceTypes, NEW B \in SUBSET A
  PROVE  /\ SizeIn(req, A) \in Nat /\ SizeIn(req, B) \in Nat /\ SizeIn(req, A \ B) \in Nat
         /\ SizeIn(req, A) = SizeIn(req, B) + SizeIn(req, A \ B)
<1>1. A \ B \in SUBSET DiceTypes /\ B \in SUBSET DiceTypes /\ B \cap (A \ B) = {}
      /\ B \union (A \ B) = A
  OBVIOUS
<1>2. /\ IsFiniteSet(UnitsIn(req, A)) /\ SizeIn(req, A) \in Nat
      /\ IsFiniteSet(UnitsIn(req, B)) /\ SizeIn(req, B) \in Nat
      /\ IsFiniteSet(UnitsIn(req, A \ B)) /\ SizeIn(req, A \ B) \in Nat
  BY <1>1, UnitsFinite DEF SizeIn
<1>3. SizeIn(req, B \union (A \ B)) = SizeIn(req, B) + SizeIn(req, A \ B)
  BY <1>1, <1>2, UnitsSplit DEF SizeIn
<1>. QED BY <1>1, <1>2, <1>3

\* Types that are not asked for have no units.
LEMMA SizeNone ==
  ASSUME NEW req \in Requirements, NEW T, \A t \in T : Get(req, t) = 0
  PROVE  SizeIn(req, T) = 0
<1>1. UnitsIn(req, T) = {}
  BY DEF UnitsIn
<1>. QED BY <1>1, FS_EmptySet DEF SizeIn

\* One type asks for its count.
LEMMA SizeOfType ==
  ASSUME NEW req \in Requirements, NEW t
  PROVE  SizeIn(req, {t}) = Get(req, t)
BY TypeUnits DEF SizeIn

\* The same counts ask for as many dice.
LEMMA SizeSame ==
  ASSUME NEW req, NEW r, NEW T, \A t \in T : Get(r, t) = Get(req, t)
  PROVE  SizeIn(r, T) = SizeIn(req, T)
BY UnitsSame DEF SizeIn

\* All dice types together.
LEMMA SizeOfAll ==
  ASSUME NEW req \in Requirements, Once(req)
  PROVE  diceCostSize(req) = SizeIn(req, DiceTypes) /\ diceCostSize(req) \in Nat
BY UnitsOf, UnitsFinite DEF SizeIn, diceCostSize

\* One count is n, the others are as before.
LEMMA SizeOfPut ==
  ASSUME NEW req \in Requirements, NEW r \in Requirements, NEW t \in DiceTypes, NEW n \in Nat,
         \A s : Get(r, s) = IF s = t THEN n ELSE Get(req, s)
  PROVE  SizeIn(r, DiceTypes) = SizeIn(req, DiceTypes) - Get(req, t) + n
<1>. DEFINE D == DiceTypes
            U == {t}
<1>1. D \in SUBSET D /\ U \in SUBSET D
  OBVIOUS
<1>2. /\ SizeIn(req, D) \in Nat /\ SizeIn(req, U) \in Nat /\ SizeIn(req, D \ U) \in Nat
      /\ SizeIn(req, D) = SizeIn(req, U) + SizeIn(req, D \ U)
      /\ SizeIn(r, D) = SizeIn(r, U) + SizeIn(r, D \ U)
  <2>. HIDE DEF U
  <2>. QED BY <1>1, SizeSplit
<1>3. SizeIn(r, D \ U) = SizeIn(req, D \ U)
  BY SizeSame
<1>4. SizeIn(req, U) = Get(req, t) /\ SizeIn(r, U) = n
  BY SizeOfType
<1>. HIDE DEF U
<1>. QED BY <1>2, <1>3, <1>4

\* What covered() adds up are the units of the first types.
LEMMA SizeOfFirst ==
  ASSUME NEW req \in Requirements, NEW types, Types(types)
  PROVE  \A k \in 0..Len(types) : covered(req, types)[k] = SizeIn(req, PassedBy(k, types))
<1>1. types \in Seq(DiceTypes) /\ \A i, j \in 1..Len(types) : types[i] = types[j] => i = j
  BY Zenon DEF Types
<1>2. PICK m : m = Len(types)
  OBVIOUS
<1>3. m \in Nat /\ \A k \in 1..m : types[k] \in DiceTypes
  <2>1. PICK D : D = DiceTypes
    OBVIOUS
  <2>. QED BY <1>1, <1>2, <2>1
<1>4. PICK f : f = covered(req, types)
  OBVIOUS
<1>5. f[0] = 0 /\ \A k \in 1..m : f[k] = f[k - 1] + Get(req, types[k])
  <2>1. Sums(f, req, types)
    BY <1>1, <1>4, CoveredSums, Zenon
  <2>. QED BY <1>2, <2>1, Zenon DEF Sums
<1>. DEFINE T == {k \in 0..m : f[k] = SizeIn(req, PassedBy(k, types))}
<1>6. 0 \in T
  <2>1. PassedBy(0, types) = {}
    BY DEF PassedBy
  <2>2. SizeIn(req, {}) = 0
    BY SizeNone
  <2>. QED BY <1>3, <1>5, <2>1, <2>2
<1>7. ASSUME NEW k \in 0..m - 1, k \in T PROVE k + 1 \in T
  <2>1. PICK l : l = k + 1
    OBVIOUS
  <2>2. l \in 1..m /\ l - 1 = k /\ l \in 0..m
    BY <1>3, <2>1
  <2>. DEFINE A == PassedBy(l, types)
              B == PassedBy(k, types)
  <2>3. A \in SUBSET DiceTypes /\ B \in SUBSET A
    BY <1>3, <2>1, <2>2 DEF PassedBy
  <2>4. A \ B = {types[l]}
    <3>1. types[l] \notin B
      <4>1. SUFFICES ASSUME NEW j \in 1..k, types[l] = types[j] PROVE FALSE
        BY DEF PassedBy
      <4>2. j \in 1..m /\ j # l
        BY <1>3, <2>1, <2>2
      <4>. QED BY <1>1, <1>2, <2>2, <4>1, <4>2, Zenon
    <3>2. \A j \in 1..l : j \in 1..k \/ j = l
      BY <2>1
    <3>3. l \in 1..l
      BY <2>2
    <3>. QED BY <3>1, <3>2, <3>3 DEF PassedBy
  <2>5. SizeIn(req, A) = SizeIn(req, B) + SizeIn(req, A \ B)
    <3>. HIDE DEF A, B
    <3>. QED BY <2>3, SizeSplit
  <2>6. SizeIn(req, A \ B) = Get(req, types[l])
    BY <2>4, SizeOfType
  <2>7. f[l] = f[k] + Get(req, types[l]) /\ f[k] = SizeIn(req, B)
    BY <1>5, <1>7, <2>2
  <2>8. f[l] = SizeIn(req, A)
    BY <2>5, <2>6, <2>7
  <2>9. l \in T
    BY <2>2, <2>8
  <2>. QED BY <2>1, <2>9
<1>8. \A k \in 0..m : k \in T
  <2>. HIDE DEF T
  <2>. QED BY <1>3, <1>6, <1>7, BoundedInduction
<1>. QED BY <1>2, <1>4, <1>8

\* A deduction takes off what the types it names ask for, at most n.
LEMMA SizeOfDeduct ==
  ASSUME NEW req \in Requirements, NEW types, Types(types), NEW n \in Nat \ {0},
         NEW r, NEW last, Deducts(r, last, req, types, n)
  PROVE  LET c == SizeIn(req, PassedBy(Len(types), types))
         IN /\ c \in Nat
            /\ SizeIn(r, DiceTypes) = SizeIn(req, DiceTypes) - (IF n < c THEN n ELSE c)
<1>1. types \in Seq(DiceTypes) /\ \A i, j \in 1..Len(types) : types[i] = types[j] => i = j
  BY Zenon DEF Types
<1>2. PICK m : m = Len(types)
  OBVIOUS
<1>3. m \in Nat /\ \A k \in 1..m : types[k] \in DiceTypes
  <2>1. PICK D : D = DiceTypes
    OBVIOUS
  <2>. QED BY <1>1, <1>2, <2>1
<1>4. PICK f : f = covered(req, types)
  OBVIOUS
<1>5. PICK P : P = PassedBy(last, types)
  OBVIOUS
<1>6. PICK Q : Q = PassedBy(m, types)
  OBVIOUS
<1>7. last \in 1..m /\ (f[last] >= n \/ (last = m /\ f[last] < n))
  BY <1>2, <1>4, Zenon DEF Deducts, EndsAt
<1>8. P \in SUBSET Q /\ Q \in SUBSET DiceTypes /\ P \in SUBSET DiceTypes
      /\ types[last] \in P /\ (last = m => P = Q)
  <2>1. \A k \in 1..last : k \in 1..m
    BY <1>3, <1>7
  <2>2. last \in 1..last
    BY <1>7
  <2>. QED BY <1>3, <1>5, <1>6, <2>1, <2>2 DEF PassedBy
<1>9. f[last] = SizeIn(req, P)
  <2>1. last \in 0..Len(types)
    BY <1>2, <1>3, <1>7
  <2>. QED BY <1>4, <1>5, <2>1, SizeOfFirst
<1>10. r \in Requirements
       /\ \A t : Get(r, t) = IF t \in P THEN LeftOf(last, f, types, n, t) ELSE Get(req, t)
  BY <1>4, <1>5, Zenon DEF Deducts
<1>. DEFINE D == DiceTypes
            one == {types[last]}
<1>11. /\ SizeIn(req, D) \in Nat /\ SizeIn(req, P) \in Nat /\ SizeIn(req, D \ P) \in Nat
       /\ SizeIn(req, D) = SizeIn(req, P) + SizeIn(req, D \ P)
  BY <1>8, SizeSplit
<1>12. SizeIn(r, D) = SizeIn(r, P) + SizeIn(r, D \ P)
  BY <1>8, <1>10, SizeSplit
<1>13. SizeIn(r, D \ P) = SizeIn(req, D \ P)
  BY <1>10, SizeSame
<1>14. SizeIn(r, P) = SizeIn(r, one) + SizeIn(r, P \ one)
  <2>1. one \in SUBSET P
    BY <1>8
  <2>. HIDE DEF one
  <2>. QED BY <1>8, <1>10, <2>1, SizeSplit
<1>15. SizeIn(r, P \ one) = 0
  <2>1. \A t \in P \ one : Get(r, t) = 0
    BY <1>10 DEF LeftOf
  <2>. QED BY <1>10, <2>1, SizeNone
<1>16. SizeIn(r, one) = IF f[last] > n THEN f[last] - n ELSE 0
  <2>1. SizeIn(r, one) = Get(r, types[last])
    BY <1>10, SizeOfType
  <2>2. Get(r, types[last]) = IF f[last] > n THEN f[last] - n ELSE 0
    BY <1>8, <1>10, Zenon DEF LeftOf
  <2>. QED BY <2>1, <2>2, Zenon
<1>17. SizeIn(req, Q) \in Nat /\ SizeIn(req, P) <= SizeIn(req, Q)
  <2>1. /\ SizeIn(req, Q) \in Nat /\ SizeIn(req, P) \in Nat /\ SizeIn(req, Q \ P) \in Nat
        /\ SizeIn(req, Q) = SizeIn(req, P) + SizeIn(req, Q \ P)
    BY <1>8, SizeSplit
  <2>. QED BY <2>1
<1>. DEFINE c == SizeIn(req, Q)
<1>18. SizeIn(r, D) = SizeIn(req, D) - (IF n < c THEN n ELSE c)
  <2>1. PICK a : a = SizeIn(req, P)
    OBVIOUS
  <2>2. PICK d : d = SizeIn(req, D \ P)
    OBVIOUS
  <2>3. PICK e : e = SizeIn(req, Q)
    OBVIOUS
  <2>4. a \in Nat /\ d \in Nat /\ e \in Nat /\ a <= e /\ f[last] = a /\ SizeIn(req, D) = a + d
    BY <1>9, <1>11, <1>17, <2>1, <2>2, <2>3
  <2>5. SizeIn(r, D) = (IF a > n THEN a - n ELSE 0) + 0 + d
    BY <1>9, <1>12, <1>13, <1>14, <1>15, <1>16, <2>1, <2>2
  <2>6. a >= n \/ (a < n /\ e = a)
    BY <1>7, <1>8, <1>9, <2>1, <2>3
  <2>7. SizeIn(r, D) = SizeIn(req, D) - (IF n < e THEN n ELSE e)
    <3>. HIDE DEF D
    <3>. QED BY <2>4, <2>5, <2>6
  <2>. QED BY <2>3, <2>7
<1>. QED BY <1>2, <1>6, <1>17, <1>18

-----------------------------------------------------------------------------
(***************************************************************************)
(* The dice types in their priority, and the operations that use them.     *)
(***************************************************************************)

\* Priority names each dice type once.
LEMMA PriorityTypes ==
  Types(Priority) /\ PassedBy(Len(Priority), Priority) = DiceTypes
<1>. DEFINE all == <<Aligned, 1, 2, 3, 4, 5, 6, 7, Void>>
            L == {i \in DOMAIN all : all[i] \in Needs}
<1>1. DOMAIN all = 1..9
  OBVIOUS
<1>2. /\ all[1] = 8 /\ all[2] = 1 /\ all[3] = 2 /\ all[4] = 3 /\ all[5] = 4
      /\ all[6] = 5 /\ all[7] = 6 /\ all[8] = 7 /\ all[9] = 0
  BY DEF Aligned, Void
<1>3. \A i \in 1..9 : i = 1 \/ i = 2 \/ i = 3 \/ i = 4 \/ i = 5 \/ i = 6 \/ i = 7 \/ i = 8 \/ i = 9
  OBVIOUS
<1>4. /\ \A i \in 1..9 : all[i] \in 0..8
      /\ \A t \in 0..8 : \E i \in 1..9 : all[i] = t
  <2>. HIDE DEF all
  <2>1. \A t \in 0..8 : t = 0 \/ t = 1 \/ t = 2 \/ t = 3 \/ t = 4 \/ t = 5 \/ t = 6 \/ t = 7 \/ t = 8
    OBVIOUS
  <2>2. \A i \in 1..9 : all[i] \in 0..8
    BY <1>2, <1>3
  <2>3. \A t \in 0..8 : \E i \in 1..9 : all[i] = t
    <3>1. 1 \in 1..9 /\ 2 \in 1..9 /\ 3 \in 1..9 /\ 4 \in 1..9 /\ 5 \in 1..9 /\ 6 \in 1..9
          /\ 7 \in 1..9 /\ 8 \in 1..9 /\ 9 \in 1..9
      OBVIOUS
    <3>. QED BY <1>2, <2>1, <3>1
  <2>. QED BY <2>2, <2>3
<1>5. \A i, j \in 1..9 : all[i] = all[j] => i = j
  <2>. HIDE DEF all
  <2>1. \A i \in 1..9 : all[i] = IF i = 1 THEN 8 ELSE IF i = 9 THEN 0 ELSE i - 1
    BY <1>2, <1>3
  <2>. QED BY <2>1
<1>6. L \in SUBSET Nat /\ IsFiniteSet(L) /\ L \subseteq 1..9
  <2>. HIDE DEF all
  <2>1. L \in SUBSET (1..9)
    BY <1>1
  <2>2. IsFiniteSet(1..9)
    <3>1. 1 \in Int /\ 9 \in Int
      OBVIOUS
    <3>. QED BY <3>1, FS_Interval
  <2>. HIDE DEF L
  <2>3. IsFiniteSet(L)
    BY <2>1, <2>2, FS_Subset
  <2>. QED BY <2>1, <2>3
<1>7. PICK g : IsPicked(Picked(all, L), g, all, L)
  <2>. HIDE DEF all, L
  <2>. QED BY <1>6, PickedPositions, Zenon
<1>8. Picked(all, L) = Priority
  BY Zenon DEF Priority
<1>9. \A i \in L : i \in 1..9 /\ all[i] \in Needs
  BY <1>1
<1>10. \A i \in 1..9 : all[i] \in Needs => i \in L
  BY <1>1
<1>. HIDE DEF all, L
<1>11. PICK m : m = Cardinality(L)
  OBVIOUS
<1>12. /\ m \in Nat /\ g \in [1..m -> L] /\ \A k, l \in 1..m : k < l => g[k] < g[l]
       /\ \A i \in L : \E k \in 1..m : g[k] = i
       /\ Priority = [k \in 1..m |-> all[g[k]]]
  BY <1>7, <1>8, <1>11, Zenon DEF IsPicked, Numbers
<1>13. \A k \in 1..m : g[k] \in 1..9 /\ Priority[k] = all[g[k]] /\ Priority[k] \in DiceTypes
  <2>1. \A k \in 1..m : g[k] \in 1..9 /\ Priority[k] = all[g[k]] /\ all[g[k]] \in Needs
    BY <1>9, <1>12
  <2>2. \A i \in 1..9 : all[i] # 9
    BY <1>4
  <2>. QED BY <2>1, <2>2 DEF Needs, DiceTypes, Energy
<1>14. Priority \in Seq(DiceTypes) /\ Len(Priority) = m
  <2>1. PICK D : D = DiceTypes
    OBVIOUS
  <2>2. Priority = [k \in 1..m |-> Priority[k]]
    BY <1>12
  <2>3. Priority \in [1..m -> D]
    BY <1>13, <2>1, <2>2
  <2>4. Priority \in Seq(D) /\ Len(Priority) = m
    BY <1>12, <2>3
  <2>. QED BY <2>1, <2>4
<1>15. \A i, j \in 1..m : Priority[i] = Priority[j] => i = j
  <2>1. SUFFICES ASSUME NEW i \in 1..m, NEW j \in 1..m, Priority[i] = Priority[j]
                 PROVE  i = j
    BY Zenon
  <2>2. g[i] = g[j] /\ g[i] \in 1..9
    <3>1. all[g[i]] = all[g[j]] /\ g[i] \in 1..9 /\ g[j] \in 1..9
      BY <1>13, <2>1
    <3>. QED BY <1>5, <3>1
  <2>3. ~(i < j) /\ ~(j < i)
    BY <1>12, <2>2
  <2>. QED BY <1>12, <2>3
<1>16. \A t \in DiceTypes : \E k \in 1..m : Priority[k] = t
  <2>1. SUFFICES ASSUME NEW t \in DiceTypes PROVE \E k \in 1..m : Priority[k] = t
    BY Zenon
  <2>2. t \in 0..8 /\ t \in Needs
    BY ActionCostConstants DEF DiceTypes, Needs, Void, Aligned
  <2>3. PICK i \in 1..9 : all[i] = t
    BY <1>4, <2>2, Zenon
  <2>4. i \in L
    BY <1>10, <2>2, <2>3
  <2>5. PICK k \in 1..m : g[k] = i
    BY <1>12, <2>4, Zenon
  <2>. QED BY <1>13, <2>3, <2>5, Zenon
<1>17. m > 0
  <2>1. TunesTo \in DiceTypes
    BY ActionCostConstants DEF DiceTypes
  <2>. QED BY <1>12, <1>16, <2>1
<1>18. Types(Priority)
  BY <1>14, <1>15, <1>17 DEF Types
<1>19. PassedBy(Len(Priority), Priority) = DiceTypes
  BY <1>13, <1>14, <1>16 DEF PassedBy
<1>. QED BY <1>18, <1>19

\* The counts are the same, and what has none is left out, unless that is all.
IsNormalized(r, req) ==
  /\ r \in Requirements /\ Once(r)
  /\ \A t : Get(r, t) = Get(req, t)
  /\ \/ \A t : Has(r, t) <=> Get(req, t) > 0
     \/ /\ \A t : Get(req, t) = 0
        /\ \A t : Has(r, t) <=> t = Aligned

\* normalizeCost() changes no count and leaves no zero beside another entry.
LEMMA NormalizeCounts ==
  ASSUME NEW req \in Requirements, Once(req)
  PROVE  IsNormalized(normalizeCost(req), req)
<1>. DEFINE K == {i \in DOMAIN req : req[i].count # 0}
<1>1. Len(req) \in Nat /\ DOMAIN req = 1..Len(req)
      /\ \A i \in DOMAIN req : req[i].type \in Needs /\ req[i].count \in Nat
  BY Entries
<1>2. K \in SUBSET Nat /\ IsFiniteSet(K) /\ K \subseteq DOMAIN req
  <2>1. K \in SUBSET (1..Len(req))
    BY <1>1
  <2>2. IsFiniteSet(1..Len(req))
    <3>1. 1 \in Int /\ Len(req) \in Int
      BY <1>1
    <3>. QED BY <3>1, FS_Interval
  <2>. HIDE DEF K
  <2>3. IsFiniteSet(K)
    BY <2>1, <2>2, FS_Subset
  <2>. QED BY <1>1, <2>1, <2>3
<1>3. PICK g : IsPicked(Picked(req, K), g, req, K)
  <2>. HIDE DEF K
  <2>. QED BY <1>2, PickedPositions, Zenon
<1>4. PICK r : r = Picked(req, K)
  OBVIOUS
<1>5. normalizeCost(req) = IF r = <<>> THEN <<[type |-> Aligned, count |-> 0]>> ELSE r
  BY <1>4, Zenon DEF normalizeCost
<1>6. PICK m : m = Cardinality(K)
  OBVIOUS
<1>7. /\ m \in Nat /\ g \in [1..m -> K] /\ \A k, l \in 1..m : k < l => g[k] < g[l]
      /\ \A i \in K : \E k \in 1..m : g[k] = i
      /\ r = [k \in 1..m |-> req[g[k]]]
  BY <1>3, <1>4, <1>6, Zenon DEF IsPicked, Numbers
<1>8. /\ \A i \in K : i \in DOMAIN req /\ req[i].count # 0
      /\ \A i \in DOMAIN req : req[i].count # 0 => i \in K
  OBVIOUS
<1>. HIDE DEF K
<1>9. \A k \in 1..m : g[k] \in DOMAIN req /\ r[k] = req[g[k]] /\ req[g[k]].count # 0
  BY <1>7, <1>8
<1>10. DOMAIN r = 1..m
  BY <1>7
<1>11. r \in Requirements
  <2>. DEFINE E == [type : Needs, count : Nat]
  <2>1. req \in Seq(E)
    BY DEF Requirements
  <2>2. \A i \in DOMAIN req : req[i] \in E
    <3>. HIDE DEF E
    <3>. QED BY <2>1
  <2>. HIDE DEF E
  <2>3. r \in [1..m -> E]
    BY <1>7, <1>9, <2>2
  <2>4. r \in Seq(E)
    BY <1>7, <2>3
  <2>. QED BY <2>4 DEF Requirements, E
<1>12. Once(r)
  <2>1. SUFFICES ASSUME NEW i \in 1..m, NEW j \in 1..m, r[i].type = r[j].type
                 PROVE  i = j
    BY <1>10, Zenon DEF Once
  <2>2. g[i] = g[j]
    <3>1. g[i] \in DOMAIN req /\ g[j] \in DOMAIN req /\ req[g[i]].type = req[g[j]].type
      BY <1>9, <2>1
    <3>. QED BY <3>1, Zenon DEF Once
  <2>3. g[i] \in Nat
    BY <1>1, <1>9
  <2>4. ~(i < j) /\ ~(j < i)
    BY <1>7, <2>2, <2>3
  <2>. QED BY <1>7, <2>4
<1>13. \A t : Has(r, t) => Get(r, t) = Get(req, t) /\ Get(req, t) > 0
  <2>1. SUFFICES ASSUME NEW t, Has(r, t) PROVE Get(r, t) = Get(req, t) /\ Get(req, t) > 0
    BY Zenon
  <2>2. PICK k \in 1..m : r[k].type = t
    BY <1>10, <2>1, Zenon DEF Has
  <2>3. g[k] \in DOMAIN req /\ r[k] = req[g[k]] /\ req[g[k]].count # 0 /\ req[g[k]].type = t
    BY <1>9, <2>2, Zenon
  <2>4. Get(r, t) = r[k].count
    BY <1>10, <1>11, <1>12, <2>2, GetEntry
  <2>5. Get(req, t) = req[g[k]].count
    BY <2>3, GetEntry
  <2>. QED BY <1>1, <2>3, <2>4, <2>5
<1>14. \A t : Get(req, t) > 0 => Has(r, t)
  <2>1. SUFFICES ASSUME NEW t, Get(req, t) > 0 PROVE Has(r, t)
    BY Zenon
  <2>2. Has(req, t)
    BY <2>1, GetCount
  <2>3. PICK i \in DOMAIN req : req[i].type = t
    BY <2>2, Zenon DEF Has
  <2>4. Get(req, t) = req[i].count
    BY <2>3, GetEntry
  <2>5. i \in K
    BY <1>1, <1>8, <2>1, <2>3, <2>4
  <2>6. PICK k \in 1..m : g[k] = i
    BY <1>7, <2>5, Zenon
  <2>7. r[k].type = t
    BY <1>9, <2>3, <2>6, Zenon
  <2>. QED BY <1>10, <2>7, Zenon DEF Has
<1>15. \A t : Get(r, t) = Get(req, t)
  <2>1. SUFFICES ASSUME NEW t, ~Has(r, t) PROVE Get(r, t) = Get(req, t)
    BY <1>13, Zenon
  <2>2. Get(r, t) = 0
    BY <2>1, Zenon DEF Get
  <2>3. Get(req, t) \in Nat /\ ~(Get(req, t) > 0)
    BY <1>14, <2>1, GetCount
  <2>. QED BY <2>2, <2>3
<1>16. CASE r # <<>>
  <2>1. normalizeCost(req) = r
    BY <1>5, <1>16, Zenon
  <2>2. \A t : Has(r, t) <=> Get(req, t) > 0
    BY <1>13, <1>14, Zenon
  <2>. QED BY <1>11, <1>12, <1>15, <2>1, <2>2, Zenon DEF IsNormalized
<1>17. CASE r = <<>>
  <2>1. PICK b : b = <<[type |-> Aligned, count |-> 0]>>
    OBVIOUS
  <2>2. normalizeCost(req) = b
    BY <1>5, <1>17, <2>1, Zenon
  <2>3. DOMAIN b = {1} /\ b[1].type = Aligned /\ b[1].count = 0
    BY <2>1
  <2>4. b \in Requirements
    <3>. DEFINE E == [type : Needs, count : Nat]
    <3>1. [type |-> Aligned, count |-> 0] \in E
      BY DEF Needs
    <3>2. b \in Seq(E)
      <4>. HIDE DEF E
      <4>. QED BY <2>1, <3>1
    <3>. QED BY <3>2 DEF Requirements
  <2>5. Once(b) /\ \A t : Has(b, t) <=> t = Aligned
    BY <2>3 DEF Once, Has
  <2>6. \A t : Get(req, t) = 0
    <3>1. SUFFICES ASSUME NEW t PROVE Get(req, t) = 0
      BY Zenon
    <3>2. ~Has(r, t)
      BY <1>17 DEF Has
    <3>3. Get(req, t) \in Nat /\ ~(Get(req, t) > 0)
      BY <1>14, <3>2, GetCount
    <3>. QED BY <3>3
  <2>7. \A t : Get(b, t) = 0
    <3>1. SUFFICES ASSUME NEW t PROVE Get(b, t) = 0
      BY Zenon
    <3>2. CASE t = Aligned
      <4>1. Get(b, b[1].type) = b[1].count
        BY <2>3, <2>4, <2>5, GetEntry
      <4>. QED BY <2>3, <3>2, <4>1, Zenon
    <3>3. CASE t # Aligned
      BY <2>5, <3>3, Zenon DEF Get
    <3>. QED BY <3>2, <3>3
  <2>. QED BY <2>2, <2>4, <2>5, <2>6, <2>7, Zenon DEF IsNormalized
<1>. QED BY <1>16, <1>17

\* A dice type that is there is raised by n, or aligned dice are asked for.
IsAppend(r, req, t, n) ==
  /\ t \in DiceTypes /\ IsPut(r, req, t, Get(req, t) + n)
  /\ r = Put(req, t, Get(req, t) + n)
  /\ Has(req, t) \/ (t = Aligned /\ \A s \in DiceTypes : ~Has(req, s))

\* appendCost() raises one count by n.
LEMMA AppendCounts ==
  ASSUME NEW req \in Requirements, Once(req), NEW n \in Nat
  PROVE  \E t : IsAppend(appendCost(req, Priority, n), req, t, n)
<1>1. Priority \in Seq(DiceTypes) /\ {Priority[k] : k \in 1..Len(Priority)} = DiceTypes
  BY PriorityTypes, Zenon DEF Types, PassedBy
<1>2. Len(Priority) \in Nat /\ DOMAIN Priority = 1..Len(Priority)
  <2>1. PICK D : D = DiceTypes
    OBVIOUS
  <2>. QED BY <1>1, <2>1
<1>. DEFINE L == {k \in DOMAIN Priority : Has(req, Priority[k])}
<1>3. L \in SUBSET Nat /\ IsFiniteSet(L)
  <2>1. L \in SUBSET (1..Len(Priority))
    BY <1>2
  <2>2. IsFiniteSet(1..Len(Priority))
    <3>1. 1 \in Int /\ Len(Priority) \in Int
      BY <1>2
    <3>. QED BY <3>1, FS_Interval
  <2>. HIDE DEF L
  <2>3. IsFiniteSet(L)
    BY <2>1, <2>2, FS_Subset
  <2>. QED BY <2>1, <2>3
<1>4. /\ \A k \in L : k \in 1..Len(Priority) /\ Has(req, Priority[k])
      /\ \A k \in 1..Len(Priority) : Has(req, Priority[k]) => k \in L
  BY <1>2
<1>5. PICK present : present = Picked(Priority, L)
  OBVIOUS
<1>6. appendCost(req, Priority, n) =
        IF present = <<>> THEN Put(req, Aligned, n)
        ELSE Put(req, Head(present), Get(req, Head(present)) + n)
  BY <1>5, Zenon DEF appendCost
<1>. HIDE DEF L
<1>7. PICK g : IsPicked(present, g, Priority, L)
  BY <1>3, <1>5, PickedPositions, Zenon
<1>8. PICK m : m = Cardinality(L)
  OBVIOUS
<1>9. /\ m \in Nat /\ g \in [1..m -> L] /\ \A i \in L : \E k \in 1..m : g[k] = i
      /\ present = [k \in 1..m |-> Priority[g[k]]]
  BY <1>7, <1>8, Zenon DEF IsPicked, Numbers
<1>10. Aligned \in DiceTypes /\ Aligned \in Needs /\ \A t \in DiceTypes : t \in Needs
  BY DEF DiceTypes, Needs
<1>11. CASE m = 0
  <2>1. present = <<>> /\ L = {}
    BY <1>9, <1>11
  <2>2. \A s \in DiceTypes : ~Has(req, s)
    <3>1. SUFFICES ASSUME NEW s \in DiceTypes, Has(req, s) PROVE FALSE
      BY Zenon
    <3>2. PICK k \in 1..Len(Priority) : Priority[k] = s
      BY <1>1
    <3>3. k \in L
      BY <1>4, <3>1, <3>2
    <3>. QED BY <2>1, <3>3
  <2>3. Get(req, Aligned) + n = n
    <3>1. Get(req, Aligned) = 0
      BY <1>10, <2>2, Zenon DEF Get
    <3>. QED BY <3>1
  <2>4. IsPut(Put(req, Aligned, n), req, Aligned, n)
    BY <1>10, PutCounts, Zenon
  <2>5. IsAppend(Put(req, Aligned, n), req, Aligned, n)
    BY <1>10, <2>2, <2>3, <2>4, Zenon DEF IsAppend
  <2>. QED BY <1>6, <2>1, <2>5, Zenon
<1>12. CASE m # 0
  <2>1. 1 \in 1..m
    BY <1>9, <1>12
  <2>2. PICK t : t = Head(present)
    OBVIOUS
  <2>3. present # <<>> /\ t = present[1]
    BY <1>9, <2>1, <2>2
  <2>4. t = Priority[g[1]] /\ g[1] \in L
    BY <1>9, <2>1, <2>3
  <2>5. t \in DiceTypes /\ Has(req, t)
    BY <1>1, <1>4, <2>4
  <2>6. Get(req, t) + n \in Nat
    BY GetCount
  <2>7. IsPut(Put(req, t, Get(req, t) + n), req, t, Get(req, t) + n)
    BY <1>10, <2>5, <2>6, PutCounts
  <2>8. IsAppend(Put(req, t, Get(req, t) + n), req, t, n)
    BY <2>5, <2>7, Zenon DEF IsAppend
  <2>. QED BY <1>6, <2>2, <2>3, <2>8, Zenon
<1>. QED BY <1>11, <1>12

\* A deduction raises no count.
LEMMA DeductLowers ==
  ASSUME NEW req \in Requirements, NEW types, Types(types), NEW n \in Nat \ {0},
         NEW r, NEW last, Deducts(r, last, req, types, n), NEW t
  PROVE  Get(r, t) <= Get(req, t)
<1>1. PICK f : f = covered(req, types)
  OBVIOUS
<1>2. Sums(f, req, types)
  <2>1. types \in Seq(DiceTypes)
    BY Zenon DEF Types
  <2>. QED BY <1>1, <2>1, CoveredSums, Zenon
<1>3. EndsAt(last, f, types, n)
      /\ Get(r, t) = IF t \in PassedBy(last, types) THEN LeftOf(last, f, types, n, t)
                                                    ELSE Get(req, t)
  BY <1>1, Zenon DEF Deducts
<1>4. Get(req, t) \in Nat
  BY GetCount
<1>5. CASE t = types[last] /\ f[last] > n
  <2>1. last \in 1..Len(types) /\ Len(types) \in Nat
    <3>1. PICK D : D = DiceTypes
      OBVIOUS
    <3>. QED BY <1>3, <3>1 DEF EndsAt, Types
  <2>2. f[last] = f[last - 1] + Get(req, t) /\ f[last] \in Nat /\ f[last - 1] \in Nat
    <3>1. last \in 0..Len(types) /\ last - 1 \in 0..Len(types)
      BY <2>1
    <3>. QED BY <1>2, <1>5, <2>1, <3>1 DEF Sums
  <2>3. f[last - 1] < n
    BY <1>3, <1>5, <2>2 DEF EndsAt
  <2>4. f[last] - n <= Get(req, t)
    BY <1>4, <2>2, <2>3
  <2>5. Get(r, t) = f[last] - n \/ Get(r, t) = Get(req, t)
    BY <1>3, <1>5, Zenon DEF LeftOf
  <2>. QED BY <1>4, <2>4, <2>5
<1>6. CASE ~(t = types[last] /\ f[last] > n)
  <2>1. Get(r, t) = 0 \/ Get(r, t) = Get(req, t)
    BY <1>3, <1>6, Zenon DEF LeftOf
  <2>. QED BY <1>4, <2>1
<1>. QED BY <1>5, <1>6

-----------------------------------------------------------------------------
(***************************************************************************)
(* Requirements of aligned dice stand alone.                               *)
(***************************************************************************)

\* The map has the key of aligned dice alone, except for the energy.
Alone(req) ==
  Has(req, Aligned) => \A t \in DiceTypes : t # Aligned => ~Has(req, t)

\* It may have other keys with nothing asked for.
Apart(req) ==
  Get(req, Aligned) > 0 => \A t \in DiceTypes : t # Aligned => Get(req, t) = 0

\* The costs that are in force.
Normal(req) ==
  /\ req \in Requirements /\ Once(req) /\ Alone(req)
  /\ \/ \A t : Has(req, t) => Get(req, t) > 0
     \/ \A t \in DiceTypes : Get(req, t) = 0

\* A map that has Aligned alone asks for nothing beside it.
LEMMA AloneApart ==
  ASSUME NEW req \in Requirements, Alone(req)
  PROVE  Apart(req)
<1>1. SUFFICES ASSUME Get(req, Aligned) > 0, NEW t \in DiceTypes, t # Aligned
               PROVE  Get(req, t) = 0
  BY Zenon DEF Apart
<1>2. Has(req, Aligned)
  BY <1>1, GetCount
<1>3. ~Has(req, t)
  BY <1>1, <1>2, Zenon DEF Alone
<1>. QED BY <1>3, Zenon DEF Get

\* An increase keeps aligned dice alone.
LEMMA AppendAlone ==
  ASSUME NEW req \in Requirements, Alone(req), NEW r, NEW t, NEW n, IsAppend(r, req, t, n)
  PROVE  Alone(r)
<1>1. \A s : Has(r, s) <=> Has(req, s) \/ s = t
  BY Zenon DEF IsAppend, IsPut
<1>2. t \in DiceTypes /\ (Has(req, t) \/ (t = Aligned /\ \A s \in DiceTypes : ~Has(req, s)))
  BY Zenon DEF IsAppend
<1>. QED BY <1>1, <1>2, Zenon DEF Alone

\* After a deduction nothing is asked for beside aligned dice.
LEMMA DeductApart ==
  ASSUME NEW req \in Requirements, Apart(req), NEW types, Types(types), NEW n \in Nat \ {0},
         NEW r, NEW last, Deducts(r, last, req, types, n)
  PROVE  Apart(r)
<1>1. SUFFICES ASSUME Get(r, Aligned) > 0, NEW t \in DiceTypes, t # Aligned
               PROVE  Get(r, t) = 0
  BY Zenon DEF Apart
<1>2. Get(r, Aligned) <= Get(req, Aligned) /\ Get(r, t) <= Get(req, t)
  BY DeductLowers
<1>3. r \in Requirements
  BY Zenon DEF Deducts
<1>4. Get(r, Aligned) \in Nat /\ Get(req, Aligned) \in Nat /\ Get(r, t) \in Nat
  BY <1>3, GetCount
<1>5. Get(req, t) = 0
  BY <1>1, <1>2, <1>4 DEF Apart
<1>. QED BY <1>2, <1>4, <1>5

\* And normalizing takes the keys away that a deduction has entered.
LEMMA NormalizeNormal ==
  ASSUME NEW req \in Requirements, Once(req), Apart(req), NEW r, r = normalizeCost(req)
  PROVE  Normal(r) /\ \A t : Get(r, t) = Get(req, t)
<1>1. IsNormalized(r, req)
  BY NormalizeCounts, Zenon
<1>2. r \in Requirements /\ Once(r) /\ \A t : Get(r, t) = Get(req, t)
  BY <1>1, Zenon DEF IsNormalized
<1>3. CASE \A t : Has(r, t) <=> Get(req, t) > 0
  <2>1. Alone(r)
    <3>1. SUFFICES ASSUME Has(r, Aligned), NEW t \in DiceTypes, t # Aligned PROVE ~Has(r, t)
      BY Zenon DEF Alone
    <3>2. Get(req, t) = 0
      BY <1>3, <3>1, Zenon DEF Apart
    <3>3. ~(Get(req, t) > 0)
      BY <3>2
    <3>. QED BY <1>3, <3>3, Zenon
  <2>2. \A t : Has(r, t) => Get(r, t) > 0
    BY <1>2, <1>3, Zenon
  <2>. QED BY <1>2, <2>1, <2>2, Zenon DEF Normal
<1>4. CASE (\A t : Get(req, t) = 0) /\ (\A t : Has(r, t) <=> t = Aligned)
  <2>1. Alone(r) /\ \A t \in DiceTypes : Get(r, t) = 0
    BY <1>2, <1>4, Zenon DEF Alone
  <2>. QED BY <1>2, <2>1, Zenon DEF Normal
<1>. QED BY <1>1, <1>3, <1>4, Zenon DEF IsNormalized

\* What is asked of the player for a cost in force are all its units.
LEMMA NeededSize ==
  ASSUME NEW req, Normal(req)
  PROVE  /\ Needed(req) = SizeIn(req, DiceTypes) /\ diceCostSize(req) = SizeIn(req, DiceTypes)
         /\ Needed(req) \in Nat
         /\ Has(req, Aligned) => diceCostSize(req) = Get(req, Aligned)
<1>1. req \in Requirements /\ Once(req) /\ Alone(req)
  BY Zenon DEF Normal
<1>2. diceCostSize(req) = SizeIn(req, DiceTypes) /\ diceCostSize(req) \in Nat
  BY <1>1, SizeOfAll, Zenon
<1>3. ASSUME Has(req, Aligned) PROVE diceCostSize(req) = Get(req, Aligned)
  <2>. DEFINE D == DiceTypes
              A == {Aligned}
  <2>1. D \in SUBSET D /\ A \in SUBSET D
    BY DEF DiceTypes
  <2>2. SizeIn(req, D) = SizeIn(req, A) + SizeIn(req, D \ A)
    <3>. HIDE DEF A
    <3>. QED BY <1>1, <2>1, SizeSplit
  <2>3. SizeIn(req, A) = Get(req, Aligned)
    BY <1>1, SizeOfType
  <2>4. SizeIn(req, D \ A) = 0
    <3>1. \A t \in D \ A : Get(req, t) = 0
      <4>1. SUFFICES ASSUME NEW t \in D \ A PROVE Get(req, t) = 0
        BY Zenon
      <4>2. ~Has(req, t)
        BY <1>1, <1>3, Zenon DEF Alone
      <4>. QED BY <4>2, Zenon DEF Get
    <3>. HIDE DEF D, A
    <3>. QED BY <1>1, <3>1, SizeNone
  <2>5. Get(req, Aligned) \in Nat
    BY <1>1, GetCount
  <2>. QED BY <1>2, <2>2, <2>3, <2>4, <2>5
<1>4. Needed(req) = diceCostSize(req)
  BY <1>3, Zenon DEF Needed
<1>. QED BY <1>2, <1>3, <1>4

-----------------------------------------------------------------------------
(***************************************************************************)
(* The cost of a card with its attachments.                                *)
(***************************************************************************)

\* A cost as printed.
Printed(req) == req \in Requirements /\ Once(req) /\ Alone(req)

\* One entry of any type, and the energy.
LEMMA ChangeTypeCounts ==
  ASSUME NEW req \in Requirements, Once(req), NEW r, r = changeType(req)
  PROVE  /\ Printed(r) /\ SizeIn(r, DiceTypes) = SizeIn(req, DiceTypes)
         /\ Get(r, Energy) = Get(req, Energy)
<1>1. PICK n : n = diceCostSize(req)
  OBVIOUS
<1>2. n \in Nat /\ n = SizeIn(req, DiceTypes)
  BY <1>1, SizeOfAll
<1>3. PICK b : b = <<[type |-> Void, count |-> n]>>
  OBVIOUS
<1>4. DOMAIN b = {1} /\ b[1].type = Void /\ b[1].count = n
  BY <1>3
<1>5. b \in Requirements
  <2>. DEFINE E == [type : Needs, count : Nat]
  <2>1. [type |-> Void, count |-> n] \in E
    BY <1>2 DEF Needs
  <2>2. b \in Seq(E)
    <3>. HIDE DEF E
    <3>. QED BY <1>3, <2>1
  <2>. QED BY <2>2 DEF Requirements
<1>6. Once(b) /\ \A t : Has(b, t) <=> t = Void
  BY <1>4 DEF Once, Has
<1>7. \A t : Get(b, t) = IF t = Void THEN n ELSE 0
  <2>1. Get(b, b[1].type) = b[1].count
    BY <1>4, <1>5, <1>6, GetEntry
  <2>2. \A t : t # Void => Get(b, t) = 0
    BY <1>6, Zenon DEF Get
  <2>. QED BY <1>4, <2>1, <2>2, Zenon
<1>8. r = IF Get(req, Energy) > 0 THEN Put(b, Energy, Get(req, Energy)) ELSE b
  BY <1>1, <1>3, Zenon DEF changeType
<1>9. Void \in DiceTypes /\ Energy \notin DiceTypes /\ Energy # Void /\ Void # Aligned
      /\ Energy # Aligned /\ Energy \in Needs /\ Aligned \in DiceTypes
  BY ActionCostConstants DEF DiceTypes, Needs, Void, Energy, Aligned
<1>10. Get(req, Energy) \in Nat
  BY GetCount
<1>11. /\ r \in Requirements /\ Once(r) /\ ~Has(r, Aligned)
       /\ \A t : t # Energy => Get(r, t) = Get(b, t)
       /\ Get(r, Energy) = Get(req, Energy)
  <2>1. CASE Get(req, Energy) > 0
    <3>1. IsPut(r, b, Energy, Get(req, Energy))
      BY <1>5, <1>6, <1>8, <1>9, <1>10, <2>1, PutCounts, Zenon
    <3>. QED BY <1>6, <1>9, <3>1, Zenon DEF IsPut
  <2>2. CASE ~(Get(req, Energy) > 0)
    <3>1. Get(req, Energy) = 0
      BY <1>10, <2>2
    <3>2. r = b
      BY <1>8, <2>2, Zenon
    <3>3. Get(b, Energy) = 0
      BY <1>7, <1>9, Zenon
    <3>. QED BY <1>5, <1>6, <1>9, <3>1, <3>2, <3>3, Zenon
  <2>. QED BY <2>1, <2>2
<1>12. SizeIn(r, DiceTypes) = n
  <2>. DEFINE D == DiceTypes
              V == {Void}
  <2>1. D \in SUBSET D /\ V \in SUBSET D
    BY <1>9
  <2>2. SizeIn(r, D) = SizeIn(r, V) + SizeIn(r, D \ V)
    <3>. HIDE DEF V
    <3>. QED BY <1>11, <2>1, SizeSplit
  <2>3. SizeIn(r, V) = n
    BY <1>7, <1>9, <1>11, SizeOfType
  <2>4. \A t \in D \ V : Get(r, t) = 0
    BY <1>7, <1>9, <1>11
  <2>5. SizeIn(r, D \ V) = 0
    <3>. HIDE DEF D, V
    <3>. QED BY <1>11, <2>4, SizeNone
  <2>. HIDE DEF D, V
  <2>6. SizeIn(r, D) = n
    BY <1>2, <2>2, <2>3, <2>5
  <2>. QED BY <2>6 DEF D
<1>13. Alone(r)
  BY <1>11, Zenon DEF Alone
<1>. QED BY <1>2, <1>11, <1>12, <1>13, Zenon DEF Printed

\* The kinds of attachments that change a cost.
Kind3 == {"increase", "decrease", "changeType"}

\* The attachments of a card.
Attachments(as) ==
  /\ DOMAIN as = 1..Len(as) /\ Len(as) \in Nat
  /\ \A i \in 1..Len(as) : as[i].kind \in Kind3 /\ as[i].layer \in Nat \ {0}

\* Maps of dice requirements.
Maps == {req \in Requirements : Once(req)}

\* An increase of n.
LEMMA IncreasedSize ==
  ASSUME NEW req \in Requirements, Once(req), NEW n \in Nat,
         NEW r, r = appendCost(req, Priority, n)
  PROVE  /\ r \in Requirements /\ Once(r) /\ (Alone(req) => Alone(r))
         /\ SizeIn(r, DiceTypes) = SizeIn(req, DiceTypes) + n
         /\ Get(r, Energy) = Get(req, Energy)
<1>1. PICK t : IsAppend(r, req, t, n)
  BY AppendCounts, Zenon
<1>2. t \in DiceTypes /\ r \in Requirements /\ Once(r)
      /\ \A s : Get(r, s) = IF s = t THEN Get(req, t) + n ELSE Get(req, s)
  BY <1>1, Zenon DEF IsAppend, IsPut
<1>3. Alone(req) => Alone(r)
  BY <1>1, AppendAlone, Zenon
<1>4. Get(req, t) \in Nat /\ Get(req, t) + n \in Nat
  BY GetCount
<1>5. PICK c : c = Get(req, t) + n
  OBVIOUS
<1>6. SizeIn(r, DiceTypes) = SizeIn(req, DiceTypes) - Get(req, t) + c
  BY <1>2, <1>4, <1>5, SizeOfPut
<1>7. SizeIn(req, DiceTypes) \in Nat
  BY SizeOfAll
<1>8. SizeIn(r, DiceTypes) = SizeIn(req, DiceTypes) + n
  BY <1>4, <1>5, <1>6, <1>7
<1>9. Energy # t
  BY <1>2, ActionCostConstants DEF DiceTypes, Void, Energy, Aligned
<1>. QED BY <1>2, <1>3, <1>8, <1>9, Zenon

\* A reduction by n of whatever type.
LEMMA DecreasedSize ==
  ASSUME NEW req \in Requirements, Once(req), NEW n \in Nat \ {0},
         NEW r, r = deductCost(req, Priority, n)
  PROVE  /\ r \in Requirements /\ Once(r) /\ (Apart(req) => Apart(r))
         /\ SizeIn(r, DiceTypes) = Less(SizeIn(req, DiceTypes), n)
         /\ Get(r, Energy) = Get(req, Energy)
<1>1. Types(Priority) /\ PassedBy(Len(Priority), Priority) = DiceTypes
  BY PriorityTypes
<1>2. PICK last : Deducts(r, last, req, Priority, n)
  BY <1>1, DeductCounts, Zenon
<1>3. r \in Requirements /\ Once(r)
  BY <1>2, Zenon DEF Deducts
<1>4. Apart(req) => Apart(r)
  BY <1>1, <1>2, DeductApart, Zenon
<1>5. PICK c : c = SizeIn(req, DiceTypes)
  OBVIOUS
<1>6. c \in Nat /\ SizeIn(r, DiceTypes) = c - (IF n < c THEN n ELSE c)
  BY <1>1, <1>2, <1>5, SizeOfDeduct
<1>7. SizeIn(r, DiceTypes) = Less(c, n)
  BY <1>6 DEF Less
<1>8. Get(r, Energy) = Get(req, Energy)
  <2>1. Energy \notin PassedBy(last, Priority)
    <3>1. Energy \notin DiceTypes
      BY ActionCostConstants DEF DiceTypes, Void, Energy, Aligned
    <3>2. last \in 1..Len(Priority) /\ Len(Priority) \in Nat
      <4>1. PICK D : D = DiceTypes
        OBVIOUS
      <4>. QED BY <1>1, <1>2, <4>1 DEF Deducts, EndsAt, Types
    <3>3. \A k \in 1..last : k \in 1..Len(Priority)
      BY <3>2
    <3>4. \A k \in 1..Len(Priority) : Priority[k] \in DiceTypes
      BY <1>1, Zenon DEF PassedBy
    <3>. QED BY <3>1, <3>3, <3>4, Zenon DEF PassedBy
  <2>. QED BY <1>2, <2>1, Zenon DEF Deducts
<1>. QED BY <1>3, <1>4, <1>5, <1>7, <1>8, Zenon

\* What one attachment makes of a cost is a cost.
LEMMA AttachedMap ==
  ASSUME NEW req \in Maps, NEW a, a.kind \in Kind3, a.layer \in Nat \ {0}
  PROVE  attached(req, a) \in Maps
<1>1. req \in Requirements /\ Once(req)
  BY DEF Maps
<1>2. CASE a.kind = "increase"
  <2>1. attached(req, a) = appendCost(req, Priority, a.layer)
    BY <1>2 DEF attached
  <2>2. a.layer \in Nat
    OBVIOUS
  <2>. QED BY <1>1, <2>1, <2>2, IncreasedSize DEF Maps
<1>3. CASE a.kind = "decrease"
  <2>1. attached(req, a) = deductCost(req, Priority, a.layer)
    BY <1>3 DEF attached
  <2>. QED BY <1>1, <2>1, DecreasedSize DEF Maps
<1>4. CASE a.kind = "changeType"
  BY <1>4 DEF attached
<1>. QED BY <1>2, <1>3, <1>4 DEF Kind3

\* f is the cost after each attachment.
Follows(f, printed, as) ==
  f[0] = printed /\ \A k \in 1..Len(as) : f[k] = attached(f[k - 1], as[k])

\* What each attachment makes of a map.
AttachStep(as) == [k \in 1..Len(as) |-> [r \in Maps |-> attached(r, as[k])]]

\* The attachments count one after the other.
LEMMA CostsFollow ==
  ASSUME NEW printed \in Maps, NEW as, Attachments(as)
  PROVE  Follows(costAfter(printed, as), printed, as)
<1>. DEFINE Is(f) == f = [k \in 0..Len(as) |->
                            IF k = 0 THEN printed ELSE attached(f[k - 1], as[k])]
<1>1. PICK n : n = Len(as)
  OBVIOUS
<1>0. n \in Nat
  BY <1>1, Zenon DEF Attachments
<1>2. PICK M : M = Maps
  OBVIOUS
<1>3. AttachStep(as) \in [1..n -> [M -> M]]
      /\ \A k \in 1..n, r \in M : AttachStep(as)[k][r] = attached(r, as[k])
  <2>1. \A k \in 1..n : as[k].kind \in Kind3 /\ as[k].layer \in Nat \ {0}
    BY <1>1, Zenon DEF Attachments
  <2>2. \A k \in 1..n, r \in M : attached(r, as[k]) \in M
    BY <1>2, <2>1, AttachedMap
  <2>. DEFINE new(k, r) == attached(r, as[k])
  <2>3. AttachStep(as) = [k \in 1..n |-> [r \in M |-> new(k, r)]]
    BY <1>1, <1>2, Zenon DEF AttachStep
  <2>4. \A k \in 1..n, r \in M : new(k, r) \in M
    BY <2>2
  <2>. HIDE DEF new
  <2>5. AttachStep(as) \in [1..n -> [M -> M]]
        /\ \A k \in 1..n, r \in M : AttachStep(as)[k][r] = new(k, r)
    BY <2>3, <2>4
  <2>. QED BY <2>5 DEF new
<1>4. PICK g : GoesOn(g, M, n, printed, AttachStep(as))
  BY <1>0, <1>2, <1>3, Recursion, Zenon
<1>5. Is(g)
  <2>1. ASSUME NEW k \in 1..n PROVE g[k] = attached(g[k - 1], as[k])
    <3>1. g[k - 1] \in M /\ g[k] = AttachStep(as)[k][g[k - 1]]
      <4>1. g \in [0..n -> M] /\ \A j \in 1..n : g[j] = AttachStep(as)[j][g[j - 1]]
        BY <1>4, Zenon DEF GoesOn
      <4>2. k - 1 \in 0..n
        BY <1>0
      <4>3. g[k - 1] \in M
        BY <4>1, <4>2
      <4>. QED BY <4>1, <4>3, Zenon
    <3>. QED BY <1>3, <3>1, Zenon
  <2>2. g[0] = printed /\ g = [k \in 0..n |-> g[k]]
    BY <1>4 DEF GoesOn
  <2>3. \A k \in 0..n : k = 0 \/ k \in 1..n
    BY <1>0
  <2>. QED BY <1>1, <2>1, <2>2, <2>3, Zenon
<1>6. PICK f : Is(f) /\ costAfter(printed, as) = f
  <2>. DEFINE h == CHOOSE f : Is(f)
  <2>1. Is(h)
    BY <1>5, Zenon
  <2>2. costAfter(printed, as) = h
    BY Zenon DEF costAfter
  <2>. QED BY <2>1, <2>2, Zenon
<1>7. Follows(f, printed, as)
  <2>. DEFINE now(k) == attached(f[k - 1], as[k])
              new == [k \in 0..n |-> IF k = 0 THEN printed ELSE now(k)]
  <2>1. f = new
    BY <1>1, <1>6, Zenon
  <2>2. new[0] = printed /\ \A k \in 1..n : new[k] = now(k)
    <3>. HIDE DEF now
    <3>. QED BY <1>0
  <2>. HIDE DEF new
  <2>. QED BY <1>1, <2>1, <2>2 DEF Follows
<1>. QED BY <1>6, <1>7, Zenon

\* A card is made dearer or cheaper, not both, and has an attachment once.
OneWay(as) ==
  /\ Attachments(as)
  /\ \A i, j \in 1..Len(as) : as[i].kind = as[j].kind => i = j
  /\ ~({"increase", "decrease"} \subseteq KindsOn(as))

\* The attachments after p, up to q, only change the type.
Quiet(as, p, q) == \A i \in 1..Len(as) : p < i /\ i <= q => as[i].kind = "changeType"

\* Nothing changes from p to q.
SameAt(f, p, q) == f[q] = f[p]

\* Other attachments do not change the cost on the way.
LEMMA Unchanged ==
  ASSUME NEW printed, NEW as, Attachments(as), NEW f, Follows(f, printed, as),
         NEW p \in Nat, NEW q \in Nat, p <= q, q <= Len(as), Quiet(as, p, q)
  PROVE  SameAt(f, p, q)
<1>1. PICK n : n = Len(as)
  OBVIOUS
<1>2. n \in Nat /\ q <= n
  BY <1>1, Zenon DEF Attachments
<1>. DEFINE d == q - p
            T == {k \in 0..d : f[p + k] = f[p]}
<1>3. d \in Nat
  BY <1>2
<1>4. 0 \in T
  BY <1>2
<1>5. ASSUME NEW k \in 0..d - 1, k \in T PROVE k + 1 \in T
  <2>1. PICK l : l = p + (k + 1)
    OBVIOUS
  <2>2. l \in 1..n /\ l - 1 = p + k /\ p < l /\ l <= q /\ k + 1 \in 0..d
    BY <1>2, <2>1
  <2>3. f[l] = attached(f[l - 1], as[l])
    BY <1>1, <2>2, Zenon DEF Follows
  <2>4. as[l].kind = "changeType"
    BY <1>1, <2>2, Zenon DEF Quiet
  <2>5. attached(f[l - 1], as[l]) = f[l - 1]
    BY <2>4 DEF attached
  <2>6. f[p + k] = f[p]
    BY <1>5
  <2>7. f[p + (k + 1)] = f[p]
    BY <2>1, <2>2, <2>3, <2>5, <2>6, Zenon
  <2>. QED BY <2>2, <2>7
<1>6. \A k \in 0..d : k \in T
  <2>. HIDE DEF T, d
  <2>. QED BY <1>3, <1>4, <1>5, BoundedInduction
<1>7. d \in T
  <2>1. d \in 0..d
    BY <1>3
  <2>. HIDE DEF T, d
  <2>. QED BY <1>6, <2>1, Zenon
<1>8. p + d = q
  BY <1>2
<1>. QED BY <1>7, <1>8, Zenon DEF SameAt

\* The one attachment that changes the number of dice counts.
LEMMA ChangedOnce ==
  ASSUME NEW printed, NEW as, OneWay(as), NEW f, Follows(f, printed, as),
         NEW p \in 1..Len(as), as[p].kind # "changeType"
  PROVE  f[Len(as)] = attached(printed, as[p])
<1>1. Attachments(as) /\ \A i, j \in 1..Len(as) : as[i].kind = as[j].kind => i = j
  BY Zenon DEF OneWay
<1>2. PICK n : n = Len(as)
  OBVIOUS
<1>3. n \in Nat /\ DOMAIN as = 1..n /\ \A i \in 1..n : as[i].kind \in Kind3
  BY <1>1, <1>2, Zenon DEF Attachments
<1>4. \A i \in 1..n : i # p => as[i].kind = "changeType"
  <2>1. SUFFICES ASSUME NEW i \in 1..n, i # p, as[i].kind # "changeType" PROVE FALSE
    BY Zenon
  <2>2. as[i].kind # as[p].kind
    BY <1>1, <1>2, <2>1, Zenon
  <2>3. as[i].kind \in Kind3 /\ as[p].kind \in Kind3
    BY <1>2, <1>3
  <2>4. {"increase", "decrease"} \subseteq {as[i].kind, as[p].kind}
    BY <2>1, <2>2, <2>3 DEF Kind3
  <2>5. as[i].kind \in KindsOn(as) /\ as[p].kind \in KindsOn(as)
    BY <1>2, <1>3, Zenon DEF KindsOn
  <2>. QED BY <2>4, <2>5, Zenon DEF OneWay
<1>5. n \in Nat /\ p \in 1..n
  BY <1>2, <1>3, Zenon
<1>6. PICK o : o = p - 1
  OBVIOUS
<1>7. p \in Nat /\ o \in Nat /\ 0 \in Nat /\ 0 <= o /\ o <= n /\ p <= n /\ n <= n /\ o < p
  BY <1>5, <1>6
<1>8. Quiet(as, 0, o) /\ Quiet(as, p, n)
  <2>1. \A i \in 1..n : (0 < i /\ i <= o => i # p) /\ (p < i /\ i <= n => i # p)
    BY <1>7
  <2>. QED BY <1>2, <1>4, <2>1, Zenon DEF Quiet
<1>9. SameAt(f, 0, o)
  <2>1. o <= Len(as)
    BY <1>2, <1>7, Zenon
  <2>. QED BY <1>1, <1>7, <1>8, <2>1, Unchanged, Zenon
<1>10. SameAt(f, p, n)
  <2>1. n <= Len(as)
    BY <1>2, <1>7, Zenon
  <2>. QED BY <1>1, <1>5, <1>7, <1>8, <2>1, Unchanged, Zenon
<1>11. f[p] = attached(f[p - 1], as[p]) /\ f[0] = printed
  BY Zenon DEF Follows
<1>. QED BY <1>2, <1>6, <1>9, <1>10, <1>11, Zenon DEF SameAt

\* The cost of a card with the attachments: how many dice, and the energy.
IsCardCost(c, printed, as) ==
  /\ Normal(c) /\ Get(c, Energy) = Get(printed, Energy)
  /\ \A p \in 1..Len(as) :
       /\ as[p].kind = "increase" =>
            SizeIn(c, DiceTypes) = SizeIn(printed, DiceTypes) + as[p].layer
       /\ as[p].kind = "decrease" =>
            SizeIn(c, DiceTypes) = Less(SizeIn(printed, DiceTypes), as[p].layer)
  /\ (\A p \in 1..Len(as) : as[p].kind = "changeType") =>
       SizeIn(c, DiceTypes) = SizeIn(printed, DiceTypes)

\* What the attachments of one direction make of a printed cost.
LEMMA CardCostCounts ==
  ASSUME NEW printed, Printed(printed), NEW as, OneWay(as)
  PROVE  IsCardCost(CostOfCard(printed, as), printed, as)
<1>1. printed \in Requirements /\ Once(printed) /\ Alone(printed) /\ printed \in Maps
      /\ Apart(printed)
  BY AloneApart, Zenon DEF Printed, Maps
<1>2. Attachments(as)
  BY Zenon DEF OneWay
<1>3. PICK n : n = Len(as)
  OBVIOUS
<1>4. n \in Nat /\ \A i \in 1..n : as[i].kind \in Kind3 /\ as[i].layer \in Nat \ {0}
  BY <1>2, <1>3, Zenon DEF Attachments
<1>5. PICK f : f = costAfter(printed, as)
  OBVIOUS
<1>6. Follows(f, printed, as)
  BY <1>1, <1>2, <1>5, CostsFollow, Zenon
<1>7. PICK m : m = f[Len(as)]
  OBVIOUS
<1>8. PICK s : s = SizeIn(printed, DiceTypes)
  OBVIOUS
<1>9. ASSUME NEW p \in 1..n, as[p].kind = "increase"
      PROVE  /\ m \in Requirements /\ Once(m) /\ Apart(m)
             /\ SizeIn(m, DiceTypes) = s + as[p].layer /\ Get(m, Energy) = Get(printed, Energy)
  <2>1. m = attached(printed, as[p])
    <3>1. as[p].kind # "changeType"
      BY <1>9
    <3>. QED BY <1>3, <1>6, <1>7, <3>1, ChangedOnce, Zenon
  <2>2. m = appendCost(printed, Priority, as[p].layer)
    BY <1>9, <2>1 DEF attached
  <2>3. PICK l : l = as[p].layer
    OBVIOUS
  <2>4. l \in Nat /\ m = appendCost(printed, Priority, l)
    <3>1. as[p].layer \in Nat \ {0}
      BY <1>4, Zenon
    <3>2. as[p].layer \in Nat
      BY <3>1
    <3>. QED BY <2>2, <2>3, <3>2, Zenon
  <2>5. /\ m \in Requirements /\ Once(m) /\ Alone(m)
        /\ SizeIn(m, DiceTypes) = SizeIn(printed, DiceTypes) + l
        /\ Get(m, Energy) = Get(printed, Energy)
    BY <1>1, <2>4, IncreasedSize
  <2>6. Apart(m)
    BY <2>5, AloneApart, Zenon
  <2>. QED BY <1>8, <2>3, <2>5, <2>6, Zenon
<1>10. ASSUME NEW p \in 1..n, as[p].kind = "decrease"
       PROVE  /\ m \in Requirements /\ Once(m) /\ Apart(m)
              /\ SizeIn(m, DiceTypes) = Less(s, as[p].layer) /\ Get(m, Energy) = Get(printed, Energy)
  <2>1. m = attached(printed, as[p])
    <3>1. as[p].kind # "changeType"
      BY <1>10
    <3>. QED BY <1>3, <1>6, <1>7, <3>1, ChangedOnce, Zenon
  <2>2. m = deductCost(printed, Priority, as[p].layer)
    BY <1>10, <2>1 DEF attached
  <2>3. PICK l : l = as[p].layer
    OBVIOUS
  <2>4. l \in Nat \ {0} /\ m = deductCost(printed, Priority, l)
    BY <1>4, <2>2, <2>3, Zenon
  <2>5. /\ m \in Requirements /\ Once(m) /\ Apart(m)
        /\ SizeIn(m, DiceTypes) = Less(SizeIn(printed, DiceTypes), l)
        /\ Get(m, Energy) = Get(printed, Energy)
    BY <1>1, <2>4, DecreasedSize
  <2>. QED BY <1>8, <2>3, <2>5, Zenon
<1>11. ASSUME \A p \in 1..n : as[p].kind = "changeType"
       PROVE  m = printed
  <2>0. n \in Nat
    BY <1>4, Zenon
  <2>1. 0 \in Nat /\ 0 <= n /\ n <= n
    BY <2>0
  <2>2. Quiet(as, 0, n)
    BY <1>3, <1>11, Zenon DEF Quiet
  <2>3. n <= Len(as)
    BY <1>3, <2>1, Zenon
  <2>4. SameAt(f, 0, n)
    BY <1>2, <1>6, <2>0, <2>1, <2>2, <2>3, Unchanged, Zenon
  <2>. QED BY <1>3, <1>6, <1>7, <2>4, Zenon DEF Follows, SameAt
<1>12. m \in Requirements /\ Once(m) /\ Apart(m) /\ Get(m, Energy) = Get(printed, Energy)
  <2>1. CASE \E p \in 1..n : as[p].kind = "increase"
    BY <1>9, <2>1
  <2>2. CASE \E p \in 1..n : as[p].kind = "decrease"
    BY <1>10, <2>2
  <2>3. CASE \A p \in 1..n : as[p].kind = "changeType"
    BY <1>1, <1>11, <2>3, Zenon
  <2>. QED BY <1>4, <2>1, <2>2, <2>3 DEF Kind3
<1>13. PICK r : r = IF \E i \in DOMAIN as : as[i].kind = "changeType" THEN changeType(m) ELSE m
  OBVIOUS
<1>14. PICK c : c = CostOfCard(printed, as)
  OBVIOUS
<1>15. c = normalizeCost(r)
  BY <1>5, <1>7, <1>13, <1>14, Zenon DEF CostOfCard
<1>16. r \in Requirements /\ Once(r) /\ Apart(r) /\ Get(r, Energy) = Get(m, Energy)
       /\ SizeIn(r, DiceTypes) = SizeIn(m, DiceTypes)
  <2>1. CASE r = changeType(m)
    <3>1. /\ Printed(r) /\ SizeIn(r, DiceTypes) = SizeIn(m, DiceTypes)
          /\ Get(r, Energy) = Get(m, Energy)
      BY <1>12, <2>1, ChangeTypeCounts
    <3>. QED BY <3>1, AloneApart DEF Printed
  <2>2. CASE r = m
    BY <1>12, <2>2
  <2>. QED BY <1>13, <2>1, <2>2, Zenon
<1>17. Normal(c) /\ \A t : Get(c, t) = Get(r, t)
  BY <1>15, <1>16, NormalizeNormal
<1>18. SizeIn(c, DiceTypes) = SizeIn(r, DiceTypes)
  BY <1>17, SizeSame
<1>19. Get(c, Energy) = Get(printed, Energy) /\ SizeIn(c, DiceTypes) = SizeIn(m, DiceTypes)
  BY <1>12, <1>16, <1>17, <1>18, Zenon
<1>20. IsCardCost(c, printed, as)
  BY <1>3, <1>8, <1>9, <1>10, <1>11, <1>17, <1>19, Zenon DEF IsCardCost
<1>. QED BY <1>14, <1>20, Zenon

-----------------------------------------------------------------------------
(***************************************************************************)
(* What the modifiers make of a cost.                                      *)
(***************************************************************************)

\* A cost that asks for k dice.
Asks(r, k) == Normal(r) /\ Needed(r) = k

\* A cost is read in its normal form.
LEMMA NormalizeAsks ==
  ASSUME NEW req \in Requirements, Once(req), Apart(req), NEW r, r = normalizeCost(req)
  PROVE  Asks(r, SizeIn(req, DiceTypes)) /\ \A t : Get(r, t) = Get(req, t)
<1>1. Normal(r) /\ \A t : Get(r, t) = Get(req, t)
  BY NormalizeNormal, Zenon
<1>2. SizeIn(r, DiceTypes) = SizeIn(req, DiceTypes)
  BY <1>1, SizeSame, Zenon
<1>3. Needed(r) = SizeIn(r, DiceTypes)
  BY <1>1, NeededSize, Zenon
<1>. QED BY <1>1, <1>2, <1>3, Zenon DEF Asks

\* A cost that is printed is in force at once.
LEMMA PrintedAsks ==
  ASSUME NEW k \in Kinds, NEW c \in Costs[k]
  PROVE  Printed(c) /\ Asks(normalizeCost(c), SizeIn(c, DiceTypes))
         /\ \A t : Get(normalizeCost(c), t) = Get(c, t)
<1>1. /\ c \in Requirements
      /\ \A i, j \in DOMAIN c : i < j =>
            /\ c[i].type # c[j].type
            /\ Aligned \in {c[i].type, c[j].type} => Energy \in {c[i].type, c[j].type}
  BY PrintedCosts
<1>2. Len(c) \in Nat /\ DOMAIN c = 1..Len(c)
  BY <1>1, Entries
<1>3. Once(c)
  <2>1. SUFFICES ASSUME NEW i \in DOMAIN c, NEW j \in DOMAIN c, c[i].type = c[j].type
                 PROVE  i = j
    BY Zenon DEF Once
  <2>2. ~(i < j) /\ ~(j < i)
    BY <1>1, <2>1
  <2>. QED BY <1>2, <2>2
<1>4. Alone(c)
  <2>1. SUFFICES ASSUME Has(c, Aligned), NEW t \in DiceTypes, t # Aligned, Has(c, t)
                 PROVE  FALSE
    BY Zenon DEF Alone
  <2>2. PICK i \in DOMAIN c : c[i].type = Aligned
    BY <2>1, Zenon DEF Has
  <2>3. PICK j \in DOMAIN c : c[j].type = t
    BY <2>1, Zenon DEF Has
  <2>4. i < j \/ j < i
    <3>1. i # j
      BY <2>1, <2>2, <2>3, Zenon
    <3>. QED BY <1>2, <3>1
  <2>5. Aligned \in {c[i].type, c[j].type} /\ Aligned \in {c[j].type, c[i].type}
    BY <2>2
  <2>6. Energy \in {c[i].type, c[j].type}
    <3>1. CASE i < j
      BY <1>1, <2>5, <3>1, Zenon
    <3>2. CASE j < i
      BY <1>1, <2>5, <3>2, Zenon
    <3>. QED BY <2>4, <3>1, <3>2
  <2>7. Energy # Aligned /\ Energy \notin DiceTypes
    BY ActionCostConstants DEF DiceTypes, Void, Energy, Aligned
  <2>. QED BY <2>1, <2>2, <2>3, <2>6, <2>7, Zenon
<1>5. Apart(c)
  BY <1>1, <1>4, AloneApart, Zenon
<1>. QED BY <1>1, <1>3, <1>4, <1>5, NormalizeAsks, Zenon DEF Printed

\* To switch and to tune cost one die of any type.
LEMMA OneDie ==
  ASSUME NEW k \in {"switch", "tuning"}, NEW c \in Costs[k]
  PROVE  Asks(normalizeCost(c), 1) /\ Get(normalizeCost(c), Void) > 0
<1>1. k \in Kinds
  BY DEF Kinds
<1>2. c = <<[type |-> Void, count |-> 1]>>
  BY PrintedCosts, Zenon
<1>3. Printed(c) /\ Asks(normalizeCost(c), SizeIn(c, DiceTypes))
      /\ \A t : Get(normalizeCost(c), t) = Get(c, t)
  BY <1>1, PrintedAsks, Zenon
<1>4. c \in Requirements /\ Once(c)
  BY <1>3, Zenon DEF Printed
<1>5. DOMAIN c = {1} /\ c[1].type = Void /\ c[1].count = 1
  BY <1>2
<1>6. Get(c, Void) = 1
  <2>1. Get(c, c[1].type) = c[1].count
    BY <1>4, <1>5, GetEntry
  <2>. QED BY <1>5, <2>1, Zenon
<1>7. \A t : t # Void => Get(c, t) = 0
  <2>1. \A t : t # Void => ~Has(c, t)
    BY <1>5 DEF Has
  <2>. QED BY <2>1, Zenon DEF Get
<1>8. SizeIn(c, DiceTypes) = 1
  <2>. DEFINE D == DiceTypes
              V == {Void}
  <2>1. D \in SUBSET D /\ V \in SUBSET D
    BY DEF DiceTypes
  <2>2. SizeIn(c, D) = SizeIn(c, V) + SizeIn(c, D \ V)
    <3>. HIDE DEF V
    <3>. QED BY <1>4, <2>1, SizeSplit
  <2>3. SizeIn(c, V) = 1
    BY <1>4, <1>6, SizeOfType
  <2>4. \A t \in D \ V : Get(c, t) = 0
    BY <1>7
  <2>5. SizeIn(c, D \ V) = 0
    <3>. HIDE DEF D, V
    <3>. QED BY <1>4, <2>4, SizeNone
  <2>. QED BY <2>2, <2>3, <2>5
<1>9. Get(normalizeCost(c), Void) > 0
  BY <1>3, <1>6
<1>. QED BY <1>3, <1>8, <1>9, Zenon

\* A die of any type more.
LEMMA VoidRaised ==
  ASSUME NEW req, Normal(req), Get(req, Void) > 0,
         NEW r, r = normalizeCost(Put(req, Void, Get(req, Void) + 1))
  PROVE  Asks(r, Needed(req) + 1) /\ Get(r, Void) > 0
<1>1. req \in Requirements /\ Once(req) /\ Alone(req)
  BY Zenon DEF Normal
<1>2. PICK n : n = Get(req, Void) + 1
  OBVIOUS
<1>3. Get(req, Void) \in Nat /\ n \in Nat /\ Has(req, Void)
  BY <1>1, <1>2, GetCount
<1>4. Void \in DiceTypes /\ Void \in Needs /\ Void # Aligned
  BY DEF DiceTypes, Needs, Void, Aligned
<1>5. PICK p : p = Put(req, Void, n)
  OBVIOUS
<1>6. IsPut(p, req, Void, n)
  BY <1>1, <1>3, <1>4, <1>5, PutCounts, Zenon
<1>7. p \in Requirements /\ Once(p) /\ (\A s : Has(p, s) <=> Has(req, s) \/ s = Void)
      /\ \A s : Get(p, s) = IF s = Void THEN n ELSE Get(req, s)
  BY <1>6, Zenon DEF IsPut
<1>8. Apart(p)
  <2>1. ~Has(req, Aligned)
    BY <1>1, <1>3, <1>4, Zenon DEF Alone
  <2>2. Alone(p)
    BY <1>4, <1>7, <2>1, Zenon DEF Alone
  <2>. QED BY <1>7, <2>2, AloneApart, Zenon
<1>9. SizeIn(p, DiceTypes) = SizeIn(req, DiceTypes) - Get(req, Void) + n
  BY <1>1, <1>3, <1>4, <1>7, SizeOfPut
<1>10. Needed(req) = SizeIn(req, DiceTypes) /\ Needed(req) \in Nat
  BY NeededSize, Zenon
<1>11. SizeIn(p, DiceTypes) = Needed(req) + 1
  BY <1>2, <1>3, <1>9, <1>10
<1>12. r = normalizeCost(p)
  BY <1>2, <1>5, Zenon
<1>13. Asks(r, SizeIn(p, DiceTypes)) /\ \A t : Get(r, t) = Get(p, t)
  BY <1>7, <1>8, <1>12, NormalizeAsks, Zenon
<1>14. Get(r, Void) = n
  BY <1>7, <1>13, Zenon
<1>15. Get(r, Void) > 0
  BY <1>2, <1>3, <1>14
<1>. QED BY <1>11, <1>13, <1>15, Zenon

\* A die more of the first type in the priority.
LEMMA OmniRaised ==
  ASSUME NEW req, Normal(req), NEW r, r = normalizeCost(appendCost(req, Priority, 1))
  PROVE  Asks(r, Needed(req) + 1)
<1>1. req \in Requirements /\ Once(req) /\ Alone(req)
  BY Zenon DEF Normal
<1>2. PICK p : p = appendCost(req, Priority, 1)
  OBVIOUS
<1>3. 1 \in Nat
  OBVIOUS
<1>4. /\ p \in Requirements /\ Once(p) /\ (Alone(req) => Alone(p))
      /\ SizeIn(p, DiceTypes) = SizeIn(req, DiceTypes) + 1
  BY <1>1, <1>2, <1>3, IncreasedSize
<1>5. Apart(p)
  BY <1>1, <1>4, AloneApart, Zenon
<1>6. r = normalizeCost(p)
  BY <1>2, Zenon
<1>7. Asks(r, SizeIn(p, DiceTypes))
  BY <1>4, <1>5, <1>6, NormalizeAsks, Zenon
<1>8. Needed(req) = SizeIn(req, DiceTypes)
  BY NeededSize, Zenon
<1>. QED BY <1>4, <1>7, <1>8, Zenon

\* As many dice less of whatever type.
LEMMA OmniLowered ==
  ASSUME NEW req, Normal(req), NEW n \in Nat \ {0},
         NEW r, r = normalizeCost(deductCost(req, Priority, n))
  PROVE  Asks(r, Less(Needed(req), n))
<1>1. req \in Requirements /\ Once(req) /\ Alone(req)
  BY Zenon DEF Normal
<1>2. Apart(req)
  BY <1>1, AloneApart, Zenon
<1>3. PICK p : p = deductCost(req, Priority, n)
  OBVIOUS
<1>4. /\ p \in Requirements /\ Once(p) /\ (Apart(req) => Apart(p))
      /\ SizeIn(p, DiceTypes) = Less(SizeIn(req, DiceTypes), n)
  BY <1>1, <1>3, DecreasedSize
<1>5. r = normalizeCost(p)
  BY <1>3, Zenon
<1>6. Asks(r, SizeIn(p, DiceTypes))
  BY <1>2, <1>4, <1>5, NormalizeAsks, Zenon
<1>7. Needed(req) = SizeIn(req, DiceTypes)
  BY NeededSize, Zenon
<1>. QED BY <1>4, <1>6, <1>7, Zenon

\* As many dice less of the types that are named, if they are asked for.
LEMMA TypesLowered ==
  ASSUME NEW req, Normal(req), NEW types, Types(types), NEW n \in Nat \ {0},
         NEW c, c = SizeIn(req, PassedBy(Len(types), types)),
         NEW r, r = normalizeCost(deductCost(req, types, n))
  PROVE  Asks(r, Needed(req) - (IF n < c THEN n ELSE c))
<1>1. req \in Requirements /\ Once(req) /\ Alone(req)
  BY Zenon DEF Normal
<1>2. Apart(req)
  BY <1>1, AloneApart, Zenon
<1>3. PICK p : p = deductCost(req, types, n)
  OBVIOUS
<1>4. PICK last : Deducts(p, last, req, types, n)
  BY <1>1, <1>3, DeductCounts, Zenon
<1>5. p \in Requirements /\ Once(p)
  BY <1>4, Zenon DEF Deducts
<1>6. Apart(p)
  BY <1>1, <1>2, <1>4, DeductApart, Zenon
<1>7. SizeIn(p, DiceTypes) = SizeIn(req, DiceTypes) - (IF n < c THEN n ELSE c)
  BY <1>1, <1>4, SizeOfDeduct
<1>8. r = normalizeCost(p)
  BY <1>3, Zenon
<1>9. Asks(r, SizeIn(p, DiceTypes))
  BY <1>5, <1>6, <1>8, NormalizeAsks, Zenon
<1>10. Needed(req) = SizeIn(req, DiceTypes)
  BY NeededSize, Zenon
<1>. QED BY <1>7, <1>9, <1>10, Zenon

\* Dice of any type less.
LEMMA VoidLowered ==
  ASSUME NEW req, Normal(req), NEW n \in Nat \ {0},
         NEW r, r = normalizeCost(deductCost(req, <<Void>>, n))
  PROVE  Asks(r, Needed(req) - (IF n < Get(req, Void) THEN n ELSE Get(req, Void)))
<1>1. req \in Requirements
  BY Zenon DEF Normal
<1>2. PICK ts : ts = <<Void>>
  OBVIOUS
<1>3. Types(ts) /\ PassedBy(Len(ts), ts) = {Void}
  <2>1. Void \in DiceTypes
    BY DEF DiceTypes
  <2>2. PICK D : D = DiceTypes
    OBVIOUS
  <2>3. ts \in Seq(D) /\ Len(ts) = 1 /\ ts[1] = Void
    BY <1>2, <2>1, <2>2
  <2>. QED BY <2>2, <2>3 DEF Types, PassedBy
<1>4. SizeIn(req, {Void}) = Get(req, Void)
  BY <1>1, SizeOfType
<1>5. Get(req, Void) = SizeIn(req, PassedBy(Len(ts), ts))
  BY <1>3, <1>4, Zenon
<1>6. r = normalizeCost(deductCost(req, ts, n))
  BY <1>2, Zenon
<1>. QED BY <1>3, <1>5, <1>6, TypesLowered

\* Dice of a colour less, and then of any type.
LEMMA ColorLowered ==
  ASSUME NEW req, Normal(req), NEW t \in Colors, NEW n \in Nat \ {0},
         NEW r, r = normalizeCost(deductCost(req, <<t, Void>>, n)),
         NEW c, c = Get(req, t) + Get(req, Void)
  PROVE  Asks(r, Needed(req) - (IF n < c THEN n ELSE c))
<1>1. req \in Requirements
  BY Zenon DEF Normal
<1>2. PICK ts : ts = <<t, Void>>
  OBVIOUS
<1>3. Void \in DiceTypes /\ t \in DiceTypes /\ t # Void
  BY ActionCostConstants DEF DiceTypes, Void
<1>4. Types(ts) /\ PassedBy(Len(ts), ts) = {Void, t}
  <2>2. PICK D : D = DiceTypes
    OBVIOUS
  <2>3. ts \in Seq(D) /\ Len(ts) = 2 /\ ts[1] = t /\ ts[2] = Void
    BY <1>2, <1>3, <2>2
  <2>. QED BY <1>3, <2>2, <2>3 DEF Types, PassedBy
<1>5. SizeIn(req, {Void, t}) = c
  <2>. DEFINE A == {Void, t}
              B == {Void}
  <2>1. A \in SUBSET DiceTypes /\ B \in SUBSET A /\ A \ B = {t}
    BY <1>3
  <2>2. SizeIn(req, A) = SizeIn(req, B) + SizeIn(req, A \ B)
    <3>. HIDE DEF A, B
    <3>. QED BY <1>1, <2>1, SizeSplit
  <2>3. SizeIn(req, B) = Get(req, Void) /\ SizeIn(req, {t}) = Get(req, t)
    BY <1>1, SizeOfType
  <2>4. Get(req, t) \in Nat /\ Get(req, Void) \in Nat
    BY <1>1, GetCount
  <2>5. SizeIn(req, A) = Get(req, Void) + Get(req, t)
    BY <2>1, <2>2, <2>3, Zenon
  <2>. QED BY <2>4, <2>5
<1>6. c = SizeIn(req, PassedBy(Len(ts), ts))
  BY <1>4, <1>5, Zenon
<1>7. r = normalizeCost(deductCost(req, ts, n))
  BY <1>2, Zenon
<1>. QED BY <1>4, <1>6, <1>7, TypesLowered

\* Nothing is asked for any more.
LEMMA AllLowered ==
  ASSUME NEW r, r = normalizeCost(<<>>)
  PROVE  Asks(r, 0)
<1>1. PICK e : e = <<>>
  OBVIOUS
<1>2. DOMAIN e = {}
  BY <1>1
<1>3. e \in Requirements
  <2>. DEFINE E == [type : Needs, count : Nat]
  <2>1. e \in Seq(E)
    <3>. HIDE DEF E
    <3>. QED BY <1>1
  <2>. QED BY <2>1 DEF Requirements
<1>4. Once(e) /\ \A t : Get(e, t) = 0
  BY <1>2 DEF Once, Get, Has
<1>5. Apart(e)
  BY <1>4 DEF Apart
<1>6. SizeIn(e, DiceTypes) = 0
  BY <1>3, <1>4, SizeNone
<1>7. r = normalizeCost(e)
  BY <1>1, Zenon
<1>8. Asks(r, SizeIn(e, DiceTypes))
  BY <1>3, <1>4, <1>5, <1>7, NormalizeAsks, Zenon
<1>. QED BY <1>6, <1>8, Zenon

-----------------------------------------------------------------------------
(***************************************************************************)
(* Attaching to a card.                                                    *)
(***************************************************************************)

\* An attachment as it is kept in the state.
Attachment == [kind : Kind3, layer : Nat \ {0}]

\* The attachments that a card gets.
Attached(as) == as \in Seq(Attachment) /\ OneWay(as)

\* The elements of a sequence.
LEMMA SeqElements ==
  ASSUME NEW A, NEW s \in Seq(A)
  PROVE  DOMAIN s = 1..Len(s) /\ Len(s) \in Nat /\ \A i \in 1..Len(s) : s[i] \in A
OBVIOUS

\* A sequence with another element at i.
IsReplaced(t, A, s, i, a) ==
  /\ t \in Seq(A) /\ Len(t) = Len(s) /\ t[i] = a
  /\ \A j \in 1..Len(s) : j # i => t[j] = s[j]

\* EXCEPT replaces one element.
LEMMA SeqReplaced ==
  ASSUME NEW A, NEW s \in Seq(A), NEW i \in 1..Len(s), NEW a \in A
  PROVE  IsReplaced([s EXCEPT ![i] = a], A, s, i, a)
BY DEF IsReplaced

\* A sequence with one more element.
IsAppended(t, A, s, a) ==
  /\ t \in Seq(A) /\ Len(t) = Len(s) + 1 /\ t[Len(s) + 1] = a
  /\ \A j \in 1..Len(s) : t[j] = s[j]

\* Append adds one element.
LEMMA SeqAppended ==
  ASSUME NEW A, NEW s \in Seq(A), NEW a \in A
  PROVE  IsAppended(Append(s, a), A, s, a)
BY DEF IsAppended

\* A sequence of attachments is one.
LEMMA AttachmentList ==
  ASSUME NEW as \in Seq(Attachment)
  PROVE  /\ Attachments(as) /\ DOMAIN as = 1..Len(as) /\ Len(as) \in Nat
         /\ \A i \in 1..Len(as) : as[i] \in Attachment
<1>1. DOMAIN as = 1..Len(as) /\ Len(as) \in Nat /\ \A i \in 1..Len(as) : as[i] \in Attachment
  BY SeqElements, Zenon
<1>2. \A i \in 1..Len(as) : as[i].kind \in Kind3 /\ as[i].layer \in Nat \ {0}
  <2>1. \A a \in Attachment : a.kind \in Kind3 /\ a.layer \in Nat \ {0}
    BY DEF Attachment
  <2>. QED BY <1>1, <2>1, Zenon
<1>. QED BY <1>1, <1>2, Zenon DEF Attachments

\* bs are the attachments as with a layer more at i.
Deeper(bs, as, i) ==
  /\ Attached(bs) /\ Len(bs) = Len(as)
  /\ \A j \in 1..Len(as) : bs[j].kind = as[j].kind
  /\ bs[i].layer = as[i].layer + 1

\* A layer is added to an attachment that is there.
LEMMA Deepened ==
  ASSUME NEW as, Attached(as), NEW i \in DOMAIN as,
         NEW bs, bs = [as EXCEPT ![i].layer = @ + 1]
  PROVE  Deeper(bs, as, i)
<1>1. as \in Seq(Attachment) /\ OneWay(as)
  BY Zenon DEF Attached
<1>2. DOMAIN as = 1..Len(as) /\ Len(as) \in Nat /\ \A j \in 1..Len(as) : as[j] \in Attachment
  BY <1>1, AttachmentList, Zenon
<1>3. PICK a : a = [as[i] EXCEPT !.layer = @ + 1]
  OBVIOUS
<1>4. as[i] \in Attachment
  BY <1>2, Zenon
<1>5. a \in Attachment /\ a.kind = as[i].kind /\ a.layer = as[i].layer + 1
  <2>1. PICK b : b = as[i]
    OBVIOUS
  <2>2. b \in [kind : Kind3, layer : Nat \ {0}]
    BY <1>4, <2>1, Zenon DEF Attachment
  <2>3. a = [b EXCEPT !.layer = @ + 1]
    BY <1>3, <2>1, Zenon
  <2>4. a \in [kind : Kind3, layer : Nat \ {0}] /\ a.kind = b.kind /\ a.layer = b.layer + 1
    BY <2>2, <2>3
  <2>. QED BY <2>1, <2>4, Zenon DEF Attachment
<1>6. bs = [as EXCEPT ![i] = a]
  BY <1>3, Zenon
<1>7. bs \in Seq(Attachment) /\ Len(bs) = Len(as) /\ bs[i] = a
      /\ \A j \in 1..Len(as) : j # i => bs[j] = as[j]
  <2>1. IsReplaced(bs, Attachment, as, i, a)
    <3>1. i \in 1..Len(as)
      BY <1>2, Zenon
    <3>2. IsReplaced([as EXCEPT ![i] = a], Attachment, as, i, a)
      BY <1>1, <1>5, <3>1, SeqReplaced, Zenon
    <3>. QED BY <1>6, <3>2, Zenon
  <2>. QED BY <2>1, Zenon DEF IsReplaced
<1>8. \A j \in 1..Len(as) : bs[j].kind = as[j].kind
  BY <1>5, <1>7, Zenon
<1>9. OneWay(bs)
  <2>1. Attachments(bs) /\ DOMAIN bs = 1..Len(bs)
    BY <1>7, AttachmentList, Zenon
  <2>2. KindsOn(bs) = KindsOn(as)
    <3>1. DOMAIN bs = DOMAIN as /\ \A j \in DOMAIN as : bs[j].kind = as[j].kind
      BY <1>2, <1>7, <1>8, <2>1, Zenon
    <3>2. \A x : x \in KindsOn(bs) <=> x \in KindsOn(as)
      BY <3>1, Zenon DEF KindsOn
    <3>. QED BY <3>2, Zenon
  <2>3. \A j, k \in 1..Len(bs) : bs[j].kind = bs[k].kind => j = k
    BY <1>1, <1>7, <1>8, Zenon DEF OneWay
  <2>. QED BY <1>1, <2>1, <2>2, <2>3, Zenon DEF OneWay
<1>10. bs[i].layer = as[i].layer + 1
  BY <1>5, <1>7, Zenon
<1>. QED BY <1>7, <1>8, <1>9, <1>10, Zenon DEF Deeper, Attached

\* bs are the attachments as and one more.
Longer(bs, as, k) ==
  /\ Attached(bs) /\ Len(bs) = Len(as) + 1
  /\ \A j \in 1..Len(as) : bs[j] = as[j]
  /\ bs[Len(as) + 1].kind = k /\ bs[Len(as) + 1].layer = 1

\* An attachment that is not there is added at the end.
LEMMA Lengthened ==
  ASSUME NEW as, Attached(as), NEW k \in Kind3 \ KindsOn(as),
         ~({"increase", "decrease"} \subseteq KindsOn(as) \union {k}),
         NEW bs, bs = Append(as, [kind |-> k, layer |-> 1])
  PROVE  Longer(bs, as, k)
<1>1. as \in Seq(Attachment) /\ OneWay(as)
  BY Zenon DEF Attached
<1>2. DOMAIN as = 1..Len(as) /\ Len(as) \in Nat /\ \A j \in 1..Len(as) : as[j] \in Attachment
  BY <1>1, AttachmentList, Zenon
<1>3. PICK a : a = [kind |-> k, layer |-> 1]
  OBVIOUS
<1>4. a \in Attachment /\ a.kind = k /\ a.layer = 1
  BY <1>3 DEF Attachment
<1>5. bs \in Seq(Attachment) /\ Len(bs) = Len(as) + 1 /\ bs[Len(as) + 1] = a
      /\ \A j \in 1..Len(as) : bs[j] = as[j]
  <2>1. bs = Append(as, a)
    BY <1>3, Zenon
  <2>2. IsAppended(Append(as, a), Attachment, as, a)
    BY <1>1, <1>4, SeqAppended, Zenon
  <2>3. IsAppended(bs, Attachment, as, a)
    BY <2>1, <2>2, Zenon
  <2>. QED BY <2>3, Zenon DEF IsAppended
<1>6. PICK m : m = Len(as) + 1
  OBVIOUS
<1>7. m \in 1..Len(bs) /\ \A j \in 1..Len(bs) : j = m \/ j \in 1..Len(as)
  <2>1. PICK n : n = Len(as)
    OBVIOUS
  <2>2. PICK l : l = Len(bs)
    OBVIOUS
  <2>3. n \in Nat /\ l = n + 1 /\ m = n + 1
    BY <1>2, <1>5, <1>6, <2>1, <2>2, Zenon
  <2>4. m \in 1..l /\ \A j \in 1..l : j = m \/ j \in 1..n
    BY <2>3
  <2>. QED BY <2>1, <2>2, <2>4, Zenon
<1>8. \A j \in 1..Len(as) : as[j].kind # k
  <2>1. k \notin KindsOn(as)
    OBVIOUS
  <2>. QED BY <1>2, <2>1, Zenon DEF KindsOn
<1>9. OneWay(bs)
  <2>1. Attachments(bs) /\ DOMAIN bs = 1..Len(bs)
    BY <1>5, AttachmentList, Zenon
  <2>2. KindsOn(bs) \subseteq KindsOn(as) \union {k}
    <3>1. \A j \in 1..Len(bs) : bs[j].kind \in KindsOn(as) \union {k}
      <4>1. \A j \in 1..Len(as) : bs[j].kind \in KindsOn(as)
        BY <1>2, <1>5, Zenon DEF KindsOn
      <4>2. bs[m].kind = k
        BY <1>4, <1>5, <1>6, Zenon
      <4>. QED BY <1>7, <4>1, <4>2, Zenon
    <3>. QED BY <2>1, <3>1, Zenon DEF KindsOn
  <2>3. ASSUME NEW i \in 1..Len(bs), NEW j \in 1..Len(bs), bs[i].kind = bs[j].kind
        PROVE  i = j
    <3>1. CASE i \in 1..Len(as) /\ j \in 1..Len(as)
      <4>1. as[i].kind = as[j].kind
        BY <1>5, <2>3, <3>1, Zenon
      <4>. QED BY <1>1, <3>1, <4>1, Zenon DEF OneWay
    <3>2. CASE i = m /\ j \in 1..Len(as)
      <4>1. bs[i].kind = k /\ bs[j].kind = as[j].kind
        BY <1>4, <1>5, <1>6, <3>2, Zenon
      <4>. QED BY <1>8, <2>3, <3>2, <4>1, Zenon
    <3>3. CASE j = m /\ i \in 1..Len(as)
      <4>1. bs[j].kind = k /\ bs[i].kind = as[i].kind
        BY <1>4, <1>5, <1>6, <3>3, Zenon
      <4>. QED BY <1>8, <2>3, <3>3, <4>1, Zenon
    <3>. QED BY <1>7, <3>1, <3>2, <3>3, Zenon
  <2>. QED BY <2>1, <2>2, <2>3, Zenon DEF OneWay
<1>. QED BY <1>4, <1>5, <1>9, Zenon DEF Longer, Attached

\* Costs that ask for the same.
Alike(b, c) == Needed(b) = Needed(c) /\ Get(b, Energy) = Get(c, Energy)

\* What a card costs with attachments.
LEMMA CardCostNeeded ==
  ASSUME NEW printed, Printed(printed), NEW as, Attached(as),
         NEW c, c = CostOfCard(printed, as)
  PROVE  /\ Normal(c) /\ Needed(c) = SizeIn(c, DiceTypes) /\ Needed(c) \in Nat
         /\ diceCostSize(c) = Needed(c) /\ IsCardCost(c, printed, as)
<1>1. IsCardCost(c, printed, as)
  BY CardCostCounts, Zenon DEF Attached
<1>2. Normal(c)
  BY <1>1, Zenon DEF IsCardCost
<1>3. /\ Needed(c) = SizeIn(c, DiceTypes) /\ diceCostSize(c) = SizeIn(c, DiceTypes)
      /\ Needed(c) \in Nat
  BY <1>2, NeededSize, Zenon
<1>. QED BY <1>1, <1>2, <1>3, Zenon

\* An attachment of kind k makes of the cost c the cost d.
Changes(k, c, d) ==
  /\ k = "increase" => Needed(d) = Needed(c) + 1
  /\ k = "decrease" /\ diceCostSize(c) > 0 => Needed(d) = Needed(c) - 1
  /\ k = "changeType" => Alike(d, c)

\* A layer more of an increase asks for one die more, of a reduction for one
\* die less.
LEMMA DeeperCost ==
  ASSUME NEW printed, Printed(printed), NEW as, Attached(as), NEW i \in 1..Len(as),
         as[i].kind # "changeType", NEW bs, Deeper(bs, as, i),
         NEW c, c = CostOfCard(printed, as), NEW d, d = CostOfCard(printed, bs)
  PROVE  Changes(as[i].kind, c, d)
<1>1. Attached(bs) /\ Len(bs) = Len(as) /\ bs[i].kind = as[i].kind
      /\ bs[i].layer = as[i].layer + 1
  BY Zenon DEF Deeper
<1>2. /\ Needed(c) = SizeIn(c, DiceTypes) /\ Needed(c) \in Nat
      /\ diceCostSize(c) = Needed(c) /\ IsCardCost(c, printed, as)
  BY CardCostNeeded, Zenon
<1>3. Needed(d) = SizeIn(d, DiceTypes) /\ Needed(d) \in Nat /\ IsCardCost(d, printed, bs)
  BY <1>1, CardCostNeeded, Zenon
<1>4. as[i].layer \in Nat \ {0}
  <2>1. Attachments(as)
    BY Zenon DEF Attached, OneWay
  <2>. QED BY <2>1, Zenon DEF Attachments
<1>5. PICK s : s = SizeIn(printed, DiceTypes)
  OBVIOUS
<1>6. s \in Nat
  BY <1>5, SizeOfAll DEF Printed
<1>7. PICK l : l = as[i].layer
  OBVIOUS
<1>8. ASSUME as[i].kind = "increase" PROVE Needed(d) = Needed(c) + 1
  <2>1. Needed(c) = s + l
    BY <1>2, <1>5, <1>7, <1>8, Zenon DEF IsCardCost
  <2>2. Needed(d) = s + (l + 1)
    BY <1>1, <1>3, <1>5, <1>7, <1>8, Zenon DEF IsCardCost
  <2>3. l \in Nat \ {0}
    BY <1>4, <1>7, Zenon
  <2>. QED BY <1>6, <2>1, <2>2, <2>3
<1>9. ASSUME as[i].kind = "decrease", diceCostSize(c) > 0 PROVE Needed(d) = Needed(c) - 1
  <2>1. Needed(c) = Less(s, l)
    BY <1>2, <1>5, <1>7, <1>9, Zenon DEF IsCardCost
  <2>2. Needed(d) = Less(s, l + 1)
    BY <1>1, <1>3, <1>5, <1>7, <1>9, Zenon DEF IsCardCost
  <2>3. Needed(c) > 0
    BY <1>2, <1>9, Zenon
  <2>4. l \in Nat \ {0}
    BY <1>4, <1>7, Zenon
  <2>5. s > l
    BY <1>6, <2>1, <2>3, <2>4 DEF Less
  <2>. QED BY <1>6, <2>1, <2>2, <2>4, <2>5 DEF Less
<1>. QED BY <1>8, <1>9, Zenon DEF Changes

\* So does a new attachment; a change of the type leaves it at that.
LEMMA LongerCost ==
  ASSUME NEW printed, Printed(printed), NEW as, Attached(as), NEW k \in Kind3 \ KindsOn(as),
         ~({"increase", "decrease"} \subseteq KindsOn(as) \union {k}),
         NEW bs, Longer(bs, as, k),
         NEW c, c = CostOfCard(printed, as), NEW d, d = CostOfCard(printed, bs)
  PROVE  Changes(k, c, d)
<1>1. Attached(bs) /\ Len(bs) = Len(as) + 1 /\ (\A j \in 1..Len(as) : bs[j] = as[j])
      /\ bs[Len(as) + 1].kind = k /\ bs[Len(as) + 1].layer = 1
  BY Zenon DEF Longer
<1>2. /\ Needed(c) = SizeIn(c, DiceTypes) /\ Needed(c) \in Nat
      /\ diceCostSize(c) = Needed(c) /\ IsCardCost(c, printed, as)
  BY CardCostNeeded, Zenon
<1>3. Needed(d) = SizeIn(d, DiceTypes) /\ Needed(d) \in Nat /\ IsCardCost(d, printed, bs)
  BY <1>1, CardCostNeeded, Zenon
<1>4. PICK s : s = SizeIn(printed, DiceTypes)
  OBVIOUS
<1>5. s \in Nat
  BY <1>4, SizeOfAll DEF Printed
<1>6. Attachments(as) /\ DOMAIN as = 1..Len(as) /\ Len(as) \in Nat
  BY AttachmentList, Zenon DEF Attached
<1>7. PICK m : m = Len(as) + 1
  OBVIOUS
<1>8. m \in 1..Len(bs) /\ (\A j \in 1..Len(as) : j \in 1..Len(bs))
      /\ \A j \in 1..Len(bs) : j = m \/ j \in 1..Len(as)
  <2>1. PICK n : n = Len(as)
    OBVIOUS
  <2>2. n \in Nat /\ Len(bs) = n + 1 /\ m = n + 1
    BY <1>1, <1>6, <1>7, <2>1, Zenon
  <2>3. m \in 1..Len(bs) /\ (\A j \in 1..n : j \in 1..Len(bs))
        /\ \A j \in 1..Len(bs) : j = m \/ j \in 1..n
    BY <2>2
  <2>. QED BY <2>1, <2>3, Zenon
<1>9. \A j \in 1..Len(as) : as[j].kind \in Kind3 /\ as[j].kind \in KindsOn(as)
  BY <1>6, Zenon DEF Attachments, KindsOn
<1>10. ASSUME k \in {"increase", "decrease"} PROVE Needed(c) = s
  <2>1. \A j \in 1..Len(as) : as[j].kind = "changeType"
    <3>1. SUFFICES ASSUME NEW j \in 1..Len(as), as[j].kind # "changeType" PROVE FALSE
      BY Zenon
    <3>2. PICK x : x = as[j].kind
      OBVIOUS
    <3>3. x \in Kind3 /\ x \in KindsOn(as) /\ x # "changeType" /\ x # k
      BY <1>9, <3>1, <3>2, Zenon
    <3>4. {"increase", "decrease"} \subseteq KindsOn(as) \union {k}
      BY <1>10, <3>3 DEF Kind3
    <3>. QED BY <3>4, Zenon
  <2>. QED BY <1>2, <1>4, <2>1, Zenon DEF IsCardCost
<1>11. ASSUME k = "increase" PROVE Needed(d) = Needed(c) + 1
  <2>1. Needed(d) = s + 1
    BY <1>1, <1>3, <1>4, <1>7, <1>8, <1>11, Zenon DEF IsCardCost
  <2>. QED BY <1>10, <1>11, <2>1
<1>12. ASSUME k = "decrease", diceCostSize(c) > 0 PROVE Needed(d) = Needed(c) - 1
  <2>1. Needed(d) = Less(s, 1)
    BY <1>1, <1>3, <1>4, <1>7, <1>8, <1>12, Zenon DEF IsCardCost
  <2>2. Needed(c) = s
    BY <1>10, <1>12
  <2>3. s > 0
    BY <1>2, <1>12, <2>2, Zenon
  <2>. QED BY <1>5, <2>1, <2>2, <2>3 DEF Less
<1>13. ASSUME k = "changeType" PROVE Alike(d, c)
  <2>1. Get(d, Energy) = Get(c, Energy)
    BY <1>2, <1>3, Zenon DEF IsCardCost
  <2>2. Needed(d) = Needed(c)
    <3>1. CASE \E p \in 1..Len(as) : as[p].kind = "increase"
      <4>1. PICK p \in 1..Len(as) : as[p].kind = "increase"
        BY <3>1
      <4>2. p \in 1..Len(bs) /\ bs[p] = as[p]
        BY <1>1, <1>8, Zenon
      <4>3. Needed(c) = s + as[p].layer
        BY <1>2, <1>4, <4>1, Zenon DEF IsCardCost
      <4>4. Needed(d) = s + as[p].layer
        BY <1>3, <1>4, <4>1, <4>2, Zenon DEF IsCardCost
      <4>. QED BY <4>3, <4>4, Zenon
    <3>2. CASE \E p \in 1..Len(as) : as[p].kind = "decrease"
      <4>1. PICK p \in 1..Len(as) : as[p].kind = "decrease"
        BY <3>2
      <4>2. p \in 1..Len(bs) /\ bs[p] = as[p]
        BY <1>1, <1>8, Zenon
      <4>3. Needed(c) = Less(s, as[p].layer)
        BY <1>2, <1>4, <4>1, Zenon DEF IsCardCost
      <4>4. Needed(d) = Less(s, as[p].layer)
        BY <1>3, <1>4, <4>1, <4>2, Zenon DEF IsCardCost
      <4>. QED BY <4>3, <4>4, Zenon
    <3>3. CASE \A p \in 1..Len(as) : as[p].kind = "changeType"
      <4>1. \A p \in 1..Len(bs) : bs[p].kind = "changeType"
        BY <1>1, <1>7, <1>8, <1>13, <3>3, Zenon
      <4>2. Needed(c) = s /\ Needed(d) = s
        BY <1>2, <1>3, <1>4, <3>3, <4>1, Zenon DEF IsCardCost
      <4>. QED BY <4>2, Zenon
    <3>. QED BY <1>9, <3>1, <3>2, <3>3 DEF Kind3
  <2>. QED BY <2>1, <2>2, Zenon DEF Alike
<1>. QED BY <1>11, <1>12, <1>13, Zenon DEF Changes

-----------------------------------------------------------------------------
(***************************************************************************)
(* The cost in force.                                                      *)
(***************************************************************************)

\* The card has its attachments, and the cost is one of a map that checkDice()
\* reads as it is meant.
CostInv ==
  /\ card \in Costs["card"] /\ kind \in Kinds /\ dice \in Hands
  /\ Attached(attachments)
  /\ Normal(cost)
  /\ kind = "switch" /\ stage = "modifyAction0" => Get(cost, Void) > 0
  /\ kind = "tuning" => Needed(cost) = 1

\* The card in hand costs what is printed on it and what is attached to it.
LEMMA CardInHand ==
  ASSUME CostInv
  PROVE  Printed(card) /\ Asks(normalizeCost(card), SizeIn(card, DiceTypes))
<1>1. "card" \in Kinds
  BY DEF Kinds
<1>2. card \in Costs["card"]
  BY Zenon DEF CostInv
<1>. QED BY <1>1, <1>2, PrintedAsks, Zenon

\* A match begins with the printed cost.
LEMMA InitCost == Init => CostInv
<1>1. SUFFICES ASSUME Init PROVE CostInv
  OBVIOUS
<1>2. card \in Costs["card"] /\ kind = "card" /\ dice \in Hands /\ attachments = <<>>
      /\ cost = normalizeCost(card)
  BY <1>1, Zenon DEF Init
<1>3. kind \in Kinds /\ kind # "switch" /\ kind # "tuning"
  BY <1>2 DEF Kinds
<1>4. Normal(cost)
  BY <1>2, <1>3, PrintedAsks, Zenon DEF Asks
<1>5. Attached(attachments)
  <2>1. DOMAIN attachments = {} /\ Len(attachments) = 0
    BY <1>2
  <2>2. attachments \in Seq(Attachment)
    BY <1>2
  <2>3. Attachments(attachments)
    BY <2>2, AttachmentList, Zenon
  <2>4. OneWay(attachments)
    <3>1. \A i \in 1..Len(attachments) : FALSE
      BY <2>1
    <3>2. KindsOn(attachments) = {}
      BY <2>1 DEF KindsOn
    <3>3. ~({"increase", "decrease"} \subseteq {})
      OBVIOUS
    <3>. QED BY <2>3, <3>1, <3>2, <3>3, Zenon DEF OneWay
  <2>. QED BY <2>2, <2>4, Zenon DEF Attached
<1>. QED BY <1>2, <1>3, <1>4, <1>5, Zenon DEF CostInv

\* An attachment is deeper or new.
LEMMA AttachSteps ==
  ASSUME ~BothWays, CostInv, NEW k \in Kind3, Attach(k)
  PROVE  /\ UNCHANGED <<card, dice, kind, cost, stage>>
         /\ k = "decrease" => diceCostSize(CardCost) > 0
         /\ \/ /\ k # "changeType"
               /\ \E i \in DOMAIN attachments :
                    attachments[i].kind = k /\ Deeper(attachments', attachments, i)
            \/ /\ k \notin KindsOn(attachments)
               /\ ~({"increase", "decrease"} \subseteq KindsOn(attachments) \union {k})
               /\ Longer(attachments', attachments, k)
<1>1. Attached(attachments)
  BY Zenon DEF CostInv
<1>2. UNCHANGED <<card, dice, kind, cost, stage>>
  BY DEF Attach
<1>3. (k = "decrease" => diceCostSize(CardCost) > 0)
      /\ ~({"increase", "decrease"} \subseteq KindsOn(attachments) \union {k})
  BY Zenon DEF Attach
<1>4. CASE k \in KindsOn(attachments)
  <2>1. PICK i \in DOMAIN attachments :
          /\ attachments[i].kind = k /\ k # "changeType"
          /\ attachments' = [attachments EXCEPT ![i].layer = @ + 1]
    BY <1>4, Zenon DEF Attach
  <2>2. Deeper(attachments', attachments, i)
    BY <1>1, <2>1, Deepened, Zenon
  <2>. QED BY <1>2, <1>3, <2>1, <2>2, Zenon
<1>5. CASE k \notin KindsOn(attachments)
  <2>1. attachments' = Append(attachments, [kind |-> k, layer |-> 1])
    BY <1>5, Zenon DEF Attach
  <2>2. k \in Kind3 \ KindsOn(attachments)
    BY <1>5
  <2>3. Longer(attachments', attachments, k)
    BY <1>1, <1>3, <2>1, <2>2, Lengthened, Zenon
  <2>. QED BY <1>2, <1>3, <1>5, <2>3, Zenon
<1>. QED BY <1>4, <1>5

\* No attachment touches the cost in force.
LEMMA AttachKeeps ==
  ASSUME ~BothWays, CostInv, NEW k \in Kind3, Attach(k)
  PROVE  CostInv'
<1>1. UNCHANGED <<card, dice, kind, cost, stage>> /\ Attached(attachments')
  BY AttachSteps, Zenon DEF Deeper, Longer
<1>2. card' = card /\ dice' = dice /\ kind' = kind /\ cost' = cost /\ stage' = stage
  BY <1>1
<1>3. (Normal(cost))' /\ (Get(cost, Void) > 0)' = (Get(cost, Void) > 0)
      /\ Needed(cost') = Needed(cost)
  BY <1>2 DEF CostInv
<1>4. (card \in Costs["card"] /\ kind \in Kinds /\ dice \in Hands)'
  BY <1>2 DEF CostInv
<1>. QED BY <1>1, <1>2, <1>3, <1>4 DEF CostInv

\* The attachments change what a card asks for by what they say.
LEMMA AttachHonest ==
  ASSUME ~BothWays, CostInv, NEW k \in Kind3, Attach(k)
  PROVE  /\ k = "increase" => Needed(CardCostThen) = Needed(CardCost) + 1
         /\ k = "decrease" => Needed(CardCostThen) = Needed(CardCost) - 1
         /\ k = "changeType" => Alike(CardCostThen, CardCost)
<1>1. Printed(card)
  BY CardInHand, Zenon
<1>2. Attached(attachments)
  BY Zenon DEF CostInv
<1>3. PICK c : c = CostOfCard(card, attachments)
  OBVIOUS
<1>4. PICK d : d = CostOfCard(card, attachments')
  OBVIOUS
<1>5. card' = card
  BY AttachSteps, Zenon
<1>6. CardCost = c /\ CardCostThen = d
  BY <1>3, <1>4, <1>5, Zenon DEF CardCost, CardCostThen
<1>7. k = "decrease" => diceCostSize(c) > 0
  BY <1>6, AttachSteps, Zenon
<1>8. CASE /\ k # "changeType"
           /\ \E i \in DOMAIN attachments :
                attachments[i].kind = k /\ Deeper(attachments', attachments, i)
  <2>1. PICK i \in DOMAIN attachments :
          attachments[i].kind = k /\ Deeper(attachments', attachments, i)
    BY <1>8
  <2>2. i \in 1..Len(attachments)
    BY <1>2, AttachmentList, Zenon DEF Attached
  <2>3. Changes(attachments[i].kind, c, d)
    BY <1>1, <1>2, <1>3, <1>4, <1>8, <2>1, <2>2, DeeperCost, Zenon
  <2>. QED BY <1>6, <1>7, <1>8, <2>1, <2>3, Zenon DEF Changes
<1>9. CASE /\ k \notin KindsOn(attachments)
           /\ ~({"increase", "decrease"} \subseteq KindsOn(attachments) \union {k})
           /\ Longer(attachments', attachments, k)
  <2>1. k \in Kind3 \ KindsOn(attachments)
    BY <1>9
  <2>2. Changes(k, c, d)
    BY <1>1, <1>2, <1>3, <1>4, <1>9, <2>1, LongerCost, Zenon
  <2>. QED BY <1>6, <1>7, <2>2, Zenon DEF Changes
<1>. QED BY <1>8, <1>9, AttachSteps, Zenon

\* An action is offered with a cost that is in force.
LEMMA OfferKeeps ==
  ASSUME CostInv, NEW k \in Kinds, NEW printed \in Costs[k], Offer(k, printed)
  PROVE  CostInv'
<1>1. kind' = k /\ card' = card /\ attachments' = attachments /\ dice' = dice
  BY DEF Offer
<1>2. cost' = IF k = "card" THEN CardCost ELSE normalizeCost(printed)
  BY Zenon DEF Offer
<1>3. (card \in Costs["card"] /\ kind \in Kinds /\ dice \in Hands)' /\ Attached(attachments')
  BY <1>1 DEF CostInv
<1>4. CASE k = "card"
  <2>1. cost' = CostOfCard(card, attachments)
    BY <1>2, <1>4, Zenon DEF CardCost
  <2>2. Printed(card) /\ Attached(attachments)
    BY CardInHand, Zenon DEF CostInv
  <2>3. Normal(cost')
    BY <2>1, <2>2, CardCostNeeded, Zenon
  <2>4. k # "switch" /\ k # "tuning"
    BY <1>4
  <2>. QED BY <1>1, <1>3, <2>3, <2>4 DEF CostInv
<1>5. CASE k # "card"
  <2>1. cost' = normalizeCost(printed)
    BY <1>2, <1>5, Zenon
  <2>2. Normal(cost')
    BY <2>1, PrintedAsks, Zenon DEF Asks
  <2>3. CASE k \in {"switch", "tuning"}
    <3>1. Asks(cost', 1) /\ Get(cost', Void) > 0
      BY <2>1, <2>3, OneDie, Zenon
    <3>2. Needed(cost') = 1
      BY <3>1, Zenon DEF Asks
    <3>. QED BY <1>1, <1>3, <2>2, <3>1, <3>2 DEF CostInv
  <2>4. CASE k \notin {"switch", "tuning"}
    <3>. QED BY <1>1, <1>3, <2>2, <2>4 DEF CostInv
  <2>. QED BY <2>3, <2>4
<1>. QED BY <1>4, <1>5

\* A modifier is applied to a cost that is not that of tuning.
LEMMA ModifiedKeeps ==
  ASSUME CostInv, NEW s, NEW ks, NEW new, Modified(s, ks, new), "tuning" \notin ks,
         NEW k, Asks(normalizeCost(new), k),
         "switch" \in ks /\ s = "modifyAction0" => Get(normalizeCost(new), Void) > 0
  PROVE  CostInv' /\ NeedsThen(k)
<1>1. /\ stage = s /\ kind \in ks /\ cost' = normalizeCost(new)
      /\ card' = card /\ attachments' = attachments /\ dice' = dice /\ kind' = kind
      /\ stage' = stage
  BY DEF Modified
<1>2. Normal(cost') /\ Needed(cost') = k
  BY <1>1, Zenon DEF Asks
<1>3. kind = "switch" /\ stage = "modifyAction0" => Get(cost', Void) > 0
  BY <1>1, Zenon
<1>4. kind # "tuning"
  BY <1>1, Zenon
<1>5. (card \in Costs["card"] /\ kind \in Kinds /\ dice \in Hands)' /\ Attached(attachments')
  BY <1>1 DEF CostInv
<1>. QED BY <1>1, <1>2, <1>3, <1>4, <1>5 DEF CostInv, NeedsThen

\* What each modifier does.
LEMMA AddVoid == ASSUME CostInv, addVoidCost PROVE CostInv' /\ NeedsThen(Needed(cost) + 1)
<1>1. PICK new : new = Put(cost, Void, Get(cost, Void) + 1)
  OBVIOUS
<1>2. Modified("modifyAction0", {"switch"}, new)
  BY <1>1, Zenon DEF addVoidCost
<1>3. Normal(cost) /\ Get(cost, Void) > 0
  BY <1>2 DEF CostInv, Modified
<1>4. Asks(normalizeCost(new), Needed(cost) + 1) /\ Get(normalizeCost(new), Void) > 0
  BY <1>1, <1>3, VoidRaised, Zenon
<1>5. "tuning" \notin {"switch"}
  OBVIOUS
<1>. QED BY <1>2, <1>4, <1>5, ModifiedKeeps, Zenon

\* One die more.
LEMMA AddOmni == ASSUME CostInv, addOmniCost PROVE CostInv' /\ NeedsThen(Needed(cost) + 1)
<1>1. PICK new : new = appendCost(cost, Priority, 1)
  OBVIOUS
<1>2. Modified("modifyAction0", {"skill"}, new)
  BY <1>1, Zenon DEF addOmniCost
<1>3. Normal(cost)
  BY Zenon DEF CostInv
<1>4. Asks(normalizeCost(new), Needed(cost) + 1)
  BY <1>1, <1>3, OmniRaised, Zenon
<1>5. "tuning" \notin {"skill"} /\ "switch" \notin {"skill"}
  OBVIOUS
<1>. QED BY <1>2, <1>4, <1>5, ModifiedKeeps, Zenon

\* As many dice of any type less as there are.
LEMMA DeductVoid ==
  ASSUME CostInv, NEW n \in 1..2, deductVoidCost(n)
  PROVE  /\ CostInv'
         /\ NeedsThen(Needed(cost) - (IF n < Get(cost, Void) THEN n ELSE Get(cost, Void)))
<1>1. PICK new : new = deductCost(cost, <<Void>>, n)
  OBVIOUS
<1>2. Modified("modifyAction0", {"skill"}, new)
  BY <1>1, Zenon DEF deductVoidCost
<1>3. Normal(cost) /\ n \in Nat \ {0}
  BY DEF CostInv
<1>4. PICK k : k = Needed(cost) - (IF n < Get(cost, Void) THEN n ELSE Get(cost, Void))
  OBVIOUS
<1>5. Asks(normalizeCost(new), k)
  BY <1>1, <1>3, <1>4, VoidLowered, Zenon
<1>6. "tuning" \notin {"skill"} /\ "switch" \notin {"skill"}
  OBVIOUS
<1>7. CostInv' /\ NeedsThen(k)
  BY <1>2, <1>5, <1>6, ModifiedKeeps, Zenon
<1>. QED BY <1>4, <1>7, Zenon

\* As many less as the colour and dice of any type are.
LEMMA DeductColor ==
  ASSUME CostInv, NEW n \in 1..2, NEW t \in Colors, deductColorCost(t, n)
  PROVE  /\ CostInv'
         /\ NeedsThen(Needed(cost) - (IF n < Get(cost, t) + Get(cost, Void) THEN n
                                      ELSE Get(cost, t) + Get(cost, Void)))
<1>1. PICK new : new = deductCost(cost, <<t, Void>>, n)
  OBVIOUS
<1>2. Modified("modifyAction1", {"skill", "card"}, new)
  BY <1>1, Zenon DEF deductColorCost
<1>3. Normal(cost) /\ n \in Nat \ {0}
  BY DEF CostInv
<1>4. PICK c : c = Get(cost, t) + Get(cost, Void)
  OBVIOUS
<1>5. PICK k : k = Needed(cost) - (IF n < c THEN n ELSE c)
  OBVIOUS
<1>6. Asks(normalizeCost(new), k)
  BY <1>1, <1>3, <1>4, <1>5, ColorLowered, Zenon
<1>7. "tuning" \notin {"skill", "card"} /\ "modifyAction1" # "modifyAction0"
  OBVIOUS
<1>8. CostInv' /\ NeedsThen(k)
  BY <1>2, <1>6, <1>7, ModifiedKeeps, Zenon
<1>. QED BY <1>4, <1>5, <1>8, Zenon

\* As many less as there are.
LEMMA DeductOmni ==
  ASSUME CostInv, NEW n \in 1..2, deductOmniCost(n)
  PROVE  CostInv' /\ NeedsThen(Less(Needed(cost), n))
<1>1. PICK new : new = deductCost(cost, Priority, n)
  OBVIOUS
<1>2. Modified("modifyAction2", {"skill", "card", "switch"}, new)
  BY <1>1, Zenon DEF deductOmniCost
<1>3. Normal(cost) /\ n \in Nat \ {0}
  BY DEF CostInv
<1>4. Asks(normalizeCost(new), Less(Needed(cost), n))
  BY <1>1, <1>3, OmniLowered, Zenon
<1>5. "tuning" \notin {"skill", "card", "switch"} /\ "modifyAction2" # "modifyAction0"
  OBVIOUS
<1>. QED BY <1>2, <1>4, <1>5, ModifiedKeeps, Zenon

\* Nothing left.
LEMMA DeductAll == ASSUME CostInv, deductAllCost PROVE CostInv' /\ NeedsThen(0)
<1>1. Modified("modifyAction3", {"card"}, <<>>)
  BY Zenon DEF deductAllCost
<1>2. Asks(normalizeCost(<<>>), 0)
  BY AllLowered, Zenon
<1>3. "tuning" \notin {"card"} /\ "modifyAction3" # "modifyAction0"
  OBVIOUS
<1>. QED BY <1>1, <1>2, <1>3, ModifiedKeeps, Zenon

\* The action is dealt with.
LEMMA FinishedKeeps ==
  ASSUME CostInv, Finished, card' = card, dice' \in Hands, Attached(attachments')
  PROVE  CostInv'
<1>1. kind' = "card" /\ cost' = normalizeCost(card)
  BY Zenon DEF Finished
<1>2. Normal(cost')
  BY <1>1, CardInHand, Zenon DEF Asks
<1>3. (card \in Costs["card"])' /\ kind' \in Kinds /\ kind' # "switch" /\ kind' # "tuning"
  BY <1>1 DEF CostInv, Kinds
<1>. QED BY <1>2, <1>3 DEF CostInv

\* No attachments.
LEMMA NoneAttached == Attached(<<>>)
<1>1. PICK as : as = <<>>
  OBVIOUS
<1>2. DOMAIN as = {} /\ Len(as) = 0 /\ as \in Seq(Attachment)
  BY <1>1
<1>3. Attachments(as)
  BY <1>2, AttachmentList, Zenon
<1>4. OneWay(as)
  <2>1. \A i \in 1..Len(as) : FALSE
    BY <1>2
  <2>2. KindsOn(as) = {}
    BY <1>2 DEF KindsOn
  <2>3. ~({"increase", "decrease"} \subseteq {})
    OBVIOUS
  <2>. QED BY <1>3, <2>1, <2>2, <2>3, Zenon DEF OneWay
<1>. QED BY <1>1, <1>2, <1>4, Zenon DEF Attached

\* A payment ends the action and leaves a hand of dice.
LEMMA PayKeeps ==
  ASSUME CostInv, NEW used, Pay(used)
  PROVE  CostInv'
<1>1. Finished /\ card' = card
  BY DEF Pay
<1>2. Attached(attachments')
  <2>1. attachments' = <<>> \/ attachments' = attachments
    BY Zenon DEF Pay
  <2>2. Attached(attachments)
    BY Zenon DEF CostInv
  <2>. QED BY <2>1, <2>2, NoneAttached, Zenon
<1>3. dice' \in Hands
  <2>1. dice' = dice \/ \E l : dice' \in resetDice(l)
    <3>1. CASE Legal(used)
      BY <3>1, Zenon DEF Pay, Consume
    <3>2. CASE ~Legal(used)
      <4>1. dice' = dice
        BY <3>2 DEF Pay, Consume
      <4>. QED BY <4>1
    <3>. QED BY <3>1, <3>2
  <2>2. CASE dice' = dice
    BY <2>2 DEF CostInv
  <2>3. CASE \E l : dice' \in resetDice(l)
    BY <2>3, Zenon DEF resetDice
  <2>. QED BY <2>1, <2>2, <2>3
<1>. QED BY <1>1, <1>2, <1>3, FinishedKeeps, Zenon

\* Every action keeps the cost well formed.
LEMMA NextCost ==
  ASSUME ~BothWays, CostInv, [Next]_vars
  PROVE  CostInv'
<1>1. ASSUME NEW k \in {"increase", "decrease", "changeType"}, Attach(k) PROVE CostInv'
  BY <1>1, AttachKeeps, Zenon DEF Kind3
<1>2. ASSUME NEW k \in Kinds, NEW printed \in Costs[k], Offer(k, printed) PROVE CostInv'
  BY <1>2, OfferKeeps, Zenon
<1>3. ASSUME Modify PROVE CostInv'
  BY <1>3, AddVoid, AddOmni, DeductVoid, DeductColor, DeductOmni, DeductAll, Zenon DEF Modify
<1>4. ASSUME NextStage PROVE CostInv'
  <2>1. UNCHANGED <<card, attachments, dice, kind, cost>> /\ stage' = After[stage]
        /\ stage \in DOMAIN After
    BY <1>4 DEF NextStage
  <2>2. stage' # "modifyAction0"
    BY <2>1 DEF After
  <2>. QED BY <2>1, <2>2 DEF CostInv
<1>5. ASSUME NEW used \in Hands, Pay(used) PROVE CostInv'
  BY <1>5, PayKeeps, Zenon
<1>6. ASSUME Decline PROVE CostInv'
  <2>1. Finished /\ card' = card /\ dice' = dice /\ attachments' = attachments
    BY <1>6 DEF Decline
  <2>2. dice' \in Hands /\ Attached(attachments')
    BY <2>1, Zenon DEF CostInv
  <2>. QED BY <2>1, <2>2, FinishedKeeps, Zenon
<1>7. ASSUME UNCHANGED vars PROVE CostInv'
  BY <1>7 DEF vars, CostInv
<1>. QED BY <1>1, <1>2, <1>3, <1>4, <1>5, <1>6, <1>7, Zenon DEF Next

\* The inductive invariant of costs.
LEMMA CostInvariant == ASSUME ~BothWays PROVE Spec => []CostInv
<1>1. Init => CostInv
  BY InitCost
<1>2. CostInv /\ [Next]_vars => CostInv'
  BY NextCost
<1>. QED BY <1>1, <1>2, PTL DEF Spec

\* The cost in force has no zero that checkDice() would take for a requirement
\* of aligned dice, and a requirement of aligned dice asks for no other dice:
\* for all printed costs and any number of attachments and modifiers.
THEOREM CostsAreNormal == ASSUME ~BothWays PROVE Spec => []NormalForm
<1>1. CostInv => NormalForm
  <2>1. SUFFICES ASSUME CostInv PROVE NormalForm
    OBVIOUS
  <2>2. Normal(cost)
    BY <2>1, Zenon DEF CostInv
  <2>3. /\ Has(cost, Aligned) => diceCostSize(cost) = Get(cost, Aligned)
        /\ Needed(cost) = SizeIn(cost, DiceTypes)
    BY <2>2, NeededSize, Zenon
  <2>4. cost \in Requirements /\ Once(cost)
    BY <2>2, Zenon DEF Normal
  <2>5. ASSUME NEW i \in DOMAIN cost PROVE cost[i].count > 0 \/ Needed(cost) = 0
    <3>1. Has(cost, cost[i].type) /\ Get(cost, cost[i].type) = cost[i].count
      BY <2>4, GetEntry, Zenon
    <3>2. CASE \A t : Has(cost, t) => Get(cost, t) > 0
      BY <3>1, <3>2, Zenon
    <3>3. CASE \A t \in DiceTypes : Get(cost, t) = 0
      BY <2>3, <2>4, <3>3, SizeNone, Zenon
    <3>. QED BY <2>2, <3>2, <3>3, Zenon DEF Normal
  <2>. QED BY <2>3, <2>5, Zenon DEF NormalForm
<1>. QED BY <1>1, CostInvariant, PTL

\* A modifier changes the number of dice that are asked for by what its text
\* says: addVoidCost and addOmniCost by one, a deduction by what it can take off
\* the types it names, for all printed costs and whatever came before it.
THEOREM ModifiersDoAsTheySay == ASSUME ~BothWays PROVE Spec => ModifiersAreHonest
<1>1. CostInv => (addVoidCost \/ addOmniCost => NeedsThen(Needed(cost) + 1))
  BY AddVoid, AddOmni, Zenon
<1>2. CostInv => (deductAllCost => NeedsThen(0))
  BY DeductAll, Zenon
<1>3. CostInv => \A n \in 1..2 :
        /\ deductVoidCost(n) => NeedsThen(Needed(cost)
             - (IF n < Get(cost, Void) THEN n ELSE Get(cost, Void)))
        /\ deductOmniCost(n) => NeedsThen(Less(Needed(cost), n))
        /\ \A t \in Colors : deductColorCost(t, n) => NeedsThen(Needed(cost)
             - (IF n < Get(cost, t) + Get(cost, Void) THEN n
                ELSE Get(cost, t) + Get(cost, Void)))
  BY DeductVoid, DeductOmni, DeductColor, Zenon
<1>. QED BY <1>1, <1>2, <1>3, CostInvariant, PTL DEF ModifiersAreHonest

\* CostIncrease makes a card one die dearer per layer, CostReduction one die
\* cheaper, Empowerment changes neither the number of dice nor the energy: for
\* all printed costs and in whatever order they were attached.
THEOREM AttachmentsDoAsTheySay == ASSUME ~BothWays PROVE Spec => AttachmentsAreHonest
<1>1. CostInv => (Attach("increase") => Needed(CardCostThen) = Needed(CardCost) + 1)
  BY AttachHonest, Zenon DEF Kind3
<1>2. CostInv => (Attach("decrease") => Needed(CardCostThen) = Needed(CardCost) - 1)
  BY AttachHonest, Zenon DEF Kind3
<1>3. CostInv => (Attach("changeType") =>
        /\ Needed(CardCostThen) = Needed(CardCost)
        /\ Get(CardCostThen, Energy) = Get(CardCost, Energy))
  BY AttachHonest, Zenon DEF Kind3, Alike
<1>. QED BY <1>1, <1>2, <1>3, CostInvariant, PTL DEF AttachmentsAreHonest

-----------------------------------------------------------------------------
(***************************************************************************)
(* Dice that are removed.                                                  *)
(***************************************************************************)

\* What a die shows.
Dice == Colors \union {Omni}

\* The dice of a player are a sequence.
LEMMA HandDice ==
  ASSUME NEW s \in Hands
  PROVE  s \in Seq(Dice)
<1>1. PICK n \in 0..MaxDice : s \in [1..n -> Dice]
  BY DEF Hands, Dice
<1>2. n \in Nat
  BY <1>1
<1>. QED BY <1>1, <1>2

\* Where s has d.
At(s, d) == {i \in DOMAIN s : s[i] = d}

\* A sequence has finitely many elements of a kind, at its positions.
LEMMA AtFinite ==
  ASSUME NEW S, NEW s \in Seq(S), NEW d
  PROVE  /\ IsFiniteSet(At(s, d)) /\ CountOf(s, d) = Cardinality(At(s, d))
         /\ CountOf(s, d) \in Nat
<1>1. DOMAIN s = 1..Len(s) /\ Len(s) \in Nat
  BY SeqElements, Zenon
<1>2. PICK n : n = Len(s)
  OBVIOUS
<1>3. 1 \in Int /\ n \in Int
  BY <1>1, <1>2
<1>4. IsFiniteSet(1..n)
  BY <1>3, FS_Interval
<1>5. At(s, d) \in SUBSET (1..n)
  BY <1>1, <1>2 DEF At
<1>6. IsFiniteSet(At(s, d))
  BY <1>4, <1>5, FS_Subset
<1>7. CountOf(s, d) = Cardinality(At(s, d))
  BY Zenon DEF CountOf, At
<1>. QED BY <1>6, <1>7, FS_CardinalityType

\* Of d there is one less in t than in s, if that is what s has at i.
OneLess(t, s, i, d) == CountOf(s, d) = CountOf(t, d) + (IF s[i] = d THEN 1 ELSE 0)

\* Without the element at i there is one less of its kind.
LEMMA RemovedCount ==
  ASSUME NEW S, NEW s \in Seq(S), NEW i \in 1..Len(s), NEW t, t = RemoveAt(s, i), NEW d
  PROVE  OneLess(t, s, i, d)
<1>1. IsRemoval(t, S, s, i)
  BY RemoveAtElements, Zenon
<1>2. /\ t \in Seq(S) /\ Len(t) = Len(s) - 1 /\ Len(s) \in Nat
      /\ \A j \in 1..i - 1 : t[j] = s[j]
      /\ \A j \in i..Len(s) - 1 : t[j] = s[j + 1]
  BY <1>1, Zenon DEF IsRemoval
<1>3. DOMAIN s = 1..Len(s) /\ DOMAIN t = 1..Len(t) /\ Len(t) \in Nat
  BY <1>2, SeqElements, Zenon
<1>4. PICK n : n = Len(s)
  OBVIOUS
<1>5. n \in Nat /\ i \in 1..n /\ Len(t) = n - 1
  BY <1>2, <1>4, Zenon
<1>. DEFINE at(j) == IF j < i THEN j ELSE j + 1
            A == At(t, d)
            B == At(s, d) \ {i}
            f == [j \in A |-> at(j)]
<1>6. ASSUME NEW j \in 1..n - 1
      PROVE  at(j) \in 1..n /\ at(j) # i /\ t[j] = s[at(j)]
  BY <1>2, <1>4, <1>5
<1>7. A \subseteq 1..n - 1 /\ B \subseteq 1..n
  BY <1>3, <1>4, <1>5 DEF At
<1>8. ASSUME NEW j \in A PROVE at(j) \in B
  <2>1. j \in 1..n - 1 /\ t[j] = d
    BY <1>7 DEF At
  <2>2. at(j) \in DOMAIN s /\ s[at(j)] = d /\ at(j) # i
    <3>. HIDE DEF at
    <3>. QED BY <1>3, <1>4, <1>6, <2>1, Zenon
  <2>. HIDE DEF at
  <2>. QED BY <2>2 DEF At
<1>9. ASSUME NEW j \in A, NEW k \in A, at(j) = at(k) PROVE j = k
  BY <1>5, <1>7, <1>9
<1>10. ASSUME NEW k \in B PROVE \E j \in A : at(j) = k
  <2>1. k \in 1..n /\ k # i /\ s[k] = d
    BY <1>7 DEF At
  <2>2. PICK j : j = IF k < i THEN k ELSE k - 1
    OBVIOUS
  <2>3. j \in 1..n - 1 /\ at(j) = k
    BY <1>5, <2>1, <2>2
  <2>4. t[j] = d
    <3>. HIDE DEF at
    <3>. QED BY <1>6, <2>1, <2>3, Zenon
  <2>5. j \in DOMAIN t
    BY <1>3, <1>5, <2>3, Zenon
  <2>6. j \in A
    BY <2>4, <2>5 DEF At
  <2>. QED BY <2>3, <2>6
<1>11. ExistsBijection(A, B)
  <2>. HIDE DEF at, A, B
  <2>1. f \in [A -> B] /\ (\A j \in A : f[j] = at(j))
    BY <1>8
  <2>. HIDE DEF f
  <2>2. f \in Bijection(A, B)
    BY <1>9, <1>10, <2>1 DEF Bijection, Injection, Surjection, IsInjective
  <2>. QED BY <2>2, Zenon DEF ExistsBijection
<1>12. /\ IsFiniteSet(At(s, d)) /\ CountOf(s, d) = Cardinality(At(s, d))
       /\ CountOf(s, d) \in Nat
  BY AtFinite, Zenon
<1>13. IsFiniteSet(A) /\ CountOf(t, d) = Cardinality(A) /\ CountOf(t, d) \in Nat
  BY <1>2, AtFinite, Zenon
<1>14. Cardinality(B) = CountOf(t, d)
  <2>. HIDE DEF A, B
  <2>. QED BY <1>11, <1>13, FS_Bijection
<1>15. CASE s[i] = d
  <2>1. i \in At(s, d)
    BY <1>3, <1>15 DEF At
  <2>2. Cardinality(B) = Cardinality(At(s, d)) - 1
    BY <1>12, <2>1, FS_RemoveElement
  <2>. HIDE DEF B
  <2>. QED BY <1>12, <1>13, <1>14, <1>15, <2>2 DEF OneLess
<1>16. CASE s[i] # d
  <2>1. B = At(s, d)
    BY <1>16 DEF At
  <2>. HIDE DEF B
  <2>. QED BY <1>12, <1>13, <1>14, <1>16, <2>1 DEF OneLess
<1>. QED BY <1>15, <1>16

\* The first e is removed.
LEMMA FirstRemoved ==
  ASSUME NEW S, NEW s \in Seq(S), NEW e, \E i \in 1..Len(s) : s[i] = e
  PROVE  \E i \in 1..Len(s) : s[i] = e /\ RemoveFirst(s, e) = RemoveAt(s, i)
<1>. DEFINE I == {i \in 1..Len(s) : s[i] = e}
<1>1. I # {} /\ I \in SUBSET Nat
  OBVIOUS
<1>2. SelectInSeq(s, LAMBDA v : v = e) = Min(I)
  BY <1>1, Zenon DEF SelectInSeq
<1>3. PICK x \in I : \A y \in I : x <= y
  <2>. HIDE DEF I
  <2>. QED BY <1>1, LeastElement
<1>4. Min(I) \in I
  BY <1>3, Zenon DEF Min
<1>5. RemoveFirst(s, e) = RemoveAt(s, Min(I))
  BY <1>2, Zenon DEF RemoveFirst
<1>. QED BY <1>4, <1>5

\* Without the first e, if there is one.
LEMMA FirstRemovedList ==
  ASSUME NEW S, NEW s \in Seq(S), NEW e
  PROVE  RemoveFirst(s, e) \in Seq(S)
<1>1. CASE \E i \in 1..Len(s) : s[i] = e
  <2>1. PICK i \in 1..Len(s) : s[i] = e /\ RemoveFirst(s, e) = RemoveAt(s, i)
    BY <1>1, FirstRemoved, Zenon
  <2>2. IsRemoval(RemoveAt(s, i), S, s, i)
    BY RemoveAtElements, Zenon
  <2>. QED BY <2>1, <2>2, Zenon DEF IsRemoval
<1>2. CASE ~\E i \in 1..Len(s) : s[i] = e
  BY <1>2, Zenon DEF RemoveFirst
<1>. QED BY <1>1, <1>2

\* f[k] is what is left when the first k dice are removed.
Leaves(f, held, used) ==
  /\ f \in [0..Len(used) -> Seq(Dice)] /\ f[0] = held
  /\ \A k \in 1..Len(used) : f[k] = RemoveFirst(f[k - 1], used[k])

\* One die less for each that is used.
RemoveStep(used) == [k \in 1..Len(used) |-> [r \in Seq(Dice) |-> RemoveFirst(r, used[k])]]

\* The steps are functions on dice.
LEMMA RemoveStepType ==
  ASSUME NEW used
  PROVE  RemoveStep(used) \in [1..Len(used) -> [Seq(Dice) -> Seq(Dice)]]
<1>1. PICK R : R = Seq(Dice)
  OBVIOUS
<1>. DEFINE new(r, k) == RemoveFirst(r, used[k])
<1>2. \A r \in R : \A k : new(r, k) \in R
  BY <1>1, FirstRemovedList, Zenon
<1>3. RemoveStep(used) = [k \in 1..Len(used) |-> [r \in R |-> new(r, k)]]
  BY <1>1, Zenon DEF RemoveStep
<1>4. RemoveStep(used) \in [1..Len(used) -> [R -> R]]
  <2>. HIDE DEF new
  <2>. QED BY <1>2, <1>3
<1>. QED BY <1>1, <1>4, Zenon

\* What a step removes.
LEMMA RemoveStepValue ==
  ASSUME NEW used, NEW k \in 1..Len(used), NEW r \in Seq(Dice)
  PROVE  RemoveStep(used)[k][r] = RemoveFirst(r, used[k])
BY Zenon DEF RemoveStep

\* The dice that are named are removed one by one.
LEMMA WithoutLeaves ==
  ASSUME NEW held \in Seq(Dice), NEW used \in Seq(Dice)
  PROVE  \E f : Leaves(f, held, used) /\ without(held, used) = f[Len(used)]
<1>. DEFINE Is(f) == f = [k \in 0..Len(used) |->
                            IF k = 0 THEN held ELSE RemoveFirst(f[k - 1], used[k])]
<1>1. PICK n : n = Len(used)
  OBVIOUS
<1>2. n \in Nat
  BY <1>1, SeqElements, Zenon
<1>3. PICK R : R = Seq(Dice)
  OBVIOUS
<1>4. RemoveStep(used) \in [1..n -> [R -> R]] /\ held \in R
  BY <1>1, <1>3, RemoveStepType, Zenon
<1>5. PICK g : GoesOn(g, R, n, held, RemoveStep(used))
  BY <1>2, <1>4, Recursion, Zenon
<1>6. Is(g)
  <2>1. ASSUME NEW k \in 1..n PROVE g[k] = RemoveFirst(g[k - 1], used[k])
    <3>1. g[k - 1] \in R /\ g[k] = RemoveStep(used)[k][g[k - 1]]
      <4>1. g \in [0..n -> R] /\ \A j \in 1..n : g[j] = RemoveStep(used)[j][g[j - 1]]
        BY <1>5, Zenon DEF GoesOn
      <4>2. k - 1 \in 0..n
        BY <1>2
      <4>3. g[k - 1] \in R
        BY <4>1, <4>2
      <4>. QED BY <4>1, <4>3, Zenon
    <3>. QED BY <1>1, <1>3, <3>1, RemoveStepValue, Zenon
  <2>2. g[0] = held /\ g = [k \in 0..n |-> g[k]]
    BY <1>5 DEF GoesOn
  <2>3. \A k \in 0..n : k = 0 \/ k \in 1..n
    BY <1>2
  <2>. QED BY <1>1, <2>1, <2>2, <2>3, Zenon
<1>7. PICK f : Is(f) /\ without(held, used) = f[Len(used)]
  <2>. DEFINE h == CHOOSE f : Is(f)
  <2>1. Is(h)
    BY <1>6, Zenon
  <2>2. without(held, used) = h[Len(used)]
    BY Zenon DEF without
  <2>. QED BY <2>1, <2>2, Zenon
<1>8. /\ f[0] = held /\ f = [k \in 0..n |-> f[k]]
      /\ \A k \in 1..n : f[k] = RemoveFirst(f[k - 1], used[k])
  <2>. DEFINE now(k) == RemoveFirst(f[k - 1], used[k])
              new == [k \in 0..n |-> IF k = 0 THEN held ELSE now(k)]
  <2>1. f = new
    BY <1>1, <1>7, Zenon
  <2>2. /\ new[0] = held /\ new = [k \in 0..n |-> new[k]]
        /\ \A k \in 1..n : new[k] = now(k)
    <3>. HIDE DEF now
    <3>. QED BY <1>2
  <2>. HIDE DEF new
  <2>. QED BY <2>1, <2>2
<1>9. \A k \in 1..n : f[k - 1] \in R => f[k] = RemoveStep(used)[k][f[k - 1]]
  BY <1>1, <1>3, <1>8, RemoveStepValue, Zenon
<1>10. GoesOn(f, R, n, held, RemoveStep(used))
  BY <1>2, <1>4, <1>8, <1>9, RecursionType, Zenon
<1>11. f \in [0..n -> R]
  BY <1>10, Zenon DEF GoesOn
<1>12. Leaves(f, held, used)
  BY <1>1, <1>3, <1>8, <1>11, Zenon DEF Leaves
<1>. QED BY <1>7, <1>12, Zenon

\* The first k elements that are d.
AtUpTo(s, k, d) == {i \in 1..k : s[i] = d}

\* They grow with each d, to all that there are.
LEMMA UpToCounts ==
  ASSUME NEW S, NEW s \in Seq(S), NEW d
  PROVE  /\ \A k \in 0..Len(s) : /\ Cardinality(AtUpTo(s, k, d)) \in Nat
                                 /\ Cardinality(AtUpTo(s, k, d)) <= CountOf(s, d)
         /\ Cardinality(AtUpTo(s, 0, d)) = 0
         /\ Cardinality(AtUpTo(s, Len(s), d)) = CountOf(s, d)
         /\ \A k \in 1..Len(s) : Cardinality(AtUpTo(s, k, d))
              = Cardinality(AtUpTo(s, k - 1, d)) + (IF s[k] = d THEN 1 ELSE 0)
<1>1. IsFiniteSet(At(s, d)) /\ CountOf(s, d) = Cardinality(At(s, d)) /\ CountOf(s, d) \in Nat
  BY AtFinite, Zenon
<1>2. DOMAIN s = 1..Len(s) /\ Len(s) \in Nat
  BY SeqElements, Zenon
<1>3. PICK n : n = Len(s)
  OBVIOUS
<1>4. n \in Nat /\ DOMAIN s = 1..n
  BY <1>2, <1>3, Zenon
<1>5. ASSUME NEW k \in 0..n
      PROVE  /\ IsFiniteSet(AtUpTo(s, k, d)) /\ Cardinality(AtUpTo(s, k, d)) \in Nat
             /\ Cardinality(AtUpTo(s, k, d)) <= CountOf(s, d)
  <2>1. AtUpTo(s, k, d) \in SUBSET At(s, d)
    BY <1>4 DEF AtUpTo, At
  <2>2. IsFiniteSet(AtUpTo(s, k, d)) /\ Cardinality(AtUpTo(s, k, d)) <= Cardinality(At(s, d))
    BY <1>1, <2>1, FS_Subset
  <2>. QED BY <1>1, <2>2, FS_CardinalityType
<1>6. Cardinality(AtUpTo(s, 0, d)) = 0
  <2>1. AtUpTo(s, 0, d) = {}
    BY DEF AtUpTo
  <2>. QED BY <2>1, FS_EmptySet
<1>7. AtUpTo(s, n, d) = At(s, d)
  BY <1>4 DEF AtUpTo, At
<1>8. ASSUME NEW k \in 1..n
      PROVE  Cardinality(AtUpTo(s, k, d))
               = Cardinality(AtUpTo(s, k - 1, d)) + (IF s[k] = d THEN 1 ELSE 0)
  <2>1. PICK j : j = k - 1
    OBVIOUS
  <2>2. j \in 0..n
    BY <1>4, <2>1
  <2>3. IsFiniteSet(AtUpTo(s, j, d)) /\ Cardinality(AtUpTo(s, j, d)) \in Nat
    BY <1>5, <2>2, Zenon
  <2>4. CASE s[k] = d
    <3>1. AtUpTo(s, k, d) = AtUpTo(s, j, d) \union {k} /\ k \notin AtUpTo(s, j, d)
      BY <1>4, <2>1, <2>4 DEF AtUpTo
    <3>2. Cardinality(AtUpTo(s, j, d) \union {k}) = Cardinality(AtUpTo(s, j, d)) + 1
      BY <2>3, <3>1, FS_AddElement
    <3>. QED BY <2>1, <2>4, <3>1, <3>2, Zenon
  <2>5. CASE s[k] # d
    <3>1. AtUpTo(s, k, d) = AtUpTo(s, j, d)
      BY <1>4, <2>1, <2>5 DEF AtUpTo
    <3>. QED BY <2>1, <2>3, <2>5, <3>1
  <2>. QED BY <2>4, <2>5
<1>. QED BY <1>1, <1>3, <1>5, <1>6, <1>7, <1>8, Zenon

\* left is held without the dice that are used.
Spent(left, held, used) ==
  /\ left \in Seq(Dice) /\ Len(held) = Len(left) + Len(used)
  /\ \A d : CountOf(held, d) = CountOf(left, d) + CountOf(used, d)

\* Dice that are held are removed, each of them, and no others.
LEMMA WithoutSpent ==
  ASSUME NEW held \in Seq(Dice), NEW used \in Seq(Dice),
         \A d \in Range(used) : CountOf(used, d) <= CountOf(held, d)
  PROVE  Spent(without(held, used), held, used)
<1>1. PICK f : Leaves(f, held, used) /\ without(held, used) = f[Len(used)]
  BY WithoutLeaves, Zenon
<1>2. PICK n : n = Len(used)
  OBVIOUS
<1>3. n \in Nat /\ DOMAIN used = 1..n /\ Len(held) \in Nat
  BY <1>2, SeqElements, Zenon
<1>4. PICK R : R = Seq(Dice)
  OBVIOUS
<1>5. f \in [0..n -> R] /\ f[0] = held
      /\ \A k \in 1..n : f[k] = RemoveFirst(f[k - 1], used[k])
  BY <1>1, <1>2, <1>4, Zenon DEF Leaves
<1>. DEFINE C(k, d) == Cardinality(AtUpTo(used, k, d))
            Now(k) == /\ Len(held) = Len(f[k]) + k
                      /\ \A d : CountOf(held, d) = CountOf(f[k], d) + C(k, d)
            T == {k \in 0..n : Now(k)}
<1>6. \A d : /\ \A k \in 0..n : C(k, d) \in Nat /\ C(k, d) <= CountOf(used, d)
             /\ C(0, d) = 0 /\ C(n, d) = CountOf(used, d)
             /\ \A k \in 1..n : C(k, d) = C(k - 1, d) + (IF used[k] = d THEN 1 ELSE 0)
  <2>1. SUFFICES ASSUME NEW d
                 PROVE  /\ \A k \in 0..n : C(k, d) \in Nat /\ C(k, d) <= CountOf(used, d)
                        /\ C(0, d) = 0 /\ C(n, d) = CountOf(used, d)
                        /\ \A k \in 1..n : C(k, d)
                             = C(k - 1, d) + (IF used[k] = d THEN 1 ELSE 0)
    BY Zenon
  <2>. QED BY <1>2, UpToCounts, Zenon
<1>7. \A d : CountOf(held, d) \in Nat /\ CountOf(used, d) \in Nat
  BY AtFinite, Zenon
<1>. HIDE DEF C
<1>8. 0 \in T
  BY <1>3, <1>5, <1>6, <1>7
<1>9. ASSUME NEW k \in 0..n - 1, k \in T PROVE k + 1 \in T
  <2>1. PICK l : l = k + 1
    OBVIOUS
  <2>2. l \in 1..n /\ l - 1 = k /\ k \in 0..n /\ l \in 0..n
    BY <1>3, <2>1
  <2>3. f[k] \in R /\ f[l] = RemoveFirst(f[k], used[l])
    BY <1>5, <2>2
  <2>4. Now(k)
    BY <1>9, Zenon
  <2>5. PICK s : s = f[k]
    OBVIOUS
  <2>6. s \in Seq(Dice)
    BY <1>4, <2>3, <2>5, Zenon
  <2>7. PICK e : e = used[l]
    OBVIOUS
  <2>8. \A d : CountOf(s, d) \in Nat
    BY <2>6, AtFinite, Zenon
  <2>9. C(l, e) = C(k, e) + 1 /\ C(l, e) <= CountOf(used, e) /\ C(k, e) \in Nat
    <3>1. C(l, e) = C(l - 1, e) + (IF used[l] = e THEN 1 ELSE 0)
      BY <1>6, <2>2
    <3>2. C(l, e) = C(k, e) + 1
      BY <2>2, <2>7, <3>1
    <3>. QED BY <1>6, <2>2, <3>2
  <2>10. CountOf(used, e) <= CountOf(held, e)
    <3>1. e \in Range(used)
      BY <1>3, <2>2, <2>7 DEF Range
    <3>. QED BY <3>1
  <2>11. CountOf(s, e) > 0
    <3>1. CountOf(held, e) = CountOf(s, e) + C(k, e)
      BY <2>4, <2>5, Zenon
    <3>. QED BY <1>7, <2>8, <2>9, <2>10, <3>1
  <2>12. \E i \in 1..Len(s) : s[i] = e
    <3>1. At(s, e) # {}
      <4>1. CountOf(s, e) = Cardinality(At(s, e))
        BY <2>6, AtFinite, Zenon
      <4>2. PICK c : c = CountOf(s, e)
        OBVIOUS
      <4>3. ASSUME At(s, e) = {} PROVE FALSE
        <5>1. c = 0
          BY <4>1, <4>2, <4>3, FS_EmptySet, Zenon
        <5>. QED BY <2>11, <4>2, <5>1
      <4>. QED BY <4>3
    <3>2. DOMAIN s = 1..Len(s)
      BY <2>6, SeqElements, Zenon
    <3>. QED BY <3>1, <3>2, Zenon DEF At
  <2>13. PICK i \in 1..Len(s) : s[i] = e /\ RemoveFirst(s, e) = RemoveAt(s, i)
    BY <2>6, <2>12, FirstRemoved, Zenon
  <2>14. f[l] = RemoveAt(s, i)
    BY <2>3, <2>5, <2>7, <2>13, Zenon
  <2>15. Len(f[l]) = Len(s) - 1 /\ Len(s) \in Nat
    <3>1. IsRemoval(f[l], Dice, s, i)
      BY <2>6, <2>14, RemoveAtElements, Zenon
    <3>. QED BY <3>1, Zenon DEF IsRemoval
  <2>16. \A d : OneLess(f[l], s, i, d)
    BY <2>6, <2>14, RemovedCount, Zenon
  <2>17. ASSUME NEW d PROVE CountOf(held, d) = CountOf(f[l], d) + C(l, d)
    <3>1. CountOf(held, d) = CountOf(s, d) + C(k, d)
      BY <2>4, <2>5, Zenon
    <3>2. C(l, d) = C(k, d) + (IF e = d THEN 1 ELSE 0) /\ C(k, d) \in Nat
      BY <1>6, <2>2, <2>7
    <3>3. CountOf(s, d) = CountOf(f[l], d) + (IF e = d THEN 1 ELSE 0)
      BY <2>13, <2>16, Zenon DEF OneLess
    <3>4. CountOf(f[l], d) \in Nat
      <4>1. f[l] \in Seq(Dice)
        BY <1>4, <1>5, <2>2
      <4>. QED BY <4>1, AtFinite, Zenon
    <3>. QED BY <3>1, <3>2, <3>3, <3>4
  <2>18. Len(held) = Len(f[l]) + l
    <3>1. Len(held) = Len(s) + k
      BY <2>4, <2>5, Zenon
    <3>. QED BY <1>3, <2>1, <2>2, <2>15, <3>1
  <2>19. Now(l)
    BY <2>17, <2>18, Zenon
  <2>. QED BY <2>1, <2>2, <2>19, Zenon
<1>10. \A k \in 0..n : k \in T
  <2>. HIDE DEF T
  <2>. QED BY <1>3, <1>8, <1>9, BoundedInduction
<1>11. n \in 0..n
  BY <1>3
<1>12. Now(n) /\ f[n] \in Seq(Dice)
  <2>1. f[n] \in Seq(Dice)
    BY <1>4, <1>5, <1>11
  <2>. QED BY <1>10, <1>11, <2>1, Zenon
<1>13. Spent(f[n], held, used)
  BY <1>2, <1>6, <1>12, Zenon DEF Spent
<1>. QED BY <1>1, <1>2, <1>13, Zenon

\* One die more is one more of its kind.
LEMMA AppendedCount ==
  ASSUME NEW s \in Seq(Dice), NEW e \in Dice, NEW d
  PROVE  CountOf(Append(s, e), d) = CountOf(s, d) + (IF e = d THEN 1 ELSE 0)
<1>1. PICK t : t = Append(s, e)
  OBVIOUS
<1>2. IsAppended(t, Dice, s, e)
  BY <1>1, SeqAppended, Zenon
<1>3. /\ t \in Seq(Dice) /\ Len(t) = Len(s) + 1 /\ t[Len(s) + 1] = e
      /\ \A j \in 1..Len(s) : t[j] = s[j]
  BY <1>2, Zenon DEF IsAppended
<1>4. DOMAIN s = 1..Len(s) /\ Len(s) \in Nat /\ DOMAIN t = 1..Len(t)
  BY <1>3, SeqElements, Zenon
<1>5. PICK n : n = Len(s)
  OBVIOUS
<1>6. n \in Nat /\ DOMAIN s = 1..n /\ DOMAIN t = 1..n + 1 /\ t[n + 1] = e
      /\ \A j \in 1..n : t[j] = s[j]
  BY <1>3, <1>4, <1>5, Zenon
<1>7. IsFiniteSet(At(s, d)) /\ CountOf(s, d) = Cardinality(At(s, d)) /\ CountOf(s, d) \in Nat
  BY AtFinite, Zenon
<1>8. CountOf(t, d) = Cardinality(At(t, d))
  BY <1>3, AtFinite, Zenon
<1>9. CASE e = d
  <2>1. At(t, d) = At(s, d) \union {n + 1} /\ n + 1 \notin At(s, d)
    BY <1>6, <1>9 DEF At
  <2>2. Cardinality(At(s, d) \union {n + 1}) = Cardinality(At(s, d)) + 1
    BY <1>7, <2>1, FS_AddElement
  <2>. QED BY <1>1, <1>7, <1>8, <1>9, <2>1, <2>2, Zenon
<1>10. CASE e # d
  <2>1. At(t, d) = At(s, d)
    BY <1>6, <1>10 DEF At
  <2>2. CountOf(t, d) = CountOf(s, d) + 0
    BY <1>7, <1>8, <2>1
  <2>. QED BY <1>1, <1>10, <2>2, Zenon
<1>. QED BY <1>9, <1>10

\* The dice of the player are a hand, and to tune costs one die, whatever is
\* attached to the card.
HandInv == dice \in Hands /\ (kind = "tuning" => Needed(cost) = 1)

\* A payment leaves a hand.
LEMMA PaidHand ==
  ASSUME HandInv, NEW used, Pay(used)
  PROVE  dice' \in Hands /\ kind' = "card"
<1>1. kind' = "card"
  BY Zenon DEF Pay, Finished
<1>2. CASE dice' = dice
  BY <1>1, <1>2 DEF HandInv
<1>3. CASE dice' # dice
  <2>1. CASE Legal(used)
    BY <1>1, <2>1, Zenon DEF Pay, Consume, resetDice
  <2>2. CASE ~Legal(used)
    <3>1. dice' = dice
      BY <2>2 DEF Pay, Consume
    <3>. QED BY <1>3, <3>1
  <2>. QED BY <2>1, <2>2
<1>. QED BY <1>2, <1>3

\* Every action keeps it: the cost of tuning is never modified.
LEMMA HandInvariant == Spec => []HandInv
<1>1. Init => HandInv
  <2>1. SUFFICES ASSUME Init PROVE HandInv
    OBVIOUS
  <2>2. dice \in Hands /\ kind = "card"
    BY <2>1, Zenon DEF Init
  <2>. QED BY <2>2 DEF HandInv
<1>2. HandInv /\ [Next]_vars => HandInv'
  <2>1. SUFFICES ASSUME HandInv, [Next]_vars PROVE HandInv'
    OBVIOUS
  <2>2. ASSUME NEW k \in {"increase", "decrease", "changeType"}, Attach(k) PROVE HandInv'
    BY <2>1, <2>2 DEF Attach, HandInv
  <2>3. ASSUME NEW k \in Kinds, NEW printed \in Costs[k], Offer(k, printed) PROVE HandInv'
    <3>1. kind' = k /\ dice' = dice
          /\ cost' = IF k = "card" THEN CardCost ELSE normalizeCost(printed)
      BY <2>3, Zenon DEF Offer
    <3>2. ASSUME k = "tuning" PROVE Needed(cost') = 1
      <4>1. cost' = normalizeCost(printed) /\ k \in {"switch", "tuning"}
        BY <3>1, <3>2
      <4>2. Asks(normalizeCost(printed), 1)
        BY <4>1, OneDie, Zenon
      <4>. QED BY <4>1, <4>2, Zenon DEF Asks
    <3>. QED BY <2>1, <3>1, <3>2 DEF HandInv
  <2>4. ASSUME Modify PROVE HandInv'
    <3>1. kind \in {"skill", "card", "switch"} /\ kind' = kind /\ dice' = dice
      <4>1. PICK s, ks, new : ks \in SUBSET {"skill", "card", "switch"} /\ Modified(s, ks, new)
        <5>1. {"switch"} \in SUBSET {"skill", "card", "switch"}
              /\ {"skill"} \in SUBSET {"skill", "card", "switch"}
              /\ {"card"} \in SUBSET {"skill", "card", "switch"}
              /\ {"skill", "card"} \in SUBSET {"skill", "card", "switch"}
          OBVIOUS
        <5>2. CASE addVoidCost \/ addOmniCost \/ deductAllCost
          BY <5>1, <5>2, Zenon DEF addVoidCost, addOmniCost, deductAllCost
        <5>3. CASE \E n \in 1..2 : deductVoidCost(n) \/ deductOmniCost(n)
                                   \/ \E t \in Colors : deductColorCost(t, n)
          BY <5>1, <5>3, Zenon DEF deductVoidCost, deductOmniCost, deductColorCost
        <5>. QED BY <2>4, <5>2, <5>3, Zenon DEF Modify
      <4>2. kind \in ks /\ kind' = kind /\ dice' = dice
        BY <4>1 DEF Modified
      <4>. QED BY <4>1, <4>2
    <3>2. kind' # "tuning"
      BY <3>1
    <3>. QED BY <2>1, <3>1, <3>2 DEF HandInv
  <2>5. ASSUME NextStage PROVE HandInv'
    BY <2>1, <2>5 DEF NextStage, HandInv
  <2>6. ASSUME NEW used \in Hands, Pay(used) PROVE HandInv'
    <3>1. dice' \in Hands /\ kind' = "card"
      BY <2>1, <2>6, PaidHand
    <3>. QED BY <3>1 DEF HandInv
  <2>7. ASSUME Decline PROVE HandInv'
    BY <2>1, <2>7 DEF Decline, Finished, HandInv
  <2>8. ASSUME UNCHANGED vars PROVE HandInv'
    BY <2>1, <2>8 DEF vars, HandInv
  <2>. QED BY <2>1, <2>2, <2>3, <2>4, <2>5, <2>6, <2>7, <2>8, Zenon DEF Next
<1>. QED BY <1>1, <1>2, PTL DEF Spec

\* The answer is legal when the dice change, and they are what is left.
LEMMA PaidDice ==
  ASSUME HandInv, NEW used \in Hands, Pay(used), dice' # dice
  PROVE  /\ Legal(used) /\ Len(used) = Needed(cost)
         /\ Spent(without(dice, used), dice, used)
         /\ IsPermutationOf(dice', IF kind = "tuning" THEN Append(without(dice, used), TunesTo)
                                                      ELSE without(dice, used))
<1>1. Legal(used)
  <2>1. CASE ~Legal(used)
    <3>1. dice' = dice
      BY <2>1 DEF Pay, Consume
    <3>. QED BY <3>1
  <2>. QED BY <2>1
<1>2. IsPermutationOf(dice', IF kind = "tuning" THEN Append(without(dice, used), TunesTo)
                                                ELSE without(dice, used))
  BY <1>1, Zenon DEF Pay, Consume, resetDice
<1>3. Len(used) = Needed(cost)
  <2>1. checkDice(cost, used)
    BY <1>1, Zenon DEF Legal
  <2>. QED BY <2>1, Zenon DEF checkDice, Needed
<1>4. used \in Seq(Dice) /\ dice \in Seq(Dice)
  BY HandDice, Zenon DEF HandInv
<1>5. \A d \in Range(used) : CountOf(used, d) <= CountOf(dice, d)
  BY <1>1, Zenon DEF Legal
<1>6. Spent(without(dice, used), dice, used)
  BY <1>4, <1>5, WithoutSpent, Zenon
<1>. QED BY <1>1, <1>2, <1>3, <1>6, Zenon

\* What a payment takes.
LEMMA PayExact ==
  ASSUME HandInv, NEW used \in Hands, Pay(used), dice' # dice
  PROVE  IF kind = "tuning"
         THEN \E d \in Colors \ {TunesTo} :
                /\ CountOf(dice', TunesTo) = CountOf(dice, TunesTo) + 1
                /\ CountOf(dice', d) + 1 = CountOf(dice, d)
                /\ CountOf(dice', Omni) = CountOf(dice, Omni)
         ELSE /\ Len(dice') + Needed(cost) = Len(dice)
              /\ \A d \in Colors \union {Omni} : CountOf(dice', d) <= CountOf(dice, d)
<1>1. PICK rest : rest = without(dice, used)
  OBVIOUS
<1>2. /\ Legal(used) /\ Len(used) = Needed(cost) /\ Spent(rest, dice, used)
      /\ IsPermutationOf(dice', IF kind = "tuning" THEN Append(rest, TunesTo) ELSE rest)
  BY <1>1, PaidDice, Zenon
<1>3. /\ rest \in Seq(Dice) /\ Len(dice) = Len(rest) + Len(used)
      /\ \A d : CountOf(dice, d) = CountOf(rest, d) + CountOf(used, d)
  BY <1>2, Zenon DEF Spent
<1>4. used \in Seq(Dice)
  BY HandDice, Zenon
<1>5. \A d : CountOf(rest, d) \in Nat /\ CountOf(used, d) \in Nat
  BY <1>3, <1>4, AtFinite, Zenon
<1>6. CASE kind # "tuning"
  <2>1. Len(dice') = Len(rest) /\ \A d \in Dice : CountOf(dice', d) = CountOf(rest, d)
    BY <1>2, <1>6, Zenon DEF IsPermutationOf, Dice
  <2>2. Len(dice') + Needed(cost) = Len(dice)
    BY <1>2, <1>3, <2>1, Zenon
  <2>3. ASSUME NEW d \in Dice PROVE CountOf(dice', d) <= CountOf(dice, d)
    <3>1. CountOf(dice, d) = CountOf(rest, d) + CountOf(used, d)
          /\ CountOf(dice', d) = CountOf(rest, d)
      BY <1>3, <2>1, Zenon
    <3>. QED BY <1>5, <3>1
  <2>. QED BY <1>6, <2>2, <2>3, Zenon DEF Dice
<1>7. CASE kind = "tuning"
  <2>1. \A d \in Dice : CountOf(dice', d) = CountOf(Append(rest, TunesTo), d)
    BY <1>2, <1>7, Zenon DEF IsPermutationOf, Dice
  <2>2. Len(used) = 1
    BY <1>2, <1>7, Zenon DEF HandInv
  <2>3. PICK e : e = used[1]
    OBVIOUS
  <2>4. TunesTo \in Colors /\ TunesTo # Omni /\ Omni \notin Colors
    BY ActionCostConstants DEF Omni
  <2>5. e \in Colors \ {TunesTo} /\ e # Omni
    <3>1. e \notin {Omni, TunesTo}
      BY <1>2, <1>7, <2>3, Zenon DEF Legal
    <3>2. \A i \in 1..Len(used) : used[i] \in Dice
      BY <1>4, SeqElements, Zenon
    <3>3. 1 \in 1..1
      OBVIOUS
    <3>4. e \in Dice
      BY <2>2, <2>3, <3>2, <3>3, Zenon
    <3>. QED BY <3>1, <3>4 DEF Dice
  <2>6. \A d : CountOf(used, d) = IF e = d THEN 1 ELSE 0
    <3>1. SUFFICES ASSUME NEW d PROVE CountOf(used, d) = IF e = d THEN 1 ELSE 0
      BY Zenon
    <3>2. PICK n : n = 1
      OBVIOUS
    <3>3. n = Len(used) /\ n \in 1..n /\ n - 1 = 0
      BY <2>2, <3>2
    <3>4. /\ Cardinality(AtUpTo(used, 0, d)) = 0
          /\ Cardinality(AtUpTo(used, Len(used), d)) = CountOf(used, d)
          /\ \A k \in 1..Len(used) : Cardinality(AtUpTo(used, k, d))
               = Cardinality(AtUpTo(used, k - 1, d)) + (IF used[k] = d THEN 1 ELSE 0)
      BY <1>4, UpToCounts, Zenon
    <3>5. CountOf(used, d) = 0 + (IF used[n] = d THEN 1 ELSE 0)
      BY <3>3, <3>4, Zenon
    <3>. QED BY <2>3, <3>2, <3>5
  <2>7. ASSUME NEW d \in Dice
        PROVE  CountOf(dice, d) + (IF TunesTo = d THEN 1 ELSE 0)
                 = CountOf(dice', d) + (IF e = d THEN 1 ELSE 0)
    <3>1. TunesTo \in Dice
      BY <2>4 DEF Dice
    <3>2. CountOf(dice', d) = CountOf(rest, d) + (IF TunesTo = d THEN 1 ELSE 0)
      BY <1>3, <2>1, <3>1, AppendedCount, Zenon
    <3>3. CountOf(dice, d) = CountOf(rest, d) + (IF e = d THEN 1 ELSE 0)
      BY <1>3, <2>6, Zenon
    <3>. QED BY <1>5, <3>2, <3>3
  <2>8. \A d \in Dice : CountOf(dice, d) \in Nat /\ CountOf(dice', d) \in Nat
    <3>1. dice \in Seq(Dice) /\ dice' \in Seq(Dice)
      BY PaidHand, HandDice, Zenon DEF HandInv
    <3>. QED BY <3>1, AtFinite, Zenon
  <2>9. TunesTo \in Dice /\ e \in Dice /\ Omni \in Dice
    BY <2>4, <2>5 DEF Dice
  <2>10. CountOf(dice', TunesTo) = CountOf(dice, TunesTo) + 1
    BY <2>5, <2>7, <2>8, <2>9
  <2>11. CountOf(dice', e) + 1 = CountOf(dice, e)
    BY <2>5, <2>7, <2>8, <2>9
  <2>12. CountOf(dice', Omni) = CountOf(dice, Omni)
    BY <2>4, <2>5, <2>7, <2>8, <2>9
  <2>. QED BY <1>7, <2>5, <2>10, <2>11, <2>12, Zenon
<1>. QED BY <1>6, <1>7

\* A payment takes from the player the dice that his action needs, one by one,
\* and no others; tuning turns one of his dice into one of the element: for all
\* hands, costs, attachments and answers.
THEOREM PaymentsAreExact == Spec => PaidExactly
<1>1. HandInv /\ [Next]_vars =>
        (stage = "pay" /\ dice' # dice =>
         IF kind = "tuning"
         THEN \E d \in Colors \ {TunesTo} :
                /\ CountOf(dice', TunesTo) = CountOf(dice, TunesTo) + 1
                /\ CountOf(dice', d) + 1 = CountOf(dice, d)
                /\ CountOf(dice', Omni) = CountOf(dice, Omni)
         ELSE /\ Len(dice') + Needed(cost) = Len(dice)
              /\ \A d \in Colors \union {Omni} : CountOf(dice', d) <= CountOf(dice, d))
  <2>1. ASSUME HandInv, [Next]_vars, dice' # dice
        PROVE  \E used \in Hands : Pay(used)
    <3>1. ASSUME NEW k \in {"increase", "decrease", "changeType"} PROVE ~Attach(k)
      BY <2>1 DEF Attach
    <3>2. ASSUME NEW k \in Kinds, NEW printed \in Costs[k] PROVE ~Offer(k, printed)
      BY <2>1 DEF Offer
    <3>3. ~Modify
      BY <2>1, Zenon DEF Modify, addVoidCost, addOmniCost, deductAllCost, deductVoidCost,
                  deductOmniCost, deductColorCost, Modified
    <3>4. ~NextStage /\ ~Decline /\ vars' # vars
      BY <2>1 DEF NextStage, Decline, vars
    <3>. QED BY <2>1, <3>1, <3>2, <3>3, <3>4, Zenon DEF Next
  <2>. QED BY <2>1, PayExact, Zenon
<1>. QED BY <1>1, HandInvariant, PTL DEF PaidExactly, Spec

-----------------------------------------------------------------------------
(***************************************************************************)
(* What checkDice() accepts is a payment.                                  *)
(***************************************************************************)

\* The units of colours for which s has no die of the colour.
Lacking(req, s) == {u \in Units(req) : u[1] \in Colors /\ u[2] > CountOf(s, u[1])}

\* Units are pairs of a type and a number up to the count.
LEMMA UnitShape ==
  ASSUME NEW req \in Requirements, Once(req)
  PROVE  /\ IsFiniteSet(Units(req))
         /\ \A u \in Units(req) : /\ u[1] \in DiceTypes /\ u[2] \in Nat /\ u = <<u[1], u[2]>>
                                  /\ 1 <= u[2] /\ u[2] <= Get(req, u[1])
         /\ \A t \in DiceTypes : OfType(Units(req), t) = UnitsIn(req, {t})
<1>1. Units(req) = UnitsIn(req, DiceTypes)
  BY UnitsOf, Zenon
<1>2. IsFiniteSet(UnitsIn(req, DiceTypes))
  BY UnitsFinite
<1>3. ASSUME NEW u \in UnitsIn(req, DiceTypes)
      PROVE  /\ u[1] \in DiceTypes /\ u[2] \in Nat /\ u = <<u[1], u[2]>>
             /\ 1 <= u[2] /\ u[2] <= Get(req, u[1])
  BY DEF UnitsIn
<1>4. ASSUME NEW t \in DiceTypes
      PROVE  OfType(UnitsIn(req, DiceTypes), t) = UnitsIn(req, {t})
  BY DEF UnitsIn, OfType
<1>. QED BY <1>1, <1>2, <1>3, <1>4, Zenon

\* The first n units of a type.
LEMMA FirstUnits ==
  ASSUME NEW t, NEW n \in Nat
  PROVE  /\ IsFiniteSet({<<t, j>> : j \in 1..n})
         /\ Cardinality({<<t, j>> : j \in 1..n}) = n
<1>. DEFINE P == {<<t, j>> : j \in 1..n}
            f == [j \in 1..n |-> <<t, j>>]
<1>1. f \in [1..n -> P] /\ (\A i, j \in 1..n : f[i] = f[j] => i = j)
      /\ \A u \in P : \E j \in 1..n : f[j] = u
  OBVIOUS
<1>2. ExistsBijection(1..n, P)
  <2>. HIDE DEF f, P
  <2>1. f \in Bijection(1..n, P)
    BY <1>1, Fun_IsBij
  <2>. QED BY <2>1, Zenon DEF ExistsBijection
<1>3. IsFiniteSet(1..n) /\ Cardinality(1..n) = n
  <2>1. n \in Int /\ 1 \in Int /\ (IF 1 > n THEN 0 ELSE n - 1 + 1) = n
    OBVIOUS
  <2>. QED BY <2>1, FS_Interval
<1>4. IsFiniteSet(P) /\ Cardinality(P) = Cardinality(1..n)
  <2>. HIDE DEF P
  <2>. QED BY <1>2, <1>3, FS_Bijection
<1>. QED BY <1>3, <1>4

\* As many units of a colour lack a die as the colour has too few.
LEMMA LackingOfType ==
  ASSUME NEW req \in Requirements, Once(req), NEW s \in Seq(Dice), NEW t \in Colors
  PROVE  Cardinality(OfType(Lacking(req, s), t)) = Less(Get(req, t), CountOf(s, t))
<1>1. PICK g, c : g = Get(req, t) /\ c = CountOf(s, t)
  OBVIOUS
<1>2. g \in Nat /\ c \in Nat
  BY <1>1, GetCount, AtFinite
<1>3. PICK U : U = UnitsIn(req, {t})
  OBVIOUS
<1>4. IsFiniteSet(U) /\ Cardinality(U) = g
  BY <1>1, <1>3, TypeUnits
<1>5. OfType(Units(req), t) = U
  <2>1. t \in DiceTypes
    BY DEF DiceTypes
  <2>. QED BY <1>3, <2>1, UnitShape
<1>6. OfType(Lacking(req, s), t) = {u \in U : u[2] > c}
  BY <1>1, <1>5 DEF Lacking, OfType
<1>7. \A u : u \in U <=> \E j \in 1..g : u = <<t, j>>
  <2>1. \A u : u \in U <=> \E n \in Nat : u = <<t, n>> /\ 1 <= n /\ n <= g
    BY <1>1, <1>3 DEF UnitsIn
  <2>. QED BY <1>2, <2>1
<1>8. CASE g < c
  <2>1. {u \in U : u[2] > c} = {}
    BY <1>2, <1>7, <1>8
  <2>. QED BY <1>1, <1>6, <1>8, <2>1, FS_EmptySet DEF Less
<1>9. CASE ~(g < c)
  <2>. DEFINE L == {<<t, j>> : j \in 1..c}
  <2>1. U \cap L = L /\ {u \in U : u[2] > c} = U \ L
    <3>1. \A u \in L : u \in U /\ ~(u[2] > c)
      BY <1>2, <1>7, <1>9
    <3>2. \A u \in U : u \in L \/ u[2] > c
      BY <1>2, <1>7
    <3>. HIDE DEF L
    <3>. QED BY <3>1, <3>2
  <2>2. Cardinality(L) = c
    BY <1>2, FirstUnits
  <2>. HIDE DEF L
  <2>3. Cardinality(U \ L) = Cardinality(U) - Cardinality(U \cap L)
    BY <1>4, FS_Difference
  <2>4. Cardinality(U \ L) = g - c
    BY <1>4, <2>1, <2>2, <2>3
  <2>. QED BY <1>1, <1>6, <1>9, <2>1, <2>4 DEF Less
<1>. QED BY <1>8, <1>9

\* The dice s can be dealt out to the units of req.
Dealt(f, s, req) ==
  /\ f \in Injection(DOMAIN s, Units(req))
  /\ \A i \in DOMAIN s : f[i][1] = Void \/ s[i] \in {f[i][1], Omni}

\* Without aligned dice, that is what it means to pay.
LEMMA PaysDealt ==
  ASSUME NEW req \in Requirements, Once(req), ~Has(req, Aligned), NEW s \in Seq(Dice)
  PROVE  Pays(s, req) <=> Len(s) = diceCostSize(req) /\ \E f : Dealt(f, s, req)
<1>1. \A u \in Units(req) : u[1] # Aligned
  <2>1. SUFFICES ASSUME NEW u \in Units(req), u[1] = Aligned PROVE FALSE
    BY Zenon
  <2>2. Get(req, Aligned) > 0
    <3>1. u[2] \in Nat /\ 1 <= u[2] /\ u[2] <= Get(req, u[1])
      BY UnitShape, Zenon
    <3>2. Get(req, Aligned) \in Nat
      BY GetCount
    <3>. QED BY <2>1, <3>1, <3>2
  <2>. QED BY <2>2, GetCount
<1>2. TunesTo \in Colors
  BY ActionCostConstants
<1>3. ASSUME NEW f \in Injection(DOMAIN s, Units(req)), NEW c \in Colors, NEW i \in DOMAIN s
      PROVE  (CASE f[i][1] = Void    -> TRUE
                [] f[i][1] = Aligned -> s[i] \in {c, Omni}
                [] OTHER             -> s[i] \in {f[i][1], Omni})
             <=> f[i][1] = Void \/ s[i] \in {f[i][1], Omni}
  <2>1. f[i] \in Units(req)
    BY Fun_InjectionProperties
  <2>2. f[i][1] # Aligned
    BY <1>1, <2>1, Zenon
  <2>3. CASE f[i][1] = Void
    BY <2>2, <2>3
  <2>4. CASE f[i][1] # Void
    BY <2>2, <2>4
  <2>. QED BY <2>3, <2>4
<1>. QED BY <1>2, <1>3, Zenon DEF Pays, Dealt

\* Dice that can be dealt out lack no more than they have omni dice.
LEMMA DealtLacking ==
  ASSUME NEW req \in Requirements, Once(req), ~Has(req, Aligned), NEW s \in Seq(Dice),
         Len(s) = diceCostSize(req), NEW f, Dealt(f, s, req)
  PROVE  Cardinality(Lacking(req, s)) <= CountOf(s, Omni)
<1>1. f \in [DOMAIN s -> Units(req)] /\ \A i, j \in DOMAIN s : f[i] = f[j] => i = j
  BY Fun_InjectionProperties DEF Dealt
<1>2. \A i \in DOMAIN s : f[i][1] = Void \/ s[i] \in {f[i][1], Omni}
  BY Zenon DEF Dealt
<1>3. PICK U : U = Units(req)
  OBVIOUS
<1>4. /\ IsFiniteSet(U) /\ Cardinality(U) = diceCostSize(req)
      /\ \A u \in U : u[1] \in DiceTypes
      /\ \A t \in DiceTypes : OfType(U, t) = UnitsIn(req, {t})
  BY <1>3, UnitShape, Zenon DEF diceCostSize
<1>5. \A u \in U : \E i \in DOMAIN s : f[i] = u
  <2>1. IsFiniteSet(DOMAIN s) /\ Cardinality(DOMAIN s) = Len(s)
    <3>1. PICK n : n = Len(s)
      OBVIOUS
    <3>2. n \in Nat /\ DOMAIN s = 1..n
      BY <3>1, SeqElements, Zenon
    <3>3. n \in Int /\ 1 \in Int /\ (IF 1 > n THEN 0 ELSE n - 1 + 1) = n
      BY <3>2
    <3>. QED BY <3>1, <3>2, <3>3, FS_Interval
  <2>2. f \in Injection(DOMAIN s, U)
    BY <1>3, Zenon DEF Dealt
  <2>3. f \in Surjection(DOMAIN s, U)
    BY <1>4, <2>1, <2>2, FS_Injection
  <2>. QED BY <2>3, Fun_SurjectionProperties
\* The omni dice that stand for a colour, and the units they are dealt to.
<1>. DEFINE P == {i \in At(s, Omni) : f[i][1] \in Colors}
            N == {f[i] : i \in P}
<1>6. IsFiniteSet(At(s, Omni)) /\ CountOf(s, Omni) = Cardinality(At(s, Omni))
      /\ CountOf(s, Omni) \in Nat
  BY AtFinite, Zenon
<1>7. IsFiniteSet(P) /\ Cardinality(P) <= CountOf(s, Omni) /\ Cardinality(P) \in Nat
      /\ P \subseteq DOMAIN s
  <2>1. P \in SUBSET At(s, Omni) /\ P \subseteq DOMAIN s
    BY DEF At
  <2>. HIDE DEF P
  <2>. QED BY <1>6, <2>1, FS_Subset, FS_CardinalityType
<1>8. IsFiniteSet(N) /\ Cardinality(N) = Cardinality(P) /\ N \subseteq U
  <2>. HIDE DEF P
  <2>1. N \subseteq U
    BY <1>1, <1>3, <1>7
  <2>. DEFINE g == [i \in P |-> f[i]]
  <2>2. g \in [P -> N] /\ (\A t \in N : \E i \in P : g[i] = t)
    OBVIOUS
  <2>3. \A i, j \in P : g[i] = g[j] => i = j
    BY <1>1, <1>7
  <2>4. ExistsBijection(P, N)
    <3>. HIDE DEF g, N
    <3>1. g \in Bijection(P, N)
      BY <2>2, <2>3, Fun_IsBij
    <3>. QED BY <3>1, Zenon DEF ExistsBijection
  <2>. HIDE DEF N
  <2>. QED BY <1>7, <2>1, <2>4, FS_Bijection
<1>9. ASSUME NEW t \in Colors
      PROVE  Less(Get(req, t), CountOf(s, t)) <= Cardinality(OfType(N, t))
             /\ Cardinality(OfType(N, t)) \in Nat
  <2>1. t \in DiceTypes /\ t # Void /\ t # Omni
    BY ActionCostConstants DEF DiceTypes, Void, Omni
  <2>2. PICK T : T = OfType(U, t)
    OBVIOUS
  <2>3. IsFiniteSet(T) /\ Cardinality(T) = Get(req, t)
    BY <1>4, <2>1, <2>2, TypeUnits
  <2>. DEFINE M == {i \in At(s, t) : f[i] \in T}
              R == {f[i] : i \in M}
  <2>4. IsFiniteSet(At(s, t)) /\ CountOf(s, t) = Cardinality(At(s, t)) /\ CountOf(s, t) \in Nat
    BY AtFinite, Zenon
  <2>5. IsFiniteSet(M) /\ Cardinality(M) <= CountOf(s, t) /\ M \subseteq DOMAIN s
        /\ Cardinality(M) \in Nat
    <3>1. M \in SUBSET At(s, t) /\ M \subseteq DOMAIN s
      BY DEF At
    <3>. HIDE DEF M
    <3>. QED BY <2>4, <3>1, FS_Subset, FS_CardinalityType
  <2>6. IsFiniteSet(R) /\ Cardinality(R) <= Cardinality(M) /\ Cardinality(R) \in Nat
    <3>. DEFINE g == [i \in M |-> f[i]]
    <3>1. g \in [M -> R] /\ \A x \in R : \E i \in M : g[i] = x
      OBVIOUS
    <3>2. g \in Surjection(M, R)
      <4>. HIDE DEF M, R, g
      <4>. QED BY <3>1, Fun_IsSurj
    <3>. HIDE DEF M, R, g
    <3>. QED BY <2>5, <3>2, FS_Surjection, FS_CardinalityType
  <2>7. OfType(N, t) \in SUBSET N
    BY DEF OfType
  <2>8. IsFiniteSet(OfType(N, t)) /\ Cardinality(OfType(N, t)) \in Nat
    <3>. HIDE DEF N
    <3>. QED BY <1>8, <2>7, FS_Subset, FS_CardinalityType
  <2>9. T \in SUBSET (R \union OfType(N, t))
    <3>1. SUFFICES ASSUME NEW u \in T PROVE u \in R \union OfType(N, t)
      BY Zenon
    <3>2. u \in U /\ u[1] = t
      BY <2>2, <3>1 DEF OfType
    <3>3. PICK i \in DOMAIN s : f[i] = u
      BY <1>5, <3>2, Zenon
    <3>4. s[i] \in {t, Omni}
      BY <1>2, <2>1, <3>2, <3>3
    <3>5. CASE s[i] = t
      <4>1. i \in M
        BY <3>3, <3>5 DEF At
      <4>. QED BY <3>3, <4>1
    <3>6. CASE s[i] = Omni
      <4>1. i \in P
        BY <3>2, <3>3, <3>6 DEF At
      <4>2. u \in N
        BY <3>3, <4>1
      <4>. QED BY <3>2, <4>2 DEF OfType
    <3>. QED BY <3>4, <3>5, <3>6
  <2>10. Cardinality(T) <= Cardinality(R) + Cardinality(OfType(N, t))
    <3>1. PICK V : V = OfType(N, t)
      OBVIOUS
    <3>. HIDE DEF R, N
    <3>2. IsFiniteSet(R \union V) /\ Cardinality(R \union V)
            = Cardinality(R) + Cardinality(V) - Cardinality(R \cap V)
      BY <2>6, <2>8, <3>1, FS_Union
    <3>3. Cardinality(R \cap V) \in Nat
      BY <2>6, FS_Intersection, FS_CardinalityType
    <3>4. Cardinality(T) <= Cardinality(R \union V)
      BY <2>9, <3>1, <3>2, FS_Subset
    <3>5. Cardinality(T) \in Nat
      BY <2>3, FS_CardinalityType
    <3>. QED BY <2>6, <2>8, <3>1, <3>2, <3>3, <3>4, <3>5
  <2>. HIDE DEF M, R, N
  <2>11. Get(req, t) \in Nat
    BY GetCount
  <2>. QED BY <2>3, <2>4, <2>5, <2>6, <2>8, <2>10, <2>11 DEF Less
<1>10. Lacking(req, s) \in SUBSET U
  BY <1>3 DEF Lacking
<1>11. IsFiniteSet(Lacking(req, s)) /\ Cardinality(Lacking(req, s)) \in Nat
  BY <1>4, <1>10, FS_Subset, FS_CardinalityType
<1>12. Cardinality(Lacking(req, s)) <= Cardinality(N)
  <2>. HIDE DEF N
  <2>1. \A t \in DiceTypes : t \in 0..8
    BY ActionCostConstants DEF DiceTypes, Void, Aligned
  <2>2. (\A u \in Lacking(req, s) : u[1] \in 0..8) /\ \A u \in N : u[1] \in 0..8
    BY <1>4, <1>8, <1>10, <2>1
  <2>3. ASSUME NEW t \in 0..8
        PROVE  Cardinality(OfType(Lacking(req, s), t)) <= Cardinality(OfType(N, t))
    <3>1. CASE t \in Colors
      BY <1>9, <3>1, LackingOfType
    <3>2. CASE t \notin Colors
      <4>1. OfType(Lacking(req, s), t) = {}
        BY <3>2 DEF OfType, Lacking
      <4>2. OfType(N, t) \in SUBSET N
        BY DEF OfType
      <4>3. Cardinality(OfType(N, t)) \in Nat
        BY <1>8, <4>2, FS_Subset, FS_CardinalityType
      <4>4. Cardinality(OfType(Lacking(req, s), t)) = 0
        BY <4>1, FS_EmptySet
      <4>. QED BY <4>3, <4>4
    <3>. QED BY <3>1, <3>2
  <2>4. 8 \in Nat
    OBVIOUS
  <2>. QED BY <1>8, <1>11, <2>2, <2>3, <2>4, NoMoreOfAny
<1>. HIDE DEF N, P
<1>. QED BY <1>6, <1>7, <1>8, <1>11, <1>12

\* Without aligned dice no unit is aligned.
LEMMA NoAlignedUnit ==
  ASSUME NEW req \in Requirements, Once(req), ~Has(req, Aligned), NEW u \in Units(req)
  PROVE  u[1] = Void \/ u[1] \in Colors
<1>1. u[1] \in DiceTypes /\ u[2] \in Nat /\ 1 <= u[2] /\ u[2] <= Get(req, u[1])
  BY UnitShape, Zenon
<1>2. SUFFICES ASSUME u[1] = Aligned PROVE FALSE
  BY <1>1 DEF DiceTypes
<1>3. Get(req, Aligned) \in Nat /\ ~(Get(req, Aligned) > 0)
  BY GetCount
<1>. QED BY <1>1, <1>2, <1>3

\* The omni dice go to the units that lack a die, the dice of a colour to the
\* first units of the colour, and what is left over to the units of any type.
LEMMA LackingDealt ==
  ASSUME NEW req \in Requirements, Once(req), ~Has(req, Aligned), NEW s \in Seq(Dice),
         Len(s) = diceCostSize(req), Cardinality(Lacking(req, s)) <= CountOf(s, Omni)
  PROVE  \E f : Dealt(f, s, req)
<1>1. PICK U : U = Units(req)
  OBVIOUS
<1>2. PICK L : L = Lacking(req, s)
  OBVIOUS
<1>3. /\ IsFiniteSet(U) /\ Cardinality(U) = diceCostSize(req)
      /\ \A u \in U : u[1] \in DiceTypes /\ u[2] \in Nat /\ u = <<u[1], u[2]>> /\ 1 <= u[2]
  BY <1>1, UnitShape, Zenon DEF diceCostSize
<1>4. L \in SUBSET U /\ \A u \in U : u \in L <=> u[1] \in Colors /\ u[2] > CountOf(s, u[1])
  BY <1>1, <1>2 DEF Lacking
<1>5. PICK D : D = DOMAIN s
  OBVIOUS
<1>6. IsFiniteSet(D) /\ Cardinality(D) = diceCostSize(req) /\ D \subseteq Nat
  <2>1. PICK n : n = Len(s)
    OBVIOUS
  <2>2. n \in Nat /\ D = 1..n
    BY <1>5, <2>1, SeqElements, Zenon
  <2>3. n \in Int /\ 1 \in Int /\ (IF 1 > n THEN 0 ELSE n - 1 + 1) = n
    BY <2>2
  <2>4. IsFiniteSet(1..n) /\ Cardinality(1..n) = n
    BY <2>3, FS_Interval
  <2>5. 1..n \subseteq Nat
    BY <2>2
  <2>. QED BY <2>1, <2>2, <2>4, <2>5, Zenon
<1>7. PICK k \in [L -> At(s, Omni)] : \A x, y \in L : k[x] = k[y] => x = y
  <2>1. IsFiniteSet(L)
    BY <1>3, <1>4, FS_Subset
  <2>2. IsFiniteSet(At(s, Omni)) /\ CountOf(s, Omni) = Cardinality(At(s, Omni))
    BY AtFinite, Zenon
  <2>3. Cardinality(L) <= Cardinality(At(s, Omni))
    BY <1>2, <2>2
  <2>. QED BY <2>1, <2>2, <2>3, NoMore
<1>. DEFINE Numbered(g, t) == /\ g \in [1..CountOf(s, t) -> At(s, t)]
                              /\ \A i, j \in 1..CountOf(s, t) : g[i] = g[j] => i = j
            nth(t) == CHOOSE g : Numbered(g, t)
<1>8. ASSUME NEW t PROVE Numbered(nth(t), t)
  <2>1. IsFiniteSet(At(s, t)) /\ CountOf(s, t) = Cardinality(At(s, t)) /\ CountOf(s, t) \in Nat
    BY AtFinite, Zenon
  <2>2. ExistsBijection(1..CountOf(s, t), At(s, t))
    BY <2>1, FS_CardinalityType
  <2>3. PICK g \in Bijection(1..CountOf(s, t), At(s, t)) : TRUE
    BY <2>2, Zenon DEF ExistsBijection
  <2>4. PICK I, A : I = 1..CountOf(s, t) /\ A = At(s, t)
    BY Zenon
  <2>5. g \in Bijection(I, A)
    BY <2>3, <2>4, Zenon
  <2>6. g \in [I -> A] /\ \A i, j \in I : g[i] = g[j] => i = j
    BY <2>5, Fun_BijectionProperties
  <2>7. Numbered(g, t)
    BY <2>4, <2>6, Zenon
  <2>. HIDE DEF Numbered
  <2>. QED BY <2>7, Zenon
<1>. DEFINE C == {u \in U : u[1] \in Colors}
            h0 == [u \in C |-> IF u \in L THEN k[u] ELSE nth(u[1])[u[2]]]
<1>9. C \in SUBSET U /\ \A u \in C : u[1] \in Colors
  OBVIOUS
<1>10. \A u \in C : h0[u] = IF u \in L THEN k[u] ELSE nth(u[1])[u[2]]
  <2>. HIDE DEF C, nth
  <2>. QED OBVIOUS
<1>11. ASSUME NEW u \in C, u \notin L
       PROVE  /\ u[2] \in 1..CountOf(s, u[1]) /\ u = <<u[1], u[2]>>
              /\ h0[u] = nth(u[1])[u[2]] /\ h0[u] \in At(s, u[1])
  <2>. HIDE DEF nth, h0
  <2>1. CountOf(s, u[1]) \in Nat
    BY AtFinite
  <2>2. u[2] \in 1..CountOf(s, u[1]) /\ u = <<u[1], u[2]>>
    BY <1>3, <1>4, <1>9, <1>11, <2>1
  <2>. HIDE DEF C
  <2>3. h0[u] = nth(u[1])[u[2]]
    BY <1>10, <1>11, Zenon
  <2>4. nth(u[1]) \in [1..CountOf(s, u[1]) -> At(s, u[1])]
    BY <1>8, Zenon
  <2>. HIDE DEF Numbered
  <2>5. nth(u[1])[u[2]] \in At(s, u[1])
    BY <2>2, <2>4, Zenon
  <2>. QED BY <2>2, <2>3, <2>5, Zenon
<1>12. ASSUME NEW u \in C, u \in L PROVE h0[u] = k[u] /\ h0[u] \in At(s, Omni)
  <2>. HIDE DEF C, nth, h0
  <2>1. h0[u] = k[u]
    BY <1>10, <1>12, Zenon
  <2>2. k[u] \in At(s, Omni)
    BY <1>7, <1>12, Zenon
  <2>. QED BY <2>1, <2>2, Zenon
<1>13. \A u \in C : /\ h0[u] \in D
                    /\ u \in L => s[h0[u]] = Omni
                    /\ u \notin L => s[h0[u]] = u[1]
  <2>. HIDE DEF C, nth, h0
  <2>. QED BY <1>5, <1>11, <1>12 DEF At
<1>14. h0 \in [C -> D]
  <2>1. h0 = [u \in C |-> h0[u]]
    <3>. HIDE DEF nth, C
    <3>. QED OBVIOUS
  <2>. HIDE DEF h0, nth, C
  <2>. QED BY <1>13, <2>1
<1>15. Omni \notin Colors
  BY ActionCostConstants DEF Omni
<1>16. ASSUME NEW x \in C, NEW y \in C, h0[x] = h0[y] PROVE x = y
  <2>. HIDE DEF C, nth, h0
  <2>1. CASE x \in L /\ y \in L
    <3>1. k[x] = k[y]
      BY <1>12, <1>16, <2>1, Zenon
    <3>. QED BY <1>7, <2>1, <3>1, Zenon
  <2>2. CASE x \in L /\ y \notin L
    BY <1>9, <1>13, <1>15, <1>16, <2>2
  <2>3. CASE x \notin L /\ y \in L
    BY <1>9, <1>13, <1>15, <1>16, <2>3
  <2>4. CASE x \notin L /\ y \notin L
    <3>1. PICK t : t = x[1]
      OBVIOUS
    <3>2. y[1] = t
      <4>1. s[h0[x]] = x[1] /\ s[h0[y]] = y[1]
        BY <1>13, <2>4, Zenon
      <4>. QED BY <1>16, <3>1, <4>1
    <3>3. /\ x[2] \in 1..CountOf(s, t) /\ y[2] \in 1..CountOf(s, t)
          /\ x = <<t, x[2]>> /\ y = <<t, y[2]>>
          /\ nth(t)[x[2]] = h0[x] /\ nth(t)[y[2]] = h0[y]
      BY <1>11, <2>4, <3>1, <3>2, Zenon
    <3>4. \A i, j \in 1..CountOf(s, t) : nth(t)[i] = nth(t)[j] => i = j
      BY <1>8, Zenon
    <3>. HIDE DEF Numbered
    <3>5. nth(t)[x[2]] = nth(t)[y[2]]
      BY <1>16, <3>3, Zenon
    <3>6. x[2] = y[2]
      BY <3>3, <3>4, <3>5, Zenon
    <3>. QED BY <3>3, <3>6, Zenon
  <2>. QED BY <2>1, <2>2, <2>3, <2>4
<1>. HIDE DEF h0, nth, Numbered, C
<1>17. PICK h \in Bijection(U, D) : \A u \in C : h[u] = h0[u]
  <2>1. OneToOne(h0, C)
    BY <1>16, Zenon DEF OneToOne
  <2>2. IsFiniteSet(U) /\ IsFiniteSet(D) /\ Cardinality(U) = Cardinality(D) /\ C \in SUBSET U
    BY <1>3, <1>6, <1>9, Zenon
  <2>3. \E h : Extends(h, U, D, C, h0)
    BY <1>14, <2>1, <2>2, Extended, Zenon
  <2>. QED BY <2>3, Zenon DEF Extends
<1>18. h \in [U -> D] /\ \A i \in D : \E u \in U : h[u] = i
  BY <1>17, Fun_BijectionProperties
<1>. DEFINE f == [i \in D |-> CHOOSE u \in U : h[u] = i]
<1>19. \A i \in D : f[i] \in U /\ h[f[i]] = i
  BY <1>18, Zenon
<1>20. f \in [D -> U]
  BY <1>18
<1>. HIDE DEF f
<1>21. f \in Injection(D, U)
  <2>1. \A i, j \in D : f[i] = f[j] => i = j
    BY <1>19, Zenon
  <2>. QED BY <1>20, <2>1, Fun_IsInj
<1>22. ASSUME NEW i \in D PROVE f[i][1] = Void \/ s[i] \in {f[i][1], Omni}
  <2>1. PICK u : u = f[i]
    OBVIOUS
  <2>2. u \in U /\ h[u] = i
    BY <1>19, <2>1, Zenon
  <2>3. u[1] = Void \/ u[1] \in Colors
    BY <1>1, <2>2, NoAlignedUnit
  <2>4. ASSUME u[1] \in Colors PROVE s[i] \in {u[1], Omni}
    <3>1. u \in C
      BY <2>2, <2>4 DEF C
    <3>2. h0[u] = i
      BY <1>17, <2>2, <3>1, Zenon
    <3>. QED BY <1>13, <3>1, <3>2
  <2>. QED BY <2>1, <2>3, <2>4, Zenon
<1>. QED BY <1>1, <1>5, <1>21, <1>22, Zenon DEF Dealt

\* Without aligned dice checkDice() accepts what pays.
LEMMA ApartChecks ==
  ASSUME NEW req \in Requirements, Once(req), ~Has(req, Aligned), NEW s \in Seq(Dice)
  PROVE  checkDice(req, s) <=> Pays(s, req)
<1>1. checkDice(req, s)
        <=> Cardinality(Lacking(req, s)) <= CountOf(s, Omni) /\ Len(s) = diceCostSize(req)
  BY Zenon DEF checkDice, Lacking
<1>2. ASSUME checkDice(req, s) PROVE Pays(s, req)
  <2>1. Len(s) = diceCostSize(req)
    BY <1>1, <1>2, Zenon
  <2>2. \E f : Dealt(f, s, req)
    BY <1>1, <1>2, <2>1, LackingDealt
  <2>. QED BY <2>1, <2>2, PaysDealt
<1>3. ASSUME Pays(s, req) PROVE checkDice(req, s)
  <2>1. Len(s) = diceCostSize(req)
    BY <1>3, PaysDealt
  <2>2. PICK f : Dealt(f, s, req)
    BY <1>3, PaysDealt
  <2>3. Cardinality(Lacking(req, s)) <= CountOf(s, Omni)
    BY <2>1, <2>2, DealtLacking
  <2>. QED BY <1>1, <2>1, <2>3, Zenon
<1>. QED BY <1>2, <1>3, Zenon

\* A set of dice shows one colour and omni dice.
LEMMA OneColor ==
  ASSUME NEW R \in SUBSET Dice, IsFiniteSet(R)
  PROVE  (Cardinality(R) <= 1 \/ (Cardinality(R) = 2 /\ Omni \in R))
           <=> \E c \in Colors : R \subseteq {c, Omni}
<1>1. Cardinality(R) \in Nat
  BY FS_CardinalityType
<1>2. ASSUME Cardinality(R) <= 1 \/ (Cardinality(R) = 2 /\ Omni \in R)
      PROVE  \E c \in Colors : R \subseteq {c, Omni}
  <2>1. PICK S : S = R \ {Omni}
    OBVIOUS
  <2>2. IsFiniteSet(S) /\ Cardinality(S) = IF Omni \in R THEN Cardinality(R) - 1 ELSE Cardinality(R)
    BY <2>1, FS_RemoveElement
  <2>3. Cardinality(S) <= 1
    BY <1>1, <1>2, <2>2
  <2>4. CASE S = {}
    <3>1. R \subseteq {TunesTo, Omni} /\ TunesTo \in Colors
      BY <2>1, <2>4, ActionCostConstants
    <3>. QED BY <3>1, Zenon
  <2>5. CASE S # {}
    <3>1. PICK c : c \in S
      BY <2>5
    <3>2. IsFiniteSet(S \ {c}) /\ Cardinality(S \ {c}) = Cardinality(S) - 1
      BY <2>2, <3>1, FS_RemoveElement
    <3>3. Cardinality(S \ {c}) \in Nat /\ Cardinality(S) \in Nat
      BY <2>2, <3>2, FS_CardinalityType
    <3>4. Cardinality(S \ {c}) = 0
      BY <2>3, <3>2, <3>3
    <3>5. S \ {c} = {}
      BY <3>2, <3>4, FS_EmptySet
    <3>6. c \in Colors /\ R \subseteq {c, Omni}
      BY <2>1, <3>1, <3>5 DEF Dice
    <3>. QED BY <3>6, Zenon
  <2>. QED BY <2>4, <2>5
<1>3. ASSUME NEW c \in Colors, R \subseteq {c, Omni}
      PROVE  Cardinality(R) <= 1 \/ (Cardinality(R) = 2 /\ Omni \in R)
  <2>1. PICK T : T = {c} \union {Omni}
    OBVIOUS
  <2>2. c # Omni
    BY ActionCostConstants DEF Omni
  <2>3. IsFiniteSet({c}) /\ Cardinality({c}) = 1
    BY FS_Singleton
  <2>4. IsFiniteSet(T) /\ Cardinality(T) = IF Omni \in {c} THEN Cardinality({c}) ELSE Cardinality({c}) + 1
    BY <2>1, <2>3, FS_AddElement
  <2>5. Cardinality(T) = 2
    BY <2>2, <2>3, <2>4
  <2>6. R \in SUBSET T
    BY <1>3, <2>1
  <2>7. Cardinality(R) <= Cardinality(T) /\ (Cardinality(T) = Cardinality(R) => T = R)
    BY <2>4, <2>6, FS_Subset
  <2>8. Omni \in T
    BY <2>1
  <2>. QED BY <1>1, <2>5, <2>7, <2>8
<1>. QED BY <1>2, <1>3

\* As many dice as are to be aligned show one colour and omni dice.
Aligns(req, s) ==
  Get(req, Aligned) = Len(s) /\ \E c \in Colors : \A i \in DOMAIN s : s[i] \in {c, Omni}

\* That is what checkDice() looks for.
LEMMA AlignedMeans ==
  ASSUME NEW req, Has(req, Aligned), NEW s \in Seq(Dice)
  PROVE  checkDice(req, s) <=> Aligns(req, s)
<1>1. PICK n, m : n = Get(req, Aligned) /\ m = Len(s)
  OBVIOUS
<1>2. m \in Nat /\ DOMAIN s = 1..m /\ \A i \in 1..m : s[i] \in Dice
  <2>1. Len(s) \in Nat /\ DOMAIN s = 1..Len(s) /\ \A i \in 1..Len(s) : s[i] \in Dice
    BY SeqElements, Zenon
  <2>. QED BY <1>1, <2>1, Zenon
<1>3. PICK R : R = Range(s)
  OBVIOUS
<1>4. R = {s[i] : i \in 1..m}
  BY <1>2, <1>3 DEF Range
<1>5. R \in SUBSET Dice /\ IsFiniteSet(R)
  <2>1. R \in SUBSET Dice
    BY <1>2, <1>4
  <2>2. s \in [1..m -> Dice]
    BY <1>1
  <2>3. s \in [1..m -> R] /\ \A t \in R : \E i \in 1..m : s[i] = t
    BY <1>4, <2>2
  <2>4. s \in Surjection(1..m, R)
    BY <2>3, Fun_IsSurj
  <2>5. 1 \in Int /\ m \in Int
    BY <1>2
  <2>6. IsFiniteSet(1..m)
    BY <2>5, FS_Interval
  <2>. QED BY <2>1, <2>4, <2>6, FS_Surjection
<1>6. checkDice(req, s) <=> n = m /\ \E c \in Colors : R \subseteq {c, Omni}
  <2>1. checkDice(req, s)
          <=> n = m /\ (Cardinality(R) <= 1 \/ (Cardinality(R) = 2 /\ Omni \in R))
    BY <1>1, <1>3, Zenon DEF checkDice
  <2>2. (Cardinality(R) <= 1 \/ (Cardinality(R) = 2 /\ Omni \in R))
          <=> \E c \in Colors : R \subseteq {c, Omni}
    BY <1>5, OneColor
  <2>. QED BY <2>1, <2>2, Zenon
<1>7. \A c \in Colors : R \subseteq {c, Omni} <=> \A i \in DOMAIN s : s[i] \in {c, Omni}
  BY <1>2, <1>4
<1>. QED BY <1>1, <1>6, <1>7, Zenon DEF Aligns

\* Aligned dice alone: checkDice() accepts what pays.
LEMMA AlignedChecks ==
  ASSUME NEW req, Normal(req), Has(req, Aligned), NEW s \in Seq(Dice)
  PROVE  checkDice(req, s) <=> Pays(s, req)
<1>1. req \in Requirements /\ Once(req) /\ Alone(req)
  BY Zenon DEF Normal
<1>2. PICK n : n = Get(req, Aligned)
  OBVIOUS
<1>3. diceCostSize(req) = n /\ n \in Nat
  BY <1>1, <1>2, NeededSize, GetCount
<1>4. PICK m : m = Len(s)
  OBVIOUS
<1>5. m \in Nat /\ DOMAIN s = 1..m /\ \A i \in 1..m : s[i] \in Dice
  <2>1. Len(s) \in Nat /\ DOMAIN s = 1..Len(s) /\ \A i \in 1..Len(s) : s[i] \in Dice
    BY SeqElements, Zenon
  <2>. QED BY <1>4, <2>1, Zenon
<1>6. \A u \in Units(req) : u[1] = Aligned
  <2>1. SUFFICES ASSUME NEW u \in Units(req), u[1] # Aligned PROVE FALSE
    OBVIOUS
  <2>2. u[1] \in DiceTypes /\ u[2] \in Nat /\ 1 <= u[2] /\ u[2] <= Get(req, u[1])
    BY <1>1, UnitShape, Zenon
  <2>3. ~Has(req, u[1])
    BY <1>1, <2>1, <2>2 DEF Alone
  <2>4. Get(req, u[1]) \in Nat /\ ~(Get(req, u[1]) > 0)
    BY <1>1, <2>3, GetCount
  <2>. QED BY <2>2, <2>4
<1>7. \A j \in 1..n : <<Aligned, j>> \in Units(req)
  <2>1. SUFFICES ASSUME NEW j \in 1..n PROVE <<Aligned, j>> \in Units(req)
    OBVIOUS
  <2>2. j \in Nat /\ 1 <= j /\ j <= Get(req, Aligned) /\ Aligned \in DiceTypes
    BY <1>2, <1>3 DEF DiceTypes
  <2>3. <<Aligned, j>> \in UnitsIn(req, DiceTypes)
    BY <2>2, UnitIn
  <2>. QED BY <1>1, <2>3, UnitsOf, Zenon
<1>8. checkDice(req, s)
        <=> n = m /\ \E c \in Colors : \A i \in DOMAIN s : s[i] \in {c, Omni}
  BY <1>2, <1>4, AlignedMeans, Zenon DEF Aligns
<1>9. Aligned # Void
  BY DEF Aligned, Void
<1>10. ASSUME NEW f \in Injection(DOMAIN s, Units(req)), NEW c \in Colors, NEW i \in DOMAIN s
       PROVE  (CASE f[i][1] = Void    -> TRUE
                 [] f[i][1] = Aligned -> s[i] \in {c, Omni}
                 [] OTHER             -> s[i] \in {f[i][1], Omni}) <=> s[i] \in {c, Omni}
  <2>1. f[i] \in Units(req)
    BY Fun_InjectionProperties
  <2>2. f[i][1] = Aligned
    BY <1>6, <2>1, Zenon
  <2>. QED BY <1>9, <2>2
<1>11. Pays(s, req) <=> /\ m = n
                        /\ \E f \in Injection(DOMAIN s, Units(req)), c \in Colors :
                             \A i \in DOMAIN s : s[i] \in {c, Omni}
  <2>1. (\E f \in Injection(DOMAIN s, Units(req)), c \in Colors :
           \A i \in DOMAIN s :
             CASE f[i][1] = Void    -> TRUE
               [] f[i][1] = Aligned -> s[i] \in {c, Omni}
               [] OTHER             -> s[i] \in {f[i][1], Omni})
          <=> \E f \in Injection(DOMAIN s, Units(req)), c \in Colors :
                \A i \in DOMAIN s : s[i] \in {c, Omni}
    <3>. DEFINE Dealt0(f, c, i) ==
                  CASE f[i][1] = Void    -> TRUE
                    [] f[i][1] = Aligned -> s[i] \in {c, Omni}
                    [] OTHER             -> s[i] \in {f[i][1], Omni}
    <3>1. \A f \in Injection(DOMAIN s, Units(req)), c \in Colors : \A i \in DOMAIN s :
            Dealt0(f, c, i) <=> s[i] \in {c, Omni}
      BY <1>10, Zenon
    <3>2. (\E f \in Injection(DOMAIN s, Units(req)), c \in Colors :
              \A i \in DOMAIN s : Dealt0(f, c, i))
           <=> \E f \in Injection(DOMAIN s, Units(req)), c \in Colors :
                 \A i \in DOMAIN s : s[i] \in {c, Omni}
      <4>. HIDE DEF Dealt0
      <4>. QED BY <3>1, Zenon
    <3>. QED BY <3>2
  <2>2. m = n <=> Len(s) = diceCostSize(req)
    BY <1>3, <1>4
  <2>. QED BY <2>1, <2>2, Zenon DEF Pays
<1>12. ASSUME m = n PROVE \E f : f \in Injection(DOMAIN s, Units(req))
  <2>. DEFINE f == [i \in 1..n |-> <<Aligned, i>>]
  <2>1. f \in [1..n -> Units(req)] /\ \A i, j \in 1..n : f[i] = f[j] => i = j
    BY <1>7
  <2>. HIDE DEF f
  <2>2. f \in Injection(1..n, Units(req))
    BY <2>1, Fun_IsInj
  <2>. QED BY <1>5, <1>12, <2>2, Zenon
<1>. QED BY <1>8, <1>11, <1>12, Zenon

\* The dice at some positions of the player's are dice.
LEMMA SelectedDice ==
  ASSUME NEW d \in Seq(Dice), NEW S \in SUBSET DOMAIN d
  PROVE  Picked(d, S) \in Seq(Dice)
<1>1. PICK n : n = Len(d)
  OBVIOUS
<1>2. n \in Nat /\ DOMAIN d = 1..n /\ \A i \in 1..n : d[i] \in Dice
  <2>1. Len(d) \in Nat /\ DOMAIN d = 1..Len(d) /\ \A i \in 1..Len(d) : d[i] \in Dice
    BY SeqElements, Zenon
  <2>. QED BY <1>1, <2>1, Zenon
<1>3. S \in SUBSET (1..n) /\ S \in SUBSET Nat
  BY <1>2
<1>4. IsFiniteSet(S)
  <2>1. 1 \in Int /\ n \in Int
    BY <1>2
  <2>2. IsFiniteSet(1..n)
    BY <2>1, FS_Interval
  <2>. QED BY <1>3, <2>2, FS_Subset
<1>5. PICK g : IsPicked(Picked(d, S), g, d, S)
  BY <1>3, <1>4, PickedPositions
<1>6. PICK m : m = Cardinality(S)
  OBVIOUS
<1>7. m \in Nat /\ g \in [1..m -> S] /\ Picked(d, S) = [k \in 1..m |-> d[g[k]]]
  BY <1>5, <1>6, Zenon DEF IsPicked, Numbers
<1>8. \A k \in 1..m : d[g[k]] \in Dice
  BY <1>2, <1>3, <1>7
<1>9. Picked(d, S) \in [1..m -> Dice]
  BY <1>7, <1>8
<1>10. PICK r : r = Picked(d, S)
  OBVIOUS
<1>11. PICK D : D = Dice
  OBVIOUS
<1>12. r \in Seq(D)
  BY <1>7, <1>9, <1>10, <1>11
<1>. QED BY <1>10, <1>11, <1>12, Zenon

\* The check of the server (Game.actionPhase) accepts the dice that an action
\* costs and no others: whenever an action with dice is paid, and whatever dice
\* the player picks, checkDice() agrees with dealing the dice out to the units.
THEOREM ChecksArePayments == ASSUME ~BothWays PROVE Spec => []CheckIsPayment
<1>1. CostInv => CheckIsPayment
  <2>1. SUFFICES ASSUME CostInv, NEW s \in Selections
                 PROVE  checkDice(cost, s) <=> Pays(s, cost)
    BY Zenon DEF CheckIsPayment
  <2>2. Normal(cost) /\ dice \in Hands
    BY <2>1, Zenon DEF CostInv
  <2>3. cost \in Requirements /\ Once(cost)
    BY <2>2, Zenon DEF Normal
  <2>4. PICK S \in SUBSET DOMAIN dice : s = Picked(dice, S)
    BY Zenon DEF Selections
  <2>5. dice \in Seq(Dice)
    BY <2>2, HandDice, Zenon
  <2>6. s \in Seq(Dice)
    BY <2>4, <2>5, SelectedDice, Zenon
  <2>7. CASE Has(cost, Aligned)
    BY <2>2, <2>6, <2>7, AlignedChecks, Zenon
  <2>8. CASE ~Has(cost, Aligned)
    BY <2>3, <2>6, <2>8, ApartChecks, Zenon
  <2>. QED BY <2>7, <2>8
<1>. QED BY <1>1, CostInvariant, PTL

-----------------------------------------------------------------------------
(***************************************************************************)
(* chooseDice() takes the entries of a cost one after the other.  It may   *)
(* do so because no cost has a colour after dice of any type.              *)
(***************************************************************************)

\* No colour comes after dice of any type, or it asks for no dice there.
ColorsFirst(req) ==
  \A i, j \in DOMAIN req : i < j /\ req[i].type = Void => req[j].type \notin Colors
\* The same of a map that a deduction has left with zeros.
ColorsFirstOrZero(req) ==
  \A i, j \in DOMAIN req :
    i < j /\ req[i].type = Void => req[j].type \notin Colors \/ req[j].count = 0

\* What is in the map may get another count, other types come last.
LEMMA PutFirst ==
  ASSUME NEW req \in Requirements, ColorsFirst(req), NEW t, NEW n,
         Has(req, t) \/ t \notin Colors
  PROVE  ColorsFirst(Put(req, t, n))
<1>1. PICK m : m = Len(req)
  OBVIOUS
<1>2. m \in Nat /\ DOMAIN req = 1..m
  BY <1>1, Entries
<1>3. PICK r : r = Put(req, t, n)
  OBVIOUS
<1>4. CASE Has(req, t)
  <2>1. r = [i \in DOMAIN req |-> IF req[i].type = t THEN [req[i] EXCEPT !.count = n] ELSE req[i]]
    BY <1>3, <1>4, Zenon DEF Put
  <2>2. DOMAIN r = DOMAIN req /\ \A i \in DOMAIN req : r[i].type = req[i].type
    <3>1. DOMAIN r = DOMAIN req
      BY <2>1
    <3>2. ASSUME NEW i \in DOMAIN req PROVE r[i].type = req[i].type
      <4>1. req[i] = [type |-> req[i].type, count |-> req[i].count]
        BY Entries
      <4>2. [req[i] EXCEPT !.count = n] = [type |-> req[i].type, count |-> n]
        BY <4>1
      <4>3. r[i] = IF req[i].type = t THEN [req[i] EXCEPT !.count = n] ELSE req[i]
        BY <2>1
      <4>. QED BY <4>2, <4>3
    <3>. QED BY <3>1, <3>2
  <2>3. ColorsFirst(r)
    BY <2>2, Zenon DEF ColorsFirst
  <2>. QED BY <1>3, <2>3, Zenon
<1>5. CASE ~Has(req, t)
  <2>1. PICK e : e = [type |-> t, count |-> n]
    OBVIOUS
  <2>2. r = Append(req, e)
    BY <1>3, <1>5, <2>1, Zenon DEF Put
  <2>3. DOMAIN r = 1..m + 1 /\ (\A i \in 1..m : r[i] = req[i]) /\ r[m + 1] = e
    <3>1. PICK E : E = [type : Needs, count : Nat]
      OBVIOUS
    <3>2. req \in Seq(E)
      BY <3>1, Zenon DEF Requirements
    <3>. QED BY <1>1, <1>2, <2>2, <3>2
  <2>4. e.type \notin Colors
    BY <1>5, <2>1
  <2>5. SUFFICES ASSUME NEW i \in 1..m + 1, NEW j \in 1..m + 1, i < j, r[i].type = Void
                 PROVE  r[j].type \notin Colors
    BY <1>3, <2>3, Zenon DEF ColorsFirst
  <2>6. i \in 1..m
    BY <1>2, <2>5
  <2>7. CASE j \in 1..m
    <3>1. r[i] = req[i] /\ r[j] = req[j] /\ i \in DOMAIN req /\ j \in DOMAIN req
      BY <1>2, <2>3, <2>6, <2>7
    <3>. QED BY <2>5, <3>1, Zenon DEF ColorsFirst
  <2>8. CASE j = m + 1
    BY <2>3, <2>4, <2>8
  <2>. QED BY <1>2, <2>7, <2>8
<1>. QED BY <1>4, <1>5

\* What is left without the entries that ask for nothing.
LEMMA NormalizeFirst ==
  ASSUME NEW req \in Requirements, ColorsFirstOrZero(req)
  PROVE  ColorsFirst(normalizeCost(req))
<1>. DEFINE K == {i \in DOMAIN req : req[i].count # 0}
<1>1. Len(req) \in Nat /\ DOMAIN req = 1..Len(req)
  BY Entries
<1>2. K \in SUBSET Nat /\ IsFiniteSet(K)
  <2>1. K \in SUBSET (1..Len(req))
    BY <1>1
  <2>2. IsFiniteSet(1..Len(req))
    <3>1. 1 \in Int /\ Len(req) \in Int
      BY <1>1
    <3>. QED BY <3>1, FS_Interval
  <2>. HIDE DEF K
  <2>3. IsFiniteSet(K)
    BY <2>1, <2>2, FS_Subset
  <2>. QED BY <2>1, <2>3
<1>3. PICK g : IsPicked(Picked(req, K), g, req, K)
  <2>. HIDE DEF K
  <2>. QED BY <1>2, PickedPositions, Zenon
<1>4. PICK r : r = Picked(req, K)
  OBVIOUS
<1>5. normalizeCost(req) = IF r = <<>> THEN <<[type |-> Aligned, count |-> 0]>> ELSE r
  BY <1>4, Zenon DEF normalizeCost
<1>6. PICK m : m = Cardinality(K)
  OBVIOUS
<1>7. /\ m \in Nat /\ g \in [1..m -> K] /\ \A k, l \in 1..m : k < l => g[k] < g[l]
      /\ r = [k \in 1..m |-> req[g[k]]]
  BY <1>3, <1>4, <1>6, Zenon DEF IsPicked, Numbers
<1>8. \A i \in K : i \in DOMAIN req /\ req[i].count # 0
  OBVIOUS
<1>. HIDE DEF K
<1>9. ColorsFirst(r)
  <2>1. DOMAIN r = 1..m
    BY <1>7
  <2>2. SUFFICES ASSUME NEW k \in 1..m, NEW l \in 1..m, k < l, r[k].type = Void
                 PROVE  r[l].type \notin Colors
    BY <2>1, Zenon DEF ColorsFirst
  <2>3. g[k] \in K /\ g[l] \in K /\ g[k] < g[l] /\ r[k] = req[g[k]] /\ r[l] = req[g[l]]
    BY <1>7, <2>2
  <2>4. g[k] \in DOMAIN req /\ g[l] \in DOMAIN req /\ req[g[l]].count # 0
    BY <1>8, <2>3, Zenon
  <2>5. req[g[k]].type = Void
    BY <2>2, <2>3, Zenon
  <2>6. req[g[l]].type \notin Colors
    BY <2>3, <2>4, <2>5, Zenon DEF ColorsFirstOrZero
  <2>. QED BY <2>3, <2>6, Zenon
<1>10. ColorsFirst(<<[type |-> Aligned, count |-> 0]>>)
  <2>1. PICK q : q = <<[type |-> Aligned, count |-> 0]>>
    OBVIOUS
  <2>2. DOMAIN q = {1}
    BY <2>1
  <2>3. \A i, j \in DOMAIN q : ~(i < j)
    BY <2>2
  <2>. QED BY <2>1, <2>3, Zenon DEF ColorsFirst
<1>. QED BY <1>5, <1>9, <1>10, Zenon

\* A deduction changes counts and enters types with 0.
LEMMA DeductFirst ==
  ASSUME NEW req \in Requirements, ColorsFirst(req), NEW types, Types(types),
         NEW n \in Nat \ {0}
  PROVE  ColorsFirstOrZero(deductCost(req, types, n))
<1>1. types \in Seq(DiceTypes) /\ Len(types) > 0
  BY Zenon DEF Types
<1>2. PICK r : r = deductCost(req, types, n)
  OBVIOUS
<1>3. PICK last : IsDeduction(r, last, req, types, n)
  BY <1>1, <1>2, DeductShape, Zenon
<1>4. PICK a : a = Reduced(req, types, n, covered(req, types), last)
  OBVIOUS
<1>5. PICK b : b = Entered(req, types, last)
  OBVIOUS
<1>6. r = a \o b
  BY <1>3, <1>4, <1>5, Zenon DEF IsDeduction
<1>7. PICK m : m = Len(req)
  OBVIOUS
<1>8. m \in Nat /\ DOMAIN req = 1..m
  BY <1>7, Entries
<1>9. Len(a) = m /\ \A i \in 1..m : a[i].type = req[i].type
  <2>1. PICK c : c = covered(req, types)
    OBVIOUS
  <2>2. a = [i \in 1..m |-> IF req[i].type \in PassedBy(last, types)
                            THEN [req[i] EXCEPT !.count = LeftOf(last, c, types, n, req[i].type)]
                            ELSE req[i]]
    BY <1>4, <1>8, <2>1, Zenon DEF Reduced
  <2>3. Len(a) = m
    BY <1>8, <2>2
  <2>4. ASSUME NEW i \in 1..m PROVE a[i].type = req[i].type
    <3>1. PICK l : l = LeftOf(last, c, types, n, req[i].type)
      OBVIOUS
    <3>2. a[i] = IF req[i].type \in PassedBy(last, types)
                 THEN [req[i] EXCEPT !.count = l] ELSE req[i]
      BY <2>2, <3>1
    <3>3. req[i] = [type |-> req[i].type, count |-> req[i].count]
      BY <1>8, Entries
    <3>4. [req[i] EXCEPT !.count = l] = [type |-> req[i].type, count |-> l]
      BY <3>3
    <3>. QED BY <3>2, <3>4
  <2>. QED BY <2>3, <2>4
<1>10. PICK q : q = Cardinality(Lacked(req, types, last))
  OBVIOUS
<1>11. b = [i \in 1..q |-> [type |-> Picked(types, Lacked(req, types, last))[i], count |-> 0]]
  BY <1>5, <1>10, Zenon DEF Entered
<1>12. q \in Nat
  <2>1. last \in Nat
    <3>1. last \in 1..Len(types)
      BY <1>3, Zenon DEF IsDeduction, EndsAt
    <3>2. PICK D : D = DiceTypes
      OBVIOUS
    <3>3. types \in Seq(D)
      BY <1>1, <3>2
    <3>. QED BY <3>1, <3>3
  <2>2. Lacked(req, types, last) \in SUBSET (1..last)
    BY DEF Lacked
  <2>3. 1 \in Int /\ last \in Int
    BY <2>1
  <2>. QED BY <1>10, <2>2, <2>3, FS_Interval, FS_Subset, FS_CardinalityType
<1>13. Len(b) = q /\ \A i \in 1..q : b[i].count = 0
  BY <1>11, <1>12
<1>14. /\ DOMAIN r = 1..m + q
       /\ \A i \in 1..m + q : r[i] = IF i <= m THEN a[i] ELSE b[i - m]
  BY <1>6, <1>8, <1>9, <1>12, <1>13
<1>15. SUFFICES ASSUME NEW i \in 1..m + q, NEW j \in 1..m + q, i < j, r[i].type = Void
                PROVE  r[j].type \notin Colors \/ r[j].count = 0
  BY <1>2, <1>14, Zenon DEF ColorsFirstOrZero
<1>16. CASE j <= m
  <2>1. i \in 1..m /\ j \in 1..m
    BY <1>8, <1>12, <1>15, <1>16
  <2>2. r[i].type = req[i].type /\ r[j].type = req[j].type
    BY <1>9, <1>14, <1>15, <1>16, <2>1
  <2>. QED BY <1>8, <1>15, <2>1, <2>2 DEF ColorsFirst
<1>17. CASE j > m
  <2>1. j - m \in 1..q
    BY <1>8, <1>12, <1>15, <1>17
  <2>2. r[j] = b[j - m]
    BY <1>8, <1>12, <1>14, <1>15, <1>17
  <2>. QED BY <1>13, <2>1, <2>2
<1>. QED BY <1>8, <1>12, <1>16, <1>17

\* In its normal form the order stays.
LEMMA ReadFirst ==
  ASSUME NEW req \in Requirements, ColorsFirst(req)
  PROVE  ColorsFirst(normalizeCost(req))
BY NormalizeFirst, Zenon DEF ColorsFirst, ColorsFirstOrZero

\* An increase is of a type the map has, or of aligned dice.
LEMMA AppendFirst ==
  ASSUME NEW req \in Requirements, Once(req), ColorsFirst(req), NEW n \in Nat
  PROVE  ColorsFirst(appendCost(req, Priority, n))
<1>1. PICK t : IsAppend(appendCost(req, Priority, n), req, t, n)
  BY AppendCounts
<1>2. /\ appendCost(req, Priority, n) = Put(req, t, Get(req, t) + n)
      /\ Has(req, t) \/ t = Aligned
  BY <1>1, Zenon DEF IsAppend
<1>3. Aligned \notin Colors
  BY ActionCostConstants DEF Aligned
<1>. QED BY <1>2, <1>3, PutFirst, Zenon

\* After a change of type there are no colours.
LEMMA ChangeTypeFirst ==
  ASSUME NEW req \in Requirements, Once(req)
  PROVE  ColorsFirst(changeType(req))
<1>1. PICK n : n = diceCostSize(req)
  OBVIOUS
<1>2. n \in Nat
  BY <1>1, SizeOfAll
<1>3. PICK b : b = <<[type |-> Void, count |-> n]>>
  OBVIOUS
<1>4. b \in Requirements
  <2>. DEFINE E == [type : Needs, count : Nat]
  <2>1. [type |-> Void, count |-> n] \in E
    BY <1>2 DEF Needs
  <2>2. b \in Seq(E)
    <3>. HIDE DEF E
    <3>. QED BY <1>3, <2>1
  <2>. QED BY <2>2 DEF Requirements
<1>5. ColorsFirst(b)
  <2>1. DOMAIN b = {1}
    BY <1>3
  <2>2. \A i, j \in DOMAIN b : ~(i < j)
    BY <2>1
  <2>. QED BY <2>2, Zenon DEF ColorsFirst
<1>6. changeType(req) = IF Get(req, Energy) > 0 THEN Put(b, Energy, Get(req, Energy)) ELSE b
  BY <1>1, <1>3, Zenon DEF changeType
<1>7. Energy \notin Colors
  BY ActionCostConstants DEF Energy
<1>8. ColorsFirst(Put(b, Energy, Get(req, Energy)))
  BY <1>4, <1>5, <1>7, PutFirst, Zenon
<1>. QED BY <1>5, <1>6, <1>8, Zenon

\* What is printed is in that order.
LEMMA PrintedFirst ==
  ASSUME NEW k \in Kinds, NEW c \in Costs[k]
  PROVE  ColorsFirst(c)
<1>1. \A i, j \in DOMAIN c : i < j => (c[i].type = Void => c[j].type = Energy)
  BY PrintedCosts
<1>2. Energy \notin Colors
  BY ActionCostConstants DEF Energy
<1>. QED BY <1>1, <1>2, Zenon DEF ColorsFirst

\* The attachments of a card keep the order.
LEMMA CardCostFirst ==
  ASSUME NEW printed, Printed(printed), ColorsFirst(printed), NEW as, OneWay(as)
  PROVE  ColorsFirst(CostOfCard(printed, as))
<1>1. printed \in Requirements /\ Once(printed) /\ printed \in Maps
  BY Zenon DEF Printed, Maps
<1>2. Attachments(as)
  BY Zenon DEF OneWay
<1>3. PICK n : n = Len(as)
  OBVIOUS
<1>4. n \in Nat /\ \A i \in 1..n : as[i].kind \in Kind3 /\ as[i].layer \in Nat \ {0}
  BY <1>2, <1>3, Zenon DEF Attachments
<1>5. PICK f : f = costAfter(printed, as)
  OBVIOUS
<1>6. Follows(f, printed, as)
  BY <1>1, <1>2, <1>5, CostsFollow, Zenon
<1>7. PICK m : m = f[Len(as)]
  OBVIOUS
<1>8. ASSUME NEW p \in 1..n, as[p].kind # "changeType"
      PROVE  m \in Requirements /\ Once(m) /\ ColorsFirstOrZero(m)
  <2>1. m = attached(printed, as[p])
    BY <1>3, <1>6, <1>7, <1>8, ChangedOnce, Zenon
  <2>2. as[p].kind \in Kind3 /\ as[p].layer \in Nat \ {0}
    BY <1>4, Zenon
  <2>3. m \in Requirements /\ Once(m)
    <3>1. m \in Maps
      BY <1>1, <2>1, <2>2, AttachedMap, Zenon
    <3>. QED BY <3>1, Zenon DEF Maps
  <2>4. PICK l : l = as[p].layer
    OBVIOUS
  <2>5. CASE as[p].kind = "increase"
    <3>1. m = appendCost(printed, Priority, l)
      BY <2>1, <2>4, <2>5 DEF attached
    <3>2. l \in Nat
      BY <2>2, <2>4
    <3>3. ColorsFirst(m)
      BY <1>1, <3>1, <3>2, AppendFirst, Zenon
    <3>. QED BY <2>3, <3>3, Zenon DEF ColorsFirst, ColorsFirstOrZero
  <2>6. CASE as[p].kind = "decrease"
    <3>1. m = deductCost(printed, Priority, l)
      BY <2>1, <2>4, <2>6 DEF attached
    <3>2. l \in Nat \ {0}
      BY <2>2, <2>4
    <3>3. Types(Priority)
      BY PriorityTypes
    <3>. QED BY <1>1, <2>3, <3>1, <3>2, <3>3, DeductFirst, Zenon
  <2>. QED BY <1>8, <2>2, <2>5, <2>6 DEF Kind3
<1>9. ASSUME \A p \in 1..n : as[p].kind = "changeType"
      PROVE  m \in Requirements /\ Once(m) /\ ColorsFirstOrZero(m)
  <2>0. n \in Nat
    BY <1>4, Zenon
  <2>1. 0 \in Nat /\ 0 <= n /\ n <= n
    BY <2>0
  <2>2. Quiet(as, 0, n)
    BY <1>3, <1>9, Zenon DEF Quiet
  <2>3. n <= Len(as)
    BY <1>3, <2>1, Zenon
  <2>4. SameAt(f, 0, n)
    BY <1>2, <1>6, <2>0, <2>1, <2>2, <2>3, Unchanged, Zenon
  <2>5. m = printed
    BY <1>3, <1>6, <1>7, <2>4, Zenon DEF Follows, SameAt
  <2>. QED BY <1>1, <2>5, Zenon DEF ColorsFirst, ColorsFirstOrZero
<1>10. m \in Requirements /\ Once(m) /\ ColorsFirstOrZero(m)
  BY <1>8, <1>9, Zenon
<1>11. PICK r : r = IF \E i \in DOMAIN as : as[i].kind = "changeType" THEN changeType(m) ELSE m
  OBVIOUS
<1>12. CostOfCard(printed, as) = normalizeCost(r)
  BY <1>5, <1>7, <1>11, Zenon DEF CostOfCard
<1>13. CASE r = m
  BY <1>10, <1>12, <1>13, NormalizeFirst, Zenon
<1>14. CASE r = changeType(m)
  <2>1. ColorsFirst(r)
    BY <1>10, <1>14, ChangeTypeFirst, Zenon
  <2>2. r \in Requirements
    BY <1>10, <1>14, ChangeTypeCounts, Zenon DEF Printed
  <2>. QED BY <1>12, <2>1, <2>2, ReadFirst, Zenon
<1>. QED BY <1>11, <1>13, <1>14, Zenon


\* The lists of types that the deductions name.
LEMMA NamedTypes == Types(<<Void>>) /\ \A t \in Colors : Types(<<t, Void>>)
<1>1. PICK D : D = DiceTypes
  OBVIOUS
<1>2. Void \in D
  BY <1>1 DEF DiceTypes
<1>3. PICK ts : ts = <<Void>>
  OBVIOUS
<1>4. ts \in Seq(D) /\ Len(ts) = 1 /\ ts[1] = Void
  BY <1>2, <1>3
<1>5. Types(ts)
  BY <1>1, <1>4 DEF Types
<1>6. ASSUME NEW t \in Colors PROVE Types(<<t, Void>>)
  <2>1. t \in D /\ t # Void
    BY <1>1, ActionCostConstants DEF DiceTypes, Void
  <2>2. PICK us : us = <<t, Void>>
    OBVIOUS
  <2>3. us \in Seq(D) /\ Len(us) = 2 /\ us[1] = t /\ us[2] = Void
    BY <1>2, <2>1, <2>2
  <2>4. Types(us)
    BY <1>1, <2>1, <2>3 DEF Types
  <2>. QED BY <2>2, <2>4, Zenon
<1>. QED BY <1>3, <1>5, <1>6, Zenon

\* What is deducted leaves the order.
LEMMA LoweredFirst ==
  ASSUME NEW req \in Requirements, Once(req), ColorsFirst(req), NEW types, Types(types),
         NEW n \in 1..2
  PROVE  ColorsFirst(normalizeCost(deductCost(req, types, n)))
<1>1. n \in Nat \ {0}
  OBVIOUS
<1>2. PICK p : p = deductCost(req, types, n)
  OBVIOUS
<1>3. ColorsFirstOrZero(p)
  BY <1>1, <1>2, DeductFirst, Zenon
<1>4. PICK last : Deducts(p, last, req, types, n)
  BY <1>1, <1>2, DeductCounts, Zenon
<1>5. p \in Requirements
  BY <1>4, Zenon DEF Deducts
<1>. QED BY <1>2, <1>3, <1>5, NormalizeFirst, Zenon

\* The modifiers keep the order.
LEMMA ModifyFirst ==
  ASSUME CostInv, ColorsFirst(cost), Modify
  PROVE  ColorsFirst(cost')
<1>1. Normal(cost) /\ cost \in Requirements /\ Once(cost)
  BY Zenon DEF CostInv, Normal
<1>2. ASSUME NEW s, NEW ks, NEW new, Modified(s, ks, new) PROVE cost' = normalizeCost(new)
  BY <1>2, Zenon DEF Modified
<1>3. CASE addVoidCost
  <2>1. PICK new : new = Put(cost, Void, Get(cost, Void) + 1)
    OBVIOUS
  <2>2. Modified("modifyAction0", {"switch"}, new)
    BY <1>3, <2>1, Zenon DEF addVoidCost
  <2>3. cost' = normalizeCost(new)
    BY <1>2, <2>2, Zenon
  <2>4. Void \notin Colors /\ Void \in Needs
    BY ActionCostConstants DEF Void, Needs
  <2>5. ColorsFirst(new)
    BY <1>1, <2>1, <2>4, PutFirst, Zenon
  <2>6. new \in Requirements
    <3>1. Get(cost, Void) + 1 \in Nat
      BY <1>1, GetCount
    <3>2. IsPut(new, cost, Void, Get(cost, Void) + 1)
      BY <1>1, <2>1, <2>4, <3>1, PutCounts, Zenon
    <3>. QED BY <3>2, Zenon DEF IsPut
  <2>. QED BY <2>3, <2>5, <2>6, ReadFirst, Zenon
<1>4. CASE addOmniCost
  <2>1. PICK new : new = appendCost(cost, Priority, 1)
    OBVIOUS
  <2>2. Modified("modifyAction0", {"skill"}, new)
    BY <1>4, <2>1, Zenon DEF addOmniCost
  <2>3. cost' = normalizeCost(new)
    BY <1>2, <2>2, Zenon
  <2>4. 1 \in Nat
    OBVIOUS
  <2>5. ColorsFirst(new)
    BY <1>1, <2>1, <2>4, AppendFirst, Zenon
  <2>6. new \in Requirements
    BY <1>1, <2>1, <2>4, IncreasedSize, Zenon
  <2>. QED BY <2>3, <2>5, <2>6, ReadFirst, Zenon
<1>5. CASE deductAllCost
  <2>1. Modified("modifyAction3", {"card"}, <<>>)
    BY <1>5, Zenon DEF deductAllCost
  <2>2. cost' = normalizeCost(<<>>)
    BY <1>2, <2>1, Zenon
  <2>3. PICK q : q = <<>>
    OBVIOUS
  <2>4. q \in Requirements
    BY <2>3 DEF Requirements
  <2>5. ColorsFirst(q)
    BY <2>3 DEF ColorsFirst
  <2>. QED BY <2>2, <2>3, <2>4, <2>5, ReadFirst, Zenon
<1>6. ASSUME NEW n \in 1..2, deductVoidCost(n) PROVE ColorsFirst(cost')
  <2>1. Modified("modifyAction0", {"skill"}, deductCost(cost, <<Void>>, n))
    BY <1>6, Zenon DEF deductVoidCost
  <2>2. cost' = normalizeCost(deductCost(cost, <<Void>>, n))
    BY <1>2, <2>1, Zenon
  <2>. QED BY <1>1, <2>2, NamedTypes, LoweredFirst, Zenon
<1>7. ASSUME NEW n \in 1..2, deductOmniCost(n) PROVE ColorsFirst(cost')
  <2>1. Modified("modifyAction2", {"skill", "card", "switch"}, deductCost(cost, Priority, n))
    BY <1>7, Zenon DEF deductOmniCost
  <2>2. cost' = normalizeCost(deductCost(cost, Priority, n))
    BY <1>2, <2>1, Zenon
  <2>. QED BY <1>1, <2>2, PriorityTypes, LoweredFirst, Zenon
<1>8. ASSUME NEW n \in 1..2, NEW t \in Colors, deductColorCost(t, n) PROVE ColorsFirst(cost')
  <2>1. Modified("modifyAction1", {"skill", "card"}, deductCost(cost, <<t, Void>>, n))
    BY <1>8, Zenon DEF deductColorCost
  <2>2. cost' = normalizeCost(deductCost(cost, <<t, Void>>, n))
    BY <1>2, <2>1, Zenon
  <2>. QED BY <1>1, <2>2, NamedTypes, LoweredFirst, Zenon
<1>. QED BY <1>3, <1>4, <1>5, <1>6, <1>7, <1>8, Zenon DEF Modify

\* A printed cost, and a card in hand with its attachments, have the order.
LEMMA OfferedFirst ==
  ASSUME CostInv, NEW k \in Kinds, NEW printed \in Costs[k]
  PROVE  ColorsFirst(normalizeCost(printed)) /\ ColorsFirst(CardCost)
<1>1. ColorsFirst(normalizeCost(printed))
  <2>1. printed \in Requirements
    BY PrintedAsks, Zenon DEF Printed
  <2>. QED BY <2>1, PrintedFirst, ReadFirst, Zenon
<1>2. "card" \in Kinds /\ card \in Costs["card"] /\ OneWay(attachments)
  <2>1. "card" \in Kinds
    BY DEF Kinds
  <2>. QED BY <2>1, Zenon DEF CostInv, Attached
<1>3. Printed(card) /\ ColorsFirst(card)
  BY <1>2, PrintedAsks, PrintedFirst, Zenon
<1>4. ColorsFirst(CardCost)
  BY <1>2, <1>3, CardCostFirst, Zenon DEF CardCost
<1>. QED BY <1>1, <1>4

\* In every cost in force the colours come first.
LEMMA OrderInvariant == ASSUME ~BothWays PROVE Spec => []ColorsFirst(cost)
<1>1. Init => ColorsFirst(cost)
  <2>1. SUFFICES ASSUME Init PROVE ColorsFirst(cost)
    OBVIOUS
  <2>2. cost = normalizeCost(card) /\ card \in Costs["card"] /\ CostInv
    BY <2>1, InitCost, Zenon DEF Init
  <2>3. "card" \in Kinds
    BY DEF Kinds
  <2>. QED BY <2>2, <2>3, OfferedFirst, Zenon
<1>2. ColorsFirst(cost) /\ CostInv /\ [Next]_vars => ColorsFirst(cost)'
  <2>1. SUFFICES ASSUME ColorsFirst(cost), CostInv, [Next]_vars PROVE ColorsFirst(cost')
    BY DEF ColorsFirst
  <2>2. ASSUME cost' = cost PROVE ColorsFirst(cost')
    BY <2>1, <2>2, Zenon
  <2>3. ASSUME Finished PROVE ColorsFirst(cost')
    <3>1. cost' = normalizeCost(card)
      BY <2>3, Zenon DEF Finished
    <3>2. "card" \in Kinds
      BY DEF Kinds
    <3>3. card \in Costs["card"]
      BY <2>1, Zenon DEF CostInv
    <3>. QED BY <2>1, <3>1, <3>2, <3>3, OfferedFirst, Zenon
  <2>4. ASSUME NEW k, Attach(k) PROVE ColorsFirst(cost')
    <3>1. cost' = cost
      BY <2>4 DEF Attach
    <3>. QED BY <2>2, <3>1
  <2>5. ASSUME NEW k \in Kinds, NEW printed \in Costs[k], Offer(k, printed)
        PROVE  ColorsFirst(cost')
    <3>1. cost' = IF k = "card" THEN CardCost ELSE normalizeCost(printed)
      BY <2>5, Zenon DEF Offer
    <3>. QED BY <2>1, <3>1, OfferedFirst, Zenon
  <2>6. ASSUME Modify PROVE ColorsFirst(cost')
    BY <2>1, <2>6, ModifyFirst, Zenon
  <2>7. ASSUME NextStage PROVE ColorsFirst(cost')
    <3>1. cost' = cost
      BY <2>7 DEF NextStage
    <3>. QED BY <2>2, <3>1
  <2>8. ASSUME NEW used, Pay(used) PROVE ColorsFirst(cost')
    BY <2>3, <2>8, Zenon DEF Pay
  <2>9. ASSUME Decline PROVE ColorsFirst(cost')
    BY <2>3, <2>9, Zenon DEF Decline
  <2>10. ASSUME UNCHANGED vars PROVE ColorsFirst(cost')
    <3>1. cost' = cost
      BY <2>10 DEF vars
    <3>. QED BY <2>2, <3>1
  <2>. QED BY <2>1, <2>4, <2>5, <2>6, <2>7, <2>8, <2>9, <2>10, Zenon DEF Next
<1>. QED BY <1>1, <1>2, CostInvariant, PTL DEF Spec

-----------------------------------------------------------------------------
(* What chooseDice() takes of the dice. *)

\* n, or all k if there are not so many.
Lesser(n, k) == IF n < k THEN n ELSE k

\* The first n positions, or all; the last n positions, or all.
LEMMA FirstAndLast ==
  ASSUME NEW S \in SUBSET Nat, IsFiniteSet(S), NEW n \in Nat
  PROVE  /\ FirstOf(S, n) \in SUBSET S /\ LastOf(S, n) \in SUBSET S
         /\ Cardinality(FirstOf(S, n)) = Lesser(n, Cardinality(S))
         /\ Cardinality(LastOf(S, n)) = Lesser(n, Cardinality(S))
<1>1. PICK g : IsPicked(Picked(<<>>, S), g, <<>>, S)
  BY PickedPositions, Zenon
<1>2. PICK m : m = Cardinality(S)
  OBVIOUS
<1>3. /\ m \in Nat /\ g \in [1..m -> S] /\ \A k, l \in 1..m : k < l => g[k] < g[l]
      /\ \A i \in S : \E k \in 1..m : g[k] = i
  BY <1>1, <1>2, Zenon DEF IsPicked, Numbers
<1>4. \A k \in 1..m : g[k] \in S /\ g[k] \in Nat
  BY <1>3
<1>5. \A k, l \in 1..m : g[k] < g[l] <=> k < l
  <2>1. SUFFICES ASSUME NEW k \in 1..m, NEW l \in 1..m, g[k] < g[l] PROVE k < l
    BY <1>3, Zenon
  <2>2. ~(l < k) /\ k # l
    <3>1. g[k] \in Nat /\ g[l] \in Nat
      BY <1>4
    <3>2. ~(g[l] < g[k]) /\ g[k] # g[l]
      BY <2>1, <3>1
    <3>. QED BY <1>3, <3>2, Zenon
  <2>. QED BY <1>3, <2>2
<1>6. \A k, l \in 1..m : g[k] = g[l] => k = l
  <2>1. SUFFICES ASSUME NEW k \in 1..m, NEW l \in 1..m, g[k] = g[l] PROVE k = l
    BY Zenon
  <2>2. ~(g[k] < g[l]) /\ ~(g[l] < g[k])
    <3>1. g[k] \in Nat /\ g[l] \in Nat
      BY <1>4
    <3>. QED BY <2>1, <3>1
  <2>3. ~(k < l) /\ ~(l < k)
    BY <1>3, <2>2, Zenon
  <2>. QED BY <1>3, <2>3
\* The images of a stretch.
<1>7. ASSUME NEW a \in 1..m + 1, NEW b \in 0..m, a <= b + 1
      PROVE  Cardinality({g[l] : l \in a..b}) = b - a + 1
  <2>1. OneToOne(g, a..b)
    <3>1. \A l \in a..b : l \in 1..m
      BY <1>3, <1>7
    <3>. QED BY <1>6, <3>1, Zenon DEF OneToOne
  <2>2. a \in Int /\ b \in Int /\ (IF a > b THEN 0 ELSE b - a + 1) = b - a + 1
    BY <1>3, <1>7
  <2>3. IsFiniteSet(a..b) /\ Cardinality(a..b) = b - a + 1
    BY <2>2, FS_Interval
  <2>. QED BY <2>1, <2>3, Images
<1>8. ASSUME NEW k \in 1..m
      PROVE  /\ Cardinality({j \in S : j < g[k]}) = k - 1
             /\ Cardinality({j \in S : j > g[k]}) = m - k
  <2>1. {j \in S : j < g[k]} = {g[l] : l \in 1..k - 1}
    <3>1. ASSUME NEW j \in S, j < g[k] PROVE \E l \in 1..k - 1 : j = g[l]
      <4>1. PICK l \in 1..m : g[l] = j
        BY <1>3, <3>1, Zenon
      <4>2. l < k
        BY <1>5, <3>1, <4>1, Zenon
      <4>3. l \in 1..k - 1
        BY <1>3, <4>1, <4>2
      <4>. QED BY <4>1, <4>3
    <3>2. ASSUME NEW l \in 1..k - 1 PROVE g[l] \in S /\ g[l] < g[k]
      <4>1. l \in 1..m /\ l < k
        BY <1>3, <3>2
      <4>. QED BY <1>4, <1>5, <4>1
    <3>. QED BY <3>1, <3>2
  <2>2. {j \in S : j > g[k]} = {g[l] : l \in k + 1..m}
    <3>1. ASSUME NEW j \in S, j > g[k] PROVE \E l \in k + 1..m : j = g[l]
      <4>1. PICK l \in 1..m : g[l] = j
        BY <1>3, <3>1, Zenon
      <4>2. g[k] < g[l]
        BY <1>4, <3>1, <4>1
      <4>3. k < l
        BY <1>5, <4>1, <4>2, Zenon
      <4>4. l \in k + 1..m
        BY <1>3, <4>1, <4>3
      <4>. QED BY <4>1, <4>4
    <3>2. ASSUME NEW l \in k + 1..m PROVE g[l] \in S /\ g[l] > g[k]
      <4>1. l \in 1..m /\ k < l
        BY <1>3, <3>2
      <4>2. g[l] \in S /\ g[k] < g[l]
        BY <1>4, <1>5, <4>1
      <4>. QED BY <1>4, <4>1, <4>2
    <3>. QED BY <3>1, <3>2
  <2>3. Cardinality({g[l] : l \in 1..k - 1}) = (k - 1) - 1 + 1
    <3>1. 1 \in 1..m + 1 /\ k - 1 \in 0..m /\ 1 <= (k - 1) + 1
      BY <1>3
    <3>. QED BY <1>7, <3>1
  <2>4. Cardinality({g[l] : l \in k + 1..m}) = m - (k + 1) + 1
    <3>1. k + 1 \in 1..m + 1 /\ m \in 0..m /\ k + 1 <= m + 1
      BY <1>3
    <3>. QED BY <1>7, <3>1
  <2>5. Cardinality({j \in S : j < g[k]}) = (k - 1) - 1 + 1
        /\ Cardinality({j \in S : j > g[k]}) = m - (k + 1) + 1
    BY <2>1, <2>2, <2>3, <2>4, Zenon
  <2>6. (k - 1) - 1 + 1 = k - 1 /\ m - (k + 1) + 1 = m - k
    BY <1>3
  <2>. QED BY <2>5, <2>6, Zenon
<1>9. PICK q : q = Lesser(n, m)
  OBVIOUS
<1>10. q \in 0..m /\ (\A k \in 1..m : k - 1 < n <=> k <= q) /\ \A k \in 1..m : m - k < n <=> m - q < k
  BY <1>3, <1>9 DEF Lesser
<1>11. FirstOf(S, n) = {g[l] : l \in 1..q}
  <2>1. ASSUME NEW i \in S, Cardinality({j \in S : j < i}) < n PROVE \E l \in 1..q : i = g[l]
    <3>1. PICK l \in 1..m : g[l] = i
      BY <1>3, Zenon
    <3>2. l - 1 < n
      BY <1>8, <2>1, <3>1
    <3>3. l \in 1..q
      BY <1>3, <1>10, <3>2
    <3>. QED BY <3>1, <3>3
  <2>2. ASSUME NEW l \in 1..q PROVE g[l] \in S /\ Cardinality({j \in S : j < g[l]}) < n
    <3>1. l \in 1..m /\ l <= q
      BY <1>3, <1>10
    <3>2. l - 1 < n
      BY <1>10, <3>1
    <3>. QED BY <1>4, <1>8, <3>1, <3>2
  <2>. QED BY <2>1, <2>2 DEF FirstOf
<1>12. LastOf(S, n) = {g[l] : l \in (m - q) + 1..m}
  <2>1. ASSUME NEW i \in S, Cardinality({j \in S : j > i}) < n
        PROVE  \E l \in (m - q) + 1..m : i = g[l]
    <3>1. PICK l \in 1..m : g[l] = i
      BY <1>3, Zenon
    <3>2. m - l < n
      BY <1>8, <2>1, <3>1
    <3>3. l \in (m - q) + 1..m
      BY <1>3, <1>10, <3>2
    <3>. QED BY <3>1, <3>3
  <2>2. ASSUME NEW l \in (m - q) + 1..m
        PROVE  g[l] \in S /\ Cardinality({j \in S : j > g[l]}) < n
    <3>1. l \in 1..m /\ m - q < l
      BY <1>3, <1>10
    <3>2. m - l < n
      BY <1>10, <3>1
    <3>. QED BY <1>4, <1>8, <3>1, <3>2
  <2>. QED BY <2>1, <2>2 DEF LastOf
<1>13. Cardinality({g[l] : l \in 1..q}) = q - 1 + 1
  <2>1. 1 \in 1..m + 1 /\ 1 <= q + 1
    BY <1>3, <1>10
  <2>. QED BY <1>7, <1>10, <2>1
<1>14. Cardinality({g[l] : l \in (m - q) + 1..m}) = m - ((m - q) + 1) + 1
  <2>1. (m - q) + 1 \in 1..m + 1 /\ m \in 0..m /\ (m - q) + 1 <= m + 1
    BY <1>3, <1>10
  <2>. QED BY <1>7, <2>1
<1>15. q \in Nat
  BY <1>3, <1>10
<1>16. FirstOf(S, n) \in SUBSET S /\ LastOf(S, n) \in SUBSET S
  BY DEF FirstOf, LastOf
<1>17. q - 1 + 1 = q /\ m - ((m - q) + 1) + 1 = q
  BY <1>3, <1>15
<1>. QED BY <1>2, <1>9, <1>11, <1>12, <1>13, <1>14, <1>16, <1>17, Zenon

\* Two sets of positions with nothing in common.
LEMMA Together ==
  ASSUME NEW A, NEW B, IsFiniteSet(A), IsFiniteSet(B), A \cap B = {}
  PROVE  IsFiniteSet(A \union B) /\ Cardinality(A \union B) = Cardinality(A) + Cardinality(B)
         /\ Cardinality(A) \in Nat /\ Cardinality(B) \in Nat
<1>1. IsFiniteSet(A \union B)
      /\ Cardinality(A \union B) = Cardinality(A) + Cardinality(B) - Cardinality(A \cap B)
  BY FS_Union
<1>2. Cardinality(A \cap B) = 0
  BY FS_EmptySet
<1>. QED BY <1>1, <1>2, FS_CardinalityType

\* The dice are a finite set of positions.
LEMMA Positions ==
  ASSUME NEW d \in Seq(Dice)
  PROVE  /\ Len(d) \in Nat /\ DOMAIN d = 1..Len(d) /\ DOMAIN d \in SUBSET Nat
         /\ IsFiniteSet(DOMAIN d) /\ Cardinality(DOMAIN d) = Len(d)
<1>1. PICK n : n = Len(d)
  OBVIOUS
<1>2. n \in Nat /\ DOMAIN d = 1..n
  BY <1>1, SeqElements, Zenon
<1>3. n \in Int /\ 1 \in Int /\ (IF 1 > n THEN 0 ELSE n - 1 + 1) = n
  BY <1>2
<1>4. IsFiniteSet(1..n) /\ Cardinality(1..n) = n
  BY <1>3, FS_Interval
<1>5. 1..n \in SUBSET Nat
  BY <1>2
<1>. QED BY <1>1, <1>2, <1>4, <1>5, Zenon

\* Positions of d that are already taken or not.
LEMMA Free ==
  ASSUME NEW d \in Seq(Dice), NEW T \in SUBSET DOMAIN d, NEW P \in SUBSET DOMAIN d
  PROVE  /\ P \ T \in SUBSET Nat /\ IsFiniteSet(P \ T) /\ IsFiniteSet(P) /\ IsFiniteSet(T)
         /\ IsFiniteSet(P \cap T)
         /\ Cardinality(P \ T) = Cardinality(P) - Cardinality(P \cap T)
         /\ Cardinality(P) \in Nat /\ Cardinality(P \cap T) \in Nat
<1>1. DOMAIN d \in SUBSET Nat /\ IsFiniteSet(DOMAIN d)
  BY Positions
<1>2. IsFiniteSet(P) /\ IsFiniteSet(T)
  BY <1>1, FS_Subset
<1>3. IsFiniteSet(P \ T) /\ Cardinality(P \ T) = Cardinality(P) - Cardinality(P \cap T)
  BY <1>2, FS_Difference
<1>4. P \cap T \in SUBSET P
  OBVIOUS
<1>5. IsFiniteSet(P \cap T)
  BY <1>2, <1>4, FS_Subset
<1>6. P \ T \in SUBSET Nat
  BY <1>1
<1>. QED BY <1>2, <1>3, <1>5, <1>6, FS_CardinalityType

\* R is T with n dice of d more: of the colour t as many as there are, and omni
\* dice for the others.
TakesColor(R, T, d, t, n) ==
  /\ R \in SUBSET DOMAIN d /\ T \in SUBSET R
  /\ Cardinality(R) = Cardinality(T) + n
  /\ Cardinality(R \cap At(d, t)) = Lesser(n, CountOf(d, t))
  /\ Cardinality(R \cap At(d, Omni))
       = Cardinality(T \cap At(d, Omni)) + Less(n, CountOf(d, t))
  /\ \A u \in Colors \ {t} : R \cap At(d, u) = T \cap At(d, u)

\* What an entry of a colour takes when none of its dice is taken and the omni
\* dice are enough.
LEMMA ColorTaken ==
  ASSUME NEW d \in Seq(Dice), NEW T \in SUBSET DOMAIN d, NEW e, NEW t \in Colors, NEW n \in Nat,
         e.type = t, e.count = n, T \cap At(d, t) = {},
         Cardinality(T \cap At(d, Omni)) + Less(n, CountOf(d, t)) <= CountOf(d, Omni)
  PROVE  TakesColor(T \union takes(e, DOMAIN d \ T, d), T, d, t, n)
<1>1. t # Energy /\ t # Void /\ t # Omni /\ Omni \notin Colors
  BY ActionCostConstants DEF Energy, Void, Omni
<1>2. PICK A : A = At(d, t)
  OBVIOUS
<1>3. PICK B : B = At(d, Omni)
  OBVIOUS
<1>4. A \in SUBSET DOMAIN d /\ B \in SUBSET DOMAIN d /\ A \cap B = {} /\ T \cap A = {}
  BY <1>1, <1>2, <1>3 DEF At
<1>5. /\ IsFiniteSet(A) /\ Cardinality(A) = CountOf(d, t) /\ CountOf(d, t) \in Nat
      /\ IsFiniteSet(B) /\ Cardinality(B) = CountOf(d, Omni) /\ CountOf(d, Omni) \in Nat
  BY <1>2, <1>3, AtFinite, Zenon
<1>6. PICK F : F = FirstOf(A, n)
  OBVIOUS
<1>7. F \in SUBSET A /\ Cardinality(F) = Lesser(n, CountOf(d, t)) /\ IsFiniteSet(F)
  <2>1. A \in SUBSET Nat
    BY <1>4, Positions
  <2>2. F \in SUBSET A /\ Cardinality(F) = Lesser(n, Cardinality(A))
    BY <1>5, <1>6, <2>1, FirstAndLast
  <2>. QED BY <1>5, <2>2, FS_Subset
<1>8. PICK k : k = Less(n, CountOf(d, t))
  OBVIOUS
<1>9. k \in Nat /\ n - Cardinality(F) = k /\ Lesser(n, CountOf(d, t)) + k = n
      /\ Lesser(n, CountOf(d, t)) \in Nat
  BY <1>5, <1>7, <1>8 DEF Less, Lesser
<1>10. PICK G : G = FirstOf(B \ T, k)
  OBVIOUS
<1>11. PICK b : b = Cardinality(T \cap B)
  OBVIOUS
<1>12. b \in Nat /\ Cardinality(B \ T) = CountOf(d, Omni) - b
       /\ IsFiniteSet(B \ T) /\ B \ T \in SUBSET Nat /\ IsFiniteSet(T) /\ IsFiniteSet(T \cap B)
  <2>1. B \cap T = T \cap B
    OBVIOUS
  <2>2. /\ B \ T \in SUBSET Nat /\ IsFiniteSet(B \ T) /\ IsFiniteSet(T) /\ IsFiniteSet(B \cap T)
        /\ Cardinality(B \ T) = Cardinality(B) - Cardinality(B \cap T)
        /\ Cardinality(B \cap T) \in Nat
    BY <1>4, Free
  <2>. QED BY <1>5, <1>11, <2>1, <2>2, Zenon
<1>13. G \in SUBSET (B \ T) /\ Cardinality(G) = k /\ IsFiniteSet(G)
  <2>1. G \in SUBSET (B \ T) /\ Cardinality(G) = Lesser(k, Cardinality(B \ T))
    BY <1>9, <1>10, <1>12, FirstAndLast
  <2>2. b + k <= CountOf(d, Omni)
    BY <1>3, <1>8, <1>11
  <2>3. Lesser(k, Cardinality(B \ T)) = k
    BY <1>5, <1>9, <1>12, <2>2 DEF Lesser
  <2>4. IsFiniteSet(G)
    BY <1>12, <2>1, FS_Subset
  <2>. QED BY <2>1, <2>3, <2>4, Zenon
<1>14. takes(e, DOMAIN d \ T, d) = F \union G
  <2>1. {i \in DOMAIN d \ T : d[i] = e.type} = A
    BY <1>2, <1>4 DEF At
  <2>2. {i \in DOMAIN d \ T : d[i] = Omni} = B \ T
    BY <1>3 DEF At
  <2>3. FirstOf({i \in DOMAIN d \ T : d[i] = e.type}, e.count) = F
    BY <1>6, <2>1, Zenon
  <2>4. FirstOf({i \in DOMAIN d \ T : d[i] = Omni}, e.count - Cardinality(F)) = G
    BY <1>9, <1>10, <2>2, Zenon
  <2>. QED BY <1>1, <2>3, <2>4, Zenon DEF takes
<1>15. PICK R : R = T \union (F \union G)
  OBVIOUS
<1>16. F \cap G = {} /\ T \cap (F \union G) = {}
  BY <1>4, <1>7, <1>13
<1>17. IsFiniteSet(F \union G) /\ Cardinality(F \union G) = Cardinality(F) + Cardinality(G)
  BY <1>7, <1>13, <1>16, Together
<1>18. Cardinality(R) = Cardinality(T) + n
  <2>1. Cardinality(R) = Cardinality(T) + Cardinality(F \union G)
    BY <1>12, <1>15, <1>16, <1>17, Together
  <2>2. Cardinality(F \union G) = n
    BY <1>7, <1>9, <1>13, <1>17
  <2>. QED BY <2>1, <2>2, Zenon
<1>19. R \in SUBSET DOMAIN d /\ T \in SUBSET R
  BY <1>4, <1>7, <1>13, <1>15
<1>20. Cardinality(R \cap A) = Lesser(n, CountOf(d, t))
  <2>1. R \cap A = F
    BY <1>4, <1>7, <1>13, <1>15
  <2>. QED BY <1>7, <2>1, Zenon
<1>21. Cardinality(R \cap B) = b + k
  <2>1. R \cap B = (T \cap B) \union G /\ (T \cap B) \cap G = {}
    BY <1>4, <1>7, <1>13, <1>15
  <2>2. Cardinality((T \cap B) \union G) = Cardinality(T \cap B) + Cardinality(G)
    BY <1>12, <1>13, <2>1, Together
  <2>. QED BY <1>11, <1>13, <2>1, <2>2, Zenon
<1>22. ASSUME NEW u \in Colors \ {t} PROVE R \cap At(d, u) = T \cap At(d, u)
  <2>1. u # t /\ u # Omni
    BY <1>1
  <2>2. F \cap At(d, u) = {} /\ G \cap At(d, u) = {}
    BY <1>2, <1>3, <1>7, <1>13, <2>1 DEF At
  <2>. QED BY <1>15, <2>2
<1>23. TakesColor(R, T, d, t, n)
  BY <1>2, <1>3, <1>8, <1>11, <1>18, <1>19, <1>20, <1>21, <1>22, Zenon DEF TakesColor
<1>. QED BY <1>14, <1>15, <1>23, Zenon

\* R is T with n dice of d more.
TakesMore(R, T, d, n) ==
  R \in SUBSET DOMAIN d /\ T \in SUBSET R /\ Cardinality(R) = Cardinality(T) + n

\* What an entry of dice of any type takes when there are enough.
LEMMA VoidTaken ==
  ASSUME NEW d \in Seq(Dice), NEW T \in SUBSET DOMAIN d, NEW e, NEW n \in Nat,
         e.type = Void, e.count = n, Cardinality(T) + n <= Len(d),
         NEW R, R = T \union takes(e, DOMAIN d \ T, d)
  PROVE  TakesMore(R, T, d, n)
<1>1. Void # Energy
  BY DEF Void, Energy
<1>2. PICK U : U = DOMAIN d \ T
  OBVIOUS
<1>3. PICK D : D = DOMAIN d
  OBVIOUS
<1>4. D \in SUBSET DOMAIN d /\ D \cap T = T
  BY <1>3
<1>5. U \in SUBSET Nat /\ IsFiniteSet(U) /\ IsFiniteSet(T) /\ Cardinality(T) \in Nat
      /\ Cardinality(U) = Len(d) - Cardinality(T) /\ Len(d) \in Nat
  <2>1. /\ D \ T \in SUBSET Nat /\ IsFiniteSet(D \ T) /\ IsFiniteSet(T)
        /\ Cardinality(D \ T) = Cardinality(D) - Cardinality(D \cap T)
        /\ Cardinality(D \cap T) \in Nat
    BY <1>4, Free
  <2>2. Cardinality(D) = Len(d) /\ Len(d) \in Nat
    BY <1>3, Positions
  <2>. QED BY <1>2, <1>3, <1>4, <2>1, <2>2, Zenon
<1>6. takes(e, DOMAIN d \ T, d) = LastOf(U, n)
  BY <1>1, <1>2, Zenon DEF takes
<1>7. PICK L : L = LastOf(U, n)
  OBVIOUS
<1>8. L \in SUBSET U /\ Cardinality(L) = Lesser(n, Cardinality(U))
  BY <1>5, <1>7, FirstAndLast
<1>9. Cardinality(L) = n /\ IsFiniteSet(L)
  <2>1. Lesser(n, Cardinality(U)) = n
    BY <1>5 DEF Lesser
  <2>. QED BY <1>5, <1>8, <2>1, FS_Subset
<1>10. T \cap L = {}
  BY <1>2, <1>8
<1>11. R = T \union L
  BY <1>6, <1>7, Zenon
<1>12. Cardinality(R) = Cardinality(T) + n
  BY <1>5, <1>9, <1>10, <1>11, Together
<1>13. R \in SUBSET DOMAIN d /\ T \in SUBSET R
  BY <1>2, <1>8, <1>11
<1>. QED BY <1>12, <1>13, Zenon DEF TakesMore

\* f is what the first entries take, one after the other.
TakesInTurn(f, req, d) ==
  /\ f \in [0..Len(req) -> SUBSET DOMAIN d] /\ f[0] = {}
  /\ \A k \in 1..Len(req) : f[k] = f[k - 1] \union takes(req[k], DOMAIN d \ f[k - 1], d)

\* What each entry adds to what is taken.
TakesStep(req, d) ==
  [k \in 1..Len(req) |-> [T \in SUBSET DOMAIN d |-> T \union takes(req[k], DOMAIN d \ T, d)]]

\* Only free dice are taken.
LEMMA TakesFree ==
  ASSUME NEW e, NEW F, NEW d
  PROVE  takes(e, F, d) \in SUBSET F
<1>1. \A S, n : FirstOf(S, n) \in SUBSET S /\ LastOf(S, n) \in SUBSET S
  BY DEF FirstOf, LastOf
<1>2. PICK A : A = FirstOf({i \in F : d[i] = e.type}, e.count)
  OBVIOUS
<1>3. PICK B : B = FirstOf({i \in F : d[i] = Omni}, e.count - Cardinality(A))
  OBVIOUS
<1>4. A \in SUBSET F /\ B \in SUBSET F
  <2>1. A \in SUBSET {i \in F : d[i] = e.type} /\ B \in SUBSET {i \in F : d[i] = Omni}
    BY <1>1, <1>2, <1>3, Zenon
  <2>. QED BY <2>1
<1>5. takes(e, F, d) \in {{}, LastOf(F, e.count), A \union B}
  BY <1>2, <1>3 DEF takes
<1>. QED BY <1>1, <1>4, <1>5

\* The recursion of chooseDice() as a sequence of steps.
LEMMA TakenInTurn ==
  ASSUME NEW req \in Requirements, NEW d
  PROVE  TakesInTurn(taken(req, d), req, d)
<1>. DEFINE next(T, k) == T \union takes(req[k], DOMAIN d \ T, d)
            Is(f) == f = [k \in 0..Len(req) |->
                            IF k = 0 THEN {}
                            ELSE f[k - 1] \union takes(req[k], DOMAIN d \ f[k - 1], d)]
<1>1. PICK n : n = Len(req)
  OBVIOUS
<1>0. n \in Nat
  BY <1>1, Entries
<1>2. PICK M : M = SUBSET DOMAIN d
  OBVIOUS
<1>3. /\ TakesStep(req, d) \in [1..n -> [M -> M]] /\ {} \in M
      /\ \A k \in 1..n, T \in M : TakesStep(req, d)[k][T] = next(T, k)
  <2>1. \A k \in 1..n, T \in M : next(T, k) \in M
    <3>1. SUFFICES ASSUME NEW k \in 1..n, NEW T \in M PROVE next(T, k) \in M
      OBVIOUS
    <3>2. takes(req[k], DOMAIN d \ T, d) \in SUBSET (DOMAIN d \ T)
      BY TakesFree
    <3>. QED BY <1>2, <3>2
  <2>2. TakesStep(req, d) = [k \in 1..n |-> [T \in M |-> next(T, k)]]
    BY <1>1, <1>2, Zenon DEF TakesStep
  <2>3. {} \in M
    BY <1>2
  <2>. HIDE DEF next
  <2>. QED BY <2>1, <2>2, <2>3
<1>4. PICK g : GoesOn(g, M, n, {}, TakesStep(req, d))
  BY <1>0, <1>3, Recursion, Zenon
<1>5. Is(g)
  <2>1. ASSUME NEW k \in 1..n PROVE g[k] = next(g[k - 1], k)
    <3>1. g[k - 1] \in M /\ g[k] = TakesStep(req, d)[k][g[k - 1]]
      <4>1. g \in [0..n -> M] /\ \A j \in 1..n : g[j] = TakesStep(req, d)[j][g[j - 1]]
        BY <1>4, Zenon DEF GoesOn
      <4>2. k - 1 \in 0..n
        BY <1>0
      <4>3. g[k - 1] \in M
        BY <4>1, <4>2
      <4>. QED BY <4>1, <4>3, Zenon
    <3>. HIDE DEF next
    <3>. QED BY <1>3, <3>1, Zenon
  <2>2. g[0] = {} /\ g = [k \in 0..n |-> g[k]]
    BY <1>4 DEF GoesOn
  <2>3. \A k \in 0..n : k = 0 \/ k \in 1..n
    BY <1>0
  <2>. QED BY <1>1, <2>1, <2>2, <2>3, Zenon
<1>6. PICK f : Is(f) /\ taken(req, d) = f
  <2>. DEFINE h == CHOOSE f : Is(f)
  <2>1. Is(h)
    BY <1>5, Zenon
  <2>2. taken(req, d) = h
    BY Zenon DEF taken
  <2>. QED BY <2>1, <2>2, Zenon
<1>7. f[0] = {} /\ f = [k \in 0..n |-> f[k]] /\ \A k \in 1..n : f[k] = next(f[k - 1], k)
  <2>. DEFINE now(k) == next(f[k - 1], k)
              new == [k \in 0..n |-> IF k = 0 THEN {} ELSE now(k)]
  <2>1. f = new
    BY <1>1, <1>6, Zenon
  <2>2. /\ new[0] = {} /\ new = [k \in 0..n |-> new[k]]
        /\ \A k \in 1..n : new[k] = now(k)
    <3>. HIDE DEF now
    <3>. QED BY <1>0
  <2>. HIDE DEF new, next
  <2>. QED BY <2>1, <2>2
<1>8. \A k \in 1..n : f[k - 1] \in M => f[k] = TakesStep(req, d)[k][f[k - 1]]
  <2>. HIDE DEF next
  <2>. QED BY <1>3, <1>7, Zenon
<1>9. GoesOn(f, M, n, {}, TakesStep(req, d))
  BY <1>0, <1>3, <1>7, <1>8, RecursionType, Zenon
<1>10. f \in [0..n -> M]
  BY <1>9, Zenon DEF GoesOn
<1>. QED BY <1>1, <1>2, <1>6, <1>7, <1>10, Zenon DEF TakesInTurn

\* The dice types of the first k entries, and the units of types S that lack a
\* die of their colour.
Seen(req, k) == {req[i].type : i \in 1..k} \ {Energy}
LackIn(req, d, S) == {u \in Lacking(req, d) : u[1] \in S}

\* T are dice for the types S: as many as they ask for, of each colour as many
\* as there are or are needed, omni dice for the others; until dice of any type
\* are asked for, no other dice.
Served(T, req, d, S) ==
  /\ T \in SUBSET DOMAIN d
  /\ Cardinality(T) = SizeIn(req, S)
  /\ \A t \in Colors \cap S : Lesser(Get(req, t), CountOf(d, t)) <= Cardinality(T \cap At(d, t))
  /\ Cardinality(LackIn(req, d, S)) <= Cardinality(T \cap At(d, Omni))
  /\ Void \notin S => /\ Cardinality(LackIn(req, d, S)) = Cardinality(T \cap At(d, Omni))
                      /\ \A t \in Colors \ S : T \cap At(d, t) = {}

\* A type more lacks what it has too few dice for.
LEMMA LackMore ==
  ASSUME NEW req \in Requirements, Once(req), NEW d \in Seq(Dice), NEW S, NEW t \in Colors,
         t \notin S
  PROVE  /\ Cardinality(LackIn(req, d, S \union {t}))
              = Cardinality(LackIn(req, d, S)) + Less(Get(req, t), CountOf(d, t))
         /\ Cardinality(LackIn(req, d, S \union {t})) <= Cardinality(Lacking(req, d))
<1>1. PICK L : L = Lacking(req, d)
  OBVIOUS
<1>2. IsFiniteSet(L)
  <2>1. IsFiniteSet(Units(req))
    BY UnitShape, Zenon
  <2>2. L \in SUBSET Units(req)
    BY <1>1 DEF Lacking
  <2>. QED BY <2>1, <2>2, FS_Subset
<1>3. PICK A : A = LackIn(req, d, S)
  OBVIOUS
<1>4. PICK B : B = OfType(L, t)
  OBVIOUS
<1>5. PICK C : C = LackIn(req, d, S \union {t})
  OBVIOUS
<1>6. C = A \union B /\ A \cap B = {} /\ A \in SUBSET L /\ B \in SUBSET L /\ C \in SUBSET L
  BY <1>1, <1>3, <1>4, <1>5 DEF LackIn, OfType
<1>7. IsFiniteSet(A) /\ IsFiniteSet(B) /\ Cardinality(C) <= Cardinality(L)
  BY <1>2, <1>6, FS_Subset
<1>8. Cardinality(C) = Cardinality(A) + Cardinality(B)
  BY <1>6, <1>7, Together
<1>9. Cardinality(B) = Less(Get(req, t), CountOf(d, t))
  BY <1>1, <1>4, LackingOfType
<1>. QED BY <1>1, <1>3, <1>5, <1>7, <1>8, <1>9, Zenon

\* A type more asks for its count.
LEMMA SizeMore ==
  ASSUME NEW req \in Requirements, Once(req), NEW S \in SUBSET DiceTypes, NEW t \in DiceTypes,
         t \notin S
  PROVE  /\ SizeIn(req, S \union {t}) = SizeIn(req, S) + Get(req, t)
         /\ SizeIn(req, S \union {t}) <= diceCostSize(req)
<1>1. PICK A : A = S \union {t}
  OBVIOUS
<1>2. A \in SUBSET DiceTypes /\ A \ S = {t}
  BY <1>1
<1>3. SizeIn(req, A) = SizeIn(req, S) + SizeIn(req, A \ S)
  <2>1. A \in SUBSET DiceTypes /\ S \in SUBSET A
    BY <1>1
  <2>. QED BY <2>1, SizeSplit
<1>4. SizeIn(req, {t}) = Get(req, t)
  BY SizeOfType
<1>5. SizeIn(req, A) = SizeIn(req, S) + Get(req, t)
  BY <1>2, <1>3, <1>4, Zenon
<1>6. PICK D : D = DiceTypes
  OBVIOUS
<1>7. D \in SUBSET DiceTypes /\ A \in SUBSET D
  BY <1>2, <1>6
<1>8. /\ SizeIn(req, D) = SizeIn(req, A) + SizeIn(req, D \ A)
      /\ SizeIn(req, A) \in Nat /\ SizeIn(req, D \ A) \in Nat /\ SizeIn(req, D) \in Nat
  BY <1>7, SizeSplit
<1>9. SizeIn(req, A) <= SizeIn(req, D)
  BY <1>8
<1>10. diceCostSize(req) = SizeIn(req, D)
  BY <1>6, SizeOfAll, Zenon
<1>. QED BY <1>1, <1>5, <1>9, <1>10, Zenon

\* A greater set of dice has no fewer of a kind.
LEMMA NoFewer ==
  ASSUME NEW d \in Seq(Dice), NEW R \in SUBSET DOMAIN d, NEW T \in SUBSET R, NEW t
  PROVE  /\ Cardinality(T \cap At(d, t)) <= Cardinality(R \cap At(d, t))
         /\ Cardinality(T \cap At(d, t)) \in Nat /\ Cardinality(R \cap At(d, t)) \in Nat
<1>1. PICK A, B : A = R \cap At(d, t) /\ B = T \cap At(d, t)
  OBVIOUS
<1>2. A \in SUBSET DOMAIN d /\ B \in SUBSET A
  BY <1>1
<1>3. IsFiniteSet(A)
  BY <1>2, Positions, FS_Subset
<1>4. Cardinality(B) <= Cardinality(A) /\ IsFiniteSet(B)
  BY <1>2, <1>3, FS_Subset
<1>. QED BY <1>1, <1>3, <1>4, FS_CardinalityType

\* One entry more is served.
LEMMA EntryServed ==
  ASSUME NEW req \in Requirements, Once(req), ColorsFirst(req), ~Has(req, Aligned),
         NEW d \in Seq(Dice), Cardinality(Lacking(req, d)) <= CountOf(d, Omni),
         diceCostSize(req) <= Len(d), NEW k \in 1..Len(req), NEW T,
         Served(T, req, d, Seen(req, k - 1)), NEW R,
         R = T \union takes(req[k], DOMAIN d \ T, d)
  PROVE  Served(R, req, d, Seen(req, k))
<1>1. PICK S : S = Seen(req, k - 1)
  OBVIOUS
<1>2. PICK Z : Z = Seen(req, k)
  OBVIOUS
<1>3. PICK t, n : t = req[k].type /\ n = req[k].count
  OBVIOUS
<1>4. PICK m : m = Len(req)
  OBVIOUS
<1>5. m \in Nat /\ DOMAIN req = 1..m /\ k \in 1..m /\ \A i \in 1..m : req[i].type \in Needs
  BY <1>4, Entries
<1>6. t \in Needs /\ n \in Nat /\ n = Get(req, t) /\ Has(req, t)
  <2>1. k \in DOMAIN req
    BY <1>5
  <2>. QED BY <1>3, <2>1, Entries, GetEntry
<1>7. Z = S \union ({t} \ {Energy})
  <2>1. \A i : i \in 1..k <=> i \in 1..k - 1 \/ i = k
    BY <1>5
  <2>. QED BY <1>1, <1>2, <1>3, <2>1 DEF Seen
<1>8. t \notin S
  <2>1. SUFFICES ASSUME NEW i \in 1..k - 1, req[i].type = t PROVE FALSE
    BY <1>1 DEF Seen
  <2>2. i \in DOMAIN req /\ k \in DOMAIN req /\ i # k
    BY <1>5
  <2>. QED BY <1>3, <2>1, <2>2, Zenon DEF Once
<1>9. S \in SUBSET DiceTypes
  <2>1. SUFFICES ASSUME NEW i \in 1..k - 1, req[i].type # Energy
                 PROVE  req[i].type \in DiceTypes
    BY <1>1 DEF Seen
  <2>2. req[i].type \in Needs
    BY <1>5
  <2>. QED BY <2>1, <2>2 DEF Needs, DiceTypes
<1>10. /\ T \in SUBSET DOMAIN d
       /\ Cardinality(T) = SizeIn(req, S)
       /\ \A u \in Colors \cap S :
            Lesser(Get(req, u), CountOf(d, u)) <= Cardinality(T \cap At(d, u))
       /\ Cardinality(LackIn(req, d, S)) <= Cardinality(T \cap At(d, Omni))
       /\ Void \notin S => /\ Cardinality(LackIn(req, d, S)) = Cardinality(T \cap At(d, Omni))
                           /\ \A u \in Colors \ S : T \cap At(d, u) = {}
  BY <1>1, Zenon DEF Served
<1>11. Void \notin Colors
  BY ActionCostConstants DEF Void
<1>12. CASE t = Energy
  <2>1. takes(req[k], DOMAIN d \ T, d) = {}
    <3>1. req[k].type = Energy
      BY <1>3, <1>12, Zenon
    <3>2. Energy # Void
      BY DEF Void, Energy
    <3>. QED BY <3>1, <3>2, Zenon DEF takes
  <2>2. R = T /\ Z = S
    BY <1>7, <1>12, <2>1
  <2>. QED BY <1>1, <1>2, <2>2, Zenon
<1>13. CASE t = Void
  <2>1. Z = S \union {t} /\ t \in DiceTypes
    BY <1>7, <1>13 DEF Void, Energy, DiceTypes
  <2>2. SizeIn(req, Z) = SizeIn(req, S) + n /\ SizeIn(req, Z) <= diceCostSize(req)
    BY <1>6, <1>8, <1>9, <2>1, SizeMore
  <2>3. Cardinality(T) + n <= Len(d)
    <3>1. SizeIn(req, Z) \in Nat /\ diceCostSize(req) \in Nat /\ Len(d) \in Nat
      <4>1. Z \in SUBSET DiceTypes
        BY <1>9, <2>1
      <4>2. SizeIn(req, Z) \in Nat
        BY <4>1, UnitsFinite DEF SizeIn
      <4>. QED BY <4>2, SizeOfAll, Positions
    <3>. QED BY <1>10, <2>2, <3>1
  <2>4. R \in SUBSET DOMAIN d /\ T \in SUBSET R /\ Cardinality(R) = Cardinality(T) + n
    <3>1. T \in SUBSET DOMAIN d /\ n \in Nat /\ req[k].type = Void /\ req[k].count = n
      BY <1>3, <1>6, <1>10, <1>13, Zenon
    <3>2. TakesMore(R, T, d, n)
      BY <2>3, <3>1, VoidTaken, Zenon
    <3>. QED BY <3>2, Zenon DEF TakesMore
  <2>5. LackIn(req, d, Z) = LackIn(req, d, S)
    BY <1>11, <1>13, <2>1 DEF LackIn, Lacking
  <2>6. PICK L : L = LackIn(req, d, S)
    OBVIOUS
  <2>7. Cardinality(L) \in Nat
    <3>1. IsFiniteSet(Units(req))
      BY UnitShape, Zenon
    <3>2. L \in SUBSET Units(req)
      BY <2>6 DEF LackIn, Lacking
    <3>. QED BY <3>1, <3>2, FS_Subset, FS_CardinalityType
  <2>8. \A u : /\ Cardinality(T \cap At(d, u)) <= Cardinality(R \cap At(d, u))
               /\ Cardinality(T \cap At(d, u)) \in Nat /\ Cardinality(R \cap At(d, u)) \in Nat
    BY <2>4, NoFewer
  <2>9. ASSUME NEW u \in Colors \cap Z
        PROVE  Lesser(Get(req, u), CountOf(d, u)) <= Cardinality(R \cap At(d, u))
    <3>1. u \in Colors \cap S
      BY <1>11, <1>13, <2>1
    <3>2. Lesser(Get(req, u), CountOf(d, u)) \in Nat
      <4>1. Get(req, u) \in Nat /\ CountOf(d, u) \in Nat
        BY GetCount, AtFinite
      <4>. QED BY <4>1 DEF Lesser
    <3>3. Lesser(Get(req, u), CountOf(d, u)) <= Cardinality(T \cap At(d, u))
      BY <1>10, <3>1, Zenon
    <3>4. PICK a, b, c : /\ a = Lesser(Get(req, u), CountOf(d, u))
                         /\ b = Cardinality(T \cap At(d, u))
                         /\ c = Cardinality(R \cap At(d, u))
      OBVIOUS
    <3>5. a \in Nat /\ b \in Nat /\ c \in Nat /\ a <= b /\ b <= c
      BY <2>8, <3>2, <3>3, <3>4, Zenon
    <3>6. a <= c
      BY <3>5
    <3>. QED BY <3>4, <3>6, Zenon
  <2>10. Cardinality(L) <= Cardinality(R \cap At(d, Omni))
    <3>1. Cardinality(L) <= Cardinality(T \cap At(d, Omni))
      BY <1>10, <2>6, Zenon
    <3>2. PICK a, b, c : /\ a = Cardinality(L) /\ b = Cardinality(T \cap At(d, Omni))
                         /\ c = Cardinality(R \cap At(d, Omni))
      OBVIOUS
    <3>3. a \in Nat /\ b \in Nat /\ c \in Nat /\ a <= b /\ b <= c
      BY <2>7, <2>8, <3>1, <3>2, Zenon
    <3>4. a <= c
      BY <3>3
    <3>. QED BY <3>2, <3>4, Zenon
  <2>11. Cardinality(R) = SizeIn(req, Z)
    BY <1>10, <2>2, <2>4, Zenon
  <2>12. Void \in Z
    BY <1>13, <2>1
  <2>. QED BY <1>2, <2>4, <2>5, <2>6, <2>9, <2>10, <2>11, <2>12, Zenon DEF Served
<1>14. CASE t \in Colors
  <2>1. Z = S \union {t} /\ t \in DiceTypes /\ t # Void
    BY <1>7, <1>11, <1>14, ActionCostConstants DEF Energy, DiceTypes
  <2>2. SizeIn(req, Z) = SizeIn(req, S) + n
    BY <1>6, <1>8, <1>9, <2>1, SizeMore
  <2>3. Void \notin S
    <3>1. SUFFICES ASSUME NEW i \in 1..k - 1, req[i].type = Void PROVE FALSE
      BY <1>1 DEF Seen
    <3>2. i \in DOMAIN req /\ k \in DOMAIN req /\ i < k
      BY <1>5
    <3>. QED BY <1>3, <1>14, <3>1, <3>2, Zenon DEF ColorsFirst
  <2>4. PICK o, x : o = Cardinality(T \cap At(d, Omni)) /\ x = Less(n, CountOf(d, t))
    OBVIOUS
  <2>5. o = Cardinality(LackIn(req, d, S)) /\ \A u \in Colors \ S : T \cap At(d, u) = {}
    BY <1>10, <2>3, <2>4, Zenon
  <2>6. /\ Cardinality(LackIn(req, d, Z)) = o + x
        /\ Cardinality(LackIn(req, d, Z)) <= Cardinality(Lacking(req, d))
    <3>1. /\ Cardinality(LackIn(req, d, S \union {t}))
               = Cardinality(LackIn(req, d, S)) + Less(Get(req, t), CountOf(d, t))
          /\ Cardinality(LackIn(req, d, S \union {t})) <= Cardinality(Lacking(req, d))
      BY <1>8, <1>14, LackMore
    <3>. QED BY <1>6, <2>1, <2>4, <2>5, <3>1, Zenon
  <2>7. o + x <= CountOf(d, Omni) /\ o + x \in Nat
    <3>1. CountOf(d, Omni) \in Nat
      BY AtFinite
    <3>2. /\ IsFiniteSet(Units(req)) /\ Lacking(req, d) \in SUBSET Units(req)
          /\ LackIn(req, d, Z) \in SUBSET Units(req)
      BY UnitShape DEF LackIn, Lacking
    <3>3. Cardinality(Lacking(req, d)) \in Nat /\ Cardinality(LackIn(req, d, Z)) \in Nat
      BY <3>2, FS_Subset, FS_CardinalityType
    <3>. QED BY <2>6, <3>1, <3>3
  <2>8. TakesColor(R, T, d, t, n)
    <3>1. T \cap At(d, t) = {}
      BY <1>8, <1>14, <2>5
    <3>2. Cardinality(T \cap At(d, Omni)) + Less(n, CountOf(d, t)) <= CountOf(d, Omni)
      BY <2>4, <2>7, Zenon
    <3>3. T \in SUBSET DOMAIN d /\ n \in Nat /\ req[k].type = t /\ req[k].count = n
      BY <1>3, <1>6, <1>10, Zenon
    <3>. QED BY <1>14, <3>1, <3>2, <3>3, ColorTaken, Zenon
  <2>9. /\ R \in SUBSET DOMAIN d /\ Cardinality(R) = Cardinality(T) + n
        /\ Cardinality(R \cap At(d, t)) = Lesser(n, CountOf(d, t))
        /\ Cardinality(R \cap At(d, Omni)) = o + x
        /\ \A u \in Colors \ {t} : R \cap At(d, u) = T \cap At(d, u)
    BY <2>4, <2>8, Zenon DEF TakesColor
  <2>10. Cardinality(R) = SizeIn(req, Z)
    BY <1>10, <2>2, <2>9, Zenon
  <2>11. ASSUME NEW u \in Colors \cap Z
         PROVE  Lesser(Get(req, u), CountOf(d, u)) <= Cardinality(R \cap At(d, u))
    <3>1. CASE u = t
      <4>1. Lesser(n, CountOf(d, t)) \in Nat
        <5>1. CountOf(d, t) \in Nat
          BY AtFinite
        <5>. QED BY <1>6, <5>1 DEF Lesser
      <4>. QED BY <1>6, <2>9, <3>1, <4>1
    <3>2. CASE u # t
      <4>1. u \in Colors \cap S /\ u \in Colors \ {t}
        BY <2>1, <3>2
      <4>. QED BY <1>10, <2>9, <4>1, Zenon
    <3>. QED BY <3>1, <3>2
  <2>12. Cardinality(LackIn(req, d, Z)) <= Cardinality(R \cap At(d, Omni))
         /\ Cardinality(LackIn(req, d, Z)) = Cardinality(R \cap At(d, Omni))
    BY <2>6, <2>7, <2>9
  <2>13. ASSUME NEW u \in Colors \ Z PROVE R \cap At(d, u) = {}
    <3>1. u \in Colors \ S /\ u \in Colors \ {t}
      BY <2>1
    <3>. QED BY <2>5, <2>9, <3>1, Zenon
  <2>. QED BY <1>2, <2>9, <2>10, <2>11, <2>12, <2>13, Zenon DEF Served
<1>15. t # Aligned
  BY <1>6, Zenon
<1>. QED BY <1>6, <1>12, <1>13, <1>14, <1>15 DEF Needs

\* There are omni dice enough for the units that lack a die, and dice enough.
Enough(req, d) ==
  Cardinality(Lacking(req, d)) <= CountOf(d, Omni) /\ diceCostSize(req) <= Len(d)

\* With dice enough all entries are served.
LEMMA AllServed ==
  ASSUME NEW req \in Requirements, Once(req), ColorsFirst(req), ~Has(req, Aligned),
         NEW d \in Seq(Dice), Enough(req, d)
  PROVE  Served(taken(req, d)[Len(req)], req, d, Seen(req, Len(req)))
<1>1. PICK f : f = taken(req, d)
  OBVIOUS
<1>2. PICK n : n = Len(req)
  OBVIOUS
<1>3. n \in Nat
  BY <1>2, Entries
<1>4. /\ f[0] = {}
      /\ \A k \in 1..n : f[k] = f[k - 1] \union takes(req[k], DOMAIN d \ f[k - 1], d)
  <2>1. TakesInTurn(f, req, d)
    BY <1>1, TakenInTurn, Zenon
  <2>. QED BY <1>2, <2>1, Zenon DEF TakesInTurn
<1>. DEFINE T == {k \in Nat : Served(f[k], req, d, Seen(req, k))}
<1>5. 0 \in T
  <2>1. Seen(req, 0) = {}
    BY DEF Seen
  <2>2. SizeIn(req, {}) = 0
    BY SizeNone
  <2>3. PICK X : X = {}
    OBVIOUS
  <2>4. LackIn(req, d, {}) = X /\ \A P : X \cap P = X
    BY <2>3 DEF LackIn
  <2>5. Cardinality(X) = 0 /\ X \in SUBSET DOMAIN d
    BY <2>3, FS_EmptySet
  <2>6. Cardinality(X) <= Cardinality(X)
    BY <2>5
  <2>7. \A t \in Colors \cap {} : Lesser(Get(req, t), CountOf(d, t)) <= Cardinality(X \cap At(d, t))
    OBVIOUS
  <2>8. Served(X, req, d, {})
    BY <2>2, <2>3, <2>4, <2>5, <2>6, <2>7, Zenon DEF Served
  <2>. QED BY <1>4, <2>1, <2>3, <2>8
<1>6. \A k \in 0..n - 1 : k \in T => k + 1 \in T
  <2>1. SUFFICES ASSUME NEW k \in 0..n - 1, k \in T PROVE k + 1 \in T
    OBVIOUS
  <2>2. PICK m : m = k + 1
    OBVIOUS
  <2>3. m \in 1..n /\ m \in Nat /\ m - 1 = k
    BY <1>3, <2>1, <2>2
  <2>4. m \in 1..Len(req)
    BY <1>2, <2>3, Zenon
  <2>5. f[m] = f[m - 1] \union takes(req[m], DOMAIN d \ f[m - 1], d)
    BY <1>4, <2>3, Zenon
  <2>6. Served(f[m - 1], req, d, Seen(req, m - 1))
    BY <2>1, <2>3
  <2>7. Cardinality(Lacking(req, d)) <= CountOf(d, Omni) /\ diceCostSize(req) <= Len(d)
    BY Zenon DEF Enough
  <2>8. Served(f[m], req, d, Seen(req, m))
    BY <2>4, <2>5, <2>6, <2>7, EntryServed, Zenon
  <2>. QED BY <2>2, <2>3, <2>8
<1>7. \A k \in 0..n : k \in T
  <2>. HIDE DEF T
  <2>. QED BY <1>3, <1>5, <1>6, BoundedInduction
<1>. QED BY <1>1, <1>2, <1>3, <1>7

\* p are the dice of d at the positions S.
IsSelection(p, d, S) ==
  /\ p \in Seq(Dice) /\ Len(p) = Cardinality(S)
  /\ \A t : CountOf(p, t) = Cardinality(S \cap At(d, t))
  /\ \A k \in DOMAIN p : \E i \in S : p[k] = d[i]
  /\ \A i \in S : \E k \in DOMAIN p : p[k] = d[i]

\* What Picked() gives of the dice.
LEMMA Selected ==
  ASSUME NEW d \in Seq(Dice), NEW S \in SUBSET DOMAIN d
  PROVE  IsSelection(Picked(d, S), d, S)
<1>1. DOMAIN d \in SUBSET Nat /\ IsFiniteSet(DOMAIN d)
  BY Positions
<1>2. S \in SUBSET Nat /\ IsFiniteSet(S)
  BY <1>1, FS_Subset
<1>3. PICK g : IsPicked(Picked(d, S), g, d, S)
  BY <1>2, PickedPositions
<1>4. PICK p, m : p = Picked(d, S) /\ m = Cardinality(S)
  OBVIOUS
<1>5. /\ m \in Nat /\ g \in [1..m -> S] /\ p = [k \in 1..m |-> d[g[k]]]
      /\ \A k, l \in 1..m : k < l => g[k] < g[l]
      /\ \A i \in S : \E k \in 1..m : g[k] = i
  BY <1>3, <1>4, Zenon DEF IsPicked, Numbers
<1>6. \A k, l \in 1..m : g[k] = g[l] => k = l
  <2>1. SUFFICES ASSUME NEW k \in 1..m, NEW l \in 1..m, g[k] = g[l] PROVE k = l
    BY Zenon
  <2>2. g[k] \in Nat /\ g[l] \in Nat
    BY <1>2, <1>5
  <2>3. ~(g[k] < g[l]) /\ ~(g[l] < g[k])
    BY <2>1, <2>2
  <2>4. ~(k < l) /\ ~(l < k)
    BY <1>5, <2>3, Zenon
  <2>. QED BY <1>5, <2>4
<1>7. p \in Seq(Dice)
  BY <1>4, SelectedDice, Zenon
<1>8. DOMAIN p = 1..m /\ \A k \in 1..m : p[k] = d[g[k]] /\ g[k] \in S
  BY <1>5
<1>9. Len(p) = m
  <2>1. DOMAIN p = 1..Len(p) /\ Len(p) \in Nat
    BY <1>7, SeqElements, Zenon
  <2>2. PICK l : l = Len(p)
    OBVIOUS
  <2>3. 1..l = 1..m /\ l \in Nat
    BY <1>8, <2>1, <2>2, Zenon
  <2>4. l = m
    BY <1>5, <2>3
  <2>. QED BY <2>2, <2>4
<1>10. ASSUME NEW t PROVE CountOf(p, t) = Cardinality(S \cap At(d, t))
  <2>1. PICK C : C = At(p, t)
    OBVIOUS
  <2>2. C = {k \in 1..m : d[g[k]] = t}
    BY <1>8, <2>1 DEF At
  <2>3. IsFiniteSet(C) /\ CountOf(p, t) = Cardinality(C)
    BY <1>7, <2>1, AtFinite
  <2>4. OneToOne(g, C)
    BY <1>6, <2>2 DEF OneToOne
  <2>5. {g[k] : k \in C} = S \cap At(d, t)
    <3>1. \A i \in S : i \in DOMAIN d
      OBVIOUS
    <3>2. \A i \in S : d[i] = t => \E k \in C : g[k] = i
      BY <1>5, <2>2
    <3>3. \A k \in C : g[k] \in S /\ d[g[k]] = t
      BY <1>8, <2>2
    <3>. QED BY <3>1, <3>2, <3>3 DEF At
  <2>6. Cardinality({g[k] : k \in C}) = Cardinality(C)
    BY <2>3, <2>4, Images
  <2>. QED BY <2>3, <2>5, <2>6, Zenon
<1>11. (\A k \in DOMAIN p : \E i \in S : p[k] = d[i])
       /\ \A i \in S : \E k \in DOMAIN p : p[k] = d[i]
  BY <1>5, <1>8, Zenon
<1>. QED BY <1>4, <1>7, <1>9, <1>10, <1>11, Zenon DEF IsSelection

\* Who holds a payment holds enough.
LEMMA PayableIsEnough ==
  ASSUME NEW req \in Requirements, Once(req), ~Has(req, Aligned), NEW d \in Seq(Dice),
         NEW S \in SUBSET DOMAIN d, checkDice(req, Picked(d, S))
  PROVE  Enough(req, d)
<1>1. PICK p : p = Picked(d, S)
  OBVIOUS
<1>2. IsSelection(p, d, S)
  BY <1>1, Selected, Zenon
<1>3. p \in Seq(Dice) /\ Len(p) = Cardinality(S)
      /\ \A t : CountOf(p, t) = Cardinality(S \cap At(d, t))
  BY <1>2, Zenon DEF IsSelection
<1>4. Cardinality(Lacking(req, p)) <= CountOf(p, Omni) /\ Len(p) = diceCostSize(req)
  BY <1>1, Zenon DEF checkDice, Lacking
<1>5. \A t : CountOf(p, t) <= CountOf(d, t) /\ CountOf(p, t) \in Nat /\ CountOf(d, t) \in Nat
  <2>1. SUFFICES ASSUME NEW t
                 PROVE  CountOf(p, t) <= CountOf(d, t) /\ CountOf(p, t) \in Nat
                        /\ CountOf(d, t) \in Nat
    OBVIOUS
  <2>2. IsFiniteSet(At(d, t)) /\ CountOf(d, t) = Cardinality(At(d, t)) /\ CountOf(d, t) \in Nat
    BY AtFinite
  <2>3. S \cap At(d, t) \in SUBSET At(d, t)
    OBVIOUS
  <2>4. Cardinality(S \cap At(d, t)) <= Cardinality(At(d, t))
    BY <2>2, <2>3, FS_Subset
  <2>5. CountOf(p, t) \in Nat
    BY <1>3, AtFinite
  <2>. QED BY <1>3, <2>2, <2>4, <2>5, Zenon
<1>6. IsFiniteSet(Units(req)) /\ \A u \in Units(req) : u[2] \in Nat
  BY UnitShape, Zenon
<1>7. PICK A, B : A = Lacking(req, d) /\ B = Lacking(req, p)
  OBVIOUS
<1>8. A \in SUBSET B /\ B \in SUBSET Units(req)
  <2>1. ASSUME NEW u \in Units(req), u[2] > CountOf(d, u[1]) PROVE u[2] > CountOf(p, u[1])
    BY <1>5, <1>6, <2>1
  <2>. QED BY <1>7, <2>1 DEF Lacking
<1>9. IsFiniteSet(B)
  BY <1>6, <1>8, FS_Subset
<1>10. Cardinality(A) <= Cardinality(B) /\ IsFiniteSet(A)
  BY <1>8, <1>9, FS_Subset
<1>11. PICK a, b, x, y : /\ a = Cardinality(A) /\ b = Cardinality(B)
                         /\ x = CountOf(p, Omni) /\ y = CountOf(d, Omni)
  OBVIOUS
<1>12. a \in Nat /\ b \in Nat
  BY <1>9, <1>10, <1>11, FS_CardinalityType
<1>13. x \in Nat /\ y \in Nat /\ a <= b /\ b <= x /\ x <= y
  BY <1>4, <1>5, <1>7, <1>10, <1>11, Zenon
<1>14. a <= y
  BY <1>12, <1>13
<1>15. Cardinality(Lacking(req, d)) <= CountOf(d, Omni)
  BY <1>7, <1>11, <1>14, Zenon
<1>16. Len(p) <= Len(d)
  <2>1. IsFiniteSet(DOMAIN d) /\ Cardinality(DOMAIN d) = Len(d)
    BY Positions
  <2>2. Cardinality(S) <= Cardinality(DOMAIN d)
    BY <2>1, FS_Subset
  <2>. QED BY <1>3, <2>1, <2>2, Zenon
<1>. QED BY <1>4, <1>15, <1>16, Zenon DEF Enough

\* All types that are asked for are seen at the end.
LEMMA AllSeen ==
  ASSUME NEW req \in Requirements, Once(req), NEW S, S = Seen(req, Len(req))
  PROVE  SizeIn(req, S) = diceCostSize(req) /\ \A t \in DiceTypes : Get(req, t) > 0 => t \in S
<1>1. /\ Len(req) \in Nat /\ DOMAIN req = 1..Len(req)
      /\ \A i \in DOMAIN req : req[i].type \in Needs
  BY Entries
<1>2. Energy \notin DiceTypes
  BY ActionCostConstants DEF DiceTypes, Energy, Void, Aligned
<1>3. ASSUME NEW t \in DiceTypes, Get(req, t) > 0 PROVE t \in S
  <2>1. Has(req, t)
    BY <1>3, GetCount
  <2>2. PICK i \in DOMAIN req : req[i].type = t
    BY <2>1, Zenon DEF Has
  <2>3. t # Energy
    BY <1>2, <1>3, Zenon
  <2>. QED BY <1>1, <2>2, <2>3 DEF Seen
<1>4. S \in SUBSET DiceTypes
  <2>1. SUFFICES ASSUME NEW i \in 1..Len(req), req[i].type # Energy
                 PROVE  req[i].type \in DiceTypes
    BY DEF Seen
  <2>2. req[i].type \in Needs
    BY <1>1
  <2>. QED BY <2>1, <2>2 DEF Needs, DiceTypes
<1>5. PICK D : D = DiceTypes
  OBVIOUS
<1>6. SizeIn(req, D \ S) = 0
  <2>1. ASSUME NEW t \in D \ S PROVE Get(req, t) = 0
    <3>1. Get(req, t) \in Nat
      BY GetCount
    <3>2. ~(Get(req, t) > 0)
      BY <1>3, <1>5
    <3>. QED BY <3>1, <3>2
  <2>. QED BY <2>1, SizeNone
<1>7. /\ SizeIn(req, D) = SizeIn(req, S) + SizeIn(req, D \ S) /\ SizeIn(req, S) \in Nat
  <2>1. D \in SUBSET DiceTypes /\ S \in SUBSET D
    BY <1>4, <1>5
  <2>. QED BY <2>1, SizeSplit
<1>8. SizeIn(req, S) = SizeIn(req, D)
  BY <1>6, <1>7
<1>9. diceCostSize(req) = SizeIn(req, D)
  BY <1>5, SizeOfAll, Zenon
<1>. QED BY <1>3, <1>8, <1>9, Zenon

\* When the player holds enough, what chooseDice() takes pays.
LEMMA ChosenPays ==
  ASSUME NEW req \in Requirements, Once(req), ColorsFirst(req), ~Has(req, Aligned),
         NEW d \in Seq(Dice), Enough(req, d)
  PROVE  checkDice(req, chooseDiceValue(req, d))
<1>1. PICK T, S : T = taken(req, d)[Len(req)] /\ S = Seen(req, Len(req))
  OBVIOUS
<1>2. /\ T \in SUBSET DOMAIN d
      /\ Cardinality(T) = SizeIn(req, S)
      /\ \A t \in Colors \cap S : Lesser(Get(req, t), CountOf(d, t)) <= Cardinality(T \cap At(d, t))
      /\ Cardinality(LackIn(req, d, S)) <= Cardinality(T \cap At(d, Omni))
  BY <1>1, AllServed, Zenon DEF Served
<1>3. SizeIn(req, S) = diceCostSize(req) /\ \A t \in DiceTypes : Get(req, t) > 0 => t \in S
  BY <1>1, AllSeen, Zenon
<1>4. chooseDice(req, d) = T
  BY <1>1, <1>2, <1>3, Zenon DEF chooseDice
<1>5. PICK p : p = Picked(d, T)
  OBVIOUS
<1>6. p \in Seq(Dice) /\ Len(p) = Cardinality(T)
      /\ \A t : CountOf(p, t) = Cardinality(T \cap At(d, t))
  BY <1>2, <1>5, Selected, Zenon DEF IsSelection
<1>7. PICK A, B : A = LackIn(req, d, S) /\ B = Lacking(req, p)
  OBVIOUS
<1>8. B \in SUBSET A
  <2>1. SUFFICES ASSUME NEW u \in Units(req), u[1] \in Colors, u[2] > CountOf(p, u[1])
                 PROVE  u[2] > CountOf(d, u[1]) /\ u[1] \in S
    BY <1>7 DEF LackIn, Lacking
  <2>2. u[2] \in Nat /\ 1 <= u[2] /\ u[2] <= Get(req, u[1]) /\ u[1] \in DiceTypes
    BY UnitShape, Zenon
  <2>3. PICK t, n, g, c, k : /\ t = u[1] /\ n = u[2] /\ g = Get(req, t)
                             /\ c = CountOf(d, t) /\ k = CountOf(p, t)
    OBVIOUS
  <2>4. g \in Nat /\ c \in Nat /\ k \in Nat
    BY <1>6, <2>3, GetCount, AtFinite
  <2>5. n \in Nat /\ 1 <= n /\ n <= g /\ n > k /\ t \in DiceTypes
    BY <2>1, <2>2, <2>3, Zenon
  <2>6. t \in S
    <3>1. g > 0
      BY <2>4, <2>5
    <3>. QED BY <1>3, <2>3, <2>5, <3>1, Zenon
  <2>7. Lesser(g, c) <= k
    <3>1. t \in Colors \cap S
      BY <2>1, <2>3, <2>6
    <3>. QED BY <1>2, <1>6, <2>3, <3>1, Zenon
  <2>8. n > c
    BY <2>4, <2>5, <2>7 DEF Lesser
  <2>. QED BY <2>3, <2>6, <2>8, Zenon
<1>9. IsFiniteSet(A)
  <2>1. IsFiniteSet(Units(req))
    BY UnitShape, Zenon
  <2>2. A \in SUBSET Units(req)
    BY <1>7 DEF LackIn, Lacking
  <2>. QED BY <2>1, <2>2, FS_Subset
<1>10. Cardinality(B) <= Cardinality(A) /\ IsFiniteSet(B)
  BY <1>8, <1>9, FS_Subset
<1>11. Cardinality(B) <= CountOf(p, Omni)
  <2>1. PICK a, b, c : a = Cardinality(A) /\ b = Cardinality(B) /\ c = CountOf(p, Omni)
    OBVIOUS
  <2>2. c \in Nat
    BY <1>6, <2>1, AtFinite
  <2>3. a \in Nat /\ b \in Nat
    BY <1>9, <1>10, <2>1, FS_CardinalityType
  <2>4. b <= a /\ a <= c
    BY <1>2, <1>6, <1>7, <1>10, <2>1, Zenon
  <2>5. b <= c
    BY <2>2, <2>3, <2>4
  <2>. QED BY <2>1, <2>5, Zenon
<1>12. Len(p) = diceCostSize(req)
  BY <1>2, <1>3, <1>6, Zenon
<1>13. checkDice(req, p)
  BY <1>7, <1>11, <1>12, Zenon DEF checkDice, Lacking
<1>. QED BY <1>4, <1>5, <1>13, Zenon DEF chooseDiceValue

\* chooseDice() takes dice of the player's.
LEMMA ChosenPositions ==
  ASSUME NEW req \in Requirements, NEW d
  PROVE  chooseDice(req, d) \in SUBSET DOMAIN d
<1>1. CASE Has(req, Aligned)
  <2>1. chooseDice(req, d) = chooseAligned(Get(req, Aligned), d)
    BY <1>1, Zenon DEF chooseDice
  <2>. QED BY <2>1 DEF chooseAligned, LastOf
<1>2. CASE ~Has(req, Aligned)
  <2>1. TakesInTurn(taken(req, d), req, d)
    BY TakenInTurn, Zenon
  <2>2. Len(req) \in 0..Len(req)
    BY Entries
  <2>3. taken(req, d)[Len(req)] \in SUBSET DOMAIN d
    BY <2>1, <2>2 DEF TakesInTurn
  <2>4. chooseDice(req, d) \in {taken(req, d)[Len(req)], {}}
    BY <1>2 DEF chooseDice
  <2>. QED BY <2>3, <2>4
<1>. QED BY <1>1, <1>2

\* Dice of one colour and omni dice, as many as are to be aligned, are a payment.
LEMMA OneColorPays ==
  ASSUME NEW req, Has(req, Aligned), NEW d \in Seq(Dice), NEW c \in Colors,
         NEW T \in SUBSET DOMAIN d, Cardinality(T) = Get(req, Aligned),
         \A i \in T : d[i] \in {c, Omni}
  PROVE  checkDice(req, Picked(d, T))
<1>1. PICK p : p = Picked(d, T)
  OBVIOUS
<1>2. p \in Seq(Dice) /\ Len(p) = Cardinality(T) /\ \A k \in DOMAIN p : \E i \in T : p[k] = d[i]
  BY <1>1, Selected, Zenon DEF IsSelection
<1>3. \A k \in DOMAIN p : p[k] \in {c, Omni}
  BY <1>2, Zenon
<1>4. Aligns(req, p)
  BY <1>2, <1>3, Zenon DEF Aligns
<1>. QED BY <1>1, <1>2, <1>4, AlignedMeans, Zenon

\* If any dice of the player's pay for aligned dice, so do those that
\* chooseAligned() takes.
LEMMA ChosenAligned ==
  ASSUME NEW req \in Requirements, Has(req, Aligned), NEW d \in Seq(Dice),
         NEW S \in SUBSET DOMAIN d, checkDice(req, Picked(d, S))
  PROVE  checkDice(req, chooseDiceValue(req, d))
<1>1. PICK n : n = Get(req, Aligned)
  OBVIOUS
<1>2. n \in Nat
  BY <1>1, GetCount
<1>3. PICK c \in Colors : Cardinality(S) = n /\ \A i \in S : d[i] \in {c, Omni}
  <2>1. PICK p : p = Picked(d, S)
    OBVIOUS
  <2>2. p \in Seq(Dice) /\ Len(p) = Cardinality(S) /\ \A i \in S : \E k \in DOMAIN p : p[k] = d[i]
    BY <2>1, Selected, Zenon DEF IsSelection
  <2>3. Aligns(req, p)
    BY <2>1, <2>2, AlignedMeans, Zenon
  <2>. QED BY <1>1, <2>2, <2>3, Zenon DEF Aligns
<1>4. /\ Len(d) \in Nat /\ DOMAIN d = 1..Len(d) /\ IsFiniteSet(DOMAIN d)
      /\ DOMAIN d \in SUBSET Nat
  BY Positions
<1>5. PICK O : O = {i \in DOMAIN d : d[i] = Omni}
  OBVIOUS
<1>. DEFINE group(i) == O \union {j \in DOMAIN d : d[j] = d[i]}
<1>6. PICK able : able = {i \in DOMAIN d \ O : Cardinality(group(i)) >= n}
  OBVIOUS
<1>7. chooseDice(req, d) = chooseAligned(n, d)
  BY <1>1, Zenon DEF chooseDice
<1>8. \A P \in SUBSET DOMAIN d : /\ P \in SUBSET Nat /\ IsFiniteSet(P) /\ Cardinality(P) \in Nat
  BY <1>4, FS_Subset, FS_CardinalityType
<1>9. ASSUME NEW P \in SUBSET DOMAIN d, Cardinality(P) >= n
      PROVE  LastOf(P, n) \in SUBSET P /\ Cardinality(LastOf(P, n)) = n
  <2>1. P \in SUBSET Nat /\ IsFiniteSet(P) /\ Cardinality(P) \in Nat
    BY <1>8
  <2>2. LastOf(P, n) \in SUBSET P /\ Cardinality(LastOf(P, n)) = Lesser(n, Cardinality(P))
    BY <1>2, <2>1, FirstAndLast
  <2>3. Lesser(n, Cardinality(P)) = n
    BY <1>2, <1>9, <2>1 DEF Lesser
  <2>. QED BY <2>2, <2>3, Zenon
<1>10. CASE able # {}
  <2>1. PICK i : i = Max(able)
    OBVIOUS
  <2>2. i \in able
    <3>1. PICK l : l = Len(d)
      OBVIOUS
    <3>2. l \in Nat /\ able \in SUBSET (0..l)
      BY <1>4, <1>6, <3>1
    <3>3. \E x \in able : \A y \in able : x >= y
      BY <1>10, <3>2, GreatestElement
    <3>. QED BY <2>1, <3>3, Zenon DEF Max
  <2>3. PICK P : P = group(i)
    OBVIOUS
  <2>4. i \in DOMAIN d /\ d[i] # Omni /\ Cardinality(P) >= n
    BY <1>5, <1>6, <2>2, <2>3
  <2>5. d[i] \in Colors
    <3>1. \A j \in 1..Len(d) : d[j] \in Dice
      BY SeqElements, Zenon
    <3>. QED BY <1>4, <2>4, <3>1 DEF Dice
  <2>6. P \in SUBSET DOMAIN d /\ \A j \in P : d[j] \in {d[i], Omni}
    BY <1>5, <2>3
  <2>7. chooseAligned(n, d) = LastOf(P, n)
    <3>1. chooseAligned(n, d) = LastOf(group(Max(able)), n)
      <4>1. able = {j \in DOMAIN d \ {k \in DOMAIN d : d[k] = Omni} :
                      Cardinality({k \in DOMAIN d : d[k] = Omni}
                                  \union {k \in DOMAIN d : d[k] = d[j]}) >= n}
        BY <1>5, <1>6, Zenon
      <4>. QED BY <1>5, <1>10, <4>1, Zenon DEF chooseAligned
    <3>. QED BY <2>1, <2>3, <3>1, Zenon
  <2>8. LastOf(P, n) \in SUBSET P /\ Cardinality(LastOf(P, n)) = n
    BY <1>9, <2>4, <2>6
  <2>9. PICK T : T = LastOf(P, n)
    OBVIOUS
  <2>10. T \in SUBSET DOMAIN d /\ Cardinality(T) = n /\ \A j \in T : d[j] \in {d[i], Omni}
    BY <2>6, <2>8, <2>9
  <2>11. checkDice(req, Picked(d, T))
    BY <1>1, <2>5, <2>10, OneColorPays, Zenon
  <2>. QED BY <1>7, <2>7, <2>9, <2>11, Zenon DEF chooseDiceValue
<1>11. CASE able = {} /\ Cardinality(O) >= n
  <2>1. chooseAligned(n, d) = LastOf(O, n)
    <3>1. able = {j \in DOMAIN d \ {k \in DOMAIN d : d[k] = Omni} :
                    Cardinality({k \in DOMAIN d : d[k] = Omni}
                                \union {k \in DOMAIN d : d[k] = d[j]}) >= n}
      BY <1>5, <1>6, Zenon
    <3>. QED BY <1>5, <1>11, <3>1, Zenon DEF chooseAligned
  <2>2. PICK T : T = LastOf(O, n)
    OBVIOUS
  <2>3. O \in SUBSET DOMAIN d /\ \A j \in O : d[j] = Omni
    BY <1>5
  <2>4. T \in SUBSET O /\ Cardinality(T) = n
    BY <1>9, <1>11, <2>2, <2>3
  <2>5. T \in SUBSET DOMAIN d /\ (\A j \in T : d[j] \in {TunesTo, Omni}) /\ TunesTo \in Colors
    BY <2>3, <2>4, ActionCostConstants
  <2>6. checkDice(req, Picked(d, T))
    BY <1>1, <2>4, <2>5, OneColorPays, Zenon
  <2>. QED BY <1>7, <2>1, <2>2, <2>6, Zenon DEF chooseDiceValue
<1>12. CASE able = {} /\ ~(Cardinality(O) >= n)
  <2>1. O \in SUBSET DOMAIN d
    BY <1>5
  <2>2. IsFiniteSet(O) /\ Cardinality(O) \in Nat
    BY <1>8, <2>1
  <2>3. CASE S \subseteq O
    <3>1. Cardinality(S) <= Cardinality(O)
      BY <2>2, <2>3, FS_Subset
    <3>. QED BY <1>2, <1>3, <1>12, <2>2, <3>1
  <2>4. CASE ~(S \subseteq O)
    <3>1. PICK i \in S : i \notin O
      BY <2>4
    <3>2. i \in DOMAIN d \ O /\ d[i] = c
      BY <1>3, <1>5, <3>1
    <3>3. PICK P : P = group(i)
      OBVIOUS
    <3>4. S \in SUBSET P /\ P \in SUBSET DOMAIN d
      BY <1>3, <1>5, <3>2, <3>3
    <3>5. IsFiniteSet(P) /\ Cardinality(P) \in Nat
      BY <1>8, <3>4
    <3>6. Cardinality(S) <= Cardinality(P)
      BY <3>4, <3>5, FS_Subset
    <3>7. Cardinality(P) >= n
      BY <1>2, <1>3, <3>5, <3>6
    <3>8. i \in able
      BY <1>6, <3>2, <3>3, <3>7
    <3>. QED BY <1>12, <3>8
  <2>. QED BY <2>3, <2>4
<1>. QED BY <1>10, <1>11, <1>12, Zenon

\* An action is offered as one that can be paid when and only when some of the
\* dice that the player holds pay it: the choice that Game.actionPhase() makes
\* for the check (applyAutoSelectedDiceToAction) never overlooks a payment.
THEOREM ChoicesAreComplete == ASSUME ~BothWays PROVE Spec => []ChoiceIsComplete
<1>1. CostInv /\ ColorsFirst(cost) => ChoiceIsComplete
  <2>1. SUFFICES ASSUME CostInv, ColorsFirst(cost), kind # "tuning"
                 PROVE  Valid <=> \E s \in Selections : Pays(s, cost)
    BY Zenon DEF ChoiceIsComplete, Offered
  <2>2. Normal(cost) /\ dice \in Hands
    BY <2>1, Zenon DEF CostInv
  <2>3. cost \in Requirements /\ Once(cost)
    BY <2>2, Zenon DEF Normal
  <2>4. dice \in Seq(Dice)
    BY <2>2, HandDice, Zenon
  <2>5. Valid <=> checkDice(cost, chooseDiceValue(cost, dice))
    BY <2>1, Zenon DEF Valid
  <2>6. ASSUME NEW S \in SUBSET DOMAIN dice
        PROVE  checkDice(cost, Picked(dice, S)) <=> Pays(Picked(dice, S), cost)
    <3>1. Picked(dice, S) \in Seq(Dice)
      BY <2>4, SelectedDice, Zenon
    <3>2. CASE Has(cost, Aligned)
      BY <2>2, <3>1, <3>2, AlignedChecks, Zenon
    <3>3. CASE ~Has(cost, Aligned)
      BY <2>3, <3>1, <3>3, ApartChecks, Zenon
    <3>. QED BY <3>2, <3>3
  <2>7. ASSUME Valid PROVE \E s \in Selections : Pays(s, cost)
    <3>1. PICK S : S = chooseDice(cost, dice)
      OBVIOUS
    <3>2. S \in SUBSET DOMAIN dice
      BY <2>3, <3>1, ChosenPositions, Zenon
    <3>3. Pays(Picked(dice, S), cost)
      BY <2>5, <2>6, <2>7, <3>1, <3>2, Zenon DEF chooseDiceValue
    <3>. QED BY <3>2, <3>3, Zenon DEF Selections
  <2>8. ASSUME NEW s \in Selections, Pays(s, cost) PROVE Valid
    <3>1. PICK S \in SUBSET DOMAIN dice : s = Picked(dice, S)
      BY Zenon DEF Selections
    <3>2. checkDice(cost, Picked(dice, S))
      BY <2>6, <2>8, <3>1, Zenon
    <3>3. CASE Has(cost, Aligned)
      BY <2>3, <2>4, <2>5, <3>2, <3>3, ChosenAligned, Zenon
    <3>4. CASE ~Has(cost, Aligned)
      <4>1. Enough(cost, dice)
        BY <2>3, <2>4, <3>2, <3>4, PayableIsEnough, Zenon
      <4>. QED BY <2>1, <2>3, <2>4, <2>5, <3>4, <4>1, ChosenPays, Zenon
    <3>. QED BY <3>3, <3>4
  <2>. QED BY <2>7, <2>8, Zenon
<1>2. Spec => []CostInv
  BY CostInvariant
<1>3. Spec => [](ColorsFirst(cost))
  BY OrderInvariant
<1>. QED BY <1>1, <1>2, <1>3, PTL
-----------------------------------------------------------------------------
(***************************************************************************)
(* Types, whatever is attached: with increases and reductions on one card  *)
(* the cost in force may mislead checkDice(), but it stays a map of counts *)
(* that names a type once.                                                 *)
(***************************************************************************)

\* The attachments that the bound of layers admits.
Layered == [kind : Kind3, layer : 1..MaxLayer]

\* TypeOK, and a map names a type once.
MapInv ==
  /\ card \in Costs["card"] /\ cost \in Maps
  /\ attachments \in Seq(Layered)
  /\ dice \in Hands /\ kind \in Kinds
  /\ stage \in {"idle", "pay", "error"} \union DOMAIN After /\ modifiers \in 0..MaxModifiers

\* A normalized map is one.
LEMMA NormalizedMap ==
  ASSUME NEW req \in Maps
  PROVE  normalizeCost(req) \in Maps
<1>1. req \in Requirements /\ Once(req)
  BY DEF Maps
<1>2. IsNormalized(normalizeCost(req), req)
  BY <1>1, NormalizeCounts, Zenon
<1>3. normalizeCost(req) \in Requirements /\ Once(normalizeCost(req))
  BY <1>2, Zenon DEF IsNormalized
<1>. QED BY <1>3, Zenon DEF Maps

\* What is printed is a map.
LEMMA PrintedMap ==
  ASSUME NEW k \in Kinds, NEW c \in Costs[k]
  PROVE  c \in Maps /\ normalizeCost(c) \in Maps
<1>1. Printed(c)
  BY PrintedAsks, Zenon
<1>2. c \in Maps
  BY <1>1, Zenon DEF Printed, Maps
<1>. QED BY <1>2, NormalizedMap, Zenon

\* A change of the type leaves a map.
LEMMA ChangedMap ==
  ASSUME NEW req \in Maps
  PROVE  changeType(req) \in Maps
<1>1. req \in Requirements /\ Once(req)
  BY DEF Maps
<1>2. Printed(changeType(req))
  BY <1>1, ChangeTypeCounts
<1>. QED BY <1>2, Zenon DEF Printed, Maps

\* Whatever is attached, a card costs a map.
LEMMA CardCostMap ==
  ASSUME NEW printed \in Maps, NEW as, Attachments(as)
  PROVE  CostOfCard(printed, as) \in Maps
<1>1. PICK n : n = Len(as)
  OBVIOUS
<1>2. n \in Nat /\ \A k \in 1..n : as[k].kind \in Kind3 /\ as[k].layer \in Nat \ {0}
  BY <1>1, Zenon DEF Attachments
<1>3. PICK f : f = costAfter(printed, as)
  OBVIOUS
<1>4. f[0] = printed /\ \A k \in 1..n : f[k] = attached(f[k - 1], as[k])
  <2>1. Follows(f, printed, as)
    BY <1>3, CostsFollow, Zenon
  <2>. QED BY <1>1, <2>1, Zenon DEF Follows
<1>. DEFINE T == {k \in 0..n : f[k] \in Maps}
<1>5. 0 \in T
  BY <1>2, <1>4
<1>6. ASSUME NEW k \in 0..n - 1, k \in T PROVE k + 1 \in T
  <2>1. PICK l : l = k + 1
    OBVIOUS
  <2>2. l \in 1..n /\ l \in 0..n /\ l - 1 = k
    BY <1>2, <2>1
  <2>3. f[l] = attached(f[k], as[l]) /\ f[k] \in Maps
    BY <1>4, <1>6, <2>2
  <2>4. f[l] \in Maps
    <3>1. as[l].kind \in Kind3 /\ as[l].layer \in Nat \ {0}
      BY <1>2, <2>2, Zenon
    <3>. QED BY <2>3, <3>1, AttachedMap, Zenon
  <2>. QED BY <2>1, <2>2, <2>4
<1>7. f[n] \in Maps
  <2>1. \A k \in 0..n : k \in T
    <3>. HIDE DEF T
    <3>. QED BY <1>2, <1>5, <1>6, BoundedInduction
  <2>2. n \in 0..n
    BY <1>2
  <2>. QED BY <2>1, <2>2, Zenon
<1>8. PICK m : m = f[n]
  OBVIOUS
<1>9. PICK r : r = IF \E i \in DOMAIN as : as[i].kind = "changeType" THEN changeType(m) ELSE m
  OBVIOUS
<1>10. CostOfCard(printed, as) = normalizeCost(r)
  BY <1>1, <1>3, <1>8, <1>9, Zenon DEF CostOfCard
<1>11. r \in Maps
  BY <1>7, <1>8, <1>9, ChangedMap, Zenon
<1>. QED BY <1>10, <1>11, NormalizedMap, Zenon

\* The attachments of a card are such as make a map.
LEMMA LayeredList ==
  ASSUME NEW as \in Seq(Layered)
  PROVE  /\ Attachments(as) /\ DOMAIN as = 1..Len(as)
         /\ \A i \in 1..Len(as) : as[i] \in Layered
<1>1. DOMAIN as = 1..Len(as) /\ Len(as) \in Nat /\ \A i \in 1..Len(as) : as[i] \in Layered
  BY SeqElements, Zenon
<1>2. \A a \in Layered : a.kind \in Kind3 /\ a.layer \in Nat \ {0}
  BY ActionCostConstants DEF Layered
<1>. QED BY <1>1, <1>2, Zenon DEF Attachments

\* An increase, whatever is there.
LEMMA AppendedMap ==
  ASSUME NEW req \in Maps, NEW n \in Nat
  PROVE  appendCost(req, Priority, n) \in Maps
<1>1. req \in Requirements /\ Once(req)
  BY DEF Maps
<1>. QED BY <1>1, IncreasedSize DEF Maps

\* A reduction of any types.
LEMMA DeductedMap ==
  ASSUME NEW req \in Maps, NEW types, Types(types), NEW n \in Nat \ {0}
  PROVE  deductCost(req, types, n) \in Maps
<1>1. req \in Requirements /\ Once(req)
  BY DEF Maps
<1>2. PICK last : Deducts(deductCost(req, types, n), last, req, types, n)
  BY <1>1, DeductCounts, Zenon
<1>. QED BY <1>2, Zenon DEF Deducts, Maps

\* A modifier leaves a map.
LEMMA ModifiedMap ==
  ASSUME MapInv, NEW s, NEW ks, NEW new \in Maps, Modified(s, ks, new)
  PROVE  MapInv'
<1>1. /\ stage = s /\ kind \in ks /\ cost' = normalizeCost(new) /\ modifiers' = modifiers + 1
      /\ card' = card /\ attachments' = attachments /\ dice' = dice /\ kind' = kind
      /\ stage' = stage /\ modifiers < MaxModifiers
  BY DEF Modified
<1>2. cost' \in Maps
  BY <1>1, NormalizedMap, Zenon
<1>3. modifiers' \in 0..MaxModifiers
  BY <1>1, ActionCostConstants DEF MapInv
<1>. QED BY <1>1, <1>2, <1>3 DEF MapInv

\* Each of the modifiers.
LEMMA ModifyMap ==
  ASSUME MapInv, Modify
  PROVE  MapInv'
<1>1. cost \in Maps
  BY Zenon DEF MapInv
<1>2. cost \in Requirements /\ Once(cost)
  BY <1>1, Zenon DEF Maps
<1>3. CASE addVoidCost
  <2>1. PICK n : n = Get(cost, Void) + 1
    OBVIOUS
  <2>2. n \in Nat /\ Void \in Needs
    BY <1>2, <2>1, GetCount DEF Needs
  <2>3. IsPut(Put(cost, Void, n), cost, Void, n)
    BY <1>2, <2>2, PutCounts, Zenon
  <2>4. Put(cost, Void, n) \in Maps
    BY <2>3, Zenon DEF IsPut, Maps
  <2>5. Modified("modifyAction0", {"switch"}, Put(cost, Void, n))
    BY <1>3, <2>1, Zenon DEF addVoidCost
  <2>. QED BY <2>4, <2>5, ModifiedMap, Zenon
<1>4. CASE addOmniCost
  <2>1. 1 \in Nat
    OBVIOUS
  <2>2. appendCost(cost, Priority, 1) \in Maps
    BY <1>1, <2>1, AppendedMap, Zenon
  <2>. QED BY <1>4, <2>2, ModifiedMap, Zenon DEF addOmniCost
<1>5. CASE deductAllCost
  <2>1. PICK e : e = <<>>
    OBVIOUS
  <2>2. DOMAIN e = {} /\ e \in Requirements
    BY <2>1 DEF Requirements
  <2>3. e \in Maps
    BY <2>2 DEF Maps, Once
  <2>4. Modified("modifyAction3", {"card"}, e)
    BY <1>5, <2>1, Zenon DEF deductAllCost
  <2>. QED BY <2>3, <2>4, ModifiedMap, Zenon
<1>6. ASSUME NEW n \in 1..2, deductVoidCost(n) PROVE MapInv'
  <2>1. n \in Nat \ {0}
    OBVIOUS
  <2>2. deductCost(cost, <<Void>>, n) \in Maps
    BY <1>1, <2>1, NamedTypes, DeductedMap, Zenon
  <2>. QED BY <1>6, <2>2, ModifiedMap, Zenon DEF deductVoidCost
<1>7. ASSUME NEW n \in 1..2, deductOmniCost(n) PROVE MapInv'
  <2>1. n \in Nat \ {0}
    OBVIOUS
  <2>2. deductCost(cost, Priority, n) \in Maps
    BY <1>1, <2>1, PriorityTypes, DeductedMap, Zenon
  <2>. QED BY <1>7, <2>2, ModifiedMap, Zenon DEF deductOmniCost
<1>8. ASSUME NEW n \in 1..2, NEW t \in Colors, deductColorCost(t, n) PROVE MapInv'
  <2>1. n \in Nat \ {0}
    OBVIOUS
  <2>2. deductCost(cost, <<t, Void>>, n) \in Maps
    BY <1>1, <2>1, NamedTypes, DeductedMap, Zenon
  <2>. QED BY <1>8, <2>2, ModifiedMap, Zenon DEF deductColorCost
<1>. QED BY <1>3, <1>4, <1>5, <1>6, <1>7, <1>8, Zenon DEF Modify

\* An attachment is within the bound of layers.
LEMMA AttachMap ==
  ASSUME MapInv, NEW k \in Kind3, Attach(k)
  PROVE  MapInv'
<1>1. /\ card' = card /\ dice' = dice /\ kind' = kind /\ cost' = cost /\ stage' = stage
      /\ modifiers' = modifiers
  BY DEF Attach
<1>2. attachments \in Seq(Layered) /\ DOMAIN attachments = 1..Len(attachments)
      /\ \A i \in 1..Len(attachments) : attachments[i] \in Layered
  <2>1. attachments \in Seq(Layered)
    BY Zenon DEF MapInv
  <2>. QED BY <2>1, LayeredList, Zenon
<1>3. attachments' \in Seq(Layered)
  <2>1. CASE k \in KindsOn(attachments)
    <3>1. PICK i \in DOMAIN attachments :
            /\ attachments[i].layer < MaxLayer
            /\ attachments' = [attachments EXCEPT ![i].layer = @ + 1]
      BY <2>1, Zenon DEF Attach
    <3>2. PICK b : b = attachments[i]
      OBVIOUS
    <3>3. PICK a : a = [b EXCEPT !.layer = @ + 1]
      OBVIOUS
    <3>4. b \in Layered /\ b.layer < MaxLayer
      BY <1>2, <3>1, <3>2, Zenon
    <3>5. a \in Layered
      BY <3>3, <3>4, ActionCostConstants DEF Layered
    <3>6. attachments' = [attachments EXCEPT ![i] = a]
      BY <3>1, <3>2, <3>3, Zenon
    <3>7. i \in 1..Len(attachments)
      BY <1>2, Zenon
    <3>8. IsReplaced([attachments EXCEPT ![i] = a], Layered, attachments, i, a)
      BY <1>2, <3>5, <3>7, SeqReplaced, Zenon
    <3>. QED BY <3>6, <3>8, Zenon DEF IsReplaced
  <2>2. CASE k \notin KindsOn(attachments)
    <3>1. PICK a : a = [kind |-> k, layer |-> 1]
      OBVIOUS
    <3>2. attachments' = Append(attachments, a)
      BY <2>2, <3>1, Zenon DEF Attach
    <3>3. a \in Layered
      BY <3>1, ActionCostConstants DEF Layered
    <3>4. IsAppended(Append(attachments, a), Layered, attachments, a)
      BY <1>2, <3>3, SeqAppended, Zenon
    <3>. QED BY <3>2, <3>4, Zenon DEF IsAppended
  <2>. QED BY <2>1, <2>2
<1>. QED BY <1>1, <1>3 DEF MapInv

\* An action that is dealt with leaves the printed cost.
LEMMA FinishedMap ==
  ASSUME MapInv, Finished, card' = card, dice' \in Hands, attachments' \in Seq(Layered),
         stage' \in {"idle", "error"}
  PROVE  MapInv'
<1>1. kind' = "card" /\ cost' = normalizeCost(card) /\ modifiers' = 0
  BY Zenon DEF Finished
<1>2. card \in Costs["card"] /\ "card" \in Kinds
  BY DEF MapInv, Kinds
<1>3. cost' \in Maps
  BY <1>1, <1>2, PrintedMap, Zenon
<1>4. modifiers' \in 0..MaxModifiers
  BY <1>1, ActionCostConstants
<1>. QED BY <1>1, <1>2, <1>3, <1>4 DEF MapInv

\* An action begins with the cost of its card or what is printed.
LEMMA OfferMap ==
  ASSUME MapInv, NEW k \in Kinds, NEW printed \in Costs[k], Offer(k, printed)
  PROVE  MapInv'
<1>1. /\ kind' = k /\ card' = card /\ attachments' = attachments /\ dice' = dice
      /\ stage' = "modifyAction0" /\ modifiers' = 0
  BY DEF Offer
<1>2. cost' = IF k = "card" THEN CardCost ELSE normalizeCost(printed)
  BY Zenon DEF Offer
<1>3. normalizeCost(printed) \in Maps
  BY PrintedMap, Zenon
<1>4. CardCost \in Maps
  <2>1. card \in Costs["card"] /\ attachments \in Seq(Layered) /\ "card" \in Kinds
    BY DEF MapInv, Kinds
  <2>2. card \in Maps /\ Attachments(attachments)
    BY <2>1, PrintedMap, LayeredList, Zenon
  <2>. QED BY <2>2, CardCostMap, Zenon DEF CardCost
<1>5. cost' \in Maps
  BY <1>2, <1>3, <1>4, Zenon
<1>6. modifiers' \in 0..MaxModifiers /\ stage' \in DOMAIN After
  BY <1>1, ActionCostConstants DEF After
<1>. QED BY <1>1, <1>5, <1>6 DEF MapInv

\* Every action keeps the types.
LEMMA NextMap ==
  ASSUME MapInv, [Next]_vars
  PROVE  MapInv'
<1>1. ASSUME NEW k \in {"increase", "decrease", "changeType"}, Attach(k) PROVE MapInv'
  BY <1>1, AttachMap, Zenon DEF Kind3
<1>2. ASSUME NEW k \in Kinds, NEW printed \in Costs[k], Offer(k, printed) PROVE MapInv'
  BY <1>2, OfferMap, Zenon
<1>3. ASSUME Modify PROVE MapInv'
  BY <1>3, ModifyMap, Zenon
<1>4. ASSUME NextStage PROVE MapInv'
  <2>1. /\ UNCHANGED <<card, attachments, dice, kind, cost, modifiers>>
        /\ stage' = After[stage] /\ stage \in DOMAIN After
    BY <1>4 DEF NextStage
  <2>2. stage' \in {"pay"} \union DOMAIN After
    BY <2>1 DEF After
  <2>. QED BY <2>1, <2>2 DEF MapInv
<1>5. ASSUME NEW used \in Hands, Pay(used) PROVE MapInv'
  <2>1. Finished /\ card' = card
    BY <1>5 DEF Pay
  <2>2. dice \in Hands /\ attachments \in Seq(Layered)
    BY Zenon DEF MapInv
  <2>3. dice' \in Hands /\ stage' \in {"idle", "error"}
    <3>1. CASE Legal(used)
      <4>1. stage' = "idle" /\ \E l : dice' \in resetDice(l)
        BY <1>5, <3>1, Zenon DEF Pay, Consume
      <4>. QED BY <4>1 DEF resetDice
    <3>2. CASE ~Legal(used)
      <4>1. stage' = "error" /\ dice' = dice
        BY <1>5, <3>2 DEF Pay, Consume
      <4>. QED BY <2>2, <4>1
    <3>. QED BY <3>1, <3>2
  <2>4. attachments' \in Seq(Layered)
    <3>1. attachments' = <<>> \/ attachments' = attachments
      BY <1>5, Zenon DEF Pay
    <3>2. \A S : <<>> \in Seq(S)
      OBVIOUS
    <3>. QED BY <2>2, <3>1, <3>2, Zenon
  <2>. QED BY <2>1, <2>3, <2>4, FinishedMap, Zenon
<1>6. ASSUME Decline PROVE MapInv'
  <2>1. /\ Finished /\ card' = card /\ dice' = dice /\ attachments' = attachments
        /\ stage' = "idle"
    BY <1>6 DEF Decline
  <2>2. dice' \in Hands /\ attachments' \in Seq(Layered) /\ stage' \in {"idle", "error"}
    <3>1. dice \in Hands /\ attachments \in Seq(Layered)
      BY Zenon DEF MapInv
    <3>2. "idle" \in {"idle", "error"}
      OBVIOUS
    <3>. QED BY <2>1, <3>1, <3>2, Zenon
  <2>. QED BY <2>1, <2>2, FinishedMap, Zenon
<1>7. ASSUME UNCHANGED vars PROVE MapInv'
  BY <1>7 DEF vars, MapInv
<1>. QED BY <1>1, <1>2, <1>3, <1>4, <1>5, <1>6, <1>7, Zenon DEF Next

\* A match begins with the types.
LEMMA InitMap == Init => MapInv
<1>1. SUFFICES ASSUME Init PROVE MapInv
  OBVIOUS
<1>2. /\ card \in Costs["card"] /\ kind = "card" /\ dice \in Hands /\ attachments = <<>>
      /\ cost = normalizeCost(card) /\ stage = "idle" /\ modifiers = 0
  BY <1>1, Zenon DEF Init
<1>3. "card" \in Kinds
  BY DEF Kinds
<1>4. cost \in Maps
  BY <1>2, <1>3, PrintedMap, Zenon
<1>5. attachments \in Seq(Layered)
  <2>1. \A S : <<>> \in Seq(S)
    OBVIOUS
  <2>. QED BY <1>2, <2>1, Zenon
<1>6. modifiers \in 0..MaxModifiers
  BY <1>2, ActionCostConstants
<1>. QED BY <1>2, <1>3, <1>4, <1>5, <1>6 DEF MapInv

\* Every variable keeps its type, with increases and reductions on one card as
\* well: what the attachments and modifiers write stays a map of counts.
THEOREM TypeCorrect == Spec => []TypeOK
<1>1. Init => MapInv
  BY InitMap
<1>2. MapInv /\ [Next]_vars => MapInv'
  BY NextMap
<1>3. MapInv => TypeOK
  <2>1. SUFFICES ASSUME MapInv PROVE TypeOK
    OBVIOUS
  <2>2. card \in Costs["card"] /\ "card" \in Kinds
    BY <2>1 DEF MapInv, Kinds
  <2>3. card \in Requirements /\ cost \in Requirements
    <3>1. card \in Maps /\ cost \in Maps
      BY <2>1, <2>2, PrintedMap, Zenon DEF MapInv
    <3>. QED BY <3>1, Zenon DEF Maps
  <2>. QED BY <2>1, <2>3, Zenon DEF MapInv, TypeOK, Layered, Kind3
<1>. QED BY <1>1, <1>2, <1>3, PTL DEF Spec
=============================================================================
