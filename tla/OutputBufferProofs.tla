------------------------- MODULE OutputBufferProofs -------------------------
(***************************************************************************)
(* What is proved of OutputBuffer, for any Runs, cap, batch and chunk      *)
(* sizes: the buffer of each Run is a RunBuffer, and output is not lost in *)
(* silence.                                                                *)
(*                                                                         *)
(* What is held of a Run is an interval that ends with its latest chunk    *)
(* (Interval), and unless something was dropped it begins at or before the *)
(* first chunk the Server has not acknowledged, and at or before what is   *)
(* in flight (FlaggedOf): the answer to a batch can then not pass over     *)
(* anything.                                                               *)
(*                                                                         *)
(* The counters are the sums of what is held (Counted): the cap then holds *)
(* of what is held, and who loses to it had its share.                     *)
(***************************************************************************)
EXTENDS OutputBuffer, FiniteSetTheorems, SequenceTheorems, TLAPS

----------------------------------------------------------------------------
(* Largest elements, of which the number of chunks in a batch is one.      *)

\* A finite set of integers has a largest one: of the sets of elements not
\* below one of them, the smallest belongs to it.
LEMMA MaxOfFinite ==
    ASSUME NEW S, IsFiniteSet(S), S \subseteq Int, S # {}
    PROVE  Max(S) \in S /\ \A x \in S : Max(S) >= x
<1> DEFINE Above(x) == {y \in S : y >= x}
           T == {Above(x) : x \in S}
<1>1. IsWellFoundedOn(StrictSubsetOrdering(S), FiniteSubsetsOf(S))
  BY FS_StrictSubsetOrderingWellFounded
<1>2. T \subseteq FiniteSubsetsOf(S) /\ T # {}
  <2>1. \A x \in S : Above(x) \in SUBSET S
    OBVIOUS
  <2>2. T \subseteq SUBSET S /\ T # {}
    BY <2>1
  <2> QED
    BY <2>2, FS_FiniteSubsetsOfFinite
<1>3. PICK U \in T : \A V \in T : <<V, U>> \notin StrictSubsetOrdering(S)
  <2> HIDE DEF T
  <2> QED
    BY <1>1, <1>2, WFMin
<1>4. PICK x \in S : U = Above(x)
  BY <1>3
<1>5. ASSUME NEW y \in S, ~(x >= y) PROVE FALSE
  <2>1. x \in Int /\ y \in Int /\ y > x
    BY <1>5
  <2>2. \A z \in S : z >= y => z >= x
    BY <2>1
  <2>3. Above(y) \subseteq Above(x) /\ x \in Above(x) /\ x \notin Above(y)
    <3>1. Above(y) \subseteq Above(x)
      BY <2>2
    <3>2. x >= x /\ ~(x >= y)
      BY <2>1
    <3> QED
      BY <3>1, <3>2
  <2>4. <<Above(y), Above(x)>> \in StrictSubsetOrdering(S)
    BY <2>3 DEF StrictSubsetOrdering
  <2>5. Above(y) \in T
    OBVIOUS
  <2> QED
    BY <1>3, <1>4, <2>4, <2>5
<1>6. x \in S /\ \A y \in S : x >= y
  BY <1>5
<1> QED
  BY <1>6 DEF Max

\* Numbers up to a length, and none, have a largest.
LEMMA MaxOfPlaces ==
    ASSUME NEW n \in Nat, NEW S, S \subseteq 1..n
    PROVE  /\ Max({0} \cup S) \in {0} \cup S
           /\ \A x \in {0} \cup S : Max({0} \cup S) >= x
<1>1. {0} \cup S \subseteq 0..n
  OBVIOUS
<1>2. IsFiniteSet(0..n)
  BY FS_Interval
<1>3. IsFiniteSet({0} \cup S)
  BY <1>1, <1>2, FS_Subset
<1>4. {0} \cup S \subseteq Int /\ {0} \cup S # {}
  BY <1>1
<1> QED
  BY <1>3, <1>4, MaxOfFinite

----------------------------------------------------------------------------
(* Sums over finite sets, which is what the counters hold.                 *)

\* A set of numbers has a least one: induction over data, below, is the search
\* for the least number, or the smallest set, that a claim fails for.
LEMMA LeastOf ==
    ASSUME NEW N \in SUBSET Nat, N # {}
    PROVE  \E m \in N : \A k \in N : m <= k
<1> DEFINE R == OpToRel(<, Nat)
<1>1. IsWellFoundedOn(R, Nat)
  BY NatLessThanWellFounded
<1>2. \A x, y \in Nat : x < y => <<x, y>> \in R
  BY DEF OpToRel
<1> HIDE DEF R
<1>3. PICK m \in N : \A k \in N : ~ (<<k, m>> \in R)
  BY <1>1, WFMin
<1>4. \A k \in N : m <= k
  <2> SUFFICES ASSUME NEW k \in N PROVE ~(k < m)
    OBVIOUS
  <2> QED
    BY <1>2, <1>3
<1> QED
  BY <1>4

\* A set with 0 in it, and with every number its successor, is Nat.
LEMMA EveryNumber ==
    ASSUME NEW G \in SUBSET Nat, 0 \in G, \A n \in G : n + 1 \in G
    PROVE  G = Nat
<1> SUFFICES ASSUME G # Nat PROVE FALSE
  OBVIOUS
<1>1. PICK m \in Nat \ G : \A k \in Nat \ G : m <= k
  BY LeastOf
<1>2. m # 0 /\ m - 1 \in Nat /\ m - 1 \notin Nat \ G
  BY <1>1
<1> QED
  BY <1>2

\* Of the finite sets in a family there is a smallest.
LEMMA SmallestOf ==
    ASSUME NEW F, F # {}, \A S \in F : IsFiniteSet(S)
    PROVE  \E S \in F : \A T \in F : Cardinality(S) <= Cardinality(T)
<1> DEFINE N == {Cardinality(S) : S \in F}
<1>1. N \in SUBSET Nat /\ N # {}
  BY FS_CardinalityType
<1>2. PICK m \in N : \A k \in N : m <= k
  BY <1>1, LeastOf
<1> QED
  BY <1>2

\* The recursion of MapThenFoldSet, with f summed over the subsets of S.
Any(s) == CHOOSE x \in s : TRUE
IsSums(g, f, S) == g = [s \in SUBSET S |-> IF s = {} THEN 0 ELSE f[Any(s)] + g[s \ {Any(s)}]]
Sums(f, S) == CHOOSE g : IsSums(g, f, S)
Total(f, S) == Sums(f, S)[S]

\* The element the recursion of MapThenFoldSet takes out of a set is one of it.
LEMMA AnyOf == \A s : s # {} => Any(s) \in s
  BY DEF Any

\* The recursion that MapThenSumSet is defined by has a solution: one for the
\* subsets of up to n elements extends to those of n + 1.
LEMMA SumsExist ==
    ASSUME NEW S, IsFiniteSet(S), NEW f
    PROVE  \E g : IsSums(g, f, S)
<1> DEFINE Small(n) == {s \in SUBSET S : Cardinality(s) <= n}
           Part(g, n) == g = [s \in Small(n) |-> IF s = {} THEN 0 ELSE f[Any(s)] + g[s \ {Any(s)}]]
           G == {n \in Nat : \E g : Part(g, n)}
<1>1. \A s \in SUBSET S : IsFiniteSet(s) /\ Cardinality(s) \in Nat /\ (Cardinality(s) = 0 <=> s = {})
  BY FS_Subset, FS_CardinalityType, FS_EmptySet
<1>2. \A s \in SUBSET S : s # {} => s \ {Any(s)} \in SUBSET S /\ Cardinality(s \ {Any(s)}) = Cardinality(s) - 1
  BY <1>1, FS_RemoveElement, AnyOf
<1>3. 0 \in G
  <2> DEFINE g == [s \in Small(0) |-> 0]
  <2>1. \A s \in Small(0) : s = {}
    BY <1>1
  <2>2. Part(g, 0)
    BY <2>1
  <2> QED
    BY <2>2
<1>4. \A n \in G : n + 1 \in G
  <2> SUFFICES ASSUME NEW n \in G PROVE n + 1 \in G
    OBVIOUS
  <2> PICK g : Part(g, n)
    OBVIOUS
  <2> DEFINE h == [s \in Small(n + 1) |-> IF s = {} THEN 0 ELSE f[Any(s)] + g[s \ {Any(s)}]]
  <2>1. \A s \in Small(n) : s \in Small(n + 1)
    BY <1>1
  <2>2. \A s \in Small(n) : h[s] = g[s]
    <3> HIDE DEF Small
    <3> QED
      BY <2>1
  <2>3. \A s \in Small(n + 1) : s # {} => s \ {Any(s)} \in Small(n)
    BY <1>1, <1>2
  <2>4. \A s \in Small(n + 1) : s # {} => h[s \ {Any(s)}] = g[s \ {Any(s)}]
    BY <2>2, <2>3
  <2>5. Part(h, n + 1)
    <3> HIDE DEF Small
    <3> QED
      BY <2>4
  <2>6. \E k : Part(k, n + 1)
    <3> HIDE DEF Part, h
    <3> QED
      BY <2>5
  <2>7. n + 1 \in Nat
    OBVIOUS
  <2> QED
    <3> HIDE DEF Part, Small
    <3> QED
      BY <2>6, <2>7
<1>5. Cardinality(S) \in G
  <2> HIDE DEF G
  <2> QED
    BY <1>3, <1>4, EveryNumber, FS_CardinalityType DEF G
<1>6. Small(Cardinality(S)) = SUBSET S
  BY FS_Subset
<1> QED
  BY <1>5, <1>6 DEF IsSums

\* The recursion therefore holds of the function it defines.
LEMMA SumsAre ==
    ASSUME NEW S, IsFiniteSet(S), NEW f, NEW s \in SUBSET S
    PROVE  Sums(f, S)[s] = IF s = {} THEN 0 ELSE f[Any(s)] + Sums(f, S)[s \ {Any(s)}]
<1> DEFINE g == Sums(f, S)
<1>1. IsSums(g, f, S)
  BY SumsExist DEF Sums
<1> HIDE DEF g
<1>2. g = [t \in SUBSET S |-> IF t = {} THEN 0 ELSE f[Any(t)] + g[t \ {Any(t)}]]
  BY <1>1 DEF IsSums
<1>3. g[s] = IF s = {} THEN 0 ELSE f[Any(s)] + g[s \ {Any(s)}]
  BY <1>2
<1> QED
  BY <1>3 DEF g

\* The sum over a set does not depend on the set whose subsets are summed.
LEMMA SumsOfPart ==
    ASSUME NEW S, IsFiniteSet(S), NEW f, NEW T \in SUBSET S, NEW s \in SUBSET T
    PROVE  Sums(f, T)[s] = Sums(f, S)[s]
<1> DEFINE F == {t \in SUBSET T : Sums(f, T)[t] # Sums(f, S)[t]}
<1> SUFFICES ASSUME F # {} PROVE FALSE
  OBVIOUS
<1>1. IsFiniteSet(T) /\ \A t \in SUBSET T : IsFiniteSet(t)
  BY FS_Subset
<1>2. PICK t \in F : \A u \in F : Cardinality(t) <= Cardinality(u)
  BY <1>1, SmallestOf
<1>3. t # {}
  BY <1>1, <1>2, SumsAre
<1>4. t \ {Any(t)} \in SUBSET T /\ Cardinality(t \ {Any(t)}) = Cardinality(t) - 1 /\ Cardinality(t) \in Nat
  BY <1>1, <1>3, AnyOf, FS_RemoveElement, FS_CardinalityType
<1>5. t \ {Any(t)} \notin F
  BY <1>2, <1>4
<1>6. t \in SUBSET S /\ t \in SUBSET T
  OBVIOUS
<1>7. Sums(f, T)[t] = f[Any(t)] + Sums(f, T)[t \ {Any(t)}]
  BY <1>1, <1>3, <1>6, SumsAre
<1>8. Sums(f, S)[t] = f[Any(t)] + Sums(f, S)[t \ {Any(t)}]
  BY <1>3, <1>6, SumsAre
<1> QED
  BY <1>4, <1>5, <1>7, <1>8

\* The sum over a set by the element the recursion takes out of it.
LEMMA TotalDef ==
    ASSUME NEW S, IsFiniteSet(S), NEW f
    PROVE  Total(f, S) = IF S = {} THEN 0 ELSE f[Any(S)] + Total(f, S \ {Any(S)})
<1>1. S \in SUBSET S /\ S \ {Any(S)} \in SUBSET S
  OBVIOUS
<1> QED
  BY <1>1, SumsAre, SumsOfPart DEF Total

\* A sum of integers is one.
LEMMA TotalInt ==
    ASSUME NEW S, IsFiniteSet(S), NEW f, \A x \in S : f[x] \in Int
    PROVE  Total(f, S) \in Int
<1> DEFINE F == {t \in SUBSET S : Total(f, t) \notin Int}
<1> SUFFICES ASSUME F # {} PROVE FALSE
  OBVIOUS
<1>1. \A t \in SUBSET S : IsFiniteSet(t)
  BY FS_Subset
<1>2. PICK t \in F : \A u \in F : Cardinality(t) <= Cardinality(u)
  BY <1>1, SmallestOf
<1>3. t # {} /\ Any(t) \in t
  BY <1>1, <1>2, TotalDef, AnyOf
<1>4. t \ {Any(t)} \in SUBSET S /\ Cardinality(t \ {Any(t)}) = Cardinality(t) - 1 /\ Cardinality(t) \in Nat
  BY <1>1, <1>3, FS_RemoveElement, FS_CardinalityType
<1>5. Total(f, t \ {Any(t)}) \in Int
  BY <1>2, <1>4
<1>6. f[Any(t)] \in Int
  BY <1>3
<1>7. Total(f, t) = f[Any(t)] + Total(f, t \ {Any(t)})
  BY <1>1, <1>3, TotalDef
<1> QED
  BY <1>2, <1>5, <1>6, <1>7

\* Any element may be taken out first.
LEMMA TakeOut ==
    ASSUME NEW S, IsFiniteSet(S), NEW f, \A x \in S : f[x] \in Int, NEW x \in S
    PROVE  Total(f, S) = f[x] + Total(f, S \ {x})
<1> DEFINE F == {t \in SUBSET S : \E y \in t : Total(f, t) # f[y] + Total(f, t \ {y})}
<1> SUFFICES ASSUME F # {} PROVE FALSE
  OBVIOUS
<1>1. \A t \in SUBSET S : IsFiniteSet(t) /\ Total(f, t) \in Int
  BY FS_Subset, TotalInt
<1>2. PICK t \in F : \A u \in F : Cardinality(t) <= Cardinality(u)
  BY <1>1, SmallestOf
<1>3. PICK y \in t : Total(f, t) # f[y] + Total(f, t \ {y})
  BY <1>2
<1> DEFINE c == Any(t)
<1>4. c \in t /\ Total(f, t) = f[c] + Total(f, t \ {c})
  BY <1>1, <1>2, <1>3, AnyOf, TotalDef
<1> HIDE DEF c
<1>5. y # c
  BY <1>3, <1>4
<1>6. Cardinality(t) \in Nat /\ \A z \in t : t \ {z} \in SUBSET S /\ Cardinality(t \ {z}) = Cardinality(t) - 1
  BY <1>1, FS_RemoveElement, FS_CardinalityType
<1>7. \A z \in t : t \ {z} \notin F
  BY <1>2, <1>6
<1>8. Total(f, t \ {c}) = f[y] + Total(f, (t \ {c}) \ {y})
  BY <1>4, <1>5, <1>6, <1>7
<1>9. Total(f, t \ {y}) = f[c] + Total(f, (t \ {y}) \ {c})
  BY <1>4, <1>5, <1>6, <1>7
<1>10. (t \ {c}) \ {y} = (t \ {y}) \ {c}
  OBVIOUS
<1>11. f[c] \in Int /\ f[y] \in Int /\ Total(f, (t \ {y}) \ {c}) \in Int
  BY <1>1, <1>3, <1>4
<1>12. Total(f, t) = f[c] + (f[y] + Total(f, (t \ {y}) \ {c}))
  BY <1>4, <1>8, <1>10
<1>13. f[c] + (f[y] + Total(f, (t \ {y}) \ {c})) = f[y] + (f[c] + Total(f, (t \ {y}) \ {c}))
  BY <1>11
<1> QED
  BY <1>3, <1>9, <1>12, <1>13

\* Functions that agree on a set have the same sum over it.
LEMMA SameTotal ==
    ASSUME NEW S, IsFiniteSet(S), NEW f, NEW h, \A x \in S : f[x] = h[x]
    PROVE  Total(f, S) = Total(h, S)
<1> DEFINE F == {t \in SUBSET S : Total(f, t) # Total(h, t)}
<1> SUFFICES ASSUME F # {} PROVE FALSE
  OBVIOUS
<1>1. \A t \in SUBSET S : IsFiniteSet(t)
  BY FS_Subset
<1>2. PICK t \in F : \A u \in F : Cardinality(t) <= Cardinality(u)
  BY <1>1, SmallestOf
<1>3. t # {} /\ Any(t) \in t
  BY <1>1, <1>2, TotalDef, AnyOf
<1>4. t \ {Any(t)} \in SUBSET S /\ Cardinality(t \ {Any(t)}) = Cardinality(t) - 1 /\ Cardinality(t) \in Nat
  BY <1>1, <1>3, FS_RemoveElement, FS_CardinalityType
<1>5. Total(f, t \ {Any(t)}) = Total(h, t \ {Any(t)})
  BY <1>2, <1>4
<1>6. f[Any(t)] = h[Any(t)]
  BY <1>3
<1> QED
  BY <1>1, <1>2, <1>3, <1>5, <1>6, TotalDef

\* Total is the sum the invariants of OutputBuffer speak of.
LEMMA SumIsTotal == \A f, S : MapThenSumSet(LAMBDA x : f[x], S) = Total(f, S)
  BY DEF MapThenSumSet, MapThenFoldSet, Total, Sums, IsSums, Any

\* One value changed.
LEMMA TotalChanged ==
    ASSUME NEW S, IsFiniteSet(S), NEW f, NEW h, NEW x \in S, \A y \in S : f[y] \in Int,
           h[x] \in Int, \A y \in S \ {x} : h[y] = f[y]
    PROVE  Total(h, S) = Total(f, S) - f[x] + h[x]
<1>1. IsFiniteSet(S \ {x}) /\ \A y \in S : h[y] \in Int
  BY FS_RemoveElement
<1>2. Total(h, S \ {x}) = Total(f, S \ {x})
  BY <1>1, SameTotal
<1>3. Total(h, S) = h[x] + Total(f, S \ {x})
  BY <1>1, <1>2, TakeOut
<1>4. Total(f, S) = f[x] + Total(f, S \ {x})
  BY TakeOut
<1>5. Total(f, S \ {x}) \in Int /\ f[x] \in Int
  BY <1>1, TotalInt
<1> QED
  BY <1>3, <1>4, <1>5

\* The sum is at most that of a bound on those that are not zero.
LEMMA TotalBounded ==
    ASSUME NEW S, IsFiniteSet(S), NEW f, \A x \in S : f[x] \in Int, NEW m \in Int,
           NEW T \in SUBSET S, \A x \in T : f[x] <= m, \A x \in S \ T : f[x] = 0
    PROVE  Total(f, S) <= m * Cardinality(T)
<1> DEFINE F == {t \in SUBSET S : ~(Total(f, t) <= m * Cardinality(t \cap T))}
<1> SUFFICES ASSUME F # {} PROVE FALSE
  <2>1. S \notin F /\ S \cap T = T
    OBVIOUS
  <2> QED
    BY <2>1
<1>1. \A t \in SUBSET S : IsFiniteSet(t) /\ IsFiniteSet(t \cap T) /\ Total(f, t) \in Int
  BY FS_Subset, TotalInt
<1>2. PICK t \in F : \A u \in F : Cardinality(t) <= Cardinality(u)
  BY <1>1, SmallestOf
<1>3. t # {}
  <2>1. Total(f, {}) = 0 /\ Cardinality({} \cap T) = 0
    BY FS_EmptySet, TotalDef
  <2> QED
    BY <1>2, <2>1
<1>4. PICK x \in t : TRUE
  BY <1>3
<1> DEFINE u == t \ {x}
<1>5. u \in SUBSET S /\ Cardinality(u) = Cardinality(t) - 1 /\ Cardinality(t) \in Nat
  BY <1>1, <1>4, FS_RemoveElement, FS_CardinalityType
<1>6. Total(f, u) <= m * Cardinality(u \cap T)
  BY <1>2, <1>5
<1>7. Total(f, t) = f[x] + Total(f, u) /\ f[x] \in Int /\ Total(f, u) \in Int
  BY <1>1, <1>4, <1>5, TakeOut
<1>8. Cardinality(u \cap T) \in Nat
  BY <1>1, <1>5, FS_CardinalityType
<1>9. CASE x \in T
  <2>1. u \cap T = (t \cap T) \ {x} /\ x \in t \cap T
    BY <1>4, <1>9
  <2>2. Cardinality(t \cap T) = Cardinality(u \cap T) + 1
    <3> DEFINE w == t \cap T
    <3>1. IsFiniteSet(w) /\ x \in w /\ u \cap T = w \ {x}
      BY <1>1, <2>1
    <3> HIDE DEF w
    <3>2. Cardinality(w \ {x}) = Cardinality(w) - 1 /\ Cardinality(w) \in Nat
      BY <3>1, FS_RemoveElement, FS_CardinalityType
    <3>3. Cardinality(w) = Cardinality(u \cap T) + 1
      <4>1. Cardinality(u \cap T) = Cardinality(w \ {x})
        BY <3>1
      <4> QED
        BY <3>2, <4>1
    <3> QED
      BY <3>3 DEF w
  <2>3. m * (Cardinality(u \cap T) + 1) = m * Cardinality(u \cap T) + m /\ m * Cardinality(u \cap T) \in Int
    BY <1>8
  <2>4. f[x] <= m
    BY <1>9
  <2>5. Total(f, t) <= m * Cardinality(t \cap T)
    BY <1>6, <1>7, <2>2, <2>3, <2>4
  <2> QED
    BY <1>2, <2>5
<1>10. CASE x \notin T
  <2>1. u \cap T = t \cap T /\ f[x] = 0
    BY <1>4, <1>10
  <2>2. Total(f, t) = Total(f, u)
    BY <1>7, <2>1
  <2> QED
    BY <1>2, <1>6, <2>1, <2>2
<1> QED
  BY <1>9, <1>10

\* A sum of natural numbers is one.
LEMMA TotalNat ==
    ASSUME NEW S, IsFiniteSet(S), NEW f, \A x \in S : f[x] \in Nat
    PROVE  Total(f, S) \in Nat
<1> DEFINE F == {t \in SUBSET S : Total(f, t) \notin Nat}
<1> SUFFICES ASSUME F # {} PROVE FALSE
  OBVIOUS
<1>1. \A t \in SUBSET S : IsFiniteSet(t)
  BY FS_Subset
<1>2. PICK t \in F : \A u \in F : Cardinality(t) <= Cardinality(u)
  BY <1>1, SmallestOf
<1>3. t # {} /\ Any(t) \in t
  <2>1. Total(f, {}) = 0
    BY TotalDef, FS_EmptySet
  <2>2. t # {}
    BY <1>2, <2>1
  <2> QED
    BY <2>2, AnyOf
<1>4. t \ {Any(t)} \in SUBSET S /\ Cardinality(t \ {Any(t)}) = Cardinality(t) - 1 /\ Cardinality(t) \in Nat
  BY <1>1, <1>3, FS_RemoveElement, FS_CardinalityType
<1>5. Total(f, t \ {Any(t)}) \in Nat
  BY <1>2, <1>4
<1>6. f[Any(t)] \in Nat
  BY <1>3
<1>7. Total(f, t) = f[Any(t)] + Total(f, t \ {Any(t)})
  BY <1>1, <1>3, TotalDef
<1> QED
  BY <1>2, <1>5, <1>6, <1>7

\* The bytes of each chunk.
BytesOf(cs) == [i \in DOMAIN cs |-> cs[i].bytes]

\* TotalBytes, the bytes of a sequence of chunks, is such a sum.
LEMMA BytesAre == \A cs : TotalBytes(cs) = Total(BytesOf(cs), DOMAIN cs)
<1> SUFFICES ASSUME NEW cs PROVE TotalBytes(cs) = Total(BytesOf(cs), DOMAIN cs)
  OBVIOUS
<1> DEFINE D == DOMAIN cs
           f == BytesOf(cs)
           P(g) == g = [s \in SUBSET D |-> IF s = {} THEN 0 ELSE cs[Any(s)].bytes + g[s \ {Any(s)}]]
<1>1. \A s \in SUBSET D : s # {} => f[Any(s)] = cs[Any(s)].bytes
  BY AnyOf DEF BytesOf
<1> HIDE DEF f, D
<1>2. \A g : P(g) <=> IsSums(g, f, D)
  BY <1>1 DEF IsSums
<1>3. (CHOOSE g : P(g)) = (CHOOSE g : IsSums(g, f, D))
  <2> HIDE DEF P
  <2> QED
    BY <1>2
<1>4. TotalBytes(cs) = (CHOOSE g : P(g))[D]
  BY DEF TotalBytes, MapThenSumSet, MapThenFoldSet, Any, D
<1> QED
  BY <1>3, <1>4 DEF Total, Sums, f, D

\* A chunk has some number of bytes.
LEMMA BytesOfChunk == \A c \in Chunk : c.bytes \in Nat
  BY OutputBufferAssumption DEF Chunk

\* So has a sequence of chunks.
LEMMA BytesNat ==
    ASSUME NEW cs \in Seq(Chunk)
    PROVE  TotalBytes(cs) \in Nat
<1>1. DOMAIN cs = 1..Len(cs) /\ IsFiniteSet(1..Len(cs))
  BY LenProperties, FS_Interval
<1>2. \A i \in DOMAIN cs : BytesOf(cs)[i] \in Nat
  <2>1. \A i \in DOMAIN cs : cs[i] \in Chunk
    BY ElementOfSeq, <1>1
  <2> QED
    BY <2>1, OutputBufferAssumption DEF BytesOf, Chunk
<1> QED
  BY <1>1, <1>2, BytesAre, TotalNat

\* No chunks, no bytes.
LEMMA BytesOfNone == TotalBytes(<<>>) = 0
<1>1. DOMAIN <<>> = {}
  OBVIOUS
<1> QED
  BY <1>1, BytesAre, TotalDef, FS_EmptySet

\* A chunk appended counts once (Add).
LEMMA BytesAppend ==
    ASSUME NEW cs \in Seq(Chunk), NEW c \in Chunk
    PROVE  TotalBytes(Append(cs, c)) = TotalBytes(cs) + c.bytes
<1> DEFINE n == Len(cs)
           D == 1..n
           f == BytesOf(cs)
           h == BytesOf(Append(cs, c))
<1>1. n \in Nat /\ DOMAIN cs = D /\ DOMAIN Append(cs, c) = 1..n + 1
  BY LenProperties, AppendProperties
<1>2. h[n + 1] = c.bytes /\ \A i \in D : h[i] = f[i]
  BY <1>1, AppendProperties DEF BytesOf
<1>3. \A i \in 1..n + 1 : h[i] \in Int
  <2>1. \A i \in 1..n + 1 : Append(cs, c)[i] \in Chunk
    BY <1>1, AppendProperties, ElementOfSeq
  <2> QED
    BY <1>1, <2>1, BytesOfChunk DEF BytesOf
<1>4. n + 1 \in 1..n + 1 /\ (1..n + 1) \ {n + 1} = D
  BY <1>1
<1>5. IsFiniteSet(D) /\ IsFiniteSet(1..n + 1)
  BY <1>1, FS_Interval
<1>6. TotalBytes(Append(cs, c)) = Total(h, 1..n + 1) /\ TotalBytes(cs) = Total(f, D)
  BY <1>1, BytesAre
<1> HIDE DEF f, h, n
<1>7. Total(h, 1..n + 1) = h[n + 1] + Total(h, D)
  <2> HIDE DEF D
  <2> QED
    BY <1>3, <1>4, <1>5, TakeOut
<1>8. Total(h, D) = Total(f, D)
  BY <1>2, <1>5, SameTotal
<1>9. c.bytes \in Int /\ TotalBytes(cs) \in Int
  BY BytesNat, BytesOfChunk
<1> QED
  BY <1>2, <1>6, <1>7, <1>8, <1>9

\* A part of a sequence grows by the next element.
LEMMA SubSeqGrows ==
    ASSUME NEW S, NEW cs \in Seq(S), NEW a \in 1..Len(cs), NEW n \in Nat, a <= n + 1, n + 1 <= Len(cs)
    PROVE  /\ SubSeq(cs, a, n) \in Seq(S)
           /\ SubSeq(cs, a, n + 1) = Append(SubSeq(cs, a, n), cs[n + 1])
  OBVIOUS

\* What is kept and what is dropped of a sequence have its bytes together
\* (AckUpTo).
LEMMA BytesSplit ==
    ASSUME NEW cs \in Seq(Chunk), NEW k \in 0..Len(cs)
    PROVE  TotalBytes(cs) = TotalBytes(SubSeq(cs, 1, k)) + TotalBytes(SubSeq(cs, k + 1, Len(cs)))
<1>1. Len(cs) \in Nat
  BY LenProperties
<1> DEFINE Cut(n) == TotalBytes(SubSeq(cs, 1, n)) = TotalBytes(SubSeq(cs, 1, k)) + TotalBytes(SubSeq(cs, k + 1, n))
           G == {n \in Nat : k <= n /\ n <= Len(cs) => Cut(n)}
<1>2. ASSUME NEW n \in Nat, n <= k, k <= n PROVE Cut(n)
  <2>1. n = k /\ SubSeq(cs, k + 1, k) = <<>> /\ SubSeq(cs, 1, k) \in Seq(Chunk)
    BY <1>1, <1>2
  <2>2. TotalBytes(SubSeq(cs, k + 1, n)) = 0 /\ TotalBytes(SubSeq(cs, 1, n)) = TotalBytes(SubSeq(cs, 1, k))
    BY <2>1, BytesOfNone
  <2>3. TotalBytes(SubSeq(cs, 1, k)) \in Nat
    BY <2>1, BytesNat
  <2> QED
    BY <2>2, <2>3
<1>3. 0 \in G
  BY <1>2
<1>4. ASSUME NEW n \in Nat, Cut(n), k <= n, n + 1 <= Len(cs) PROVE Cut(n + 1)
  <2>1. /\ SubSeq(cs, 1, n) \in Seq(Chunk) /\ SubSeq(cs, k + 1, n) \in Seq(Chunk) /\ SubSeq(cs, 1, k) \in Seq(Chunk)
        /\ cs[n + 1] \in Chunk
        /\ SubSeq(cs, 1, n + 1) = Append(SubSeq(cs, 1, n), cs[n + 1])
        /\ SubSeq(cs, k + 1, n + 1) = Append(SubSeq(cs, k + 1, n), cs[n + 1])
    BY <1>1, <1>4, SubSeqGrows
  <2>2. TotalBytes(SubSeq(cs, 1, n + 1)) = TotalBytes(SubSeq(cs, 1, n)) + cs[n + 1].bytes
    BY <2>1, BytesAppend
  <2>3. TotalBytes(SubSeq(cs, k + 1, n + 1)) = TotalBytes(SubSeq(cs, k + 1, n)) + cs[n + 1].bytes
    BY <2>1, BytesAppend
  <2>4. TotalBytes(SubSeq(cs, k + 1, n)) \in Nat /\ TotalBytes(SubSeq(cs, 1, k)) \in Nat
    BY <2>1, BytesNat
  <2>5. cs[n + 1].bytes \in Nat
    BY <2>1, BytesOfChunk
  <2> QED
    BY <1>4, <2>2, <2>3, <2>4, <2>5
<1>5. \A n \in G : n + 1 \in G
  <2> HIDE DEF Cut
  <2> QED
    BY <1>2, <1>4
<1>6. Len(cs) \in G
  <2> HIDE DEF G
  <2> QED
    BY <1>1, <1>3, <1>5, EveryNumber DEF G
<1>7. SubSeq(cs, 1, Len(cs)) = cs
  OBVIOUS
<1>8. Cut(Len(cs))
  BY <1>1, <1>6
<1> QED
  BY <1>7, <1>8

----------------------------------------------------------------------------
(* The invariant.                                                          *)

Shape ==
    /\ chunks \in [Run -> Seq(Chunk)] /\ truncated \in [Run -> BOOLEAN]
    /\ adding \in [run : Run, seq : Nat, bytes : ChunkSize] \cup {None}
    /\ seq \in [Run -> Nat] /\ sent \in [Run -> Nat] /\ acked \in [Run -> Nat]

\* Add was called with the latest chunk of its Run.
Latest == ~Free => adding.seq = seq[adding.run]

\* What is held of a Run is its interval; what is in flight has been made; and
\* unless something was lost, nothing is missing between what the Server
\* acknowledged, what is in flight and what is held.
Interval(r) == \A i \in 1..Len(chunks[r]) : chunks[r][i].seq = First(r) + i - 1
MadeOf(r) == sent[r] <= Last(r)
FlaggedOf(r) == r \notin closed /\ ~truncated[r] =>
    First(r) <= acked[r] + 1 /\ (sent[r] # 0 => First(r) <= sent[r])
Good(r) == Interval(r) /\ MadeOf(r) /\ FlaggedOf(r)

Inv == Shape /\ Latest /\ \A r \in Run : Good(r)

\* A chunk Add was called with is not None (Free).
LEMMA AddingIsChunk ==
    ASSUME Shape, ~Free
    PROVE  adding.run \in Run /\ adding.seq \in Nat /\ adding.bytes \in ChunkSize
  BY DEF Shape, Free

\* Lengths and numbers are what arithmetic needs.
LEMMA Numbers ==
    ASSUME Shape, NEW r \in Run
    PROVE  Len(chunks[r]) \in Nat /\ DOMAIN chunks[r] = 1..Len(chunks[r]) /\ Last(r) \in Int /\ First(r) \in Int
  BY LenProperties DEF Shape, Last, First

----------------------------------------------------------------------------
(* What each operation does to the interval of a Run.                      *)

Untouched(r) ==
    /\ chunks'[r] = chunks[r] /\ truncated'[r] = truncated[r]
    /\ First(r)' = First(r) /\ Last(r)' = Last(r)

\* Add is called: the new chunk is not held yet.
LEMMA BeginAddSteps ==
    ASSUME Shape, Latest, NEW r \in Run, NEW n \in ChunkSize, BeginAdd(r, n)
    PROVE  Shape' /\ Latest' /\ \A q \in Run : Untouched(q)
<1>1. adding' = [run |-> r, seq |-> seq[r] + 1, bytes |-> n] /\ seq' = [seq EXCEPT ![r] = @ + 1]
  BY DEF BeginAdd
<1>2. adding' # None /\ adding'.run = r /\ adding'.seq = seq[r] + 1
  BY <1>1, OutputBufferAssumption DEF Shape
<1>3. Shape'
  BY <1>1 DEF Shape, BeginAdd, bufferVars
<1>4. Latest'
  BY <1>1, <1>2 DEF Latest, Free, Shape
<1>5. ASSUME NEW q \in Run PROVE Untouched(q)
  <2>1. Last(q)' = Last(q)
    BY <1>1, <1>2 DEF Last, Free, BeginAdd, Shape
  <2> QED
    BY <2>1 DEF Untouched, First, BeginAdd, bufferVars
<1> QED
  BY <1>3, <1>4, <1>5

\* One turn of Add's loop: a Run gives up its oldest chunk.
LEMMA MakeRoomSteps ==
    ASSUME Shape, Latest, NEW r \in Run, MakeRoom(r)
    PROVE  /\ Shape' /\ Latest' /\ \A q \in Run \ {r} : Untouched(q)
           /\ chunks[r] # <<>> /\ chunks'[r] = Tail(chunks[r]) /\ truncated'[r]
           /\ First(r)' = First(r) + 1 /\ Last(r)' = Last(r)
<1>1. chunks[r] # <<>> /\ chunks' = [chunks EXCEPT ![r] = Tail(@)] /\ truncated' = [truncated EXCEPT ![r] = TRUE]
  BY DEF MakeRoom, DropOldest, Largest, Empty
<1>2. Tail(chunks[r]) \in Seq(Chunk) /\ Len(Tail(chunks[r])) = Len(chunks[r]) - 1
  BY <1>1, HeadTailProperties DEF Shape
<1>3. UNCHANGED <<adding, seq, sent, acked>>
  BY DEF MakeRoom
<1>4. Shape' /\ Latest'
  BY <1>1, <1>2, <1>3 DEF Shape, Latest, Free
<1>5. \A q \in Run : Last(q)' = Last(q)
  BY <1>3 DEF Last, Free
<1>6. \A q \in Run \ {r} : Untouched(q)
  BY <1>1, <1>5 DEF Untouched, First, Shape
<1>7. chunks'[r] = Tail(chunks[r]) /\ truncated'[r]
  BY <1>1 DEF Shape
<1>8. First(r)' = First(r) + 1
  BY <1>2, <1>5, <1>7, Numbers DEF First
<1> QED
  BY <1>1, <1>4, <1>5, <1>6, <1>7, <1>8

\* Add refuses the chunk: nothing at all is held.
LEMMA RefuseSteps ==
    ASSUME Shape, Latest, Refuse
    PROVE  /\ Shape' /\ Latest' /\ adding.run \in Run /\ \A q \in Run \ {adding.run} : Untouched(q)
           /\ chunks[adding.run] = <<>> /\ chunks'[adding.run] = <<>> /\ truncated'[adding.run]
           /\ First(adding.run) = Last(adding.run) + 1
           /\ \E r \in Run : r = adding.run /\ Last(r)' = Last(r) + 1 /\ First(r)' = Last(r) + 2
<1> PICK r \in Run : r = adding.run
  BY AddingIsChunk DEF Refuse
<1>1. UNCHANGED <<chunks, seq, sent, acked>> /\ adding' = None /\ truncated' = [truncated EXCEPT ![r] = TRUE]
  BY DEF Refuse
<1>2. ~Free /\ chunks[r] = <<>> /\ Free'
  BY <1>1 DEF Refuse, Empty, Free
<1>3. Shape' /\ Latest'
  BY <1>1, <1>2 DEF Shape, Latest
<1>4. Last(r) = seq[r] - 1 /\ Last(r)' = seq[r] /\ \A q \in Run \ {r} : Last(q)' = Last(q)
  BY <1>1, <1>2 DEF Last
<1>5. seq[r] \in Nat /\ Len(chunks[r]) = 0
  BY <1>2 DEF Shape
<1>6. \A q \in Run \ {r} : Untouched(q)
  BY <1>1, <1>4 DEF Untouched, First, Shape
<1>7. First(r) = Last(r) + 1 /\ First(r)' = Last(r) + 2 /\ Last(r)' = Last(r) + 1
  BY <1>1, <1>4, <1>5 DEF First
<1>8. truncated'[r] /\ chunks'[r] = <<>>
  BY <1>1, <1>2 DEF Shape
<1> QED
  BY <1>2, <1>3, <1>6, <1>7, <1>8

\* Add keeps the chunk, after those it holds.
LEMMA KeepSteps ==
    ASSUME Shape, Latest, Keep
    PROVE  /\ Shape' /\ Latest'
           /\ \E r \in Run :
                /\ \A q \in Run \ {r} : Untouched(q)
                /\ \E c \in Chunk : c.seq = Last(r) + 1 /\ chunks'[r] = Append(chunks[r], c)
                /\ Last(r)' = Last(r) + 1 /\ First(r)' = First(r) /\ truncated'[r] = truncated[r]
<1> PICK r \in Run : r = adding.run
  BY AddingIsChunk DEF Keep
<1> DEFINE c == [seq |-> adding.seq, bytes |-> adding.bytes]
<1>1. c \in Chunk /\ ~Free
  BY AddingIsChunk DEF Keep, Chunk
<1>2. chunks' = [chunks EXCEPT ![r] = Append(@, c)] /\ adding' = None
      /\ UNCHANGED <<truncated, seq, sent, acked>>
  BY DEF Keep
<1> HIDE DEF c
<1>3. Append(chunks[r], c) \in Seq(Chunk) /\ Len(Append(chunks[r], c)) = Len(chunks[r]) + 1
  BY <1>1, AppendProperties DEF Shape
<1>4. Free'
  BY <1>2 DEF Free
<1>5. Shape' /\ Latest'
  BY <1>2, <1>3, <1>4 DEF Shape, Latest
<1>6. Last(r) = seq[r] - 1 /\ Last(r)' = seq[r] /\ \A q \in Run \ {r} : Last(q)' = Last(q)
  BY <1>1, <1>2, <1>4 DEF Last
<1>7. chunks'[r] = Append(chunks[r], c)
  BY <1>2 DEF Shape
<1>8. Last(r)' = Last(r) + 1 /\ First(r)' = First(r)
  <2>1. First(r)' = Last(r)' - Len(chunks'[r]) + 1 /\ First(r) = Last(r) - Len(chunks[r]) + 1
    BY DEF First
  <2>2. Last(r)' = Last(r) + 1
    BY <1>6 DEF Shape
  <2> QED
    BY <1>3, <1>7, <2>1, <2>2, Numbers
<1>9. \A q \in Run \ {r} : Untouched(q)
  BY <1>2, <1>6 DEF Untouched, First, Shape
<1>10. c.seq = Last(r) + 1
  BY <1>1, <1>6 DEF c, Latest, Shape
<1> QED
  BY <1>1, <1>2, <1>5, <1>7, <1>8, <1>9, <1>10

\* A batch begins with the oldest chunk held and ends with one that is held.
LEMMA BatchIsHeld ==
    ASSUME Shape, NEW r \in Run, NextBatch(r) # <<>>
    PROVE  \E k \in 1..Len(chunks[r]) : NextBatch(r)[Len(NextBatch(r))] = chunks[r][k]
<1> DEFINE S == {k \in DOMAIN chunks[r] : FitsBatch(chunks[r], k)}
           m == Max({0} \cup S)
<1>1. S \subseteq 1..Len(chunks[r]) /\ Len(chunks[r]) \in Nat
  BY Numbers
<1>2. m \in {0} \cup S
  <2> HIDE DEF S
  <2> QED
    BY <1>1, MaxOfPlaces
<1>3. m \in 0..Len(chunks[r])
  BY <1>1, <1>2
<1>4. NextBatch(r) = SubSeq(chunks[r], 1, m)
  BY DEF NextBatch
<1> HIDE DEF m
<1>5. m # 0
  BY <1>3, <1>4, SubSeqEmpty
<1>6. Len(SubSeq(chunks[r], 1, m)) = m /\ SubSeq(chunks[r], 1, m)[m] = chunks[r][m]
  <2>1. \A i \in 1..m : chunks[r][i] \in Chunk
    BY <1>1, <1>3, ElementOfSeq DEF Shape
  <2> QED
    BY <1>3, <1>5, <2>1, SubSeqProperties
<1> QED
  BY <1>3, <1>4, <1>5, <1>6

\* An answer covers the chunks up to its number, and no other.
LEMMA CoveredIs ==
    ASSUME Shape, NEW r \in Run, Interval(r), NEW n \in Nat, n <= Last(r)
    PROVE  Covered(r, n) = IF n >= First(r) THEN n - First(r) + 1 ELSE 0
<1> DEFINE S == {k \in DOMAIN chunks[r] : \A i \in 1..k : chunks[r][i].seq <= n}
           d == IF n >= First(r) THEN n - First(r) + 1 ELSE 0
<1>1. Len(chunks[r]) \in Nat /\ DOMAIN chunks[r] = 1..Len(chunks[r]) /\ First(r) \in Int
      /\ Last(r) = First(r) + Len(chunks[r]) - 1
  BY Numbers DEF First
<1>2. \A i \in 1..Len(chunks[r]) : chunks[r][i].seq = First(r) + i - 1
  BY DEF Interval
<1>3. d \in 0..Len(chunks[r])
  BY <1>1
<1>4. ASSUME NEW k \in 1..Len(chunks[r]) PROVE k \in S <=> k <= d
  <2>1. (\A i \in 1..k : First(r) + i - 1 <= n) <=> First(r) + k - 1 <= n
    BY <1>1
  <2>2. (\A i \in 1..k : chunks[r][i].seq <= n) <=> (\A i \in 1..k : First(r) + i - 1 <= n)
    <3>1. \A i \in 1..k : chunks[r][i].seq = First(r) + i - 1
      BY <1>1, <1>2
    <3> QED
      BY <3>1
  <2> QED
    BY <1>1, <2>1, <2>2
<1>5. S = 1..d
  BY <1>1, <1>3, <1>4
<1>6. Covered(r, n) = Max({0} \cup S)
  BY DEF Covered
<1> HIDE DEF S, d
<1>7. {0} \cup S = 0..d
  BY <1>1, <1>3, <1>5
<1>8. Max(0..d) \in 0..d /\ \A x \in 0..d : Max(0..d) >= x
  <2>1. S \subseteq 1..Len(chunks[r])
    BY <1>1, <1>3, <1>5
  <2>2. Max({0} \cup S) \in {0} \cup S /\ \A x \in {0} \cup S : Max({0} \cup S) >= x
    BY <1>1, <2>1, MaxOfPlaces
  <2> QED
    BY <1>7, <2>2
<1>9. Max(0..d) = d
  BY <1>1, <1>3, <1>8
<1> QED
  BY <1>6, <1>7, <1>9 DEF d

\* An answer takes the chunks it covers off the beginning.
LEMMA AckSteps ==
    ASSUME Shape, Latest, NEW r \in Run, Interval(r), MadeOf(r), AckUpTo(r)
    PROVE  /\ Shape' /\ Latest' /\ \A q \in Run \ {r} : Untouched(q)
           /\ First(r)' = (IF sent[r] >= First(r) THEN sent[r] + 1 ELSE First(r))
           /\ Last(r)' = Last(r) /\ truncated'[r] = truncated[r]
           /\ \A i \in 1..Len(chunks'[r]) : chunks'[r][i].seq = First(r)' + i - 1
<1> DEFINE k == Covered(r, sent[r])
           rest == SubSeq(chunks[r], k + 1, Len(chunks[r]))
<1>1. Len(chunks[r]) \in Nat /\ DOMAIN chunks[r] = 1..Len(chunks[r]) /\ First(r) \in Int
      /\ Last(r) = First(r) + Len(chunks[r]) - 1 /\ sent[r] \in Nat /\ sent[r] <= Last(r)
  BY Numbers DEF First, Shape, MadeOf
<1>2. k = IF sent[r] >= First(r) THEN sent[r] - First(r) + 1 ELSE 0
  BY <1>1, CoveredIs
<1>3. /\ chunks' = [chunks EXCEPT ![r] = rest]
      /\ UNCHANGED <<truncated, adding, seq>>
      /\ acked' = [acked EXCEPT ![r] = sent[r]] /\ sent' = [sent EXCEPT ![r] = 0]
  BY DEF AckUpTo
<1> HIDE DEF k
<1>4. k \in 0..Len(chunks[r])
  BY <1>1, <1>2
<1>5. /\ rest \in Seq(Chunk) /\ Len(rest) = Len(chunks[r]) - k
      /\ \A i \in 1..Len(rest) : rest[i] = chunks[r][k + i]
  <2>1. \A i \in (k + 1)..Len(chunks[r]) : chunks[r][i] \in Chunk
    BY <1>1, <1>4, ElementOfSeq DEF Shape
  <2>2. /\ rest \in Seq(Chunk)
        /\ Len(rest) = IF k + 1 <= Len(chunks[r]) THEN Len(chunks[r]) - (k + 1) + 1 ELSE 0
        /\ \A i \in 1..(Len(chunks[r]) - (k + 1) + 1) : rest[i] = chunks[r][(k + 1) + i - 1]
    BY <1>1, <1>4, <2>1, SubSeqProperties
  <2> QED
    BY <1>1, <1>4, <2>2
<1> HIDE DEF rest
<1>6. Shape' /\ Latest'
  BY <1>3, <1>5 DEF Shape, Latest, Free
<1>7. \A q \in Run : Last(q)' = Last(q)
  BY <1>3 DEF Last, Free
<1>8. \A q \in Run \ {r} : Untouched(q)
  BY <1>3, <1>7 DEF Untouched, First, Shape
<1>9. chunks'[r] = rest
  BY <1>3 DEF Shape
<1>10. First(r)' = First(r) + k
  <2>1. First(r)' = Last(r)' - Len(chunks'[r]) + 1
    BY DEF First
  <2> QED
    BY <1>1, <1>4, <1>5, <1>7, <1>9, <2>1
<1>11. ASSUME NEW i \in 1..Len(chunks'[r]) PROVE chunks'[r][i].seq = First(r)' + i - 1
  <2>1. k + i \in 1..Len(chunks[r]) /\ chunks'[r][i] = chunks[r][k + i]
    BY <1>1, <1>4, <1>5, <1>9
  <2>2. chunks[r][k + i].seq = First(r) + (k + i) - 1
    BY <2>1 DEF Interval
  <2> QED
    BY <1>1, <1>4, <1>10, <2>1, <2>2
<1>12. First(r)' = IF sent[r] >= First(r) THEN sent[r] + 1 ELSE First(r)
  BY <1>1, <1>2, <1>10
<1> QED
  BY <1>3, <1>6, <1>7, <1>8, <1>11, <1>12

\* A Run whose finish was sent is forgotten.
LEMMA ForgetSteps ==
    ASSUME Shape, Latest, NEW r \in Run, Forget(r)
    PROVE  /\ Shape' /\ Latest' /\ \A q \in Run \ {r} : Untouched(q)
           /\ chunks'[r] = <<>> /\ ~truncated'[r]
           /\ First(r)' = Last(r) + 1 /\ Last(r)' = Last(r)
<1>1. /\ chunks' = [chunks EXCEPT ![r] = <<>>] /\ truncated' = [truncated EXCEPT ![r] = FALSE]
      /\ UNCHANGED <<adding, seq, sent, acked>>
  BY DEF Forget
<1>2. <<>> \in Seq(Chunk) /\ Len(<<>>) = 0
  BY EmptySeq
<1>3. Shape' /\ Latest'
  BY <1>1, <1>2 DEF Shape, Latest, Free
<1>4. \A q \in Run : Last(q)' = Last(q)
  BY <1>1 DEF Last, Free
<1>5. \A q \in Run \ {r} : Untouched(q)
  BY <1>1, <1>4 DEF Untouched, First, Shape
<1>6. chunks'[r] = <<>> /\ ~truncated'[r]
  BY <1>1 DEF Shape
<1>7. First(r)' = Last(r) + 1
  BY <1>2, <1>4, <1>6, Numbers DEF First
<1> QED
  BY <1>3, <1>4, <1>5, <1>6, <1>7

\* Sending and failing to do not touch the buffer.
LEMMA SendSteps ==
    ASSUME Shape, Latest, UNCHANGED <<bufferVars, adding, seq>>,
           sent' \in [Run -> Nat], acked' = acked
    PROVE  Shape' /\ Latest' /\ \A q \in Run : Untouched(q)
  BY DEF Shape, Latest, Free, Untouched, First, Last, bufferVars

----------------------------------------------------------------------------
(* Every step keeps the invariant.                                         *)

\* Nothing is made, held or sent at first.
LEMMA InitInv == Init => Inv
<1> SUFFICES ASSUME Init PROVE Inv
  OBVIOUS
<1>1. <<>> \in Seq(Chunk) /\ Len(<<>>) = 0
  BY EmptySeq
<1>2. Shape /\ Latest
  BY <1>1 DEF Init, Shape, Latest, Free
<1>3. \A r \in Run : Last(r) = 0 /\ First(r) = 1 /\ chunks[r] = <<>>
  BY <1>1 DEF Init, Last, First, Free
<1>4. \A r \in Run : Good(r)
  BY <1>1, <1>3 DEF Init, Good, Interval, MadeOf, FlaggedOf
<1> QED
  BY <1>2, <1>4 DEF Inv

\* A Run that an operation leaves alone.
LEMMA UntouchedInterval ==
    ASSUME NEW r \in Run, Untouched(r), Interval(r) PROVE Interval(r)'
  BY DEF Untouched, Interval

\* An operation on another Run.
LEMMA UntouchedIsGood ==
    ASSUME NEW r \in Run, Good(r), Untouched(r), closed \subseteq closed',
           sent'[r] = sent[r], acked'[r] = acked[r]
    PROVE  Good(r)'
<1>1. Interval(r)'
  BY UntouchedInterval DEF Good
<1> QED
  BY <1>1 DEF Good, MadeOf, FlaggedOf, Untouched

\* Dropping the oldest chunk of a Run marks the Run truncated.
LEMMA MakeRoomKeeps == ASSUME Inv, NEW r \in Run, MakeRoom(r) PROVE Inv'
<1>1. /\ Shape' /\ Latest' /\ \A q \in Run \ {r} : Untouched(q)
      /\ chunks[r] # <<>> /\ chunks'[r] = Tail(chunks[r]) /\ truncated'[r]
      /\ First(r)' = First(r) + 1 /\ Last(r)' = Last(r)
  BY MakeRoomSteps DEF Inv
<1>2. UNCHANGED <<sent, acked, closed>>
  BY DEF MakeRoom
<1>3. \A q \in Run : Good(q)
  BY DEF Inv
<1>4. \A q \in Run \ {r} : Good(q)'
  BY <1>1, <1>2, <1>3, UntouchedIsGood
<1>5. Interval(r)'
  <2>1. /\ Len(chunks[r]) \in Nat /\ First(r) \in Int /\ Len(chunks'[r]) = Len(chunks[r]) - 1
        /\ \A i \in 1..Len(chunks'[r]) : chunks'[r][i] = chunks[r][i + 1]
    BY <1>1, HeadTailProperties, Numbers DEF Inv, Shape
  <2>2. ASSUME NEW i \in 1..Len(chunks'[r]) PROVE chunks'[r][i].seq = First(r)' + i - 1
    <3>1. i + 1 \in 1..Len(chunks[r]) /\ chunks'[r][i] = chunks[r][i + 1]
      BY <2>1
    <3>2. chunks[r][i + 1].seq = First(r) + (i + 1) - 1
      BY <1>3, <3>1 DEF Good, Interval
    <3> QED
      BY <1>1, <2>1, <3>1, <3>2
  <2> QED
    BY <2>2 DEF Interval
<1>6. Good(r)'
  BY <1>1, <1>2, <1>3, <1>5 DEF Good, MadeOf, FlaggedOf
<1> QED
  BY <1>1, <1>4, <1>6 DEF Inv

\* A chunk that fits nowhere is dropped, and the Run marked.
LEMMA RefuseKeeps == ASSUME Inv, Refuse PROVE Inv'
<1>1. Shape' /\ Latest' /\ \A q \in Run \ {adding.run} : Untouched(q)
  BY RefuseSteps DEF Inv
<1>2. PICK r \in Run : r = adding.run /\ Last(r)' = Last(r) + 1 /\ First(r)' = Last(r) + 2
  BY RefuseSteps DEF Inv
<1>3. chunks'[r] = <<>> /\ truncated'[r]
  BY <1>2, RefuseSteps DEF Inv
<1>4. UNCHANGED <<sent, acked, closed>> /\ \A q \in Run : Good(q)
  BY DEF Inv, Refuse
<1>5. \A q \in Run \ {r} : Good(q)'
  BY <1>1, <1>2, <1>4, UntouchedIsGood
<1>6. MadeOf(r)'
  <2>1. sent[r] \in Nat /\ sent'[r] = sent[r] /\ sent[r] <= Last(r) /\ Last(r) \in Int
    BY <1>4, Numbers DEF Good, MadeOf, Inv, Shape
  <2> QED
    BY <1>2, <2>1 DEF MadeOf
<1>7. Good(r)'
  BY <1>3, <1>6, EmptySeq DEF Good, Interval, FlaggedOf
<1> QED
  BY <1>1, <1>5, <1>7 DEF Inv

\* A chunk kept follows what is held.
LEMMA KeepKeeps == ASSUME Inv, Keep PROVE Inv'
<1>1. Shape' /\ Latest'
  BY KeepSteps DEF Inv
<1>2. PICK r \in Run :
        /\ \A q \in Run \ {r} : Untouched(q)
        /\ \E c \in Chunk : c.seq = Last(r) + 1 /\ chunks'[r] = Append(chunks[r], c)
        /\ Last(r)' = Last(r) + 1 /\ First(r)' = First(r) /\ truncated'[r] = truncated[r]
  BY KeepSteps DEF Inv
<1>3. PICK c \in Chunk : c.seq = Last(r) + 1 /\ chunks'[r] = Append(chunks[r], c)
  BY <1>2
<1>4. UNCHANGED <<sent, acked, closed>> /\ \A q \in Run : Good(q)
  BY DEF Inv, Keep
<1>5. \A q \in Run \ {r} : Good(q)'
  BY <1>2, <1>4, UntouchedIsGood
<1>6. /\ Len(chunks[r]) \in Nat /\ First(r) \in Int /\ Last(r) = First(r) + Len(chunks[r]) - 1
      /\ Len(chunks'[r]) = Len(chunks[r]) + 1 /\ chunks'[r][Len(chunks[r]) + 1] = c
      /\ \A i \in 1..Len(chunks[r]) : chunks'[r][i] = chunks[r][i]
  <2>1. chunks[r] \in Seq(Chunk)
    BY DEF Inv, Shape
  <2>2. Last(r) = First(r) + Len(chunks[r]) - 1 /\ Len(chunks[r]) \in Nat /\ First(r) \in Int
    BY Numbers DEF Inv, First
  <2> QED
    BY <1>3, <2>1, <2>2, AppendProperties
<1>7. ASSUME NEW i \in 1..Len(chunks'[r]) PROVE chunks'[r][i].seq = First(r)' + i - 1
  <2>1. CASE i = Len(chunks[r]) + 1
    BY <1>2, <1>3, <1>6, <2>1
  <2>2. CASE i \in 1..Len(chunks[r])
    BY <1>2, <1>4, <1>6, <2>2 DEF Good, Interval
  <2> QED
    BY <1>6, <2>1, <2>2
<1>8. MadeOf(r)'
  <2>1. sent[r] \in Nat /\ sent'[r] = sent[r] /\ sent[r] <= Last(r) /\ Last(r) \in Int
    BY <1>4, Numbers DEF Good, MadeOf, Inv, Shape
  <2> QED
    BY <1>2, <2>1 DEF MadeOf
<1>9. Interval(r)' /\ FlaggedOf(r)'
  BY <1>2, <1>4, <1>7 DEF Good, Interval, FlaggedOf
<1> QED
  BY <1>1, <1>5, <1>8, <1>9 DEF Good, Inv

\* What is sent begins at or after what is held.
LEMMA SendKeeps == ASSUME Inv, NEW r \in Run, Send(r) PROVE Inv'
<1>1. PICK k \in 1..Len(chunks[r]) : NextBatch(r)[Len(NextBatch(r))] = chunks[r][k]
  BY BatchIsHeld DEF Inv, Send
<1>2. /\ UNCHANGED <<bufferVars, adding, seq, acked, closed>>
      /\ sent' = [sent EXCEPT ![r] = chunks[r][k].seq]
  BY <1>1 DEF Send
<1>3. \A q \in Run : Good(q)
  BY DEF Inv
<1>4. /\ Len(chunks[r]) \in Nat /\ First(r) \in Int /\ Last(r) = First(r) + Len(chunks[r]) - 1
      /\ chunks[r][k].seq = First(r) + k - 1 /\ chunks[r][k].seq \in Nat
  <2>1. chunks[r] \in Seq(Chunk) /\ Shape
    BY DEF Inv, Shape
  <2>2. chunks[r][k] \in Chunk
    BY <2>1, ElementOfSeq
  <2>3. chunks[r][k].seq = First(r) + k - 1
    BY <1>3 DEF Good, Interval
  <2>4. Last(r) = First(r) + Len(chunks[r]) - 1 /\ Len(chunks[r]) \in Nat /\ First(r) \in Int
    BY <2>1, Numbers DEF First
  <2> QED
    BY <2>2, <2>3, <2>4 DEF Chunk
<1>5. sent' \in [Run -> Nat] /\ sent'[r] = First(r) + k - 1 /\ \A q \in Run \ {r} : sent'[q] = sent[q]
  BY <1>2, <1>4 DEF Inv, Shape
<1>6. Shape' /\ Latest' /\ \A q \in Run : Untouched(q)
  BY <1>2, <1>5, SendSteps DEF Inv
<1>7. \A q \in Run \ {r} : Good(q)'
  BY <1>2, <1>3, <1>5, <1>6, UntouchedIsGood
<1>8. Interval(r)'
  BY <1>3, <1>6, UntouchedInterval DEF Good
<1>9. MadeOf(r)' /\ FlaggedOf(r)'
  <2>1. First(r) <= sent'[r] /\ sent'[r] <= Last(r)
    BY <1>4, <1>5
  <2> QED
    BY <1>2, <1>3, <1>6, <2>1 DEF MadeOf, FlaggedOf, Good, Untouched
<1> QED
  BY <1>6, <1>7, <1>8, <1>9 DEF Good, Inv

\* A request that failed leaves nothing in flight.
LEMMA SendFailsKeeps == ASSUME Inv, NEW r \in Run, SendFails(r) PROVE Inv'
<1>1. UNCHANGED <<bufferVars, adding, seq, acked, closed>> /\ sent' = [sent EXCEPT ![r] = 0]
  BY DEF SendFails
<1>2. Shape' /\ Latest' /\ \A q \in Run : Untouched(q)
  BY <1>1, SendSteps DEF Inv, Shape
<1>3. \A q \in Run : Good(q)
  BY DEF Inv
<1>4. sent'[r] = 0 /\ \A q \in Run \ {r} : sent'[q] = sent[q]
  BY <1>1 DEF Inv, Shape
<1>5. \A q \in Run \ {r} : Good(q)'
  BY <1>1, <1>2, <1>3, <1>4, UntouchedIsGood
<1>6. Interval(r)'
  BY <1>2, <1>3, UntouchedInterval DEF Good
<1>7. MadeOf(r)'
  <2>1. sent[r] \in Nat /\ sent[r] <= Last(r) /\ Last(r) \in Int
    BY <1>3, Numbers DEF Good, MadeOf, Inv, Shape
  <2> QED
    BY <1>2, <1>4, <2>1 DEF MadeOf, Untouched
<1>8. FlaggedOf(r)'
  BY <1>1, <1>2, <1>3, <1>4 DEF FlaggedOf, Good, Untouched
<1> QED
  BY <1>2, <1>5, <1>6, <1>7, <1>8 DEF Good, Inv

\* An answer drops what it covers and no more.
LEMMA AckKeeps == ASSUME Inv, NEW r \in Run, AckUpTo(r) PROVE Inv'
<1>1. /\ Shape' /\ Latest' /\ \A q \in Run \ {r} : Untouched(q)
      /\ First(r)' = (IF sent[r] >= First(r) THEN sent[r] + 1 ELSE First(r))
      /\ Last(r)' = Last(r) /\ truncated'[r] = truncated[r] /\ Interval(r)'
  BY AckSteps DEF Inv, Good, Interval
<1>2. /\ sent[r] # 0 /\ closed' = closed
      /\ sent' = [sent EXCEPT ![r] = 0] /\ acked' = [acked EXCEPT ![r] = sent[r]]
  BY DEF AckUpTo
<1>3. \A q \in Run : Good(q)
  BY DEF Inv
<1>4. /\ sent'[r] = 0 /\ acked'[r] = sent[r] /\ sent[r] \in Nat
      /\ \A q \in Run \ {r} : sent'[q] = sent[q] /\ acked'[q] = acked[q]
  BY <1>2 DEF Inv, Shape
<1>5. \A q \in Run \ {r} : Good(q)'
  BY <1>1, <1>2, <1>3, <1>4, UntouchedIsGood
<1>6. MadeOf(r)'
  <2>1. sent[r] <= Last(r) /\ Last(r) \in Int
    BY <1>3, Numbers DEF Good, MadeOf, Inv
  <2> QED
    BY <1>1, <1>4, <2>1 DEF MadeOf
<1>7. FlaggedOf(r)'
  <2> SUFFICES ASSUME r \notin closed, ~truncated[r]
               PROVE  First(r)' <= sent[r] + 1
    BY <1>1, <1>2, <1>4 DEF FlaggedOf
  <2>1. First(r) <= sent[r] /\ First(r) \in Int
    BY <1>2, <1>3, Numbers DEF Good, FlaggedOf, Inv
  <2> QED
    BY <1>1, <1>4, <2>1
<1> QED
  BY <1>1, <1>5, <1>6, <1>7 DEF Good, Inv

\* A Run that is over is held no more.
LEMMA ForgetKeeps == ASSUME Inv, NEW r \in Run, Forget(r) PROVE Inv'
<1>1. /\ Shape' /\ Latest' /\ \A q \in Run \ {r} : Untouched(q)
      /\ chunks'[r] = <<>> /\ First(r)' = Last(r) + 1 /\ Last(r)' = Last(r)
  BY ForgetSteps DEF Inv
<1>2. UNCHANGED <<sent, acked>> /\ closed' = closed \cup {r} /\ \A q \in Run : Good(q)
  BY DEF Inv, Forget
<1>3. \A q \in Run \ {r} : Good(q)'
  BY <1>1, <1>2, UntouchedIsGood
<1>4. Good(r)'
  BY <1>1, <1>2, EmptySeq DEF Good, Interval, MadeOf, FlaggedOf
<1> QED
  BY <1>1, <1>3, <1>4 DEF Inv

\* A chunk is numbered before it is held.
LEMMA BeginAddKeeps == ASSUME Inv, NEW r \in Run, NEW n \in ChunkSize, BeginAdd(r, n) PROVE Inv'
<1>1. Shape' /\ Latest' /\ \A q \in Run : Untouched(q)
  BY BeginAddSteps DEF Inv
<1>2. UNCHANGED <<sent, acked, closed>> /\ \A q \in Run : Good(q)
  BY DEF Inv, BeginAdd
<1>3. \A q \in Run : Good(q)'
  BY <1>1, <1>2, UntouchedIsGood
<1> QED
  BY <1>1, <1>3 DEF Inv

\* Every operation keeps the invariant.
LEMMA NextInv == Inv /\ [Next]_vars => Inv'
<1> SUFFICES ASSUME Inv, [Next]_vars PROVE Inv'
  OBVIOUS
<1>1. CASE UNCHANGED vars
  <2>1. Shape' /\ Latest' /\ \A q \in Run : Untouched(q)
    BY <1>1, SendSteps DEF Inv, Shape, vars
  <2>2. UNCHANGED <<sent, acked, closed>> /\ \A q \in Run : Good(q)
    BY <1>1 DEF vars, Inv
  <2>3. \A q \in Run : Good(q)'
    BY <2>1, <2>2, UntouchedIsGood
  <2> QED
    BY <2>1, <2>3 DEF Inv
<1>2. CASE Add
  BY <1>2, RefuseKeeps, KeepKeeps, MakeRoomKeeps, BeginAddKeeps DEF Add
<1>3. CASE \E r \in Run : Send(r) \/ SendFails(r) \/ AckUpTo(r) \/ Forget(r)
  BY <1>3, SendKeeps, SendFailsKeeps, AckKeeps, ForgetKeeps
<1> QED
  BY <1>1, <1>2, <1>3 DEF Next

\* Inv is an invariant, whatever chunks come and however the reporters fare.
THEOREM Inductive == Spec => []Inv
  BY InitInv, NextInv, PTL DEF Spec

\* A chunk the Server has not acknowledged is held, being added, or the Run is
\* marked truncated, until it is forgotten (Add, AckUpTo).
THEOREM LossFlagged == Spec => []LossIsFlagged
<1>1. Inv => LossIsFlagged
  <2> SUFFICES ASSUME Inv, NEW r \in Run \ closed, NEW n \in acked[r] + 1 .. seq[r], ~truncated[r]
               PROVE  \/ \E i \in DOMAIN chunks[r] : chunks[r][i].seq = n
                      \/ ~Free /\ adding.run = r /\ adding.seq = n
    BY DEF LossIsFlagged
  <2>1. /\ Len(chunks[r]) \in Nat /\ DOMAIN chunks[r] = 1..Len(chunks[r])
        /\ First(r) \in Int /\ Last(r) = First(r) + Len(chunks[r]) - 1
        /\ acked[r] \in Nat /\ seq[r] \in Nat /\ First(r) <= acked[r] + 1
    BY Numbers DEF Inv, First, Shape, Good, FlaggedOf
  <2>2. CASE n <= Last(r)
    <3>1. n - First(r) + 1 \in DOMAIN chunks[r]
      BY <2>1, <2>2
    <3>2. chunks[r][n - First(r) + 1].seq = First(r) + (n - First(r) + 1) - 1
      BY <2>1, <3>1 DEF Inv, Good, Interval
    <3> QED
      BY <2>1, <3>1, <3>2
  <2>3. CASE n > Last(r)
    <3>1. ~Free /\ adding.run = r /\ n = seq[r]
      BY <2>1, <2>3 DEF Last
    <3> QED
      BY <3>1 DEF Inv, Latest
  <2> QED
    BY <2>1, <2>2, <2>3
<1> QED
  BY <1>1, Inductive, PTL

----------------------------------------------------------------------------
(* The refinement.                                                         *)

OneRunBuffer(r) == OfRun(r)!RunBufferNext \/ UNCHANGED OfRun(r)!runBufferVars

\* What RunBufferNext says of a Run, in the terms of OutputBuffer.
LEMMA RunBufferSteps ==
    ASSUME NEW r \in Run,
           \/ Untouched(r)
           \/ Last(r)' = Last(r) + 1 /\ First(r)' = First(r) /\ truncated'[r] = truncated[r]
           \/ Last(r)' = Last(r) + 1 /\ First(r)' = Last(r) + 2 /\ truncated'[r] = TRUE
           \/ First(r) <= Last(r) /\ First(r)' = First(r) + 1 /\ truncated'[r] = TRUE /\ Last(r)' = Last(r)
           \/ First(r)' = Last(r) + 1 /\ truncated'[r] = FALSE /\ Last(r)' = Last(r)
           \/ \E n \in 0..Last(r) :
                /\ First(r)' = (IF n >= First(r) THEN n + 1 ELSE First(r))
                /\ Last(r)' = Last(r) /\ truncated'[r] = truncated[r]
    PROVE  OneRunBuffer(r)
  BY DEF OneRunBuffer, Untouched, OfRun!RunBufferNext, OfRun!runBufferVars,
         OfRun!Keep, OfRun!Lose, OfRun!DropOldest, OfRun!Forget, OfRun!AckUpTo

\* Runs an operation leaves alone stutter.
LEMMA UntouchedStutters ==
    ASSUME NEW r \in Run, Untouched(r) PROVE OneRunBuffer(r)
  BY RunBufferSteps

\* A step of the buffer is, for every Run, a step of its RunBuffer or none.
LEMMA EveryRunBuffer == Inv /\ Inv' /\ [Next]_vars => \A r \in Run : OneRunBuffer(r)
<1> SUFFICES ASSUME Inv, Inv', [Next]_vars, NEW q \in Run PROVE OneRunBuffer(q)
  OBVIOUS
<1> USE DEF Inv
<1>1. CASE UNCHANGED vars
  <2>1. Untouched(q)
    BY <1>1, SendSteps DEF Shape, vars
  <2> QED
    BY <2>1, UntouchedStutters
<1>2. CASE Refuse
  <2>1. CASE q = adding.run
    <3>1. Last(q)' = Last(q) + 1 /\ First(q)' = Last(q) + 2
      BY <1>2, <2>1, RefuseSteps
    <3>2. truncated'[q] = TRUE
      BY <1>2, <2>1, RefuseSteps DEF Shape
    <3> QED
      BY <3>1, <3>2, RunBufferSteps
  <2>2. CASE q # adding.run
    BY <1>2, <2>2, RefuseSteps, UntouchedStutters
  <2> QED
    BY <2>1, <2>2
<1>3. CASE Keep
  <2>1. PICK r \in Run :
          /\ \A p \in Run \ {r} : Untouched(p)
          /\ Last(r)' = Last(r) + 1 /\ First(r)' = First(r) /\ truncated'[r] = truncated[r]
    BY <1>3, KeepSteps
  <2>2. CASE q = r
    BY <2>1, <2>2, RunBufferSteps
  <2>3. CASE q # r
    BY <2>1, <2>3, UntouchedStutters
  <2> QED
    BY <2>2, <2>3
<1>4. ASSUME NEW r \in Run, MakeRoom(r) PROVE OneRunBuffer(q)
  <2>1. CASE q = r
    <3>1. /\ chunks[q] # <<>> /\ truncated'[q]
          /\ First(q)' = First(q) + 1 /\ Last(q)' = Last(q)
      BY <1>4, <2>1, MakeRoomSteps
    <3>2. truncated'[q] = TRUE
      BY <3>1 DEF Shape
    <3>3. First(q) <= Last(q)
      <4>1. Len(chunks[q]) \in Nat /\ Len(chunks[q]) # 0
        BY <3>1, EmptySeq, Numbers DEF Shape
      <4> QED
        BY <4>1, Numbers DEF First
    <3> QED
      BY <3>1, <3>2, <3>3, RunBufferSteps
  <2>2. CASE q # r
    BY <1>4, <2>2, MakeRoomSteps, UntouchedStutters
  <2> QED
    BY <2>1, <2>2
<1>5. ASSUME NEW r \in Run, NEW n \in ChunkSize, BeginAdd(r, n) PROVE OneRunBuffer(q)
  BY <1>5, BeginAddSteps, UntouchedStutters
<1>6. ASSUME NEW r \in Run, Send(r) \/ SendFails(r) PROVE OneRunBuffer(q)
  <2>1. UNCHANGED <<bufferVars, adding, seq>> /\ acked' = acked /\ sent' \in [Run -> Nat]
    BY <1>6 DEF Send, SendFails, Shape
  <2>2. Untouched(q)
    BY <2>1, SendSteps
  <2> QED
    BY <2>2, UntouchedStutters
<1>7. ASSUME NEW r \in Run, AckUpTo(r) PROVE OneRunBuffer(q)
  <2>1. CASE q = r
    <3>1. Interval(q) /\ MadeOf(q)
      BY DEF Good
    <3>2. /\ First(q)' = (IF sent[q] >= First(q) THEN sent[q] + 1 ELSE First(q))
          /\ Last(q)' = Last(q) /\ truncated'[q] = truncated[q]
      BY <1>7, <2>1, <3>1, AckSteps
    <3>3. sent[q] \in 0..Last(q)
      BY <3>1, Numbers DEF MadeOf, Shape
    <3> QED
      BY <3>2, <3>3, RunBufferSteps
  <2>2. CASE q # r
    <3>1. Interval(r) /\ MadeOf(r)
      BY DEF Good
    <3> QED
      BY <1>7, <2>2, <3>1, AckSteps, UntouchedStutters
  <2> QED
    BY <2>1, <2>2
<1>8. ASSUME NEW r \in Run, Forget(r) PROVE OneRunBuffer(q)
  <2>1. CASE q = r
    <3>1. First(q)' = Last(q) + 1 /\ Last(q)' = Last(q) /\ ~truncated'[q]
      BY <1>8, <2>1, ForgetSteps
    <3>2. truncated'[q] = FALSE
      BY <3>1 DEF Shape
    <3> QED
      BY <3>1, <3>2, RunBufferSteps
  <2>2. CASE q # r
    BY <1>8, <2>2, ForgetSteps, UntouchedStutters
  <2> QED
    BY <2>1, <2>2
<1> QED
  BY <1>1, <1>2, <1>3, <1>4, <1>5, <1>6, <1>7, <1>8 DEF Next, Add

\* Every Run starts with an empty RunBuffer.
LEMMA EmptyAtFirst == Init => \A r \in Run : OfRun(r)!EmptyRunBuffer
<1> SUFFICES ASSUME Init, NEW r \in Run PROVE OfRun(r)!EmptyRunBuffer
  OBVIOUS
<1>1. Len(<<>>) = 0
  BY EmptySeq
<1>2. First(r) = 1 /\ Last(r) = 0 /\ truncated[r] = FALSE
  BY <1>1 DEF Init, Last, First, Free
<1> QED
  BY <1>2 DEF OfRun!EmptyRunBuffer

\* The buffer of each Run is a RunBuffer (Buffer, Add, AckUpTo, Forget).
THEOREM Implements == Spec => ImplementsRunBuffer
<1>1. Inv => Unbroken
  BY Numbers DEF Inv, Good, Interval, Unbroken
<1>2. Inv /\ Inv' /\ [Next]_vars =>
        [\A r \in Run : OfRun(r)!RunBufferNext \/ UNCHANGED OfRun(r)!runBufferVars]_vars
  BY EveryRunBuffer DEF OneRunBuffer
<1> QED
  BY <1>1, <1>2, Inductive, EmptyAtFirst, PTL DEF Spec, ImplementsRunBuffer

----------------------------------------------------------------------------
(* The counters are what is held.                                          *)

\* Each counter is what is held, and the total is at most the cap.
Counted ==
    /\ bytes \in [Run -> Int] /\ closed \subseteq Run
    /\ \A r \in Run : bytes[r] = TotalBytes(chunks[r])
    /\ size = Total(bytes, Run) /\ size <= GlobalCap

\* The sum of the counters when that of one Run changed.
LEMMA BytesChanged ==
    ASSUME NEW r \in Run, IsFiniteSet(Run), \A q \in Run : bytes[q] \in Int,
           bytes'[r] \in Int, \A q \in Run \ {r} : bytes'[q] = bytes[q]
    PROVE  Total(bytes', Run) = Total(bytes, Run) - bytes[r] + bytes'[r]
  BY TotalChanged

\* A Run's chunks and both counters change together.
LEMMA Recount ==
    ASSUME Counted, NEW r \in Run, NEW cs, NEW d \in Int,
           chunks \in [Run -> Seq(Chunk)], closed' \subseteq Run,
           chunks' = [chunks EXCEPT ![r] = cs],
           bytes' = [bytes EXCEPT ![r] = bytes[r] + d], size' = size + d,
           TotalBytes(cs) = bytes[r] + d, size + d <= GlobalCap
    PROVE  Counted'
<1>1. bytes[r] \in Int /\ bytes' \in [Run -> Int] /\ IsFiniteSet(Run)
  BY OutputBufferAssumption DEF Counted
<1>2. Total(bytes', Run) = Total(bytes, Run) - bytes[r] + bytes'[r]
  <2>1. bytes'[r] \in Int /\ \A q \in Run \ {r} : bytes'[q] = bytes[q]
    BY <1>1 DEF Counted
  <2>2. \A q \in Run : bytes[q] \in Int
    BY DEF Counted
  <2>3. bytes'[r] \in Int /\ IsFiniteSet(Run)
    BY <1>1, <2>1
  <2>4. \A y \in Run \ {r} : bytes'[y] = bytes[y]
    BY <2>1
  <2> QED
    BY <2>2, <2>3, <2>4, BytesChanged
<1>3. Total(bytes, Run) \in Int
  BY <1>1, TotalInt DEF Counted
<1>4. size' = Total(bytes', Run)
  <2>1. bytes'[r] = bytes[r] + d
    BY DEF Counted
  <2> QED
    BY <1>1, <1>2, <1>3, <2>1 DEF Counted
<1>5. \A q \in Run : bytes'[q] = TotalBytes(chunks'[q])
  BY DEF Counted
<1> QED
  BY <1>1, <1>4, <1>5 DEF Counted

\* The types that follow from Counted.
LEMMA CountersAre ==
    ASSUME Shape, Counted
    PROVE  size \in Int /\ \A r \in Run : bytes[r] \in Nat /\ chunks[r] \in Seq(Chunk)
<1>1. \A r \in Run : chunks[r] \in Seq(Chunk)
  BY DEF Shape
<1>2. IsFiniteSet(Run)
  BY OutputBufferAssumption
<1>3. size \in Int
  BY <1>2, TotalInt DEF Counted
<1>4. \A r \in Run : bytes[r] \in Nat
  BY <1>1, BytesNat DEF Counted
<1> QED
  BY <1>1, <1>3, <1>4

\* Without its oldest chunk a sequence has that many bytes fewer.
LEMMA BytesOfTail ==
    ASSUME NEW cs \in Seq(Chunk), cs # <<>>
    PROVE  TotalBytes(Tail(cs)) = TotalBytes(cs) - Head(cs).bytes /\ Head(cs).bytes \in Nat
<1>1. /\ Head(cs) \in Chunk /\ Tail(cs) \in Seq(Chunk) /\ Len(cs) \in Nat /\ 1 \in 0..Len(cs)
      /\ <<>> \in Seq(Chunk)
  OBVIOUS
<1>2. SubSeq(cs, 1, 1) = Append(<<>>, Head(cs))
  <2>1. 1 \in 1..Len(cs) /\ SubSeq(cs, 1, 0) = <<>> /\ cs[1] = Head(cs)
    BY <1>1
  <2>2. SubSeq(cs, 1, 0 + 1) = Append(SubSeq(cs, 1, 0), cs[0 + 1])
    BY <2>1, SubSeqGrows
  <2>3. 0 + 1 = 1
    OBVIOUS
  <2>4. SubSeq(cs, 1, 1) = Append(SubSeq(cs, 1, 0), cs[1])
    BY <2>2, <2>3
  <2> QED
    BY <2>1, <2>4
<1>3. SubSeq(cs, 1 + 1, Len(cs)) = Tail(cs)
  OBVIOUS
<1>4. TotalBytes(cs) = TotalBytes(SubSeq(cs, 1, 1)) + TotalBytes(Tail(cs))
  BY <1>1, <1>3, BytesSplit
<1>5. TotalBytes(Append(<<>>, Head(cs))) = TotalBytes(<<>>) + Head(cs).bytes
  BY <1>1, BytesAppend
<1>6. Head(cs).bytes \in Nat /\ TotalBytes(Tail(cs)) \in Nat
  BY <1>1, BytesOfChunk, BytesNat
<1>7. TotalBytes(SubSeq(cs, 1, 1)) = 0 + Head(cs).bytes
  BY <1>5, <1>2, BytesOfNone
<1> QED
  BY <1>4, <1>6, <1>7

\* Each operation subtracts what it drops, or adds what it keeps.
LEMMA MakeRoomCounts == ASSUME Shape, Counted, NEW r \in Run, MakeRoom(r) PROVE Counted'
<1>1. /\ chunks[r] # <<>> /\ chunks' = [chunks EXCEPT ![r] = Tail(chunks[r])] /\ closed' = closed
      /\ bytes' = [bytes EXCEPT ![r] = bytes[r] - Head(chunks[r]).bytes]
      /\ size' = size - Head(chunks[r]).bytes
  BY DEF MakeRoom, DropOldest, Largest, Empty
<1> DEFINE d == 0 - Head(chunks[r]).bytes
<1>2. Head(chunks[r]).bytes \in Nat /\ TotalBytes(Tail(chunks[r])) = bytes[r] - Head(chunks[r]).bytes
  BY <1>1, CountersAre, BytesOfTail DEF Counted
<1>3. d \in Int /\ bytes[r] - Head(chunks[r]).bytes = bytes[r] + d /\ size - Head(chunks[r]).bytes = size + d
      /\ size + d <= GlobalCap
  BY <1>2, CountersAre, OutputBufferAssumption DEF Counted
<1> HIDE DEF d
<1> QED
  BY <1>1, <1>2, <1>3, Recount DEF Shape, Counted

\* Keep adds to both counters, below the cap.
LEMMA KeepCounts == ASSUME Shape, Counted, Keep PROVE Counted'
<1> DEFINE r == adding.run
           c == [seq |-> adding.seq, bytes |-> adding.bytes]
<1>1. r \in Run /\ c \in Chunk /\ c.bytes = adding.bytes
  BY AddingIsChunk DEF Keep, Chunk
<1>2. /\ chunks' = [chunks EXCEPT ![r] = Append(chunks[r], c)] /\ closed' = closed
      /\ bytes' = [bytes EXCEPT ![r] = bytes[r] + adding.bytes] /\ size' = size + adding.bytes
  BY DEF Keep
<1>3. adding.bytes \in Int
  BY <1>1, BytesOfChunk
<1>4. size + adding.bytes <= GlobalCap
  BY <1>3, CountersAre, OutputBufferAssumption DEF Keep, Overflows
<1> HIDE DEF r, c
<1>5. TotalBytes(Append(chunks[r], c)) = bytes[r] + adding.bytes
  BY <1>1, CountersAre, BytesAppend DEF Counted
<1> QED
  BY <1>1, <1>2, <1>3, <1>4, <1>5, Recount DEF Shape, Counted

\* AckUpTo subtracts the bytes of what the answer covers, no more.
LEMMA AckCounts == ASSUME Shape, Counted, NEW r \in Run, AckUpTo(r) PROVE Counted'
<1> DEFINE k == Covered(r, sent[r])
           cs == chunks[r]
           freed == TotalBytes(SubSeq(cs, 1, k))
           rest == SubSeq(cs, k + 1, Len(cs))
           d == 0 - freed
<1>1. /\ chunks' = [chunks EXCEPT ![r] = rest] /\ closed' = closed
      /\ bytes' = [bytes EXCEPT ![r] = bytes[r] - freed] /\ size' = size - freed
  BY DEF AckUpTo
<1>2. cs \in Seq(Chunk) /\ Len(cs) \in Nat /\ DOMAIN cs = 1..Len(cs)
  BY Numbers DEF Shape
<1>3. k \in 0..Len(cs)
  <2> DEFINE S == {j \in DOMAIN cs : \A i \in 1..j : cs[i].seq <= sent[r]}
  <2>1. S \subseteq 1..Len(cs)
    BY <1>2
  <2>2. Max({0} \cup S) \in {0} \cup S
    <3> HIDE DEF S
    <3> QED
      BY <1>2, <2>1, MaxOfPlaces
  <2> QED
    BY <1>2, <2>1, <2>2 DEF Covered
<1>4. SubSeq(cs, 1, k) \in Seq(Chunk) /\ rest \in Seq(Chunk)
  <2> HIDE DEF k, cs
  <2> QED
    BY <1>2, <1>3
<1>5. TotalBytes(cs) = freed + TotalBytes(rest)
  <2> HIDE DEF k, cs
  <2> QED
    BY <1>2, <1>3, BytesSplit
<1>6. freed \in Nat /\ TotalBytes(rest) \in Nat
  <2> HIDE DEF k, cs
  <2> QED
    BY <1>4, BytesNat
<1>7. bytes[r] = TotalBytes(cs) /\ bytes[r] \in Nat /\ size \in Int /\ size <= GlobalCap
  BY CountersAre DEF Counted
<1> HIDE DEF k, cs, freed, rest
<1>8. /\ d \in Int /\ bytes[r] - freed = bytes[r] + d /\ size - freed = size + d /\ size + d <= GlobalCap
      /\ TotalBytes(rest) = bytes[r] + d
  BY <1>5, <1>6, <1>7, OutputBufferAssumption
<1> HIDE DEF d
<1> QED
  BY <1>1, <1>8, Recount DEF Shape, Counted

\* Forget subtracts all that the Run holds.
LEMMA ForgetCounts == ASSUME Shape, Counted, NEW r \in Run, Forget(r) PROVE Counted'
<1> DEFINE d == 0 - bytes[r]
<1>1. /\ chunks' = [chunks EXCEPT ![r] = <<>>] /\ closed' = closed \cup {r}
      /\ bytes' = [bytes EXCEPT ![r] = 0] /\ size' = size - bytes[r]
  BY DEF Forget
<1>2. bytes[r] \in Nat /\ size \in Int /\ size <= GlobalCap
  BY CountersAre DEF Counted
<1>3. d \in Int /\ bytes[r] + d = 0 /\ size - bytes[r] = size + d /\ size + d <= GlobalCap
  BY <1>2, OutputBufferAssumption
<1> HIDE DEF d
<1> QED
  BY <1>1, <1>3, BytesOfNone, Recount DEF Shape, Counted

\* Every step keeps the counters exact.
LEMMA StepCounts == ASSUME Inv, Counted, [Next]_vars PROVE Counted'
<1> USE DEF Inv
<1>1. ASSUME UNCHANGED <<chunks, bytes, size, closed>> PROVE Counted'
  BY <1>1 DEF Counted
<1>2. CASE UNCHANGED vars
  BY <1>1, <1>2 DEF vars, bufferVars
<1>3. CASE Refuse
  BY <1>1, <1>3 DEF Refuse
<1>4. CASE Keep
  BY <1>4, KeepCounts
<1>5. ASSUME NEW r \in Run, MakeRoom(r) PROVE Counted'
  BY <1>5, MakeRoomCounts
<1>6. ASSUME NEW r \in Run, NEW n \in ChunkSize, BeginAdd(r, n) PROVE Counted'
  BY <1>1, <1>6 DEF BeginAdd, bufferVars
<1>7. ASSUME NEW r \in Run, Send(r) \/ SendFails(r) PROVE Counted'
  BY <1>1, <1>7 DEF Send, SendFails, bufferVars
<1>8. ASSUME NEW r \in Run, AckUpTo(r) PROVE Counted'
  BY <1>8, AckCounts
<1>9. ASSUME NEW r \in Run, Forget(r) PROVE Counted'
  BY <1>9, ForgetCounts
<1> QED
  BY <1>2, <1>3, <1>4, <1>5, <1>6, <1>7, <1>8, <1>9 DEF Next, Add

\* Nothing is held at first, and nothing is counted.
LEMMA InitCounts == Init => Counted
<1> SUFFICES ASSUME Init PROVE Counted
  OBVIOUS
<1>1. bytes \in [Run -> Int] /\ closed \subseteq Run /\ \A r \in Run : bytes[r] = TotalBytes(chunks[r])
  BY BytesOfNone DEF Init
<1>2. Total(bytes, Run) <= 0 /\ Total(bytes, Run) \in Nat
  <2>1. IsFiniteSet(Run) /\ \A r \in Run : bytes[r] \in Nat /\ bytes[r] <= 0 /\ bytes[r] = 0
    BY OutputBufferAssumption DEF Init
  <2>2. Total(bytes, Run) <= 0 * Cardinality({})
    BY <2>1, TotalBounded
  <2> QED
    BY <2>1, <2>2, TotalNat, FS_EmptySet
<1>3. size = 0 /\ 0 <= GlobalCap
  BY OutputBufferAssumption DEF Init
<1> QED
  BY <1>1, <1>2, <1>3 DEF Counted

\* In every state the counters are what is held (Buffer: "size", "bytes"): no
\* order of adds, answers and ends of Runs makes them drift.
THEOREM CountersExact == Spec => [](Inv /\ Counted)
<1>1. Init => Inv /\ Counted
  BY InitInv, InitCounts
<1>2. (Inv /\ Counted) /\ [Next]_vars => (Inv /\ Counted)'
  BY NextInv, StepCounts
<1> QED
  BY <1>1, <1>2, PTL DEF Spec

\* Types: no counter goes below zero, which subtracting the bytes of a chunk
\* twice would (dropOldest, AckUpTo, Forget).
THEOREM TypeCorrect == Spec => []TypeOK
<1>1. Inv /\ Counted => TypeOK
  BY CountersAre DEF Inv, Counted, Shape, TypeOK
<1> QED
  BY <1>1, CountersExact, PTL

\* The chunks of all Runs together are within the cap after every step, Add
\* included, however many it has dropped to get there (Add).
THEOREM CapKept == Spec => []WithinCap
<1>1. Counted => WithinCap
  <2>1. MapThenSumSet(LAMBDA r : bytes[r], Run) = Total(bytes, Run)
    BY SumIsTotal
  <2> QED
    BY <2>1 DEF Counted, WithinCap
<1> QED
  BY <1>1, CountersExact, PTL

\* The largest buffer has at least its share of the total: the sum is at most
\* the largest value for each Run that holds something.
LEMMA LargestHoldsShare ==
    ASSUME Shape, Counted, NEW r \in Largest
    PROVE  size <= bytes[r] * Cardinality({q \in Run : ~Empty(q)})
<1> DEFINE T == {q \in Run : ~Empty(q)}
<1>1. IsFiniteSet(Run) /\ T \in SUBSET Run /\ r \in Run
  BY OutputBufferAssumption DEF Largest
<1>2. \A q \in Run : bytes[q] \in Int
  BY CountersAre
<1>3. \A q \in T : bytes[q] <= bytes[r]
  BY DEF Largest
<1>4. \A q \in Run \ T : bytes[q] = 0
  BY BytesOfNone DEF Counted, Empty
<1> HIDE DEF T
<1>5. Total(bytes, Run) <= bytes[r] * Cardinality(T)
  BY <1>1, <1>2, <1>3, <1>4, TotalBounded
<1> QED
  BY <1>5 DEF Counted, T

\* A step that drops a chunk is Add making room, which takes from the largest
\* while the total and the new chunk are above the cap.
LEMMA QuietStep ==
    ASSUME Inv, Counted, [Next]_vars, NEW r \in Run,
           Len(chunks'[r]) < Len(chunks[r]), truncated'[r], ~Free
    PROVE  bytes[r] * Cardinality({q \in Run : ~Empty(q)}) > GlobalCap - adding.bytes
<1> USE DEF Inv
<1>1. Len(chunks[r]) \in Nat
  BY Numbers
<1>2. MakeRoom(r)
  <2>1. ASSUME chunks'[r] = chunks[r] PROVE FALSE
    BY <1>1, <2>1
  <2>2. ~UNCHANGED vars /\ ~Refuse /\ \A q \in Run : ~SendFails(q)
    BY <2>1 DEF vars, bufferVars, Refuse, SendFails
  <2>3. ~Keep
    <3> SUFFICES ASSUME Keep PROVE FALSE
      OBVIOUS
    <3>1. chunks'[r] = chunks[r] \/ \E c : chunks'[r] = Append(chunks[r], c)
      BY DEF Keep, Shape
    <3>2. \A c : Len(Append(chunks[r], c)) = Len(chunks[r]) + 1
      BY DEF Shape
    <3> QED
      BY <1>1, <2>1, <3>1, <3>2
  <2>4. \A q \in Run : ~Send(q) /\ ~AckUpTo(q) /\ ~Forget(q) /\ \A n \in ChunkSize : ~BeginAdd(q, n)
    BY DEF Send, AckUpTo, Forget, BeginAdd
  <2>5. \A q \in Run \ {r} : ~MakeRoom(q)
    BY <2>1 DEF MakeRoom, DropOldest, Shape
  <2> QED
    BY <2>2, <2>3, <2>4, <2>5 DEF Next, Add
<1>3. size <= bytes[r] * Cardinality({q \in Run : ~Empty(q)})
  BY <1>2, LargestHoldsShare DEF MakeRoom
<1>4. size + adding.bytes > GlobalCap /\ adding.bytes \in Nat
  BY <1>2, AddingIsChunk, OutputBufferAssumption DEF MakeRoom, Overflows
<1>5. Cardinality({q \in Run : ~Empty(q)}) \in Nat
  <2>1. IsFiniteSet({q \in Run : ~Empty(q)})
    BY OutputBufferAssumption, FS_Subset
  <2> QED
    BY <2>1, FS_CardinalityType
<1>6. bytes[r] * Cardinality({q \in Run : ~Empty(q)}) \in Int /\ size \in Int /\ GlobalCap \in Int
  BY <1>5, CountersAre, OutputBufferAssumption
<1> QED
  BY <1>3, <1>4, <1>6

\* Only a Run that holds its share of the cap loses output to another: a quiet
\* Run keeps what it has (Add, dropOldest).
THEOREM QuietRunKept == Spec => QuietRunKeepsOutput
<1>1. (Inv /\ Counted) /\ [Next]_vars =>
        [\A r \in Run :
            Len(chunks'[r]) < Len(chunks[r]) /\ truncated'[r] /\ ~Free =>
                bytes[r] * Cardinality({q \in Run : ~Empty(q)}) > GlobalCap - adding.bytes]_vars
  BY QuietStep
<1> QED
  BY <1>1, CountersExact, PTL DEF Spec, QuietRunKeepsOutput
============================================================================
