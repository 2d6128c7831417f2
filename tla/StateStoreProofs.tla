-------------------------- MODULE StateStoreProofs --------------------------
(***************************************************************************)
(* Proofs about StateStore: for any Runs, any RecentRunTTL and any          *)
(* MaxRecentRuns, a Run that was executed is remembered for as long as the  *)
(* store owes it, whatever crashes, failed saves and changes of the clock   *)
(* lie between.                                                             *)
(*                                                                          *)
(* What pruning does is proved first, from the recursion that deletes what  *)
(* is not fresh: by induction on the number of outcomes looked at, the      *)
(* outcomes kept are found in the list in the same order (Embeds), and one  *)
(* that is fresh is left out only for MaxRecentRuns later ones (Survives).  *)
(*                                                                          *)
(* Then the invariant.  The Runs owed are remembered because of what holds  *)
(* between saves: a Run that no save has reached is still in the process    *)
(* (Process), any other is in a readable file (OnFile), and an outcome that *)
(* is owed, in memory or in the file, is not too old, and fewer than        *)
(* MaxRecentRuns come after it in the list (InTime).                        *)
(***************************************************************************)
EXTENDS StateStore, FiniteSetTheorems, SequenceTheorems, TLAPS

----------------------------------------------------------------------------
(* Pruning.                                                                *)

\* A set with 0 in it, and with every number its successor, is Nat.
LEMMA EveryNumber ==
    ASSUME NEW G \in SUBSET Nat, 0 \in G, \A n \in G : n + 1 \in G
    PROVE  G = Nat
<1> SUFFICES ASSUME Nat \ G # {} PROVE FALSE
  OBVIOUS
<1> DEFINE R == OpToRel(<, Nat)
<1>1. IsWellFoundedOn(R, Nat)
  BY NatLessThanWellFounded
<1>2. \A x, y \in Nat : x < y => <<x, y>> \in R
  BY DEF OpToRel
<1> HIDE DEF R
<1>3. PICK m \in Nat \ G : \A k \in Nat \ G : ~ (<<k, m>> \in R)
  BY <1>1, WFMin
<1>4. m # 0 /\ m - 1 \in Nat /\ m - 1 < m
  BY <1>3
<1>5. m - 1 \in G
  BY <1>2, <1>3, <1>4
<1> QED
  BY <1>3, <1>4, <1>5

\* The recursion of FreshOnes: what is fresh among the first i outcomes.
IsChosen(g, list) ==
    g = [i \in 0..Len(list) |->
            IF i = 0 THEN <<>>
            ELSE IF Fresh(list[i]) THEN Append(g[i - 1], list[i]) ELSE g[i - 1]]
Chosen(list) == CHOOSE g : IsChosen(g, list)

\* The recursion defines what it says: so far as n outcomes go for every n, by
\* induction.
LEMMA ChosenExists ==
    ASSUME NEW list, Len(list) \in Nat
    PROVE  IsChosen(Chosen(list), list)
<1> DEFINE Turn(g, i) == IF i = 0 THEN <<>>
                         ELSE IF Fresh(list[i]) THEN Append(g[i - 1], list[i]) ELSE g[i - 1]
           Part(g, n) == g = [i \in 0..n |-> Turn(g, i)]
           G == {n \in Nat : \E g : Part(g, n)}
<1>1. 0 \in G
  <2>1. Part([i \in 0..0 |-> <<>>], 0)
    OBVIOUS
  <2>2. \E g : Part(g, 0)
    <3> HIDE DEF Part
    <3> QED
      BY <2>1
  <2> QED
    <3> HIDE DEF Part
    <3> QED
      BY <2>2
<1>2. ASSUME NEW n \in G PROVE n + 1 \in G
  <2> PICK g : Part(g, n)
    OBVIOUS
  <2> DEFINE h == [i \in 0..n + 1 |-> Turn(g, i)]
  <2>1. \A i \in 0..n : h[i] = g[i]
    <3>1. \A i \in 0..n : g[i] = Turn(g, i)
      <4> HIDE DEF Turn
      <4> QED
        OBVIOUS
    <3>2. \A i \in 0..n : i \in 0..n + 1
      OBVIOUS
    <3> HIDE DEF Turn
    <3> QED
      BY <3>1, <3>2
  <2>2. \A i \in 0..n + 1 : Turn(h, i) = Turn(g, i)
    <3>1. \A i \in 0..n + 1 : i # 0 => i - 1 \in 0..n
      OBVIOUS
    <3> HIDE DEF h
    <3> QED
      BY <2>1, <3>1
  <2>3. Part(h, n + 1)
    <3> HIDE DEF Turn
    <3> QED
      BY <2>2
  <2>4. \E k : Part(k, n + 1)
    <3> HIDE DEF Part, h
    <3> QED
      BY <2>3
  <2> QED
    <3> HIDE DEF Part
    <3> QED
      BY <2>4
<1>3. Len(list) \in G
  <2> HIDE DEF G
  <2> QED
    BY <1>1, <1>2, EveryNumber DEF G
<1>4. \E g : IsChosen(g, list)
  BY <1>3 DEF IsChosen
<1> QED
  BY <1>4 DEF Chosen

\* FreshOnes is the end of that recursion.
LEMMA FreshOnesAre == \A list : FreshOnes(list) = Chosen(list)[Len(list)]
  BY DEF FreshOnes, Chosen, IsChosen

\* One step of the recursion.
LEMMA ChosenIs ==
    ASSUME NEW list, Len(list) \in Nat, NEW i \in 0..Len(list)
    PROVE  Chosen(list)[i] = IF i = 0 THEN <<>>
                             ELSE IF Fresh(list[i]) THEN Append(Chosen(list)[i - 1], list[i])
                             ELSE Chosen(list)[i - 1]
<1> DEFINE g == Chosen(list)
<1>1. IsChosen(g, list)
  BY ChosenExists
<1> HIDE DEF g
<1>2. g = [j \in 0..Len(list) |->
            IF j = 0 THEN <<>>
            ELSE IF Fresh(list[j]) THEN Append(g[j - 1], list[j]) ELSE g[j - 1]]
  BY <1>1 DEF IsChosen
<1>3. g[i] = IF i = 0 THEN <<>>
             ELSE IF Fresh(list[i]) THEN Append(g[i - 1], list[i]) ELSE g[i - 1]
  BY <1>2
<1> QED
  BY <1>3 DEF g

\* e gives the place in list of each element of part: the fresh ones among the
\* first n, in their order.
Embeds(e, part, list, n) ==
    /\ part \in Seq(Recent)
    /\ e \in [1..Len(part) -> 1..n]
    /\ \A k \in 1..Len(part) : part[k] = list[e[k]]
    /\ \A k, l \in 1..Len(part) : k < l => e[k] < e[l]
    /\ \A i \in 1..n : Fresh(list[i]) => \E k \in 1..Len(part) : e[k] = i

\* What is chosen among the first n outcomes is what is fresh there, in order.
LEMMA ChosenEmbeds ==
    ASSUME NEW list \in Seq(Recent), NEW n \in 0..Len(list)
    PROVE  \E e : Embeds(e, Chosen(list)[n], list, n)
<1> DEFINE G == {i \in Nat : i <= Len(list) => \E e : Embeds(e, Chosen(list)[i], list, i)}
<1>1. Len(list) \in Nat
  OBVIOUS
<1>2. 0 \in G
  <2>1. Chosen(list)[0] = <<>>
    BY <1>1, ChosenIs
  <2>2. Embeds([k \in 1..0 |-> 0], <<>>, list, 0)
    BY DEF Embeds
  <2> QED
    BY <2>1, <2>2
<1>3. ASSUME NEW i \in G PROVE i + 1 \in G
  <2> SUFFICES ASSUME i + 1 <= Len(list)
               PROVE  \E e : Embeds(e, Chosen(list)[i + 1], list, i + 1)
    OBVIOUS
  <2> DEFINE part == Chosen(list)[i]
  <2>1. i \in Nat /\ i <= Len(list) /\ i + 1 \in 0..Len(list) /\ i + 1 \in 1..Len(list) /\ i + 1 # 0 /\ i + 1 - 1 = i
    BY <1>1
  <2>2. PICK e : Embeds(e, part, list, i)
    BY <2>1
  <2>3. Chosen(list)[i + 1] = IF Fresh(list[i + 1]) THEN Append(part, list[i + 1]) ELSE part
    BY <1>1, <2>1, ChosenIs
  <2> HIDE DEF part
  <2>4. part \in Seq(Recent) /\ Len(part) \in Nat /\ e \in [1..Len(part) -> 1..i]
    BY <2>2 DEF Embeds
  <2>5. CASE ~Fresh(list[i + 1])
    <3>1. e \in [1..Len(part) -> 1..i + 1]
      <4>1. 1..i \subseteq 1..i + 1
        BY <2>1
      <4> QED
        BY <2>4, <4>1
    <3>2. \A j \in 1..i + 1 : Fresh(list[j]) => j \in 1..i
      BY <2>1, <2>5
    <3>3. Embeds(e, part, list, i + 1)
      BY <2>2, <3>1, <3>2 DEF Embeds
    <3> QED
      BY <2>3, <2>5, <3>3
  <2>6. CASE Fresh(list[i + 1])
    <3> DEFINE m == Len(part) + 1
               next == Append(part, list[i + 1])
               f == [k \in 1..m |-> IF k = m THEN i + 1 ELSE e[k]]
    <3>1. list[i + 1] \in Recent
      BY <2>1, ElementOfSeq
    <3>2. next \in Seq(Recent) /\ Len(next) = m /\ next[m] = list[i + 1] /\ \A k \in 1..Len(part) : next[k] = part[k]
      BY <2>4, <3>1, AppendProperties
    <3> HIDE DEF next
    <3>3. \A k \in 1..Len(part) : f[k] = e[k] /\ k \in 1..m /\ k # m /\ e[k] \in 1..i
      BY <2>4
    <3>4. f[m] = i + 1 /\ m \in 1..m /\ \A k \in 1..m : k = m \/ k \in 1..Len(part)
      BY <2>4
    <3>5. f \in [1..m -> 1..i + 1]
      <4>1. \A k \in 1..m : (IF k = m THEN i + 1 ELSE e[k]) \in 1..i + 1
        <5> SUFFICES ASSUME NEW k \in 1..m PROVE (IF k = m THEN i + 1 ELSE e[k]) \in 1..i + 1
          OBVIOUS
        <5>1. CASE k = m
          BY <2>1, <5>1
        <5>2. CASE k # m
          <6>1. e[k] \in 1..i
            BY <3>3, <3>4, <5>2
          <6> QED
            BY <2>1, <5>2, <6>1
        <5> QED
          BY <5>1, <5>2
      <4> HIDE DEF m
      <4> QED
        BY <4>1
    <3> HIDE DEF f
    <3>6. \A k \in 1..m : next[k] = list[f[k]]
      BY <2>2, <3>2, <3>3, <3>4 DEF Embeds
    <3>7. \A k, l \in 1..m : k < l => f[k] < f[l]
      <4> SUFFICES ASSUME NEW k \in 1..m, NEW l \in 1..m, k < l PROVE f[k] < f[l]
        OBVIOUS
      <4>1. k \in 1..Len(part)
        BY <2>4
      <4>2. CASE l = m
        BY <2>1, <3>3, <3>4, <4>1, <4>2
      <4>3. CASE l # m
        BY <2>2, <3>3, <3>4, <4>1, <4>3 DEF Embeds
      <4> QED
        BY <4>2, <4>3
    <3>8. ASSUME NEW j \in 1..i + 1, Fresh(list[j]) PROVE \E k \in 1..m : f[k] = j
      <4>1. CASE j = i + 1
        BY <3>4, <4>1
      <4>2. CASE j # i + 1
        <5>1. j \in 1..i
          BY <2>1, <4>2
        <5>2. PICK k \in 1..Len(part) : e[k] = j
          BY <2>2, <3>8, <5>1 DEF Embeds
        <5> QED
          BY <3>3, <5>2
      <4> QED
        BY <4>1, <4>2
    <3>9. Embeds(f, next, list, i + 1)
      BY <3>2, <3>5, <3>6, <3>7, <3>8 DEF Embeds
    <3> QED
      BY <2>3, <2>6, <3>9 DEF next
  <2> QED
    BY <2>5, <2>6
<1>4. n \in G
  <2> HIDE DEF G
  <2>1. n \in Nat
    BY <1>1
  <2> QED
    BY <1>2, <1>3, <2>1, EveryNumber DEF G
<1> QED
  BY <1>1, <1>4

\* What pruning keeps: e gives the place each outcome had.  One that is fresh
\* is kept, unless MaxRecentRuns that came after it are.
Survives(e, kept, list) ==
    /\ kept \in Seq(Recent) /\ Len(kept) <= MaxRecentRuns
    /\ e \in [1..Len(kept) -> 1..Len(list)]
    /\ \A k \in 1..Len(kept) : kept[k] = list[e[k]]
    /\ \A k, l \in 1..Len(kept) : k < l => e[k] < e[l]
    /\ \A i \in 1..Len(list) : Fresh(list[i]) =>
        \/ \E k \in 1..Len(kept) : e[k] = i
        \/ Len(kept) = MaxRecentRuns /\ \A k \in 1..Len(kept) : e[k] > i

\* The last m elements of a sequence.
LEMMA LastOnes ==
    ASSUME NEW part \in Seq(Recent), NEW m \in 1..Len(part)
    PROVE  /\ SubSeq(part, Len(part) - m + 1, Len(part)) \in Seq(Recent)
           /\ Len(SubSeq(part, Len(part) - m + 1, Len(part))) = m
           /\ \A k \in 1..m : SubSeq(part, Len(part) - m + 1, Len(part))[k] = part[Len(part) - m + k]
<1> DEFINE a == Len(part) - m + 1
           b == Len(part)
<1>1. b \in Nat /\ a \in 1..b /\ b - a + 1 = m /\ \A i \in a..b : part[i] \in Recent
  BY ElementOfSeq
<1>2. \A k \in 1..m : a + k - 1 = b - m + k
  BY <1>1
<1> HIDE DEF a, b
<1>3. a <= b /\ a \in Int /\ b \in Int
  BY <1>1
<1>4. /\ SubSeq(part, a, b) \in Seq(Recent) /\ Len(SubSeq(part, a, b)) = b - a + 1
      /\ \A k \in 1..b - a + 1 : SubSeq(part, a, b)[k] = part[a + k - 1]
  BY <1>1, <1>3, SubSeqProperties
<1>5. \A k \in 1..m : SubSeq(part, a, b)[k] = part[b - m + k]
  BY <1>1, <1>2, <1>4
<1> QED
  BY <1>1, <1>4, <1>5 DEF a, b

\* Prune keeps the last MaxRecentRuns of the fresh outcomes.
LEMMA PruneSurvives ==
    ASSUME NEW list \in Seq(Recent)
    PROVE  \E e : Survives(e, Prune(list), list)
<1> DEFINE part == FreshOnes(list)
           m == MaxRecentRuns
<1>1. Len(list) \in Nat /\ m \in Nat \ {0}
  BY StateStoreAssumption
<1>2. PICK e : Embeds(e, part, list, Len(list))
  <2>1. Len(list) \in 0..Len(list)
    BY <1>1
  <2> QED
    BY <2>1, FreshOnesAre, ChosenEmbeds
<1>3. Prune(list) = IF Len(part) > m THEN SubSeq(part, Len(part) - m + 1, Len(part)) ELSE part
  BY DEF Prune
<1> HIDE DEF part, m
<1>4. part \in Seq(Recent) /\ Len(part) \in Nat /\ e \in [1..Len(part) -> 1..Len(list)]
  BY <1>2 DEF Embeds
<1>5. CASE Len(part) <= m
  <2>1. Prune(list) = part
    BY <1>1, <1>3, <1>4, <1>5
  <2>2. Survives(e, part, list)
    BY <1>2, <1>4, <1>5 DEF Embeds, Survives, m
  <2> QED
    BY <2>1, <2>2
<1>6. CASE Len(part) > m
  <2> DEFINE d == Len(part) - m
             kept == SubSeq(part, Len(part) - m + 1, Len(part))
             f == [k \in 1..m |-> e[d + k]]
  <2>1. d \in Nat /\ m \in 1..Len(part) /\ \A k \in 1..m : d + k \in 1..Len(part)
    BY <1>1, <1>4, <1>6
  <2>2. kept \in Seq(Recent) /\ Len(kept) = m /\ \A k \in 1..m : kept[k] = part[d + k]
    BY <1>4, <2>1, LastOnes
  <2> HIDE DEF kept
  <2>3. f \in [1..m -> 1..Len(list)] /\ \A k \in 1..m : f[k] = e[d + k]
    <3> HIDE DEF d
    <3> QED
      BY <1>4, <2>1
  <2> HIDE DEF f
  <2>4. \A k \in 1..m : kept[k] = list[f[k]]
    <3>1. \A k \in 1..Len(part) : part[k] = list[e[k]]
      BY <1>2 DEF Embeds
    <3>2. \A k \in 1..m : part[d + k] = list[e[d + k]]
      <4> HIDE DEF d
      <4> QED
        BY <2>1, <3>1
    <3> HIDE DEF d
    <3> QED
      BY <2>2, <2>3, <3>2
  <2>5. \A k, l \in 1..m : k < l => f[k] < f[l]
    <3> SUFFICES ASSUME NEW k \in 1..m, NEW l \in 1..m, k < l PROVE f[k] < f[l]
      OBVIOUS
    <3>1. d + k < d + l /\ d + k \in 1..Len(part) /\ d + l \in 1..Len(part)
      BY <1>1, <2>1
    <3> QED
      BY <1>2, <2>3, <3>1 DEF Embeds
  <2>6. ASSUME NEW i \in 1..Len(list), Fresh(list[i])
        PROVE  (\E k \in 1..m : f[k] = i) \/ (\A k \in 1..m : f[k] > i)
    <3>1. PICK k \in 1..Len(part) : e[k] = i
      BY <1>2, <2>6 DEF Embeds
    <3>2. CASE k > d
      <4>1. k - d \in 1..m /\ d + (k - d) = k
        BY <1>1, <1>4, <2>1, <3>2
      <4>2. f[k - d] = i
        BY <2>3, <3>1, <4>1
      <4> QED
        BY <4>1, <4>2
    <3>3. CASE k <= d
      <4> SUFFICES ASSUME NEW l \in 1..m PROVE f[l] > i
        OBVIOUS
      <4>1. k < d + l /\ d + l \in 1..Len(part)
        BY <1>1, <1>4, <2>1, <3>3
      <4>2. e[k] < e[d + l]
        BY <1>2, <4>1 DEF Embeds
      <4>3. e[k] \in Nat /\ e[d + l] \in Nat
        BY <1>4, <4>1
      <4> QED
        BY <2>3, <3>1, <4>2, <4>3
    <3> QED
      BY <1>4, <2>1, <3>2, <3>3
  <2>7. Survives(f, kept, list)
    <3>1. Len(kept) = MaxRecentRuns /\ Len(kept) <= MaxRecentRuns
      BY <1>1, <2>2 DEF m
    <3> QED
      BY <2>2, <2>3, <2>4, <2>5, <2>6, <3>1 DEF Survives, m
  <2>8. Prune(list) = kept
    BY <1>3, <1>6 DEF kept
  <2> QED
    BY <2>7, <2>8
<1> QED
  BY <1>1, <1>4, <1>5, <1>6

\* No Run has two outcomes.
Distinct(list) == \A i, j \in 1..Len(list) : list[i].run = list[j].run => i = j

\* The outcome of r is of time t, and the Runs that finished later are in since.
Follows(list, r, t, since) ==
    \A i \in 1..Len(list) : list[i].run = r =>
        /\ list[i].at = t
        /\ \A j \in 1..Len(list) : j > i => list[j].run \in since

\* RunsIn, by the positions of the list.
LEMMA RunsAre ==
    ASSUME NEW list \in Seq(Recent)
    PROVE  RunsIn(list) = {list[i].run : i \in 1..Len(list)} /\ RunsIn(list) \subseteq Run
<1>1. DOMAIN list = 1..Len(list) /\ \A i \in 1..Len(list) : list[i] \in Recent
  BY LenProperties, ElementOfSeq
<1> QED
  BY <1>1 DEF RunsIn, Recent

\* Pruning adds no Run, and leaves an outcome its time and its followers.
LEMMA PruneKeeps ==
    ASSUME NEW list \in Seq(Recent), Distinct(list)
    PROVE  /\ Prune(list) \in Seq(Recent) /\ Len(Prune(list)) <= MaxRecentRuns
           /\ Distinct(Prune(list)) /\ RunsIn(Prune(list)) \subseteq RunsIn(list)
           /\ \A r, t, since : Follows(list, r, t, since) => Follows(Prune(list), r, t, since)
<1> DEFINE kept == Prune(list)
<1>1. PICK e : Survives(e, kept, list)
  BY PruneSurvives
<1> HIDE DEF kept
<1>2. /\ kept \in Seq(Recent) /\ Len(kept) <= MaxRecentRuns /\ Len(kept) \in Nat /\ Len(list) \in Nat
      /\ \A k \in 1..Len(kept) : kept[k] = list[e[k]] /\ e[k] \in 1..Len(list)
      /\ \A k, l \in 1..Len(kept) : k < l => e[k] < e[l]
  BY <1>1 DEF Survives
<1>3. Distinct(kept)
  <2> SUFFICES ASSUME NEW k \in 1..Len(kept), NEW l \in 1..Len(kept), kept[k].run = kept[l].run PROVE k = l
    BY DEF Distinct
  <2>1. e[k] = e[l]
    BY <1>2 DEF Distinct
  <2> QED
    BY <1>2, <2>1
<1>4. RunsIn(kept) \subseteq RunsIn(list)
  BY <1>2, RunsAre
<1>5. ASSUME NEW r, NEW t, NEW since, Follows(list, r, t, since) PROVE Follows(kept, r, t, since)
  <2> SUFFICES ASSUME NEW k \in 1..Len(kept), kept[k].run = r
               PROVE  kept[k].at = t /\ \A l \in 1..Len(kept) : l > k => kept[l].run \in since
    BY DEF Follows
  <2>1. list[e[k]].run = r /\ e[k] \in 1..Len(list)
    BY <1>2
  <2>2. list[e[k]].at = t /\ \A j \in 1..Len(list) : j > e[k] => list[j].run \in since
    BY <1>5, <2>1 DEF Follows
  <2>3. \A l \in 1..Len(kept) : l > k => e[l] > e[k] /\ e[l] \in 1..Len(list)
    BY <1>2
  <2> QED
    BY <1>2, <2>2, <2>3
<1> QED
  BY <1>2, <1>3, <1>4, <1>5 DEF kept

\* A Run whose outcome is fresh, and followed by fewer than MaxRecentRuns others,
\* is not pruned.
LEMMA PruneRemembers ==
    ASSUME NEW list \in Seq(Recent), Distinct(list), NEW r \in RunsIn(list), NEW t, NEW since,
           Follows(list, r, t, since), t >= clock - RecentRunTTL,
           IsFiniteSet(since), Cardinality(since) < MaxRecentRuns
    PROVE  r \in RunsIn(Prune(list))
<1> DEFINE kept == Prune(list)
<1>1. PICK e : Survives(e, kept, list)
  BY PruneSurvives
<1>2. kept \in Seq(Recent) /\ Distinct(kept)
  BY PruneKeeps
<1> HIDE DEF kept
<1>3. PICK i \in 1..Len(list) : list[i].run = r
  BY RunsAre
<1>4. Fresh(list[i])
  BY <1>3 DEF Follows, Fresh
<1>5. CASE \E k \in 1..Len(kept) : e[k] = i
  <2>1. PICK k \in 1..Len(kept) : kept[k] = list[i]
    BY <1>1, <1>5 DEF Survives
  <2>2. kept[k].run = r
    BY <1>3, <2>1
  <2> QED
    BY <1>2, <2>2, RunsAre DEF kept
<1>6. CASE Len(kept) = MaxRecentRuns /\ \A k \in 1..Len(kept) : e[k] > i
  <2> DEFINE S == 1..Len(kept)
             f == [k \in S |-> kept[k].run]
  <2>1. \A k \in S : kept[k].run \in since
    <3> SUFFICES ASSUME NEW k \in 1..Len(kept) PROVE kept[k].run \in since
      OBVIOUS
    <3>1. e[k] \in 1..Len(list) /\ e[k] > i /\ kept[k] = list[e[k]]
      BY <1>1, <1>6 DEF Survives
    <3> QED
      BY <1>3, <3>1 DEF Follows
  <2>2. IsFiniteSet(S) /\ Cardinality(S) = MaxRecentRuns
    <3>1. Len(kept) \in Nat
      BY <1>2
    <3> DEFINE n == Len(kept)
    <3> HIDE DEF n
    <3>2. n \in Nat
      BY <3>1 DEF n
    <3>3. IsFiniteSet(1..n) /\ Cardinality(1..n) = n
      BY <3>2, FS_Interval
    <3> QED
      BY <1>6, <3>3 DEF n
  <2>3. f \in [S -> since] /\ \A k \in S : f[k] = kept[k].run
    BY <2>1
  <2> HIDE DEF S, f
  <2>4. PICK k \in S, l \in S : k # l /\ f[k] = f[l]
    BY <2>2, <2>3, FS_PigeonHole
  <2>5. kept[k].run = kept[l].run
    BY <2>3, <2>4
  <2> QED
    BY <1>2, <2>4, <2>5 DEF Distinct, S
<1> QED
  BY <1>1, <1>4, <1>5, <1>6 DEF Survives

----------------------------------------------------------------------------
(* The invariant.                                                          *)

\* Contents that may be saved: no Run is both active and finished.
Good(act, list) ==
    /\ Len(list) <= MaxRecentRuns /\ Distinct(list) /\ act \cap RunsIn(list) = {}

\* The file can be parsed.
Readable == file # Corrupt

\* Memory and file, each good by itself.
Apart == Good(active, recent) /\ (Readable => Good(file.active, file.recent))

\* The Runs of this process: none while it is down or starting, no outcome yet, and
\* active once the start was recorded; until then no save has reached them.
Process ==
    /\ daemon = "down" => active = {} /\ recent = <<>> /\ unsaved = {}
    /\ \A r \in Run : step[r] # "none" =>
        /\ daemon = "up" /\ r \notin RunsIn(recent)
        /\ IF step[r] = "running" THEN r \in active ELSE r \in unsaved

\* What a save has reached is in the file.
OnFile ==
    /\ \A r \in active \ unsaved : Readable /\ r \in file.active
    /\ \A r \in owed \ unsaved : Readable /\ (r \in file.active \/ r \in RunsIn(file.recent))

\* The outcomes the store owes are neither too old nor crowded out.
InTime ==
    \A r \in owed :
        /\ Follows(recent, r, finishedAt[r], after[r])
        /\ r \notin unsaved /\ Readable => Follows(file.recent, r, finishedAt[r], after[r])
        /\ finishedAt[r] < 0 \/ finishedAt[r] >= clock - RecentRunTTL
        /\ Cardinality(after[r]) < MaxRecentRuns

\* The inductive invariant.
Inv == TypeOK /\ Apart /\ Process /\ OnFile /\ InTime /\ Remembered

\* Distinct, as the type invariant says it.
LEMMA DistinctIs ==
    ASSUME NEW list \in Seq(Recent)
    PROVE  /\ Distinct(list) <=> \A i, j \in DOMAIN list : list[i].run = list[j].run => i = j
           /\ DOMAIN list = 1..Len(list) /\ Len(list) \in Nat
<1>1. DOMAIN list = 1..Len(list) /\ Len(list) \in Nat
  BY LenProperties
<1> QED
  BY <1>1 DEF Distinct

\* Empty contents are good.
LEMMA EmptyOnes ==
    /\ <<>> \in Seq(Recent) /\ Distinct(<<>>) /\ RunsIn(<<>>) = {} /\ Len(<<>>) = 0
    /\ \A r, t, since : Follows(<<>>, r, t, since)
    /\ \A act : Good(act, <<>>)
<1>1. <<>> \in Seq(Recent) /\ Len(<<>>) = 0 /\ 1..0 = {}
  OBVIOUS
<1>2. MaxRecentRuns \in Nat /\ 0 <= MaxRecentRuns
  BY StateStoreAssumption
<1>3. RunsIn(<<>>) = {}
  BY <1>1 DEF RunsIn
<1>4. Distinct(<<>>) /\ \A r, t, since : Follows(<<>>, r, t, since)
  BY <1>1 DEF Distinct, Follows
<1> QED
  BY <1>1, <1>2, <1>3, <1>4 DEF Good

\* A file that was written is not corrupt.
LEMMA FileIs ==
    ASSUME NEW act \in SUBSET Run, NEW list \in Seq(Recent)
    PROVE  /\ [active |-> act, recent |-> list] \in [active : SUBSET Run, recent : Seq(Recent)]
           /\ [active |-> act, recent |-> list] # Corrupt
           /\ [active |-> act, recent |-> list].active = act
           /\ [active |-> act, recent |-> list].recent = list
  BY StateStoreAssumption

\* A save, whole or not.
LEMMA Saving ==
    ASSUME TypeOK, Apart, OnFile, NEW act \in SUBSET Run, NEW list \in Seq(Recent),
           Save(act, list), Distinct(list), act \cap RunsIn(list) = {},
           owed' \subseteq owed,
           \A r \in act \ unsaved : Readable /\ r \in file.active,
           \A r \in owed' :
              /\ r \in act \/ r \in RunsIn(list) \/ (r \in unsaved /\ step'[r] = "accepted")
              /\ Follows(list, r, finishedAt'[r], after'[r])
              /\ r \in RunsIn(list) => finishedAt'[r] >= clock - RecentRunTTL
              /\ r \notin unsaved /\ Readable => Follows(file.recent, r, finishedAt'[r], after'[r])
              /\ IsFiniteSet(after'[r]) /\ Cardinality(after'[r]) < MaxRecentRuns
    PROVE  /\ active' \subseteq Run /\ recent' \in Seq(Recent) /\ unsaved' \subseteq unsaved
           /\ file' \in [active : SUBSET Run, recent : Seq(Recent)] \cup {Corrupt}
           /\ active' = act /\ RunsIn(recent') \subseteq RunsIn(list)
           /\ \A r \in unsaved : step'[r] = "accepted" => r \in unsaved'
           /\ Apart' /\ OnFile'
           /\ \A r \in owed' :
                /\ Follows(recent', r, finishedAt'[r], after'[r])
                /\ r \notin unsaved' /\ Readable' => Follows(file'.recent, r, finishedAt'[r], after'[r])
                /\ r \in active' \/ r \in RunsIn(recent') \/ step'[r] = "accepted"
<1> DEFINE kept == Prune(list)
<1>1. /\ kept \in Seq(Recent) /\ Len(kept) <= MaxRecentRuns
      /\ Distinct(kept) /\ RunsIn(kept) \subseteq RunsIn(list)
      /\ \A r, t, since : Follows(list, r, t, since) => Follows(kept, r, t, since)
  BY PruneKeeps
<1>2. ASSUME NEW r \in owed'
      PROVE  /\ r \in RunsIn(list) => r \in RunsIn(kept)
             /\ Follows(kept, r, finishedAt'[r], after'[r])
  <2>1. Follows(list, r, finishedAt'[r], after'[r]) /\ IsFiniteSet(after'[r]) /\ Cardinality(after'[r]) < MaxRecentRuns
    BY <1>2
  <2>2. r \in RunsIn(list) => finishedAt'[r] >= clock - RecentRunTTL
    BY <1>2
  <2>3. r \in RunsIn(list) => r \in RunsIn(kept)
    BY <2>1, <2>2, PruneRemembers
  <2> QED
    BY <1>1, <2>1, <2>3
<1>3. active' = act /\ recent' = kept
  BY DEF Save
<1> HIDE DEF kept
<1>4. Good(act, kept)
  BY <1>1 DEF Good
<1>5. CASE file' = [active |-> act, recent |-> kept] /\ unsaved' = {r \in unsaved : step'[r] = "accepted"}
  <2>1. /\ file' # Corrupt /\ file'.active = act /\ file'.recent = kept
        /\ file' \in [active : SUBSET Run, recent : Seq(Recent)]
    BY <1>1, <1>5, FileIs
  <2>2. Apart'
    BY <1>3, <1>4, <2>1 DEF Apart, Readable, Good, Distinct, RunsIn
  <2>3. OnFile'
    <3>1. \A r \in owed' \ unsaved' : r \in act \/ r \in RunsIn(kept)
      BY <1>2, <1>5
    <3> QED
      BY <1>3, <2>1, <3>1 DEF OnFile, Readable, RunsIn
  <2>4. \A r \in owed' : r \in active' \/ r \in RunsIn(recent') \/ step'[r] = "accepted"
    BY <1>2, <1>3
  <2> QED
    BY <1>1, <1>2, <1>3, <1>5, <2>1, <2>2, <2>3, <2>4
<1>6. CASE UNCHANGED <<file, unsaved>>
  <2>1. Apart'
    BY <1>3, <1>4, <1>6 DEF Apart, Readable, Good, Distinct, RunsIn
  <2>2. OnFile'
    BY <1>3, <1>6 DEF OnFile, Readable, RunsIn
  <2>3. \A r \in owed' : r \in active' \/ r \in RunsIn(recent') \/ step'[r] = "accepted"
    BY <1>2, <1>3
  <2>4. \A r \in owed' : r \notin unsaved' /\ Readable' => Follows(file'.recent, r, finishedAt'[r], after'[r])
    BY <1>6 DEF Readable
  <2>5. file' \in [active : SUBSET Run, recent : Seq(Recent)] \cup {Corrupt}
    BY <1>6 DEF TypeOK
  <2> QED
    BY <1>1, <1>2, <1>3, <1>6, <2>1, <2>2, <2>3, <2>4, <2>5
<1> QED
  BY <1>3, <1>5, <1>6 DEF Save, kept

----------------------------------------------------------------------------
(* The actions.                                                            *)

\* The assumption on the constants, without what the file may hold.
LEMMA ConstantsAre == /\ IsFiniteSet(Run) /\ MaxRecentRuns \in Nat \ {0}
                      /\ RecentRunTTL \in Nat /\ MaxTime \in Nat
  BY StateStoreAssumption

\* The types of single elements.
LEMMA Stated ==
    ASSUME TypeOK
    PROVE  /\ recent \in Seq(Recent) /\ active \in SUBSET Run /\ clock \in 0..MaxTime /\ clock \in Int
           /\ \A r \in Run : finishedAt[r] \in -1..MaxTime /\ finishedAt[r] \in Int /\ after[r] \subseteq Run
           /\ \A r \in Run : IsFiniteSet(after[r])
           /\ Readable => file \in [active : SUBSET Run, recent : Seq(Recent)]
           /\ Readable => file.active \in SUBSET Run /\ file.recent \in Seq(Recent)
<1>1. \A r \in Run : after[r] \subseteq Run /\ finishedAt[r] \in -1..MaxTime
  BY DEF TypeOK
<1>2. \A r \in Run : IsFiniteSet(after[r])
  BY <1>1, ConstantsAre, FS_Subset
<1> QED
  BY <1>1, <1>2, ConstantsAre DEF TypeOK, Readable

\* The invariant holds at first.
LEMMA InitHolds == Init => Inv
<1> SUFFICES ASSUME Init PROVE Inv
  OBVIOUS
<1>1. file \in [active : SUBSET Run, recent : Seq(Recent)] /\ file.active = {} /\ file.recent = <<>> /\ Readable
  BY EmptyOnes, FileIs DEF Init, Readable
<1>2. TypeOK
  <2>1. \A i, j \in DOMAIN recent : recent[i].run = recent[j].run => i = j
    BY EmptyOnes, DistinctIs DEF Init
  <2>2. clock \in 0..MaxTime /\ finishedAt \in [Run -> -1..MaxTime]
    BY ConstantsAre DEF Init
  <2> QED
    BY <1>1, <2>1, <2>2, EmptyOnes, ConstantsAre DEF Init, TypeOK
<1>3. Apart
  BY <1>1, EmptyOnes DEF Init, Apart
<1>4. Process
  BY DEF Init, Process
<1>5. OnFile /\ InTime /\ Remembered
  BY DEF Init, OnFile, InTime, Remembered
<1> QED
  BY <1>2, <1>3, <1>4, <1>5 DEF Inv

\* An outcome that was not there is the last.
LEMMA Appended ==
    ASSUME NEW list \in Seq(Recent), NEW o \in Recent, Distinct(list), o.run \notin RunsIn(list)
    PROVE  /\ Append(list, o) \in Seq(Recent) /\ Distinct(Append(list, o))
           /\ RunsIn(Append(list, o)) = RunsIn(list) \cup {o.run}
           /\ \A since : Follows(Append(list, o), o.run, o.at, since)
           /\ \A r, t, since : r # o.run /\ Follows(list, r, t, since)
                               => Follows(Append(list, o), r, t, since \cup {o.run})
<1> DEFINE next == Append(list, o)
           n == Len(list)
<1>1. /\ next \in Seq(Recent) /\ Len(next) = n + 1 /\ next[n + 1] = o /\ n \in Nat
      /\ \A i \in 1..n : next[i] = list[i]
  BY AppendProperties
<1> HIDE DEF next
<1>2. \A i \in 1..n + 1 : i = n + 1 \/ i \in 1..n
  BY <1>1
<1>3. \A i \in 1..n : i \in 1..n + 1 /\ i < n + 1
  BY <1>1
<1>4. n + 1 \in 1..n + 1
  BY <1>1
<1>5. RunsIn(list) = {list[i].run : i \in 1..n} /\ RunsIn(next) = {next[i].run : i \in 1..n + 1}
  BY <1>1, RunsAre
<1>6. \A i \in 1..n : list[i].run # o.run
  BY <1>5
<1>7. Distinct(next)
  BY <1>1, <1>2, <1>6 DEF Distinct
<1>8. RunsIn(next) = RunsIn(list) \cup {o.run}
  BY <1>1, <1>2, <1>3, <1>4, <1>5
<1>9. \A since : Follows(next, o.run, o.at, since)
  <2> SUFFICES ASSUME NEW i \in 1..n + 1, next[i].run = o.run
               PROVE  i = n + 1
    BY <1>1 DEF Follows
  <2> QED
    BY <1>1, <1>2, <1>6
<1>10. ASSUME NEW r, NEW t, NEW since, r # o.run, Follows(list, r, t, since)
       PROVE  Follows(next, r, t, since \cup {o.run})
  <2> SUFFICES ASSUME NEW i \in 1..n + 1, next[i].run = r
               PROVE  next[i].at = t /\ \A j \in 1..n + 1 : j > i => next[j].run \in since \cup {o.run}
    BY <1>1 DEF Follows
  <2>1. i \in 1..n
    BY <1>1, <1>2, <1>10
  <2>2. list[i].run = r /\ next[i] = list[i]
    BY <1>1, <2>1
  <2>3. list[i].at = t /\ \A j \in 1..n : j > i => list[j].run \in since
    BY <1>10, <2>1, <2>2 DEF Follows
  <2>4. \A j \in 1..n + 1 : j > i => next[j].run \in since \cup {o.run}
    BY <1>1, <1>2, <2>3
  <2> QED
    BY <2>2, <2>3, <2>4
<1> QED
  BY <1>1, <1>7, <1>8, <1>9, <1>10 DEF next

\* More Runs may have finished since.
LEMMA SinceMore ==
    ASSUME NEW list, NEW r, NEW t, NEW since, NEW more, Follows(list, r, t, since), since \subseteq more
    PROVE  Follows(list, r, t, more)
  BY DEF Follows

\* An outcome has a time.
LEMMA HasTime ==
    ASSUME NEW list \in Seq(Recent), NEW r, NEW t, NEW since, Follows(list, r, t, since), r \in RunsIn(list)
    PROVE  t >= 0 /\ t \in Int
<1>1. PICK i \in 1..Len(list) : list[i].run = r
  BY RunsAre
<1>2. list[i] \in Recent
  BY ElementOfSeq
<1> QED
  BY <1>1, <1>2, ConstantsAre DEF Follows, Recent

\* Of a Run without an outcome, anything is true.
LEMMA Absent ==
    ASSUME NEW list \in Seq(Recent), NEW r, r \notin RunsIn(list)
    PROVE  \A t, since : Follows(list, r, t, since)
  BY RunsAre DEF Follows

\* MarkActive: the save reaches the Run, or leaves it unsaved.
LEMMA StartedKeeps ==
    ASSUME Inv, NEW q \in Run, Started(q)
    PROVE  Inv'
<1> DEFINE act == active \cup {q}
<1>1. TypeOK /\ Apart /\ Process /\ OnFile /\ InTime /\ Remembered
  BY DEF Inv
<1>2. /\ daemon = "up" /\ step[q] = "accepted" /\ step' = [step EXCEPT ![q] = "running"]
      /\ Save(act, recent) /\ UNCHANGED <<clock, daemon, finishedAt, after, owed>>
  BY DEF Started, MarkActive
<1> HIDE DEF act
<1>3. step' \in [Run -> {"none", "accepted", "running"}] /\ step'[q] = "running" /\ \A r \in Run : r # q => step'[r] = step[r]
  BY <1>1, <1>2 DEF TypeOK
<1>4. act \in SUBSET Run /\ Distinct(recent) /\ act \cap RunsIn(recent) = {}
  <2>1. q \notin RunsIn(recent)
    BY <1>1, <1>2 DEF Process
  <2> QED
    BY <1>1, <2>1 DEF Apart, Good, act, TypeOK
<1>5. \A r \in act \ unsaved : Readable /\ r \in file.active
  <2>1. q \in unsaved
    BY <1>1, <1>2 DEF Process
  <2> QED
    BY <1>1, <2>1 DEF act, OnFile
<1>6. ASSUME NEW r \in owed
      PROVE  /\ r \in act \/ r \in RunsIn(recent) \/ (r \in unsaved /\ step'[r] = "accepted")
             /\ Follows(recent, r, finishedAt[r], after[r])
             /\ r \in RunsIn(recent) => finishedAt[r] >= clock - RecentRunTTL
             /\ r \notin unsaved /\ Readable => Follows(file.recent, r, finishedAt[r], after[r])
             /\ IsFiniteSet(after[r]) /\ Cardinality(after[r]) < MaxRecentRuns
  <2>1. r \in Run
    BY <1>1 DEF TypeOK
  <2>2. r \in act \/ r \in RunsIn(recent) \/ (r \in unsaved /\ step'[r] = "accepted")
    <3>1. step[r] # "none" \/ r \in active \/ r \in RunsIn(recent)
      BY <1>1, <1>2, <1>6 DEF Remembered, Known
    <3>2. CASE step[r] # "none" /\ r # q
      <4>1. step'[r] = step[r] /\ step[r] \in {"accepted", "running"}
        BY <1>1, <1>3, <2>1, <3>2 DEF TypeOK
      <4>2. IF step[r] = "running" THEN r \in active ELSE r \in unsaved
        BY <1>1, <2>1, <3>2 DEF Process
      <4> QED
        BY <4>1, <4>2 DEF act
    <3> QED
      BY <3>1, <3>2 DEF act
  <2>3. r \in RunsIn(recent) => finishedAt[r] >= clock - RecentRunTTL
    BY <1>1, <1>6, <2>1, HasTime, Stated DEF InTime
  <2> QED
    BY <1>1, <1>6, <2>1, <2>2, <2>3, Stated DEF InTime
<1>7. /\ active' \subseteq Run /\ recent' \in Seq(Recent) /\ unsaved' \subseteq unsaved
      /\ file' \in [active : SUBSET Run, recent : Seq(Recent)] \cup {Corrupt}
      /\ active' = act /\ RunsIn(recent') \subseteq RunsIn(recent)
      /\ \A r \in unsaved : step'[r] = "accepted" => r \in unsaved'
      /\ Apart' /\ OnFile'
      /\ \A r \in owed' :
           /\ Follows(recent', r, finishedAt'[r], after'[r])
           /\ r \notin unsaved' /\ Readable' => Follows(file'.recent, r, finishedAt'[r], after'[r])
           /\ r \in active' \/ r \in RunsIn(recent') \/ step'[r] = "accepted"
  <2>1. recent \in Seq(Recent) /\ owed' = owed /\ finishedAt' = finishedAt /\ after' = after
    BY <1>1, <1>2 DEF TypeOK
  <2> QED
    BY <1>1, <1>2, <1>4, <1>5, <1>6, <2>1, Saving
<1>8. TypeOK'
  <2>1. Distinct(recent') /\ Len(recent') <= MaxRecentRuns
    BY <1>7 DEF Apart, Good, Distinct
  <2>2. \A i, j \in DOMAIN recent' : recent'[i].run = recent'[j].run => i = j
    BY <1>7, <2>1, DistinctIs
  <2>3. unsaved' \subseteq Run
    BY <1>1, <1>7 DEF TypeOK
  <2> QED
    BY <1>1, <1>2, <1>3, <1>7, <2>1, <2>2, <2>3 DEF TypeOK
<1>9. Process'
  <2>1. q \in active' /\ active \subseteq active'
    BY <1>7 DEF act
  <2>2. ASSUME NEW r \in Run, step'[r] # "none"
        PROVE  r \notin RunsIn(recent') /\ IF step'[r] = "running" THEN r \in active' ELSE r \in unsaved'
    <3>1. step[r] # "none"
      BY <1>2, <1>3, <2>2
    <3>2. r \notin RunsIn(recent) /\ IF step[r] = "running" THEN r \in active ELSE r \in unsaved
      BY <1>1, <3>1 DEF Process
    <3>3. step'[r] \in {"accepted", "running"}
      BY <1>3, <2>2
    <3> QED
      BY <1>3, <1>7, <2>1, <3>2, <3>3
  <2> QED
    BY <1>2, <2>2 DEF Process, RunsIn
<1>10. InTime'
  BY <1>1, <1>2, <1>7 DEF InTime, Follows, Readable
<1>11. Remembered'
  <2>1. \A r \in owed' : step'[r] # "none" \/ r \in active' \/ r \in RunsIn(recent')
    BY <1>7
  <2> QED
    BY <2>1 DEF Remembered, Known, RunsIn
<1> QED
  BY <1>7, <1>8, <1>9, <1>10, <1>11 DEF Inv

\* MarkFinished, of a Run that ended or was lost: its outcome is the last one, and
\* one more for every other.
LEMMA MarkFinishedKeeps ==
    ASSUME Inv, NEW q \in Run, MarkFinished(q), UNCHANGED <<clock, daemon>>, daemon # "down",
           step' = [step EXCEPT ![q] = "none"], q \notin RunsIn(recent),
           q \notin unsaved /\ Readable => q \notin RunsIn(file.recent)
    PROVE  Inv'
<1> DEFINE act == active \ {q}
           outcome == [run |-> q, at |-> clock]
           list == Append(recent, outcome)
<1>1. TypeOK /\ Apart /\ Process /\ OnFile /\ InTime /\ Remembered
  BY DEF Inv
<1>2. /\ Save(act, list)
      /\ finishedAt' = [finishedAt EXCEPT ![q] = clock]
      /\ after' = [r \in Run |-> IF r = q \/ finishedAt[r] < 0 THEN {} ELSE after[r] \cup {q}]
      /\ owed' = owed \ Crowded
  BY DEF MarkFinished, WithOutcome
<1>3. /\ step' \in [Run -> {"none", "accepted", "running"}]
      /\ step'[q] = "none" /\ \A r \in Run : r # q => step'[r] = step[r]
  BY <1>1 DEF TypeOK
<1>4. /\ list \in Seq(Recent) /\ Distinct(list) /\ RunsIn(list) = RunsIn(recent) \cup {q}
      /\ \A since : Follows(list, q, clock, since)
      /\ \A r, t, since : r # q /\ Follows(recent, r, t, since)
                          => Follows(list, r, t, since \cup {q})
  <2>1. recent \in Seq(Recent) /\ outcome \in Recent /\ outcome.run = q /\ outcome.at = clock
    BY <1>1 DEF TypeOK, Recent
  <2>2. Distinct(recent)
    BY <1>1 DEF Apart, Good
  <2> HIDE DEF outcome
  <2> QED
    BY <2>1, <2>2, Appended
<1> HIDE DEF list, act
<1>5. act \in SUBSET Run /\ act \cap RunsIn(list) = {}
  BY <1>1, <1>4 DEF Apart, Good, act, TypeOK
<1>6. \A r \in act \ unsaved : Readable /\ r \in file.active
  BY <1>1 DEF act, OnFile
<1>7. /\ finishedAt' \in [Run -> -1..MaxTime] /\ finishedAt'[q] = clock /\ after'[q] = {}
      /\ after' \in [Run -> SUBSET Run] /\ owed' \subseteq owed
      /\ \A r \in owed' : Cardinality(after'[r]) < MaxRecentRuns
      /\ \A r \in Run : r # q => finishedAt'[r] = finishedAt[r]
      /\ \A r \in Run : r # q => after'[r] = IF finishedAt[r] < 0 THEN {} ELSE after[r] \cup {q}
  <2>1. finishedAt' \in [Run -> -1..MaxTime] /\ finishedAt'[q] = clock /\ \A r \in Run : r # q => finishedAt'[r] = finishedAt[r]
    <3>1. clock \in -1..MaxTime
      BY <1>1, ConstantsAre DEF TypeOK
    <3> QED
      BY <1>1, <1>2, <3>1 DEF TypeOK
  <2>2. after' \in [Run -> SUBSET Run] /\ \A r \in Run : after'[r] = IF r = q \/ finishedAt[r] < 0 THEN {} ELSE after[r] \cup {q}
    BY <1>1, <1>2 DEF TypeOK
  <2>3. owed' \subseteq owed
    BY <1>2
  <2>4. \A r \in owed' : Cardinality(after'[r]) < MaxRecentRuns
    <3> SUFFICES ASSUME NEW r \in owed' PROVE Cardinality(after'[r]) < MaxRecentRuns
      OBVIOUS
    <3>1. r \in Run /\ ~ (Cardinality(after'[r]) >= MaxRecentRuns)
      BY <1>1, <1>2 DEF TypeOK, Crowded
    <3>2. IsFiniteSet(after'[r])
      BY <2>2, <3>1, ConstantsAre, FS_Subset
    <3>3. Cardinality(after'[r]) \in Nat
      BY <3>2, FS_CardinalityType
    <3> QED
      BY <3>1, <3>3, ConstantsAre
  <2> QED
    BY <2>1, <2>2, <2>3, <2>4
<1>8. ASSUME NEW r \in owed'
      PROVE  /\ r \in act \/ r \in RunsIn(list) \/ (r \in unsaved /\ step'[r] = "accepted")
             /\ Follows(list, r, finishedAt'[r], after'[r])
             /\ finishedAt'[r] < 0 \/ finishedAt'[r] >= clock - RecentRunTTL
             /\ r \in RunsIn(list) => finishedAt'[r] >= clock - RecentRunTTL
             /\ r \notin unsaved /\ Readable => Follows(file.recent, r, finishedAt'[r], after'[r])
             /\ IsFiniteSet(after'[r]) /\ Cardinality(after'[r]) < MaxRecentRuns
  <2>1. r \in Run /\ r \in owed
    BY <1>1, <1>7 DEF TypeOK
  <2>2. IsFiniteSet(after'[r]) /\ Cardinality(after'[r]) < MaxRecentRuns
    <3>1. after'[r] \subseteq Run
      BY <1>7, <2>1
    <3> QED
      BY <1>7, <3>1, ConstantsAre, FS_Subset
  <2>3. CASE r = q
    <3>1. finishedAt'[r] >= clock - RecentRunTTL
      BY <1>7, <2>3, Stated, <1>1, ConstantsAre
    <3>2. r \notin unsaved /\ Readable => Follows(file.recent, r, finishedAt'[r], after'[r])
      BY <1>1, <2>3, Absent, Stated
    <3> QED
      BY <1>4, <1>7, <2>2, <2>3, <3>1, <3>2
  <2>4. CASE r # q
    <3>1. /\ Follows(recent, r, finishedAt[r], after[r])
          /\ r \notin unsaved /\ Readable => Follows(file.recent, r, finishedAt[r], after[r])
          /\ finishedAt[r] < 0 \/ finishedAt[r] >= clock - RecentRunTTL
      BY <1>1, <2>1 DEF InTime
    <3>2. r \in act \/ r \in RunsIn(list) \/ (r \in unsaved /\ step'[r] = "accepted")
      <4>1. step[r] # "none" \/ r \in active \/ r \in RunsIn(recent)
        BY <1>1, <2>1 DEF Remembered, Known
      <4>2. CASE step[r] # "none"
        <5>1. step'[r] = step[r] /\ step[r] \in {"accepted", "running"}
          BY <1>1, <1>3, <2>1, <2>4, <4>2 DEF TypeOK
        <5>2. IF step[r] = "running" THEN r \in active ELSE r \in unsaved
          BY <1>1, <2>1, <4>2 DEF Process
        <5> QED
          BY <2>4, <5>1, <5>2 DEF act
      <4> QED
        BY <1>4, <2>4, <4>1, <4>2 DEF act
    <3>3. CASE finishedAt[r] < 0
      <4>1. ~ (finishedAt[r] >= 0)
        BY <1>1, <2>1, <3>3, Stated
      <4>2. r \notin RunsIn(recent) /\ (r \notin unsaved /\ Readable => r \notin RunsIn(file.recent))
        BY <1>1, <3>1, <4>1, HasTime, Stated
      <4>3. r \notin RunsIn(list)
        BY <1>4, <2>4, <4>2
      <4>4. Follows(list, r, finishedAt'[r], after'[r])
        BY <1>4, <4>3, Absent
      <4>5. r \notin unsaved /\ Readable => Follows(file.recent, r, finishedAt'[r], after'[r])
        BY <1>1, <4>2, Absent, Stated
      <4> QED
        BY <1>7, <2>1, <2>2, <2>4, <3>2, <3>3, <4>3, <4>4, <4>5
    <3>4. CASE ~ (finishedAt[r] < 0)
      <4>1. finishedAt'[r] = finishedAt[r] /\ after'[r] = after[r] \cup {q}
        BY <1>7, <2>1, <2>4, <3>4
      <4>2. Follows(list, r, finishedAt'[r], after'[r])
        BY <1>4, <2>4, <3>1, <4>1
      <4>3. r \notin unsaved /\ Readable => Follows(file.recent, r, finishedAt'[r], after'[r])
        BY <3>1, <4>1, SinceMore
      <4>4. finishedAt'[r] >= clock - RecentRunTTL
        BY <3>1, <3>4, <4>1
      <4> QED
        BY <2>2, <3>2, <4>2, <4>3, <4>4
    <3> QED
      BY <3>3, <3>4
  <2> QED
    BY <2>3, <2>4
<1>9. /\ active' \subseteq Run /\ recent' \in Seq(Recent) /\ unsaved' \subseteq unsaved
      /\ file' \in [active : SUBSET Run, recent : Seq(Recent)] \cup {Corrupt}
      /\ active' = act /\ RunsIn(recent') \subseteq RunsIn(list)
      /\ \A r \in unsaved : step'[r] = "accepted" => r \in unsaved'
      /\ Apart' /\ OnFile'
      /\ \A r \in owed' :
           /\ Follows(recent', r, finishedAt'[r], after'[r])
           /\ r \notin unsaved' /\ Readable' => Follows(file'.recent, r, finishedAt'[r], after'[r])
           /\ r \in active' \/ r \in RunsIn(recent') \/ step'[r] = "accepted"
  <2>1. /\ TypeOK /\ Apart /\ OnFile /\ act \in SUBSET Run /\ list \in Seq(Recent)
        /\ Save(act, list) /\ Distinct(list) /\ act \cap RunsIn(list) = {} /\ owed' \subseteq owed
        /\ \A r \in act \ unsaved : Readable /\ r \in file.active
    BY <1>1, <1>2, <1>4, <1>5, <1>6, <1>7
  <2>2. \A r \in owed' :
           /\ r \in act \/ r \in RunsIn(list) \/ (r \in unsaved /\ step'[r] = "accepted")
           /\ Follows(list, r, finishedAt'[r], after'[r])
           /\ r \in RunsIn(list) => finishedAt'[r] >= clock - RecentRunTTL
           /\ r \notin unsaved /\ Readable => Follows(file.recent, r, finishedAt'[r], after'[r])
           /\ IsFiniteSet(after'[r]) /\ Cardinality(after'[r]) < MaxRecentRuns
    BY <1>8
  <2> QED
    BY <2>1, <2>2, Saving
<1>10. TypeOK'
  <2>1. Distinct(recent') /\ Len(recent') <= MaxRecentRuns
    BY <1>9 DEF Apart, Good, Distinct
  <2>2. \A i, j \in DOMAIN recent' : recent'[i].run = recent'[j].run => i = j
    BY <1>9, <2>1, DistinctIs
  <2>3. unsaved' \subseteq Run /\ owed' \subseteq Run /\ clock' \in 0..MaxTime /\ daemon' \in {"down", "reconcile", "up"}
    BY <1>1, <1>7, <1>9 DEF TypeOK
  <2> QED
    BY <1>3, <1>7, <1>9, <2>1, <2>2, <2>3 DEF TypeOK
<1>11. Process'
  <2>1. ASSUME NEW r \in Run, step'[r] # "none"
        PROVE  daemon = "up" /\ r \notin RunsIn(recent') /\ IF step'[r] = "running" THEN r \in active' ELSE r \in unsaved'
    <3>1. r # q /\ step'[r] = step[r] /\ step[r] # "none"
      BY <1>3, <2>1
    <3>2. daemon = "up" /\ r \notin RunsIn(recent) /\ IF step[r] = "running" THEN r \in active ELSE r \in unsaved
      BY <1>1, <3>1 DEF Process
    <3>3. step'[r] \in {"accepted", "running"}
      BY <1>3, <2>1
    <3>4. r \notin RunsIn(list)
      BY <1>4, <3>1, <3>2
    <3> QED
      BY <1>9, <3>1, <3>2, <3>3, <3>4 DEF act
  <2> QED
    BY <2>1 DEF Process, RunsIn
<1>12. InTime'
  <2> SUFFICES ASSUME NEW r \in owed'
               PROVE  /\ Follows(recent', r, finishedAt'[r], after'[r])
                      /\ r \notin unsaved' /\ Readable' => Follows(file'.recent, r, finishedAt'[r], after'[r])
                      /\ finishedAt'[r] < 0 \/ finishedAt'[r] >= clock - RecentRunTTL
                      /\ Cardinality(after'[r]) < MaxRecentRuns
    BY DEF InTime, Follows, Readable
  <2> QED
    BY <1>8, <1>9
<1>13. Remembered'
  <2>1. \A r \in owed' : step'[r] # "none" \/ r \in active' \/ r \in RunsIn(recent')
    BY <1>9
  <2> QED
    BY <2>1 DEF Remembered, Known, RunsIn
<1> QED
  BY <1>9, <1>10, <1>11, <1>12, <1>13 DEF Inv

\* A Run of this process has no outcome yet, in memory or in the file.
LEMMA FinishKeeps ==
    ASSUME Inv, NEW q \in Run, Finish(q)
    PROVE  Inv'
<1>1. TypeOK /\ Apart /\ Process /\ OnFile
  BY DEF Inv
<1>2. q \notin RunsIn(recent) /\ IF step[q] = "running" THEN q \in active ELSE q \in unsaved
  BY <1>1 DEF Finish, Process
<1>3. q \notin unsaved /\ Readable => q \notin RunsIn(file.recent)
  BY <1>1, <1>2 DEF OnFile, Apart, Good
<1> QED
  BY <1>2, <1>3, MarkFinishedKeeps DEF Finish

\* Nor has a Run that was left active.
LEMMA LostKeeps ==
    ASSUME Inv, NEW q \in Run, Lost(q)
    PROVE  Inv'
<1>1. TypeOK /\ Apart /\ Process /\ OnFile
  BY DEF Inv
<1>2. q \in active /\ q \notin RunsIn(recent) /\ step[q] = "none" /\ daemon = "reconcile"
  BY <1>1 DEF Lost, Process, Apart, Good
<1>3. q \notin unsaved /\ Readable => q \notin RunsIn(file.recent)
  BY <1>1, <1>2 DEF OnFile, Apart, Good
<1>4. step' = [step EXCEPT ![q] = "none"]
  BY <1>1, <1>2 DEF TypeOK, Lost
<1> QED
  BY <1>2, <1>3, <1>4, MarkFinishedKeeps DEF Lost

\* A lease executes only a Run without an outcome.
LEMMA ExecuteKeeps ==
    ASSUME Inv, NEW q \in Run, Execute(q)
    PROVE  Inv'
<1>1. TypeOK /\ Apart /\ Process /\ OnFile /\ InTime /\ Remembered
  BY DEF Inv
<1>2. /\ daemon = "up" /\ step[q] = "none" /\ q \notin active /\ q \notin RunsIn(recent)
      /\ step' = [step EXCEPT ![q] = "accepted"]
      /\ finishedAt' = [finishedAt EXCEPT ![q] = -1] /\ after' = [after EXCEPT ![q] = {}]
      /\ unsaved' = unsaved \cup {q} /\ owed' = owed \cup {q}
      /\ UNCHANGED <<clock, active, recent, file, daemon>>
  BY DEF Execute, Known, contents
<1>3. /\ step'[q] = "accepted" /\ finishedAt'[q] = -1 /\ after'[q] = {}
      /\ \A r \in Run : r # q => step'[r] = step[r] /\ finishedAt'[r] = finishedAt[r] /\ after'[r] = after[r]
  BY <1>1, <1>2 DEF TypeOK
<1>4. TypeOK'
  <2>1. /\ step' \in [Run -> {"none", "accepted", "running"}] /\ after' \in [Run -> SUBSET Run]
        /\ finishedAt' \in [Run -> -1..MaxTime]
    <3>1. -1 \in -1..MaxTime
      BY ConstantsAre
    <3> QED
      BY <1>1, <1>2, <3>1 DEF TypeOK
  <2> QED
    BY <1>1, <1>2, <2>1 DEF TypeOK
<1>5. Apart'
  BY <1>1, <1>2 DEF Apart, Good, Distinct, RunsIn, Readable
<1>6. Process'
  <2>1. ASSUME NEW r \in Run, step'[r] # "none"
        PROVE  r \notin RunsIn(recent) /\ IF step'[r] = "running" THEN r \in active ELSE r \in unsaved'
    BY <1>1, <1>2, <1>3, <2>1 DEF Process
  <2> QED
    BY <1>2, <2>1 DEF Process, RunsIn
<1>7. OnFile'
  BY <1>1, <1>2 DEF OnFile, RunsIn, Readable
<1>8. InTime'
  <2> SUFFICES ASSUME NEW r \in owed'
               PROVE  /\ Follows(recent, r, finishedAt'[r], after'[r])
                      /\ r \notin unsaved' /\ Readable => Follows(file.recent, r, finishedAt'[r], after'[r])
                      /\ finishedAt'[r] < 0 \/ finishedAt'[r] >= clock - RecentRunTTL
                      /\ Cardinality(after'[r]) < MaxRecentRuns
    BY <1>2 DEF InTime, Follows, Readable
  <2>1. CASE r = q
    <3>1. Follows(recent, r, finishedAt'[r], after'[r])
      BY <1>1, <1>2, <2>1, Absent, Stated
    <3>2. Cardinality(after'[r]) < MaxRecentRuns
      BY <1>3, <2>1, ConstantsAre, FS_EmptySet
    <3>3. finishedAt'[r] < 0 /\ r \in unsaved'
      BY <1>2, <1>3, <2>1
    <3> QED
      BY <3>1, <3>2, <3>3
  <2>2. CASE r # q
    <3>1. r \in owed /\ r \in Run /\ finishedAt'[r] = finishedAt[r] /\ after'[r] = after[r] /\ (r \notin unsaved' => r \notin unsaved)
      BY <1>1, <1>2, <1>3, <2>2 DEF TypeOK
    <3> QED
      BY <1>1, <3>1 DEF InTime
  <2> QED
    BY <2>1, <2>2
<1>9. Remembered'
  <2>1. ASSUME NEW r \in owed'
        PROVE  step'[r] # "none" \/ r \in active \/ r \in RunsIn(recent)
    <3>1. CASE r = q
      BY <1>3, <3>1
    <3>2. CASE r # q
      <4>1. r \in owed /\ r \in Run /\ step'[r] = step[r]
        BY <1>1, <1>2, <1>3, <2>1, <3>2 DEF TypeOK
      <4> QED
        BY <1>1, <1>2, <4>1 DEF Remembered, Known
    <3> QED
      BY <3>1, <3>2
  <2> QED
    BY <1>2, <2>1 DEF Remembered, Known, RunsIn
<1> QED
  BY <1>4, <1>5, <1>6, <1>7, <1>8, <1>9 DEF Inv

\* A crash loses what no save has reached, and nothing else that is owed.
LEMMA CrashKeeps ==
    ASSUME Inv, Crash
    PROVE  Inv'
<1>1. TypeOK /\ Apart /\ Process /\ OnFile /\ InTime
  BY DEF Inv
<1>2. /\ daemon' = "down" /\ active' = {} /\ recent' = <<>>
      /\ step' = [r \in Run |-> "none"] /\ owed' = owed \ unsaved /\ unsaved' = {}
      /\ UNCHANGED <<clock, file, finishedAt, after>>
  BY DEF Crash
<1>3. TypeOK'
  <2>1. \A i, j \in DOMAIN recent' : recent'[i].run = recent'[j].run => i = j
    BY <1>2, EmptyOnes, DistinctIs
  <2>2. recent' \in Seq(Recent) /\ Len(recent') <= MaxRecentRuns
    BY <1>2, EmptyOnes, ConstantsAre
  <2> QED
    BY <1>1, <1>2, <2>1, <2>2 DEF TypeOK
<1>4. Apart'
  <2>1. Good({}, <<>>) /\ (Readable => Good(file.active, file.recent))
    BY <1>1, EmptyOnes DEF Apart
  <2> QED
    BY <1>2, <2>1 DEF Apart, Good, Distinct, RunsIn, Readable
<1>5. Process'
  BY <1>2 DEF Process
<1>6. OnFile'
  BY <1>1, <1>2 DEF OnFile, RunsIn, Readable
<1>7. InTime'
  <2>1. \A r, t, since : Follows(<<>>, r, t, since)
    BY EmptyOnes
  <2>2. \A r \in owed' : r \in owed /\ r \notin unsaved
    BY <1>2
  <2> QED
    BY <1>1, <1>2, <2>1, <2>2 DEF InTime, Follows, Readable
<1>8. Remembered'
  BY <1>2 DEF Remembered
<1> QED
  BY <1>3, <1>4, <1>5, <1>6, <1>7, <1>8 DEF Inv

\* Of a file that is spoiled nothing is owed.
LEMMA SpoilKeeps ==
    ASSUME Inv, Spoil
    PROVE  Inv'
<1>1. TypeOK /\ Apart /\ Process
  BY DEF Inv
<1>2. /\ daemon = "down" /\ file' = Corrupt /\ owed' = {} /\ active = {}
      /\ UNCHANGED <<clock, active, recent, daemon, step, finishedAt, after, unsaved>>
  BY <1>1 DEF Spoil, contents, Process
<1>3. TypeOK'
  BY <1>1, <1>2 DEF TypeOK
<1>4. Apart'
  BY <1>1, <1>2 DEF Apart, Good, Distinct, RunsIn, Readable
<1>5. Process'
  BY <1>1, <1>2 DEF Process, RunsIn
<1>6. OnFile' /\ InTime' /\ Remembered'
  BY <1>2 DEF OnFile, InTime, Remembered
<1> QED
  BY <1>3, <1>4, <1>5, <1>6 DEF Inv

\* What is loaded is what was saved.
LEMMA LoadKeeps ==
    ASSUME Inv, Load
    PROVE  Inv'
<1>1. TypeOK /\ Apart /\ Process /\ OnFile /\ InTime
  BY DEF Inv
<1>2. /\ daemon = "down" /\ daemon' = "reconcile" /\ active = {} /\ recent = <<>> /\ unsaved = {}
      /\ UNCHANGED <<clock, step, finishedAt, after, unsaved, owed>>
  BY <1>1 DEF Load, Process, history
<1>3. CASE ~Readable
  <2>1. active' = {} /\ recent' = <<>> /\ owed = {} /\ file' \in {Corrupt, [active |-> {}, recent |-> <<>>]}
    BY <1>1, <1>2, <1>3 DEF Load, contents, Readable, OnFile
  <2>2. /\ file' \in [active : SUBSET Run, recent : Seq(Recent)] \cup {Corrupt}
        /\ file' # Corrupt => file'.active = {} /\ file'.recent = <<>>
    <3>1. {} \in SUBSET Run /\ <<>> \in Seq(Recent)
      BY EmptyOnes
    <3> DEFINE none == [active |-> {}, recent |-> <<>>]
    <3>2. /\ none \in [active : SUBSET Run, recent : Seq(Recent)]
          /\ none.active = {} /\ none.recent = <<>>
      BY <3>1, FileIs
    <3> HIDE DEF none
    <3>3. file' = Corrupt \/ file' = none
      BY <2>1 DEF none
    <3> QED
      BY <3>2, <3>3
  <2>3. TypeOK'
    BY <1>1, <1>2, <2>1, <2>2 DEF TypeOK
  <2>4. Apart'
    <3>1. Good({}, <<>>)
      BY EmptyOnes
    <3> QED
      BY <2>1, <2>2, <3>1 DEF Apart, Good, Distinct, RunsIn, Readable
  <2>5. Process'
    BY <1>1, <1>2, <2>1 DEF Process
  <2>6. OnFile' /\ InTime' /\ Remembered'
    BY <1>2, <2>1 DEF OnFile, InTime, Remembered
  <2> QED
    BY <2>3, <2>4, <2>5, <2>6 DEF Inv
<1>4. CASE Readable
  <2>1. active' = file.active /\ recent' = file.recent /\ file' = file
    BY <1>4 DEF Load, Readable
  <2>2. file.active \in SUBSET Run /\ file.recent \in Seq(Recent) /\ Good(file.active, file.recent)
    BY <1>1, <1>4, Stated DEF Apart
  <2>3. TypeOK'
    <3>1. \A i, j \in DOMAIN file.recent : file.recent[i].run = file.recent[j].run => i = j
      BY <2>2, DistinctIs DEF Good
    <3>2. \A i, j \in DOMAIN recent' : recent'[i].run = recent'[j].run => i = j
      BY <2>1, <3>1
    <3> QED
      BY <1>1, <1>2, <2>1, <2>2, <3>2 DEF TypeOK, Good
  <2>4. Apart'
    BY <2>1, <2>2 DEF Apart, Good, Distinct, RunsIn, Readable
  <2>5. Process'
    BY <1>1, <1>2, <2>1 DEF Process
  <2>6. OnFile'
    BY <1>1, <1>2, <1>4, <2>1 DEF OnFile, RunsIn, Readable
  <2>7. InTime'
    BY <1>1, <1>2, <1>4, <2>1 DEF InTime, Follows, Readable
  <2>8. Remembered'
    <3>1. \A r \in owed : r \in file.active \/ r \in RunsIn(file.recent)
      BY <1>1, <1>2 DEF OnFile
    <3> QED
      BY <1>2, <2>1, <3>1 DEF Remembered, Known, RunsIn
  <2> QED
    BY <2>3, <2>4, <2>5, <2>6, <2>7, <2>8 DEF Inv
<1> QED
  BY <1>3, <1>4

\* Reconciliation ends.
LEMMA ReconciledKeeps ==
    ASSUME Inv, Reconciled
    PROVE  Inv'
<1>1. TypeOK /\ Apart /\ Process /\ OnFile /\ InTime /\ Remembered
  BY DEF Inv
<1>2. /\ daemon = "reconcile" /\ daemon' = "up"
      /\ UNCHANGED <<clock, active, recent, file, step, finishedAt, after, unsaved, owed>>
  BY DEF Reconciled, contents, history
<1>3. TypeOK'
  BY <1>1, <1>2 DEF TypeOK
<1>4. Apart'
  BY <1>1, <1>2 DEF Apart, Good, Distinct, RunsIn, Readable
<1>5. Process'
  BY <1>1, <1>2 DEF Process, RunsIn
<1>6. OnFile'
  BY <1>1, <1>2 DEF OnFile, RunsIn, Readable
<1>7. InTime'
  BY <1>1, <1>2 DEF InTime, Follows, Readable
<1>8. Remembered'
  BY <1>1, <1>2 DEF Remembered, Known, RunsIn
<1> QED
  BY <1>3, <1>4, <1>5, <1>6, <1>7, <1>8 DEF Inv

\* Whatever the clock is set to, what is owed is not too old by it.
LEMMA ClockKeeps ==
    ASSUME Inv, NEW t \in 0..MaxTime, Clock(t)
    PROVE  Inv'
<1>1. TypeOK /\ Apart /\ Process /\ OnFile /\ InTime /\ Remembered
  BY DEF Inv
<1>2. /\ clock' = t
      /\ owed' = {r \in owed : finishedAt[r] < 0 \/ finishedAt[r] >= t - RecentRunTTL}
      /\ UNCHANGED <<active, recent, file, daemon, step, finishedAt, after, unsaved>>
  BY DEF Clock, contents
<1>3. TypeOK'
  BY <1>1, <1>2 DEF TypeOK
<1>4. Apart'
  BY <1>1, <1>2 DEF Apart, Good, Distinct, RunsIn, Readable
<1>5. Process'
  BY <1>1, <1>2 DEF Process, RunsIn
<1>6. OnFile'
  BY <1>1, <1>2 DEF OnFile, RunsIn, Readable
<1>7. InTime'
  BY <1>1, <1>2 DEF InTime, Follows, Readable
<1>8. Remembered'
  BY <1>1, <1>2 DEF Remembered, Known, RunsIn
<1> QED
  BY <1>3, <1>4, <1>5, <1>6, <1>7, <1>8 DEF Inv

\* Nothing happens.
LEMMA StutterKeeps ==
    ASSUME Inv, UNCHANGED vars
    PROVE  Inv'
<1>1. TypeOK /\ Apart /\ Process /\ OnFile /\ InTime /\ Remembered
  BY DEF Inv
<1>2. UNCHANGED <<clock, active, recent, file, daemon, step, finishedAt, after, unsaved, owed>>
  BY DEF vars, contents, history
<1>3. TypeOK' /\ Process'
  BY <1>1, <1>2 DEF TypeOK, Process, RunsIn
<1>4. Apart' /\ OnFile'
  BY <1>1, <1>2 DEF Apart, Good, Distinct, OnFile, RunsIn, Readable
<1>5. InTime'
  BY <1>1, <1>2 DEF InTime, Follows, Readable
<1>6. Remembered'
  BY <1>1, <1>2 DEF Remembered, Known, RunsIn
<1> QED
  BY <1>3, <1>4, <1>5, <1>6 DEF Inv

\* The invariant holds in every state.
THEOREM Inductive == Spec => []Inv
<1>1. Inv /\ [Next]_vars => Inv'
  <2> SUFFICES ASSUME Inv, [Next]_vars PROVE Inv'
    OBVIOUS
  <2>1. CASE Crash
    BY <2>1, CrashKeeps
  <2>2. CASE Spoil
    BY <2>2, SpoilKeeps
  <2>3. CASE Load
    BY <2>3, LoadKeeps
  <2>4. CASE Reconciled
    BY <2>4, ReconciledKeeps
  <2>5. CASE \E t \in 0..MaxTime : Clock(t)
    BY <2>5, ClockKeeps
  <2>6. CASE \E r \in Run : Execute(r) \/ Started(r) \/ Finish(r) \/ Lost(r)
    BY <2>6, ExecuteKeeps, StartedKeeps, FinishKeeps, LostKeeps
  <2>7. CASE UNCHANGED vars
    BY <2>7, StutterKeeps
  <2> QED
    BY <2>1, <2>2, <2>3, <2>4, <2>5, <2>6, <2>7 DEF Next
<1> QED
  BY <1>1, InitHolds, PTL DEF Spec

\* The variables have their types, no Run has two outcomes, and there are never more
\* than MaxRecentRuns.
THEOREM TypeCorrect == Spec => []TypeOK
<1>1. Inv => TypeOK
  BY DEF Inv
<1> QED
  BY <1>1, Inductive, PTL

\* A Run that was executed is remembered while the store owes it, so that its lease
\* executes nothing when it is repeated.
THEOREM NothingForgotten == Spec => []Remembered
<1>1. Inv => Remembered
  BY DEF Inv
<1> QED
  BY <1>1, Inductive, PTL
============================================================================
