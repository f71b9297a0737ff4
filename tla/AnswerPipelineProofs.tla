------------------------ MODULE AnswerPipelineProofs ------------------------
(***************************************************************************)
(* What AnswerPipeline promises about evidence, for every index, every     *)
(* question and every value of the limits, in three invariants, each a     *)
(* part of the next: every list on the way to the answer holds matching    *)
(* chunks only, clean ones after the gate (Evidence); the answer cites     *)
(* exactly what its prompt quotes, better results first (Consistent); and, *)
(* as long as no other process has written, the results are the best of    *)
(* the whole index that the request is about, filtered before they are cut *)
(* (Searched).                                                             *)
(***************************************************************************)
EXTENDS AnswerPipeline, FiniteSetTheorems, WellFoundedInduction, NaturalsInduction, TLAPS

AllMatch(list) ==
  \A i \in DOMAIN list : list[i].chunk \in Chunks /\ Matches(list[i].chunk)

AllClean(list) == \A i \in DOMAIN list : ~signals[list[i].chunk].suspicious

\* The part of TypeOK that the argument needs.
Shapes ==
  /\ request \in [filters : Filters, topK : TopKs]
  /\ signals \in [Chunks -> Profiles]
  /\ snapshot \subseteq Chunks /\ indexed \subseteq Chunks
  /\ offset \in Nat
  /\ dense \in Seq(Hits) /\ lexical \in Seq(Hits) /\ results \in Seq(Hits)

\* The inductive invariant: the gate's promise holds of the results once it has run,
\* the filters' from the moment a list is filled.
Evidence ==
  /\ Shapes
  /\ AllMatch(dense) /\ AllMatch(lexical) /\ AllMatch(results)
  /\ AfterGate => AllClean(results)
  /\ AllMatch(prompt) /\ AllClean(prompt)
  /\ AllMatch(citations) /\ AllClean(citations)
  /\ \A s \in toolRun.documents : SourceMatches(s, request.filters)

-----------------------------------------------------------------------------
\* An initial segment of a list holds elements of the list only.
LEMMA UpToKeeps ==
  ASSUME NEW S, NEW list \in Seq(S), NEW n \in Nat
  PROVE  /\ UpTo(list, n) \in Seq(S)
         /\ \A i \in DOMAIN UpTo(list, n) :
              i \in DOMAIN list /\ UpTo(list, n)[i] = list[i]
<1> DEFINE m == Min({n, Len(list)})
<1>1. m \in Nat /\ m <= Len(list)
  <2>1. CASE n <= Len(list)
    BY <2>1 DEF Min
  <2>2. CASE n > Len(list)
    BY <2>2 DEF Min
  <2> QED
    BY <2>1, <2>2
<1>2. UpTo(list, n) = SubSeq(list, 1, m)
  BY DEF UpTo
<1> HIDE DEF m
<1>3. /\ SubSeq(list, 1, m) \in Seq(S)
      /\ Len(SubSeq(list, 1, m)) = m
      /\ \A i \in 1 .. m : SubSeq(list, 1, m)[i] = list[i]
  BY <1>1
<1> QED
  BY <1>1, <1>2, <1>3

\* How far an initial segment goes.
LEMMA UpToReaches ==
  ASSUME NEW S, NEW list \in Seq(S), NEW n \in Nat
  PROVE  /\ Len(UpTo(list, n)) \in Nat
         /\ DOMAIN UpTo(list, n) = 1 .. Len(UpTo(list, n))
         /\ Len(UpTo(list, n)) = IF n <= Len(list) THEN n ELSE Len(list)
<1> DEFINE m == Min({n, Len(list)})
<1>1. m \in Nat /\ m = IF n <= Len(list) THEN n ELSE Len(list)
  <2>1. CASE n <= Len(list)
    BY <2>1 DEF Min
  <2>2. CASE n > Len(list)
    BY <2>2 DEF Min
  <2> QED
    BY <2>1, <2>2
<1>2. UpTo(list, n) = SubSeq(list, 1, m)
  BY DEF UpTo
<1> HIDE DEF m
<1>3. SubSeq(list, 1, m) \in Seq(S) /\ Len(SubSeq(list, 1, m)) = m
  BY <1>1
<1>4. DOMAIN SubSeq(list, 1, m) = 1 .. m
  BY <1>3
<1> QED
  BY <1>1, <1>2, <1>3, <1>4

\* A function on an interval is a sequence.
LEMMA TableOf ==
  ASSUME NEW S, NEW n \in Nat, NEW f \in [1 .. n -> S]
  PROVE  f \in Seq(S) /\ Len(f) = n
OBVIOUS

\* all has the elements of one, and after them those of two.
Joins(all, one, two) ==
  /\ Len(one) \in Nat /\ Len(two) \in Nat
  /\ DOMAIN all = 1 .. Len(one) + Len(two)
  /\ DOMAIN one = 1 .. Len(one) /\ DOMAIN two = 1 .. Len(two)
  /\ \A i \in 1 .. Len(one) : all[i] = one[i]
  /\ \A k \in 1 .. Len(two) : all[Len(one) + k] = two[k]
  /\ \A i \in 1 .. Len(one) + Len(two) :
       i \in 1 .. Len(one) \/ \E k \in 1 .. Len(two) : i = Len(one) + k

\* Concatenation joins: the one list first, then the other.
LEMMA Joined ==
  ASSUME NEW S, NEW one \in Seq(S), NEW two \in Seq(S)
  PROVE  one \o two \in Seq(S) /\ Joins(one \o two, one, two)
<1>1. /\ one \o two \in Seq(S) /\ Len(one) \in Nat /\ Len(two) \in Nat
      /\ DOMAIN one = 1 .. Len(one) /\ DOMAIN two = 1 .. Len(two)
  OBVIOUS
<1>2. DOMAIN (one \o two) = 1 .. Len(one) + Len(two)
  OBVIOUS
<1>3. \A i \in 1 .. Len(one) : (one \o two)[i] = one[i]
  OBVIOUS
<1>4. \A k \in 1 .. Len(two) : (one \o two)[Len(one) + k] = two[k]
  OBVIOUS
<1>5. ASSUME NEW i \in 1 .. Len(one) + Len(two), ~(i \in 1 .. Len(one))
      PROVE  i - Len(one) \in 1 .. Len(two) /\ i = Len(one) + (i - Len(one))
  BY <1>1, <1>5
<1> QED
  BY <1>1, <1>2, <1>3, <1>4, <1>5 DEF Joins

\* Listing a finite set gives a sequence of its elements.
LEMMA ListingIsSequence ==
  ASSUME NEW S, IsFiniteSet(S), NEW l \in Listings(S)
  PROVE  /\ Cardinality(S) \in Nat /\ DOMAIN l = 1 .. Cardinality(S)
         /\ l \in Seq(S)
         /\ \A k \in DOMAIN l : l[k] \in S
BY FS_CardinalityType DEF Listings

\* The positions of a list and the chunks are finitely many.
LEMMA PositionsAreFinite ==
  ASSUME NEW n \in Nat, NEW I, I \subseteq 1 .. n
  PROVE  IsFiniteSet(I)
<1>1. IsFiniteSet(1 .. n)
  BY FS_Interval
<1> QED
  BY <1>1, FS_Subset

\* An index is finite.
LEMMA ChunksAreFinite ==
  ASSUME NEW C, C \subseteq Chunks
  PROVE  IsFiniteSet(C)
BY PositionsAreFinite, ShapeAssumption DEF Chunks

\* A list made position by position is a sequence of what was put there.
LEMMA TableIsSequence ==
  ASSUME NEW n \in Nat, NEW f, f = [k \in 1 .. n |-> f[k]]
  PROVE  f \in Seq({f[k] : k \in 1 .. n}) /\ Len(f) = n
<1>1. f \in [1 .. n -> {f[k] : k \in 1 .. n}]
  OBVIOUS
<1> QED
  BY <1>1

\* A selection from a list has its elements at selected positions.
LEMMA SelectionKeeps ==
  ASSUME NEW list, NEW n \in Nat, DOMAIN list = 1 .. n,
         NEW I, I \subseteq DOMAIN list,
         NEW chosen \in Selections(list, I)
  PROVE  /\ \E m \in Nat : DOMAIN chosen = 1 .. m /\ chosen = [k \in 1 .. m |-> chosen[k]]
         /\ \A k \in DOMAIN chosen : \E i \in I : chosen[k] = list[i]
<1>1. PICK l \in Listings(I) : chosen = [k \in DOMAIN l |-> list[l[k]]]
  BY DEF Selections, Arrangements
<1>2. IsFiniteSet(I)
  BY PositionsAreFinite
<1>3. /\ Cardinality(I) \in Nat /\ DOMAIN l = 1 .. Cardinality(I)
      /\ \A k \in DOMAIN l : l[k] \in I
  BY <1>2, ListingIsSequence
<1> QED
  BY <1>1, <1>3

-----------------------------------------------------------------------------
\* The limits of a request are numbers.
LEMMA LimitsAreNumbers ==
  ASSUME Shapes
  PROVE  request.topK \in Nat /\ Wanted \in Nat /\ Pool \in Nat /\ PageSize \in Nat
<1>1. request.topK \in Nat
  BY LimitAssumption DEF Shapes
<1>2. Wanted \in Nat
  BY <1>1, LimitAssumption DEF Wanted
<1>3. Pool \in Nat
  BY <1>2, LimitAssumption DEF Pool
<1>4. Max({MinPage, Pool}) \in Nat
  BY <1>3, LimitAssumption DEF Max
<1> QED
  BY <1>1, <1>2, <1>3, <1>4 DEF PageSize

\* Matching chunks make matching hits.
LEMMA DenseHitsMatch ==
  ASSUME Shapes, NEW list \in Seq(Chunks), \A i \in DOMAIN list : Matches(list[i])
  PROVE  DenseHits(list) \in Seq(Hits) /\ AllMatch(DenseHits(list))
<1>1. \A c \in Chunks : signals[c].dense \in Int
  BY ShapeAssumption DEF Shapes
<1>2. \A i \in 1 .. Len(list) : [chunk |-> list[i], score |-> signals[list[i]].dense] \in Hits
  BY <1>1 DEF Hits
<1> QED
  BY <1>2 DEF DenseHits, AllMatch

-----------------------------------------------------------------------------
(* Numbers and orders.                                                     *)

\* Of natural numbers with a property one is the least.
LEMMA LeastOf ==
  ASSUME NEW S \in SUBSET Nat, S # {}
  PROVE  \E x \in S : \A y \in S : x <= y
<1>1. PICK x \in S : \A y \in S : ~(<<y, x>> \in OpToRel(<, Nat))
  BY NatLessThanWellFounded, WFMin
<1>2. \A y \in S : ~(y < x)
  BY <1>1 DEF OpToRel
<1> QED
  BY <1>2

\* Induction over the numbers of a set.
LEMMA Reaches ==
  ASSUME NEW T \in SUBSET Nat, 0 \in T, \A m \in T : m + 1 \in T
  PROVE  T = Nat
<1>1. SUFFICES ASSUME Nat \ T # {} PROVE FALSE
  OBVIOUS
<1>2. PICK m \in Nat \ T : \A y \in Nat \ T : m <= y
  BY <1>1, LeastOf
<1>3. m - 1 \in Nat
  BY <1>2
<1>4. m - 1 \in T
  BY <1>2, <1>3
<1>5. (m - 1) + 1 = m
  BY <1>3
<1> QED
  BY <1>2, <1>4, <1>5

\* Among the positions of a list of integers one holds the smallest and one the
\* greatest of them.
LEMMA Extremes ==
  ASSUME NEW n \in Nat \ {0}, NEW f, \A i \in 1 .. n : f[i] \in Int
  PROVE  /\ \E k \in 1 .. n : \A i \in 1 .. n : f[k] <= f[i]
         /\ \E k \in 1 .. n : \A i \in 1 .. n : f[i] <= f[k]
<1> DEFINE Both(m) == /\ \E k \in 1 .. m : \A i \in 1 .. m : f[k] <= f[i]
                      /\ \E k \in 1 .. m : \A i \in 1 .. m : f[i] <= f[k]
           T == {m \in Nat : m + 1 <= n => Both(m + 1)}
<1>1. 0 \in T
  OBVIOUS
<1>2. ASSUME NEW m \in T PROVE m + 1 \in T
  <2>1. SUFFICES ASSUME m + 2 <= n PROVE Both(m + 2)
    OBVIOUS
  <2>2. m \in Nat /\ Both(m + 1)
    BY <2>1
  <2>3. PICK low \in 1 .. m + 1 : \A i \in 1 .. m + 1 : f[low] <= f[i]
    BY <2>2
  <2>4. PICK high \in 1 .. m + 1 : \A i \in 1 .. m + 1 : f[i] <= f[high]
    BY <2>2
  <2>5. \A i \in 1 .. m + 2 : i \in 1 .. m + 1 \/ i = m + 2
    BY <2>2
  <2>6. /\ f[low] \in Int /\ f[high] \in Int /\ f[m + 2] \in Int
        /\ \A i \in 1 .. m + 1 : f[i] \in Int
        /\ low \in 1 .. m + 2 /\ high \in 1 .. m + 2 /\ m + 2 \in 1 .. m + 2
    BY <2>1, <2>2
  <2>7. \E k \in 1 .. m + 2 : \A i \in 1 .. m + 2 : f[k] <= f[i]
    <3>1. CASE f[low] <= f[m + 2]
      BY <2>3, <2>5, <2>6, <3>1
    <3>2. CASE ~(f[low] <= f[m + 2])
      <4>1. \A i \in 1 .. m + 2 : f[m + 2] <= f[i]
        BY <2>3, <2>5, <2>6, <3>2
      <4> QED
        BY <2>6, <4>1
    <3> QED
      BY <3>1, <3>2
  <2>8. \E k \in 1 .. m + 2 : \A i \in 1 .. m + 2 : f[i] <= f[k]
    <3>1. CASE f[m + 2] <= f[high]
      BY <2>4, <2>5, <2>6, <3>1
    <3>2. CASE ~(f[m + 2] <= f[high])
      <4>1. \A i \in 1 .. m + 2 : f[i] <= f[m + 2]
        BY <2>4, <2>5, <2>6, <3>2
      <4> QED
        BY <2>6, <4>1
    <3> QED
      BY <3>1, <3>2
  <2> QED
    BY <2>7, <2>8
<1> HIDE DEF Both
<1>3. T \in SUBSET Nat
  OBVIOUS
<1>4. T = Nat
  <2> HIDE DEF T
  <2> QED BY <1>1, <1>2, <1>3, Reaches
<1>5. \A m \in Nat : m + 1 <= n => Both(m + 1)
  BY <1>4
<1> HIDE DEF T
<1>6. PICK m \in Nat : n = m + 1
  <2>1. n - 1 \in Nat /\ n = (n - 1) + 1
    OBVIOUS
  <2> QED
    BY <2>1
<1>7. Both(n)
  BY <1>5, <1>6
<1> QED
  BY <1>7 DEF Both

\* A listing of a finite set that repeats nothing lists all of it.
LEMMA ListingIsOnto ==
  ASSUME NEW S, IsFiniteSet(S), NEW l \in Listings(S),
         \A i, j \in DOMAIN l : i < j => l[i] # l[j]
  PROVE  \A x \in S : \E k \in DOMAIN l : l[k] = x
<1> DEFINE n == Cardinality(S)
<1>1. n \in Nat /\ l \in [1 .. n -> S]
  BY FS_CardinalityType DEF Listings
<1>2. IsFiniteSet(1 .. n) /\ Cardinality(1 .. n) = n
  BY <1>1, FS_Interval
<1> HIDE DEF n
<1>3. \A i, j \in 1 .. n : i # j => l[i] # l[j]
  BY <1>1
<1>4. l \in Injection(1 .. n, S)
  BY <1>1, <1>3 DEF Injection, IsInjective
<1>5. l \in Surjection(1 .. n, S)
  BY <1>2, <1>4, FS_Injection DEF n
<1> QED
  BY <1>5 DEF Surjection, n

\* A set of positions has one increasing listing.
LEMMA IncreasingIsUnique ==
  ASSUME NEW I \in SUBSET Nat, IsFiniteSet(I), NEW l \in Listings(I), NEW m \in Listings(I),
         \A i, j \in DOMAIN l : i < j => l[i] < l[j],
         \A i, j \in DOMAIN m : i < j => m[i] < m[j]
  PROVE  l = m
<1>1. PICK n \in Nat : l \in [1 .. n -> I] /\ m \in [1 .. n -> I]
  BY FS_CardinalityType DEF Listings
<1>2. /\ \A k \in 1 .. n : l[k] \in I /\ m[k] \in I /\ l[k] \in Nat /\ m[k] \in Nat
      /\ \A i, j \in 1 .. n : i < j => l[i] < l[j]
      /\ \A i, j \in 1 .. n : i < j => m[i] < m[j]
  BY <1>1
<1>3. /\ \A x \in I : \E k \in 1 .. n : l[k] = x
      /\ \A x \in I : \E k \in 1 .. n : m[k] = x
  <2>1. \A i, j \in DOMAIN l : i < j => l[i] # l[j]
    BY <1>1, <1>2
  <2>2. \A i, j \in DOMAIN m : i < j => m[i] # m[j]
    BY <1>1, <1>2
  <2>3. \A x \in I : \E k \in DOMAIN l : l[k] = x
    BY <2>1, ListingIsOnto
  <2>4. \A x \in I : \E k \in DOMAIN m : m[k] = x
    BY <2>2, ListingIsOnto
  <2> QED
    BY <1>1, <2>3, <2>4
<1> DEFINE Apart == {k \in 1 .. n : l[k] # m[k]}
<1>4. SUFFICES ASSUME Apart # {} PROVE FALSE
  BY <1>1
<1>5. PICK k \in Apart : \A y \in Apart : k <= y
  <2>1. Apart \in SUBSET Nat
    OBVIOUS
  <2> HIDE DEF Apart
  <2> QED
    BY <1>4, <2>1, LeastOf
<1>6. k \in 1 .. n /\ l[k] # m[k] /\ \A y \in 1 .. n : y < k => l[y] = m[y]
  BY <1>5
<1> HIDE DEF Apart
<1>7. PICK p \in 1 .. n : m[p] = l[k]
  BY <1>2, <1>3, <1>6
<1>8. PICK q \in 1 .. n : l[q] = m[k]
  BY <1>2, <1>3, <1>6
<1>9. k < p
  <2>1. CASE p < k
    BY <1>2, <1>6, <1>7, <2>1
  <2>2. CASE p = k
    BY <1>6, <1>7, <2>2
  <2> QED
    BY <1>6, <2>1, <2>2
<1>10. k < q
  <2>1. CASE q < k
    BY <1>2, <1>6, <1>8, <2>1
  <2>2. CASE q = k
    BY <1>6, <1>8, <2>2
  <2> QED
    BY <1>6, <2>1, <2>2
<1>11. m[k] < m[p] /\ l[k] < l[q] /\ l[k] \in Nat /\ m[k] \in Nat
  BY <1>2, <1>6, <1>9, <1>10
<1> QED
  BY <1>7, <1>8, <1>11

-----------------------------------------------------------------------------
(* What fusion gives a chunk.                                              *)

\* f adds up the numbers g over each subset of I, one chosen element after the other.
AddsUp(f, I, g, first) ==
  f = [s \in SUBSET I |-> IF s = {} THEN 0 ELSE g[first[s]] + f[s \ {first[s]}]]

\* Taking the chosen element away leaves a smaller subset.
LEMMA FirstTaken ==
  ASSUME NEW I, IsFiniteSet(I), NEW first, \A s \in SUBSET I : s # {} => first[s] \in s
  PROVE  /\ \A s \in SUBSET I : /\ IsFiniteSet(s) /\ Cardinality(s) \in Nat
                                /\ Cardinality(s) = 0 <=> s = {}
         /\ \A s \in SUBSET I : s # {} =>
              /\ first[s] \in I /\ s \ {first[s]} \in SUBSET I
              /\ Cardinality(s \ {first[s]}) = Cardinality(s) - 1
<1>1. \A s \in SUBSET I : /\ IsFiniteSet(s) /\ Cardinality(s) \in Nat
                          /\ Cardinality(s) = 0 <=> s = {}
  BY FS_Subset, FS_CardinalityType, FS_EmptySet
<1>2. ASSUME NEW s \in SUBSET I, s # {}
      PROVE  /\ first[s] \in I /\ s \ {first[s]} \in SUBSET I
             /\ Cardinality(s \ {first[s]}) = Cardinality(s) - 1
  BY <1>1, <1>2, FS_RemoveElement
<1> QED
  BY <1>1, <1>2

\* Over a finite set such a sum exists.
LEMMA SumExists ==
  ASSUME NEW I, IsFiniteSet(I), NEW g,
         NEW first, \A s \in SUBSET I : s # {} => first[s] \in s
  PROVE  \E f : AddsUp(f, I, g, first)
<1> DEFINE Small(n) == {s \in SUBSET I : Cardinality(s) <= n}
           Sums(f, D) == f = [s \in D |-> IF s = {} THEN 0 ELSE g[first[s]] + f[s \ {first[s]}]]
           T == {n \in Nat : \E f : Sums(f, Small(n))}
<1>1. 0 \in T
  <2> DEFINE f == [s \in Small(0) |-> 0]
  <2>1. \A s \in Small(0) : s = {}
    BY FirstTaken
  <2>2. Sums(f, Small(0))
    BY <2>1
  <2> QED
    BY <2>2
<1>2. ASSUME NEW n \in T PROVE n + 1 \in T
  <2>1. n \in Nat
    OBVIOUS
  <2>2. PICK f : Sums(f, Small(n))
    OBVIOUS
  <2> DEFINE h == [s \in Small(n + 1) |-> IF s = {} THEN 0 ELSE g[first[s]] + f[s \ {first[s]}]]
  <2>3. \A s \in Small(n + 1) :
          s # {} => s \ {first[s]} \in Small(n) /\ s \ {first[s]} \in Small(n + 1)
    BY <2>1, FirstTaken
  <2>4. \A s \in Small(n) : s \in Small(n + 1) /\ f[s] = h[s]
    <3>1. \A s \in Small(n) : s \in Small(n + 1)
      BY <2>1, FirstTaken
    <3>2. \A s \in Small(n) : f[s] = IF s = {} THEN 0 ELSE g[first[s]] + f[s \ {first[s]}]
      BY <2>2
    <3> HIDE DEF Small
    <3> QED
      BY <3>1, <3>2
  <2>5. h = [s \in Small(n + 1) |-> IF s = {} THEN 0 ELSE g[first[s]] + h[s \ {first[s]}]]
    BY <2>3, <2>4
  <2>6. Sums(h, Small(n + 1))
    BY <2>5
  <2> HIDE DEF h, Sums, Small
  <2> QED
    BY <2>1, <2>6
<1>3. T = Nat
  <2>1. T \in SUBSET Nat
    OBVIOUS
  <2> HIDE DEF T
  <2> QED
    BY <1>1, <1>2, <2>1, Reaches
<1>4. Cardinality(I) \in Nat /\ Small(Cardinality(I)) = SUBSET I
  BY FS_Subset, FS_CardinalityType
<1> HIDE DEF Small, Sums
<1>5. \A n \in Nat : \E f : Sums(f, Small(n))
  BY <1>3
<1> HIDE DEF T
<1>6. PICK f : Sums(f, Small(Cardinality(I)))
  BY <1>4, <1>5
<1> QED
  BY <1>4, <1>6 DEF AddsUp, Sums

\* A sum of integers is one.
LEMMA SumIsInteger ==
  ASSUME NEW I, IsFiniteSet(I), NEW g, \A i \in I : g[i] \in Int,
         NEW first, \A s \in SUBSET I : s # {} => first[s] \in s,
         NEW f, AddsUp(f, I, g, first)
  PROVE  f[I] \in Int
<1> DEFINE T == {n \in Nat : \A s \in SUBSET I : Cardinality(s) = n => f[s] \in Int}
<1>1. \A s \in SUBSET I : f[s] = IF s = {} THEN 0 ELSE g[first[s]] + f[s \ {first[s]}]
  BY DEF AddsUp
<1>2. \A s \in SUBSET I : /\ Cardinality(s) = 0 <=> s = {}
                          /\ Cardinality(s) \in Nat
  BY FirstTaken
<1>3. \A s \in SUBSET I : s # {} =>
        /\ first[s] \in I /\ s \ {first[s]} \in SUBSET I
        /\ Cardinality(s \ {first[s]}) = Cardinality(s) - 1
  BY FirstTaken
<1>4. 0 \in T
  <2>1. f[{}] = 0
    BY <1>1
  <2> QED
    BY <1>2, <2>1
<1>5. ASSUME NEW n \in T PROVE n + 1 \in T
  <2>1. n \in Nat /\ \A s \in SUBSET I : Cardinality(s) = n => f[s] \in Int
    OBVIOUS
  <2>2. ASSUME NEW s \in SUBSET I, Cardinality(s) = n + 1 PROVE f[s] \in Int
    <3>1. s # {}
      BY <1>2, <2>1, <2>2
    <3>2. /\ first[s] \in I /\ s \ {first[s]} \in SUBSET I
          /\ Cardinality(s \ {first[s]}) = (n + 1) - 1
      BY <1>3, <2>2, <3>1
    <3>3. g[first[s]] \in Int /\ f[s \ {first[s]}] \in Int
      BY <2>1, <3>2
    <3>4. f[s] = g[first[s]] + f[s \ {first[s]}]
      BY <1>1, <3>1
    <3> QED
      BY <3>3, <3>4
  <2> QED
    BY <2>1, <2>2
<1>6. T = Nat
  <2>1. T \in SUBSET Nat
    OBVIOUS
  <2> HIDE DEF T
  <2> QED
    BY <1>4, <1>5, <2>1, Reaches
<1>7. Cardinality(I) \in Nat /\ I \in SUBSET I
  BY FS_CardinalityType
<1> QED
  BY <1>6, <1>7

\* What a list contributes to the score of a chunk is a sum of that kind.
LEMMA ContributionIsSum ==
  ASSUME NEW list, NEW c, NEW weight, IsFiniteSet(At(list, c))
  PROVE  \E f, g, first :
           /\ g = [i \in At(list, c) |-> (weight * Normalized(list, i)) \div 10]
           /\ \A s \in SUBSET At(list, c) : s # {} => first[s] \in s
           /\ AddsUp(f, At(list, c), g, first)
           /\ Contribution(list, c, weight) = f[At(list, c)]
<1> DEFINE value(i) == (weight * Normalized(list, i)) \div 10
           chosen(s) == CHOOSE x \in s : TRUE
           Is(f, I) == f = [s \in SUBSET I |->
                         IF s = {} THEN 0 ELSE value(chosen(s)) + f[s \ {chosen(s)}]]
<1>1. Contribution(list, c, weight) = (CHOOSE f : Is(f, At(list, c)))[At(list, c)]
  BY Zenon DEF Contribution, MapThenSumSet, MapThenFoldSet
<1> DEFINE I == At(list, c)
           g == [i \in I |-> value(i)]
           first == [s \in SUBSET I |-> chosen(s)]
<1> HIDE DEF value
<1>2. \A s \in SUBSET I : s # {} => chosen(s) \in s
  OBVIOUS
<1> HIDE DEF chosen, I
<1>3. /\ \A s \in SUBSET I : s # {} => first[s] \in s
      /\ \A s \in SUBSET I : s # {} => g[first[s]] = value(chosen(s)) /\ first[s] = chosen(s)
  BY <1>2
<1>4. IsFiniteSet(I)
  BY DEF I
<1>5. \A f : AddsUp(f, I, g, first) <=> Is(f, I)
  BY <1>3 DEF AddsUp
<1>6. \E f : Is(f, I)
  <2> HIDE DEF g, first, Is
  <2> QED
    BY <1>3, <1>4, <1>5, SumExists
<1> HIDE DEF Is
<1>7. Is(CHOOSE f : Is(f, I), I)
  BY <1>6
<1>8. AddsUp(CHOOSE f : Is(f, I), I, g, first)
  BY <1>5, <1>7
<1> QED
  BY <1>1, <1>3, <1>8 DEF value, I

\* Division by a positive number keeps the order.
LEMMA DivisionKeepsOrder ==
  ASSUME NEW x \in Nat, NEW y \in Nat, NEW k \in Nat \ {0}, x <= y
  PROVE  x \div k \in Nat /\ y \div k \in Nat /\ x \div k <= y \div k
<1>1. /\ x \div k \in Int /\ k * (x \div k) <= x /\ x < k * (x \div k + 1)
      /\ y \div k \in Int /\ k * (y \div k) <= y /\ y < k * (y \div k + 1)
  OBVIOUS
<1>2. \A a, b \in Int : k * a < k * b => a < b
  OBVIOUS
<1>3. x \div k < y \div k + 1
  <2>1. k * (x \div k) < k * (y \div k + 1)
    BY <1>1
  <2> QED BY <1>1, <1>2, <2>1
<1>4. 0 < x \div k + 1 /\ 0 < y \div k + 1
  <2>1. k * 0 < k * (x \div k + 1) /\ k * 0 < k * (y \div k + 1)
    BY <1>1
  <2> QED BY <1>1, <1>2, <2>1
<1> QED
  BY <1>1, <1>3, <1>4

\* Normalised scores are numbers, in the order of the scores.
LEMMA NormalizedOrder ==
  ASSUME NEW list \in Seq(Hits)
  PROVE  /\ \A i \in DOMAIN list : Normalized(list, i) \in Nat
         /\ \A i, j \in DOMAIN list :
              list[i].score <= list[j].score => Normalized(list, i) <= Normalized(list, j)
<1> DEFINE n == Len(list)
           scores == {list[k].score : k \in DOMAIN list}
           low == Min(scores)
           high == Max(scores)
<1>1. n \in Nat /\ DOMAIN list = 1 .. n
  OBVIOUS
<1>2. \A i \in 1 .. n : list[i].score \in Int
  <2>1. \A i \in 1 .. n : list[i] \in Hits
    BY <1>1
  <2>2. \A h \in Hits : h.score \in Int
    BY DEF Hits
  <2> QED
    BY <2>1, <2>2
<1> SUFFICES ASSUME NEW i \in DOMAIN list, NEW j \in DOMAIN list,
                    list[i].score <= list[j].score
             PROVE  /\ Normalized(list, i) \in Nat /\ Normalized(list, j) \in Nat
                    /\ Normalized(list, i) <= Normalized(list, j)
  BY <1>1, <1>2
<1>3. /\ low \in Int /\ high \in Int
      /\ \A k \in 1 .. n : low <= list[k].score /\ list[k].score <= high
  <2> DEFINE f == [k \in 1 .. n |-> list[k].score]
  <2>1. n \in Nat \ {0} /\ \A k \in 1 .. n : f[k] \in Int
    BY <1>1, <1>2
  <2>2. /\ \E k \in 1 .. n : \A l \in 1 .. n : f[k] <= f[l]
        /\ \E k \in 1 .. n : \A l \in 1 .. n : f[l] <= f[k]
    <3> HIDE DEF f, n
    <3> QED BY <2>1, Extremes
  <2>3. /\ scores = {f[k] : k \in 1 .. n}
    BY <1>1
  <2> HIDE DEF f, n, scores
  <2>4. low \in scores /\ \A x \in scores : low <= x
    BY <2>2, <2>3 DEF Min
  <2>5. high \in scores /\ \A x \in scores : high >= x
    <3>1. \E x \in scores : \A y \in scores : x >= y
      BY <2>1, <2>2, <2>3
    <3> HIDE DEF high
    <3>2. high = CHOOSE x \in scores : \A y \in scores : x >= y
      BY DEF high, Max
    <3> QED BY <3>1, <3>2
  <2> HIDE DEF low, high
  <2>6. low \in Int /\ high \in Int /\ \A x \in scores : low <= x /\ x <= high
    BY <2>1, <2>3, <2>4, <2>5
  <2>7. \A k \in 1 .. n : list[k].score \in scores
    BY <1>1 DEF scores
  <2> QED
    BY <2>6, <2>7
<1>4. \A k \in DOMAIN list : Normalized(list, k) =
        IF high = low THEN Scale ELSE ((list[k].score - low) * Scale) \div (high - low)
  BY DEF Normalized
<1> HIDE DEF low, high, n, scores
<1>5. CASE high = low
  BY <1>4, <1>5 DEF Scale
<1>6. CASE high # low
  <2> DEFINE a == list[i].score - low
             b == list[j].score - low
             x == a * Scale
             y == b * Scale
             k == high - low
  <2>1. list[i].score \in Int /\ list[j].score \in Int
    BY <1>1, <1>2
  <2>2. low <= list[i].score /\ list[i].score <= high
    BY <1>1, <1>3
  <2>3. x \in Nat /\ y \in Nat /\ k \in Nat \ {0} /\ x <= y
    <3>1. a \in Nat /\ b \in Nat /\ a <= b /\ k \in Nat \ {0}
      BY <1>3, <1>6, <2>1, <2>2
    <3> HIDE DEF a, b, k
    <3> QED
      BY <3>1 DEF Scale
  <2> HIDE DEF x, y, k
  <2>4. x \div k \in Nat /\ y \div k \in Nat /\ x \div k <= y \div k
    BY <2>3, DivisionKeepsOrder
  <2> QED
    BY <1>4, <1>6, <2>4 DEF x, y, k
<1> QED
  BY <1>5, <1>6

\* The positions of a list are finitely many.
LEMMA AtIsFinite ==
  ASSUME NEW list \in Seq(Hits), NEW c
  PROVE  IsFiniteSet(At(list, c)) /\ At(list, c) \subseteq DOMAIN list
<1>1. IsFiniteSet(DOMAIN list)
  BY FS_Interval
<1>2. At(list, c) \subseteq DOMAIN list
  BY DEF At
<1> QED
  BY <1>1, <1>2, FS_Subset

\* Contributions are integers.
LEMMA ContributionIsInteger ==
  ASSUME NEW list \in Seq(Hits), NEW c, NEW weight \in Nat
  PROVE  Contribution(list, c, weight) \in Int
<1>1. IsFiniteSet(At(list, c)) /\ At(list, c) \subseteq DOMAIN list
  BY AtIsFinite
<1>2. PICK f, g, first :
        /\ g = [i \in At(list, c) |-> (weight * Normalized(list, i)) \div 10]
        /\ \A s \in SUBSET At(list, c) : s # {} => first[s] \in s
        /\ AddsUp(f, At(list, c), g, first)
        /\ Contribution(list, c, weight) = f[At(list, c)]
  BY <1>1, ContributionIsSum
<1>3. ASSUME NEW i \in At(list, c) PROVE g[i] \in Int
  <2>1. Normalized(list, i) \in Nat
    BY <1>1, NormalizedOrder
  <2>2. weight * Normalized(list, i) \in Int
    BY <2>1
  <2> QED
    BY <1>2, <2>2
<1>4. f[At(list, c)] \in Int
  BY <1>1, <1>2, <1>3, SumIsInteger
<1> QED
  BY <1>2, <1>4

\* A chunk that is not listed contributes nothing, one that is listed once its
\* weighted score.
LEMMA ContributionOfOne ==
  ASSUME NEW list \in Seq(Hits), NEW c, NEW weight \in Nat
  PROVE  /\ At(list, c) = {} => Contribution(list, c, weight) = 0
         /\ \A i \in DOMAIN list : At(list, c) = {i} =>
              /\ Contribution(list, c, weight) = (weight * Normalized(list, i)) \div 10
              /\ Contribution(list, c, weight) \in Nat
<1>1. IsFiniteSet(At(list, c)) /\ At(list, c) \subseteq DOMAIN list
  BY AtIsFinite
<1> DEFINE I == At(list, c)
<1>2. PICK f, g, first :
        /\ g = [i \in I |-> (weight * Normalized(list, i)) \div 10]
        /\ \A s \in SUBSET I : s # {} => first[s] \in s
        /\ AddsUp(f, I, g, first)
        /\ Contribution(list, c, weight) = f[I]
  BY <1>1, ContributionIsSum
<1> HIDE DEF I
<1>3. \A s \in SUBSET I : f[s] = IF s = {} THEN 0 ELSE g[first[s]] + f[s \ {first[s]}]
  BY <1>2 DEF AddsUp
<1>4. f[{}] = 0
  BY <1>3
<1>5. ASSUME NEW i \in DOMAIN list, I = {i}
      PROVE  /\ Contribution(list, c, weight) = (weight * Normalized(list, i)) \div 10
             /\ Contribution(list, c, weight) \in Nat
  <2>1. first[I] = i /\ I \ {first[I]} = {} /\ I # {} /\ I \in SUBSET I
    BY <1>2, <1>5
  <2>2. f[I] = g[i] + 0
    BY <1>3, <1>4, <2>1
  <2>3. Normalized(list, i) \in Nat
    BY NormalizedOrder
  <2>4. weight * Normalized(list, i) \in Nat
    BY <2>3
  <2>5. g[i] = (weight * Normalized(list, i)) \div 10
    BY <1>2, <1>5
  <2>6. g[i] \in Nat
    BY <2>4, <2>5, DivisionKeepsOrder
  <2> QED
    BY <1>2, <2>2, <2>5, <2>6
<1> QED
  BY <1>2, <1>4, <1>5 DEF I

-----------------------------------------------------------------------------
(* Selections from lists of hits.                                          *)

\* Better scores first.
Descending(list) == \A i, j \in DOMAIN list : i < j => list[i].score >= list[j].score

\* l goes through all positions in I, upwards.
GoesUp(l, I) ==
  /\ l \in Listings(I)
  /\ DOMAIN l = 1 .. Cardinality(I) /\ Cardinality(I) \in Nat
  /\ \A k \in DOMAIN l : l[k] \in I
  /\ \A i, j \in DOMAIN l : i < j => l[i] < l[j]
  /\ \A x \in I : \E k \in DOMAIN l : l[k] = x

\* A selection goes through the selected positions, upwards.
LEMMA SelectionInOrder ==
  ASSUME NEW list, NEW n \in Nat, DOMAIN list = 1 .. n,
         NEW I, I \subseteq DOMAIN list,
         NEW chosen \in Selections(list, I)
  PROVE  \E l : GoesUp(l, I) /\ chosen = [k \in DOMAIN l |-> list[l[k]]]
<1>1. PICK l \in Listings(I) :
        /\ chosen = [k \in DOMAIN l |-> list[l[k]]]
        /\ \A i, j \in DOMAIN l : i < j => l[i] # l[j] /\ ~(l[j] < l[i])
  BY DEF Selections, Arrangements
<1>2. IsFiniteSet(I)
  BY PositionsAreFinite
<1>3. /\ Cardinality(I) \in Nat /\ DOMAIN l = 1 .. Cardinality(I)
      /\ \A k \in DOMAIN l : l[k] \in I
  BY <1>2, ListingIsSequence
<1>4. \A x \in I : \E k \in DOMAIN l : l[k] = x
  BY <1>1, <1>2, ListingIsOnto
<1>5. \A i, j \in DOMAIN l : i < j => l[i] < l[j]
  <2>1. \A k \in DOMAIN l : l[k] \in Int
    BY <1>3
  <2> QED
    BY <1>1, <2>1
<1> QED
  BY <1>1, <1>3, <1>4, <1>5 DEF GoesUp

\* There is one way to select.
LEMMA SelectionIsUnique ==
  ASSUME NEW list, NEW n \in Nat, DOMAIN list = 1 .. n,
         NEW I, I \subseteq DOMAIN list,
         NEW one \in Selections(list, I), NEW other \in Selections(list, I)
  PROVE  one = other
<1>1. PICK l : GoesUp(l, I) /\ one = [k \in DOMAIN l |-> list[l[k]]]
  BY SelectionInOrder
<1>2. PICK m : GoesUp(m, I) /\ other = [k \in DOMAIN m |-> list[m[k]]]
  BY SelectionInOrder
<1>3. I \in SUBSET Nat /\ IsFiniteSet(I)
  BY PositionsAreFinite
<1>4. l = m
  BY <1>1, <1>2, <1>3, IncreasingIsUnique DEF GoesUp
<1> QED
  BY <1>1, <1>2, <1>4

\* A selection of hits is a list of hits, in the order they had.
LEMMA SelectionOfHits ==
  ASSUME NEW list \in Seq(Hits), NEW I, I \subseteq DOMAIN list,
         NEW chosen \in Selections(list, I)
  PROVE  /\ chosen \in Seq(Hits)
         /\ Descending(list) => Descending(chosen)
<1>1. Len(list) \in Nat /\ DOMAIN list = 1 .. Len(list) /\ \A i \in DOMAIN list : list[i] \in Hits
  OBVIOUS
<1> PICK n \in Nat : n = Len(list) /\ DOMAIN list = 1 .. n
  BY <1>1
<1>2. PICK l : GoesUp(l, I) /\ chosen = [k \in DOMAIN l |-> list[l[k]]]
  BY SelectionInOrder
<1>3. chosen \in [1 .. Cardinality(I) -> Hits] /\ Cardinality(I) \in Nat
  BY <1>1, <1>2 DEF GoesUp
<1>4. chosen \in Seq(Hits)
  BY <1>3
<1>5. ASSUME Descending(list) PROVE Descending(chosen)
  BY <1>2, <1>5 DEF Descending, GoesUp
<1> QED
  BY <1>4, <1>5

\* The first result of each record: every record once, by its best result, better
\* records first.
LEMMA FirstsOfHits ==
  ASSUME NEW list \in Seq(Hits), NEW firsts \in Firsts(list)
  PROVE  /\ firsts \in Seq(Hits)
         /\ \A k \in DOMAIN firsts : \E i \in DOMAIN list : firsts[k] = list[i]
         /\ \A i, j \in DOMAIN firsts :
              i < j => SourceOf[firsts[i].chunk] # SourceOf[firsts[j].chunk]
         /\ \A i \in DOMAIN list : \E k \in DOMAIN firsts :
              SourceOf[firsts[k].chunk] = SourceOf[list[i].chunk]
         /\ Descending(list) =>
              /\ Descending(firsts)
              /\ \A k \in DOMAIN firsts, i \in DOMAIN list :
                   SourceOf[firsts[k].chunk] = SourceOf[list[i].chunk] =>
                     list[i].score <= firsts[k].score
<1> DEFINE Same(i, j) == SourceOf[list[j].chunk] = SourceOf[list[i].chunk]
           I == {i \in DOMAIN list : \A j \in 1 .. i - 1 : ~Same(i, j)}
<1>1. Len(list) \in Nat /\ DOMAIN list = 1 .. Len(list) /\ \A i \in DOMAIN list : list[i] \in Hits
  OBVIOUS
<1>2. I \subseteq DOMAIN list /\ firsts \in Selections(list, I)
  BY DEF Firsts
<1> PICK n \in Nat : n = Len(list) /\ DOMAIN list = 1 .. n
  BY <1>1
<1> HIDE DEF I
<1>3. PICK l : GoesUp(l, I) /\ firsts = [k \in DOMAIN l |-> list[l[k]]]
  BY <1>2, SelectionInOrder
<1>4. /\ DOMAIN l = 1 .. Cardinality(I) /\ Cardinality(I) \in Nat
      /\ \A k \in DOMAIN l : l[k] \in I
      /\ \A i, j \in DOMAIN l : i < j => l[i] < l[j]
      /\ \A x \in I : \E k \in DOMAIN l : l[k] = x
  BY <1>3 DEF GoesUp
<1>5. \A k \in DOMAIN l : l[k] \in DOMAIN list /\ \A j \in 1 .. l[k] - 1 : ~Same(l[k], j)
  BY <1>4 DEF I
<1>6. \A i \in DOMAIN list : \E k \in DOMAIN l : Same(i, l[k])
  <2> TAKE i \in DOMAIN list
  <2> DEFINE E == {j \in 1 .. i : Same(i, j)}
  <2>1. i \in E /\ E \in SUBSET Nat
    BY <1>1
  <2>2. PICK j \in E : \A y \in E : j <= y
    <3> HIDE DEF E
    <3> QED BY <2>1, LeastOf
  <2>3. j \in DOMAIN list /\ Same(i, j)
    BY <1>1, <2>2
  <2>4. \A y \in 1 .. j - 1 : ~Same(j, y)
    <3> SUFFICES ASSUME NEW y \in 1 .. j - 1, Same(j, y) PROVE FALSE
      OBVIOUS
    <3>1. j \in 1 .. i /\ i \in Nat /\ \A z \in 1 .. i : Same(i, z) => j <= z
      BY <1>1, <2>2
    <3>2. Same(i, y) /\ y \in 1 .. i /\ y < j
      BY <2>3, <3>1
    <3> QED
      BY <3>1, <3>2
  <2>5. j \in I
    BY <2>3, <2>4 DEF I
  <2> QED
    BY <1>4, <2>3, <2>5
<1>7. firsts \in Seq(Hits)
  BY <1>2, SelectionOfHits
<1>8. DOMAIN firsts = DOMAIN l /\ \A k \in DOMAIN l : firsts[k] = list[l[k]]
  BY <1>3
<1>9. ASSUME NEW i \in DOMAIN firsts, NEW j \in DOMAIN firsts, i < j
      PROVE  SourceOf[firsts[i].chunk] # SourceOf[firsts[j].chunk]
  <2>1. l[i] < l[j] /\ l[i] \in 1 .. Len(list) /\ l[j] \in 1 .. Len(list)
    BY <1>1, <1>4, <1>5, <1>8, <1>9
  <2>2. l[i] \in 1 .. l[j] - 1
    BY <1>1, <2>1
  <2>3. ~Same(l[j], l[i])
    BY <1>5, <1>8, <2>2
  <2> QED
    BY <1>8, <2>3
<1>10. ASSUME Descending(list), NEW k \in DOMAIN firsts, NEW i \in DOMAIN list,
             SourceOf[firsts[k].chunk] = SourceOf[list[i].chunk]
      PROVE  list[i].score <= firsts[k].score
  <2>1. Same(l[k], i) /\ l[k] \in 1 .. Len(list) /\ i \in 1 .. Len(list)
    BY <1>1, <1>5, <1>8, <1>10
  <2>2. i \notin 1 .. l[k] - 1
    BY <1>5, <1>8, <2>1
  <2>3. i = l[k] \/ l[k] < i
    BY <1>1, <2>1, <2>2
  <2>4. list[i].score \in Int
    BY <1>1 DEF Hits
  <2> QED
    BY <1>1, <1>8, <1>10, <2>1, <2>3, <2>4 DEF Descending
<1>11. Descending(list) => Descending(firsts)
  BY <1>2, SelectionOfHits
<1>12. \A k \in DOMAIN firsts : \E i \in DOMAIN list : firsts[k] = list[i]
  BY <1>5, <1>8
<1>13. \A i \in DOMAIN list : \E k \in DOMAIN firsts :
        SourceOf[firsts[k].chunk] = SourceOf[list[i].chunk]
  BY <1>6, <1>8
<1>14. \A i, j \in DOMAIN firsts :
        i < j => SourceOf[firsts[i].chunk] # SourceOf[firsts[j].chunk]
  BY <1>9
<1> QED
  BY <1>7, <1>10, <1>11, <1>12, <1>13, <1>14

\* There is one way to take them.
LEMMA FirstsAreUnique ==
  ASSUME NEW list \in Seq(Hits), NEW one \in Firsts(list), NEW other \in Firsts(list)
  PROVE  one = other
<1> DEFINE I == {i \in DOMAIN list :
                   \A j \in 1 .. i - 1 : SourceOf[list[j].chunk] # SourceOf[list[i].chunk]}
<1>1. Len(list) \in Nat /\ DOMAIN list = 1 .. Len(list)
  OBVIOUS
<1>2. I \subseteq DOMAIN list /\ one \in Selections(list, I) /\ other \in Selections(list, I)
  BY DEF Firsts
<1> HIDE DEF I
<1> QED
  BY <1>1, <1>2, SelectionIsUnique

\* Nothing comes of nothing.
LEMMA FirstsOfNothing ==
  ASSUME NEW firsts \in Firsts(<<>>)
  PROVE  firsts = <<>>
<1>1. <<>> \in Seq(Hits) /\ DOMAIN <<>> = {}
  OBVIOUS
<1>2. firsts \in Seq(Hits) /\ \A k \in DOMAIN firsts : \E i \in DOMAIN <<>> : firsts[k] = <<>>[i]
  BY <1>1, FirstsOfHits
<1>3. DOMAIN firsts = {}
  BY <1>1, <1>2
<1> QED
  BY <1>2, <1>3

-----------------------------------------------------------------------------
(* Candidates and reranking.                                               *)

\* The combined score of a chunk is a number.
LEMMA CombinedIsInteger ==
  ASSUME Evidence, NEW c
  PROVE  Combined(c) \in Int
<1>1. dense \in Seq(Hits) /\ lexical \in Seq(Hits)
  BY DEF Evidence, Shapes
<1>2. /\ Contribution(dense, c, DenseWeight) \in Int
      /\ Contribution(lexical, c, LexicalWeight) \in Int
  BY <1>1, ContributionIsInteger DEF DenseWeight, LexicalWeight
<1> QED
  BY <1>2 DEF Combined

\* Whatever fusion makes of two lists of matching hits, it is one.
LEMMA CandidatesMatch ==
  ASSUME Evidence, NEW candidates \in Candidates
  PROVE  candidates \in Seq(Hits) /\ AllMatch(candidates)
<1> DEFINE both == dense \o lexical
           C == {both[i].chunk : i \in DOMAIN both}
<1>1. both \in Seq(Hits) /\ AllMatch(both)
  BY DEF Evidence, Shapes, AllMatch
<1>2. deployment.retriever = "hybrid" =>
        \E ranking \in Listings(C) :
          candidates = [i \in DOMAIN UpTo(ranking, Wanted) |->
                         [chunk |-> UpTo(ranking, Wanted)[i],
                          score |-> Combined(UpTo(ranking, Wanted)[i])]]
  BY DEF Candidates, Fused, Arrangements
<1>3. deployment.retriever # "hybrid" => candidates = both
  BY DEF Candidates
<1> HIDE DEF both
<1>4. CASE deployment.retriever = "hybrid"
  <2>1. \A c \in C : c \in Chunks /\ Matches(c)
    BY <1>1 DEF AllMatch
  <2>2. IsFiniteSet(C)
    BY <2>1, ChunksAreFinite
  <2>3. PICK ranking \in Listings(C) :
          candidates = [i \in DOMAIN UpTo(ranking, Wanted) |->
                         [chunk |-> UpTo(ranking, Wanted)[i],
                          score |-> Combined(UpTo(ranking, Wanted)[i])]]
    BY <1>2, <1>4
  <2> DEFINE top == UpTo(ranking, Wanted)
  <2>4. top \in Seq(C)
    BY <2>2, ListingIsSequence, UpToKeeps, LimitsAreNumbers DEF Evidence
  <2>5. candidates = [i \in DOMAIN top |-> [chunk |-> top[i], score |-> Combined(top[i])]]
    BY <2>3
  <2> HIDE DEF top, C
  <2>6. /\ Len(top) \in Nat /\ DOMAIN top = 1 .. Len(top)
        /\ \A i \in DOMAIN top : top[i] \in Chunks /\ Matches(top[i])
    BY <2>1, <2>4
  <2>7. \A i \in 1 .. Len(top) : [chunk |-> top[i], score |-> Combined(top[i])] \in Hits
    BY <2>6, CombinedIsInteger DEF Hits
  <2>8. candidates \in Seq(Hits)
    BY <2>5, <2>6, <2>7
  <2> QED
    BY <2>5, <2>6, <2>8 DEF AllMatch
<1> QED
  BY <1>1, <1>3, <1>4

\* The candidates with the judge's bonus.
Judged(list) ==
  [i \in DOMAIN list |-> [list[i] EXCEPT !.score = @ + signals[list[i].chunk].bonus]]

\* Judging changes the score of a hit by its chunk's bonus and nothing else.
LEMMA JudgedKeeps ==
  ASSUME NEW list \in Seq(Hits), NEW i \in DOMAIN list
  PROVE  /\ Judged(list)[i].chunk = list[i].chunk
         /\ Judged(list)[i].score = list[i].score + signals[list[i].chunk].bonus
<1> DEFINE h == list[i]
           bonus == signals[list[i].chunk].bonus
<1>1. h \in Hits /\ Judged(list)[i] = [h EXCEPT !.score = @ + bonus]
  BY DEF Judged
<1> HIDE DEF h, bonus
<1>2. /\ [h EXCEPT !.score = @ + bonus].chunk = h.chunk
      /\ [h EXCEPT !.score = @ + bonus].score = h.score + bonus
  BY <1>1 DEF Hits
<1> QED
  BY <1>1, <1>2 DEF h, bonus

\* What reranking does: order goes through all candidates, the best judged first and the
\* first of those judged equal, and the results are the beginning of that.
Reranks(candidates, order) ==
  LET n == Len(candidates)
      judged == Judged(candidates)
  IN /\ candidates \in Candidates /\ candidates \in Seq(Hits)
     /\ judged \in Seq(Hits) /\ Len(judged) = n
     /\ order \in [1 .. n -> 1 .. n]
     /\ \A x \in 1 .. n : \E k \in 1 .. n : order[k] = x
     /\ \A i, j \in 1 .. n : i < j =>
          /\ order[i] # order[j]
          /\ \/ judged[order[i]].score > judged[order[j]].score
             \/ judged[order[i]].score = judged[order[j]].score /\ order[i] < order[j]
     /\ results' = UpTo([k \in 1 .. n |-> judged[order[k]]], request.topK)

\* A step of Rerank judges some candidates, orders them and cuts the order at top_k.
LEMMA RerankOrders ==
  ASSUME Evidence, Rerank
  PROVE  \E candidates, order : Reranks(candidates, order)
<1> DEFINE I(list) == {i \in DOMAIN list : Matches(list[i].chunk)}
           Before(judged, i, j) == \/ judged[i].score > judged[j].score
                                   \/ judged[i].score = judged[j].score /\ i < j
<1>1. PICK candidates \in Candidates :
        \E order \in Listings(I(Judged(candidates))) :
          /\ \A i, j \in DOMAIN order : i < j =>
               order[i] # order[j] /\ ~Before(Judged(candidates), order[j], order[i])
          /\ results' = UpTo([k \in DOMAIN order |-> Judged(candidates)[order[k]]], request.topK)
  BY DEF Rerank, Arrangements, Judged
<1> DEFINE n == Len(candidates)
           judged == Judged(candidates)
<1>2. /\ candidates \in Seq(Hits) /\ n \in Nat /\ DOMAIN candidates = 1 .. n
      /\ \A i \in 1 .. n : candidates[i] \in Hits /\ Matches(candidates[i].chunk)
  BY CandidatesMatch DEF AllMatch
<1>3. \A i \in 1 .. n : signals[candidates[i].chunk].bonus \in Nat
  <2>1. \A c \in Chunks : signals[c].bonus \in Nat
    BY ShapeAssumption DEF Evidence, Shapes
  <2> QED
    BY <1>2, <2>1 DEF Hits
<1>4. judged \in Seq(Hits) /\ Len(judged) = n
      /\ \A i \in 1 .. n : judged[i].chunk = candidates[i].chunk
  <2>1. judged = [i \in 1 .. n |->
                   [candidates[i] EXCEPT !.score = @ + signals[candidates[i].chunk].bonus]]
    BY <1>2 DEF Judged
  <2>2. ASSUME NEW h \in Hits, NEW bonus \in Nat
        PROVE  /\ [h EXCEPT !.score = @ + bonus] \in Hits
               /\ [h EXCEPT !.score = @ + bonus].chunk = h.chunk
    BY DEF Hits
  <2> HIDE DEF judged, n
  <2>3. judged \in [1 .. n -> Hits] /\ \A i \in 1 .. n : judged[i].chunk = candidates[i].chunk
    BY <1>2, <1>3, <2>1, <2>2
  <2> QED
    BY <1>2, <2>3
<1>5. I(judged) = 1 .. n
  BY <1>2, <1>4
<1>6. PICK order \in Listings(1 .. n) :
        /\ \A i, j \in DOMAIN order : i < j =>
             order[i] # order[j] /\ ~Before(judged, order[j], order[i])
        /\ results' = UpTo([k \in DOMAIN order |-> judged[order[k]]], request.topK)
  BY <1>1, <1>5
<1> HIDE DEF n, judged, I
<1>7. IsFiniteSet(1 .. n) /\ Cardinality(1 .. n) = n
  BY <1>2, FS_Interval
<1>8. order \in [1 .. n -> 1 .. n] /\ DOMAIN order = 1 .. n
  BY <1>6, <1>7 DEF Listings
<1>9. \A x \in 1 .. n : \E k \in 1 .. n : order[k] = x
  <2>1. order \in Listings(1 .. n) /\ \A i, j \in DOMAIN order : i < j => order[i] # order[j]
    BY <1>6
  <2>2. \A x \in 1 .. n : \E k \in DOMAIN order : order[k] = x
    BY <1>7, <2>1, ListingIsOnto
  <2> QED
    BY <1>8, <2>2
<1>10. \A i \in 1 .. n : judged[order[i]].score \in Int /\ order[i] \in Int
  <2>1. \A h \in Hits : h.score \in Int
    BY DEF Hits
  <2> QED
    BY <1>4, <1>8, <2>1
<1>11. \A i, j \in 1 .. n : i < j =>
         /\ order[i] # order[j]
         /\ \/ judged[order[i]].score > judged[order[j]].score
            \/ judged[order[i]].score = judged[order[j]].score /\ order[i] < order[j]
  BY <1>6, <1>8, <1>10
<1>12. results' = UpTo([k \in 1 .. n |-> judged[order[k]]], request.topK)
  BY <1>6, <1>8
<1>13. candidates \in Candidates /\ candidates \in Seq(Hits)
  BY <1>2
<1>14. order \in [1 .. n -> 1 .. n] /\ judged \in Seq(Hits) /\ Len(judged) = n
  BY <1>4, <1>8
<1>15. Reranks(candidates, order)
  BY <1>9, <1>11, <1>12, <1>13, <1>14 DEF Reranks, n, judged
<1> QED
  BY <1>15

\* Results are hits, the best first.
LEMMA RerankDescends ==
  ASSUME Evidence, Rerank
  PROVE  (results \in Seq(Hits) /\ Descending(results))'
<1>1. PICK candidates, order : Reranks(candidates, order)
  BY RerankOrders
<1> DEFINE n == Len(candidates)
           judged == Judged(candidates)
           all == [k \in 1 .. n |-> judged[order[k]]]
<1>2. /\ n \in Nat /\ judged \in Seq(Hits) /\ Len(judged) = n
      /\ order \in [1 .. n -> 1 .. n]
      /\ results' = UpTo(all, request.topK)
  BY <1>1 DEF Reranks
<1>2a. \A i, j \in 1 .. n : i < j =>
         \/ judged[order[i]].score > judged[order[j]].score
         \/ judged[order[i]].score = judged[order[j]].score /\ order[i] < order[j]
  BY <1>1 DEF Reranks
<1> HIDE DEF n, judged
<1>3. all \in Seq(Hits) /\ \A k \in 1 .. n : all[k] = judged[order[k]]
  BY <1>2
<1>4. \A k \in 1 .. n : judged[order[k]].score \in Int
  <2>1. \A h \in Hits : h.score \in Int
    BY DEF Hits
  <2> QED
    BY <1>2, <2>1
<1>5. DOMAIN all = 1 .. n
  OBVIOUS
<1> HIDE DEF all
<1>5a. \A i, j \in DOMAIN all : i < j => all[i].score >= all[j].score
  <2>1. SUFFICES ASSUME NEW i \in 1 .. n, NEW j \in 1 .. n, i < j
                 PROVE  judged[order[i]].score >= judged[order[j]].score
    BY <1>3, <1>5
  <2> QED
    BY <1>2a, <1>4, <2>1
<1>6. /\ results' \in Seq(Hits)
      /\ \A i \in DOMAIN results' : i \in DOMAIN all /\ results'[i] = all[i]
  BY <1>2, <1>3, UpToKeeps, LimitsAreNumbers DEF Evidence
<1> QED
  BY <1>5a, <1>6 DEF Descending

-----------------------------------------------------------------------------
(* Evidence is permitted.                                                  *)

\* Evidence holds at the start.
LEMMA InitEvidence == Init => Evidence
<1> SUFFICES ASSUME Init PROVE Evidence
  OBVIOUS
<1>1. <<>> \in Seq(Hits)
  OBVIOUS
<1>2. Shapes
  BY <1>1, ShapeAssumption DEF Init, Shapes
<1> QED
  BY <1>2 DEF Init, Evidence, AllMatch, AllClean, AfterGate, NoRun

\* A search of the vectors in memory.
LEMMA SearchMemoryStep ==
  ASSUME Evidence, SearchMemory
  PROVE  Evidence'
<1> DEFINE S == {c \in indexed : Matches(c)}
<1>1. PICK ranking \in Listings(S) : dense' = DenseHits(UpTo(ranking, Pool))
  BY DEF SearchMemory, Arrangements
<1>2. S \subseteq Chunks /\ IsFiniteSet(S)
  BY ChunksAreFinite DEF Evidence, Shapes
<1>3. UpTo(ranking, Pool) \in Seq(S)
  BY <1>2, ListingIsSequence, UpToKeeps, LimitsAreNumbers DEF Evidence
<1>4. UpTo(ranking, Pool) \in Seq(Chunks)
      /\ \A i \in DOMAIN UpTo(ranking, Pool) : Matches(UpTo(ranking, Pool)[i])
  BY <1>2, <1>3
<1>5. dense' \in Seq(Hits) /\ AllMatch(dense')
  BY <1>1, <1>4, DenseHitsMatch DEF Evidence
<1>6. stage' \in {"lexical", "rerank"}
  BY DEF SearchMemory, AfterDense
<1> QED
  BY <1>5, <1>6 DEF SearchMemory, Evidence, Shapes, AllMatch, AllClean, Matches, AfterGate,
                    world, remote, answer

\* A page of the scan, whatever other processes wrote since the page before.
LEMMA ReadPageStep ==
  ASSUME Evidence, ReadPage
  PROVE  Evidence'
<1>1. PICK ranking \in Listings(indexed) :
        /\ \E found \in Selections(Page(ranking),
                               {i \in DOMAIN Page(ranking) : Matches(Page(ranking)[i])}) :
             dense' = UpTo(dense \o DenseHits(found), Pool)
        /\ IF Len(dense') = Pool \/ Len(Page(ranking)) < PageSize
             THEN stage' = AfterDense /\ UNCHANGED offset
             ELSE offset' = offset + Len(Page(ranking)) /\ UNCHANGED stage
  BY DEF ReadPage, Arrangements
<1> DEFINE page == Page(ranking)
           I == {i \in DOMAIN page : Matches(page[i])}
<1>2. ranking \in Seq(Chunks)
  <2>1. indexed \subseteq Chunks /\ IsFiniteSet(indexed)
    BY ChunksAreFinite DEF Evidence, Shapes
  <2> QED
    BY <2>1, ListingIsSequence
<1>3. page \in Seq(Chunks)
  <2> DEFINE last == Min({offset + PageSize, Len(ranking)})
  <2>1. offset \in Nat /\ PageSize \in Nat
    BY LimitsAreNumbers DEF Evidence, Shapes
  <2>2. last \in Nat /\ last <= Len(ranking)
    <3>1. CASE offset + PageSize <= Len(ranking)
      BY <1>2, <2>1, <3>1 DEF Min
    <3>2. CASE offset + PageSize > Len(ranking)
      BY <1>2, <2>1, <3>2 DEF Min
    <3> QED
      BY <1>2, <2>1, <3>1, <3>2
  <2> HIDE DEF last
  <2>3. SubSeq(ranking, offset + 1, last) \in Seq(Chunks)
    BY <1>2, <2>1, <2>2
  <2> QED
    BY <2>3 DEF Page, last
<1> HIDE DEF page
<1>4. PICK found \in Selections(page, I) : dense' = UpTo(dense \o DenseHits(found), Pool)
  BY <1>1 DEF page
<1>5. found \in Seq(Chunks) /\ \A i \in DOMAIN found : Matches(found[i])
  <2>1. Len(page) \in Nat /\ DOMAIN page = 1 .. Len(page)
    BY <1>3
  <2>2. /\ \E m \in Nat : DOMAIN found = 1 .. m /\ found = [k \in 1 .. m |-> found[k]]
        /\ \A k \in DOMAIN found : \E i \in I : found[k] = page[i]
    BY <2>1, SelectionKeeps
  <2> QED
    BY <1>3, <2>2
<1>6. DenseHits(found) \in Seq(Hits) /\ AllMatch(DenseHits(found))
  BY <1>5, DenseHitsMatch DEF Evidence
<1>7. dense' \in Seq(Hits) /\ AllMatch(dense')
  <2> DEFINE all == dense \o DenseHits(found)
  <2>1. all \in Seq(Hits) /\ AllMatch(all)
    BY <1>6 DEF Evidence, Shapes, AllMatch
  <2> HIDE DEF all
  <2>2. /\ UpTo(all, Pool) \in Seq(Hits)
        /\ \A i \in DOMAIN UpTo(all, Pool) : i \in DOMAIN all /\ UpTo(all, Pool)[i] = all[i]
    BY <2>1, UpToKeeps, LimitsAreNumbers DEF Evidence
  <2>3. dense' = UpTo(all, Pool)
    BY <1>4 DEF all
  <2> QED
    BY <2>1, <2>2, <2>3 DEF AllMatch
<1>8. offset' \in Nat /\ stage' \in {"dense", "lexical", "rerank"}
  BY <1>1, <1>3 DEF ReadPage, AfterDense, Evidence, Shapes, page
<1> QED
  BY <1>7, <1>8 DEF ReadPage, Evidence, Shapes, AllMatch, AllClean, Matches, AfterGate,
                    world, remote, answer

\* The lexical search of the snapshot.
LEMMA SearchLexicalStep ==
  ASSUME Evidence, SearchLexical
  PROVE  Evidence'
<1> DEFINE S == {c \in snapshot : Matches(c) /\ signals[c].lexical > 0}
<1>1. PICK ranking \in Listings(S) :
        lexical' = [i \in DOMAIN UpTo(ranking, Pool) |->
                     [chunk |-> UpTo(ranking, Pool)[i],
                      score |-> signals[UpTo(ranking, Pool)[i]].lexical]]
  BY DEF SearchLexical, Arrangements
<1>2. S \subseteq Chunks /\ IsFiniteSet(S) /\ \A c \in S : Matches(c)
  BY ChunksAreFinite DEF Evidence, Shapes
<1> DEFINE top == UpTo(ranking, Pool)
<1>3. top \in Seq(S)
  BY <1>2, ListingIsSequence, UpToKeeps, LimitsAreNumbers DEF Evidence
<1>4. lexical' = [i \in DOMAIN top |-> [chunk |-> top[i], score |-> signals[top[i]].lexical]]
  BY <1>1
<1> HIDE DEF top, S
<1>5. /\ Len(top) \in Nat /\ DOMAIN top = 1 .. Len(top)
      /\ \A i \in DOMAIN top : top[i] \in Chunks /\ Matches(top[i])
  BY <1>2, <1>3
<1>6. \A i \in 1 .. Len(top) : [chunk |-> top[i], score |-> signals[top[i]].lexical] \in Hits
  <2>1. \A c \in Chunks : signals[c].lexical \in Int
    BY ShapeAssumption DEF Evidence, Shapes
  <2> QED
    BY <1>5, <2>1 DEF Hits
<1>7. lexical' \in Seq(Hits) /\ AllMatch(lexical')
  BY <1>4, <1>5, <1>6 DEF AllMatch
<1> QED
  BY <1>7 DEF SearchLexical, Evidence, Shapes, AllMatch, AllClean, Matches, AfterGate,
              world, remote, answer

\* The final check, the sort and the limit.
LEMMA RerankStep ==
  ASSUME Evidence, Rerank
  PROVE  Evidence'
<1>1. PICK candidates, order : Reranks(candidates, order)
  BY RerankOrders
<1> DEFINE n == Len(candidates)
           judged == Judged(candidates)
           all == [k \in 1 .. n |-> judged[order[k]]]
<1>2. /\ n \in Nat /\ judged \in Seq(Hits) /\ Len(judged) = n
      /\ order \in [1 .. n -> 1 .. n] /\ results' = UpTo(all, request.topK)
      /\ DOMAIN candidates = 1 .. n /\ candidates \in Candidates
  BY <1>1 DEF Reranks
<1>3. \A i \in 1 .. n : judged[i].chunk \in Chunks /\ Matches(judged[i].chunk)
  <2>1. AllMatch(candidates) /\ candidates \in Seq(Hits)
    BY <1>2, CandidatesMatch
  <2>2. \A i \in 1 .. n : judged[i].chunk = candidates[i].chunk
    BY <1>2, <2>1, JudgedKeeps
  <2> QED
    BY <1>2, <2>1, <2>2 DEF AllMatch
<1> HIDE DEF n, judged
<1>4. all \in Seq(Hits) /\ \A k \in DOMAIN all : k \in 1 .. n /\ all[k] = judged[order[k]]
  BY <1>2
<1> HIDE DEF all
<1>5. /\ results' \in Seq(Hits)
      /\ \A i \in DOMAIN results' : i \in DOMAIN all /\ results'[i] = all[i]
  BY <1>2, <1>4, UpToKeeps, LimitsAreNumbers DEF Evidence
<1>6. AllMatch(results)'
  <2>1. request' = request
    BY DEF Rerank, world
  <2> QED
    BY <1>2, <1>3, <1>4, <1>5, <2>1 DEF AllMatch, Matches
<1> QED
  BY <1>5, <1>6 DEF Rerank, Evidence, Shapes, AllMatch, AllClean, Matches, AfterGate,
              world, remote, search, answer

\* The context gate: what is left is clean, and was matching before.
LEMMA CheckContextStep ==
  ASSUME Evidence, CheckContext
  PROVE  Evidence'
<1> DEFINE I == {i \in DOMAIN results : ~signals[results[i].chunk].suspicious}
<1>1. results' \in Selections(results, I)
  BY DEF CheckContext
<1>2. /\ results' \in Seq(Hits)
      /\ \A k \in DOMAIN results' : \E i \in I : results'[k] = results[i]
  <2>1. PICK n \in Nat : DOMAIN results = 1 .. n
    BY DEF Evidence, Shapes
  <2>2. \A chosen \in Selections(results, I) : chosen \in Seq(Hits)
    BY SelectionOfHits DEF Evidence, Shapes
  <2>3. \A chosen \in Selections(results, I) :
          \A k \in DOMAIN chosen : \E i \in I : chosen[k] = results[i]
    BY <2>1, SelectionKeeps
  <2> QED
    BY <1>1, <2>2, <2>3
<1>3. (AllMatch(results) /\ AllClean(results))'
  BY <1>2 DEF CheckContext, Evidence, AllMatch, AllClean, Matches, world
<1> QED
  BY <1>2, <1>3 DEF CheckContext, Evidence, Shapes, AllMatch, AllClean, Matches,
                    world, remote, search, answer

\* The first results of each record are results.
LEMMA FirstsAreHits ==
  ASSUME NEW list, NEW n \in Nat, DOMAIN list = 1 .. n, NEW firsts \in Firsts(list)
  PROVE  /\ \E m \in Nat : DOMAIN firsts = 1 .. m /\ firsts = [k \in 1 .. m |-> firsts[k]]
         /\ \A k \in DOMAIN firsts : \E i \in DOMAIN list : firsts[k] = list[i]
<1> DEFINE I == {i \in DOMAIN list :
                   \A j \in 1 .. i - 1 : SourceOf[list[j].chunk] # SourceOf[list[i].chunk]}
<1>1. I \subseteq DOMAIN list /\ firsts \in Selections(list, I)
  BY DEF Firsts
<1> HIDE DEF I
<1> QED
  BY <1>1, SelectionKeeps

\* A tool's documents match; nothing else moves.
LEMMA ToolStep ==
  ASSUME Evidence, NEW run, ToolDone(run),
         \A s \in run.documents : SourceMatches(s, request.filters)
  PROVE  Evidence'
BY DEF ToolDone, Evidence, Shapes, AllMatch, AllClean, Matches, AfterGate,
       world, remote, search, answer

\* The documents of a ticket are those of results.
LEMMA TicketDraftStep ==
  ASSUME Evidence, TicketDraft
  PROVE  Evidence'
<1>1. PICK n \in Nat : DOMAIN results = 1 .. n
  BY DEF Evidence, Shapes
<1> DEFINE I == {i \in DOMAIN results : Matches(results[i].chunk)}
<1>2. PICK matching \in Selections(results, I) : \E firsts \in Firsts(matching) :
        ToolDone([status |-> "ok", tool |-> "ticket_draft",
                  documents |-> {SourceOf[UpTo(firsts, TicketLimit)[i].chunk] :
                                   i \in DOMAIN UpTo(firsts, TicketLimit)}])
  BY DEF TicketDraft
<1>3. /\ \E m \in Nat : DOMAIN matching = 1 .. m
      /\ \A k \in DOMAIN matching : Matches(matching[k].chunk)
  BY <1>1, SelectionKeeps
<1> PICK firsts \in Firsts(matching) :
        ToolDone([status |-> "ok", tool |-> "ticket_draft",
                  documents |-> {SourceOf[UpTo(firsts, TicketLimit)[i].chunk] :
                                   i \in DOMAIN UpTo(firsts, TicketLimit)}])
  BY <1>2
<1>4. PICK m \in Nat : firsts = [k \in 1 .. m |-> firsts[k]]
  BY <1>3, FirstsAreHits
<1>5. \A k \in 1 .. m : Matches(firsts[k].chunk)
  <2>1. \A k \in DOMAIN firsts : \E i \in DOMAIN matching : firsts[k] = matching[i]
    BY <1>3, FirstsAreHits
  <2>2. DOMAIN firsts = 1 .. m
    BY <1>4
  <2> QED
    BY <1>3, <2>1, <2>2
<1> DEFINE E == {firsts[k] : k \in 1 .. m}
<1>6. firsts \in Seq(E) /\ \A h \in E : Matches(h.chunk)
  <2>1. firsts \in Seq(E)
    BY <1>4, TableIsSequence
  <2> QED
    BY <1>5, <2>1
<1> HIDE DEF E
<1>7. \A i \in DOMAIN UpTo(firsts, TicketLimit) : Matches(UpTo(firsts, TicketLimit)[i].chunk)
  <2>1. UpTo(firsts, TicketLimit) \in Seq(E)
    BY <1>6, UpToKeeps, LimitAssumption
  <2>2. \A i \in DOMAIN UpTo(firsts, TicketLimit) : UpTo(firsts, TicketLimit)[i] \in E
    BY <2>1
  <2> QED
    BY <1>6, <2>2
<1>8. \A s \in {SourceOf[UpTo(firsts, TicketLimit)[i].chunk] :
                  i \in DOMAIN UpTo(firsts, TicketLimit)} : SourceMatches(s, request.filters)
  BY <1>7 DEF Matches
<1> QED
  BY <1>8, ToolStep

\* The prompt shows results only.
LEMMA PromptIsPermitted ==
  ASSUME Evidence, stage = "generate", BuildPrompt, UNCHANGED <<request, signals>>
  PROVE  (AllMatch(prompt) /\ AllClean(prompt))'
<1>1. DOMAIN prompt' = DOMAIN results
      /\ \A i \in DOMAIN results : prompt'[i].chunk = results[i].chunk
  BY DEF BuildPrompt
<1> QED
  BY <1>1 DEF Evidence, AllMatch, AllClean, Matches, AfterGate

\* Generation builds its prompt from the results and changes no list.
LEMMA GenerateStep ==
  ASSUME Evidence, GenerateLocally \/ GenerateRemotely \/ GenerateFails
  PROVE  Evidence'
<1>1. /\ stage = "generate" /\ BuildPrompt
      /\ UNCHANGED <<world, remote, search, results, toolRun, answer>>
  BY DEF GenerateLocally, GenerateRemotely, GenerateFails
<1>2. (AllMatch(prompt) /\ AllClean(prompt))'
  BY <1>1, PromptIsPermitted DEF world
<1> QED
  BY <1>1, <1>2 DEF Evidence, Shapes, AllMatch, AllClean, Matches, AfterGate,
                    world, remote, search, answer

\* A judge that fails leaves the evidence alone.
LEMMA JudgeStep ==
  ASSUME Evidence, JudgeFails
  PROVE  Evidence'
BY DEF JudgeFails, Evidence, Shapes, AllMatch, AllClean, Matches, AfterGate,
       world, remote, search, answer

\* The citations quote results only.
LEMMA FinishStep ==
  ASSUME Evidence, Finish
  PROVE  Evidence'
<1>1. PICK n \in Nat : DOMAIN results = 1 .. n
  BY DEF Evidence, Shapes
<1>2. PICK firsts \in Firsts(results) :
        citations' = [k \in DOMAIN firsts |-> [document |-> SourceOf[firsts[k].chunk],
                                             chunk |-> firsts[k].chunk,
                                             score |-> firsts[k].score]]
  BY DEF Finish, BuildCitations
<1>3. \A k \in DOMAIN firsts : \E i \in DOMAIN results : firsts[k] = results[i]
  BY <1>1, FirstsAreHits
<1>4. \A k \in DOMAIN citations' : \E i \in DOMAIN results : citations'[k].chunk = results[i].chunk
  BY <1>2, <1>3
<1>5. AllMatch(results) /\ AllClean(results)
  BY DEF Finish, Evidence, AfterGate
<1>6. (AllMatch(citations) /\ AllClean(citations))'
  BY <1>4, <1>5 DEF Finish, AllMatch, AllClean, Matches, world
<1> QED
  BY <1>6 DEF Finish, Evidence, Shapes, AllMatch, AllClean, Matches, AfterGate,
              world, remote, search

\* Writes of other processes change what the next page returns, not what was kept.
LEMMA RemoteWriteStep ==
  ASSUME Evidence, RemoteWrite
  PROVE  Evidence'
<1>1. indexed' \subseteq Chunks
  BY DEF RemoteWrite, Evidence, Shapes
<1> QED
  BY <1>1 DEF RemoteWrite, Evidence, Shapes, AllMatch, AllClean, Matches, AfterGate,
              world, search, answer

\* Every step keeps the evidence permitted.
LEMMA StepEvidence == Evidence /\ [Next]_vars => Evidence'
<1> SUFFICES ASSUME Evidence, [Next]_vars PROVE Evidence'
  OBVIOUS
<1>1. CASE Refuse
  BY <1>1 DEF Refuse, Evidence, Shapes, AllMatch, AllClean, Matches, AfterGate,
              world, remote, search, answer
<1>2. CASE Accept
  BY <1>2 DEF Accept, Evidence, Shapes, AllMatch, AllClean, Matches, AfterGate,
              world, remote, search, answer
<1>3. CASE SearchMemory
  BY <1>3, SearchMemoryStep
<1>4. CASE ReadPage
  BY <1>4, ReadPageStep
<1>5. CASE SearchLexical
  BY <1>5, SearchLexicalStep
<1>6. CASE Rerank
  BY <1>6, RerankStep
<1>7. CASE CheckContext
  BY <1>7, CheckContextStep
<1>8. CASE NoTool
  BY <1>8, ToolStep DEF NoTool, NoRun
<1>9. CASE UnknownTool
  BY <1>9, ToolStep DEF UnknownTool
<1>10. \A s \in Entries : SourceMatches(s, request.filters)
  BY DEF Entries, Matches
<1>11. CASE SentimentSummary
  BY <1>10, <1>11, ToolStep DEF SentimentSummary
<1>12. CASE IssueCluster
  <2>1. PICK documents \in SUBSET Entries :
          ToolDone([status |-> "ok", tool |-> "issue_cluster", documents |-> documents])
    BY <1>12 DEF IssueCluster
  <2> QED
    BY <1>10, <2>1, ToolStep
<1>13. CASE TicketDraft
  BY <1>13, TicketDraftStep
<1>14. CASE ToolFails
  BY <1>14, ToolStep DEF ToolFails
<1>15. CASE GenerateLocally \/ GenerateRemotely \/ GenerateFails
  BY <1>15, GenerateStep
<1>16. CASE Finish
  BY <1>16, FinishStep
<1>17. CASE RemoteWrite
  BY <1>17, RemoteWriteStep
<1>18. CASE JudgeFails
  BY <1>18, JudgeStep
<1>19. CASE UNCHANGED vars
  BY <1>19 DEF vars, Evidence, Shapes, AllMatch, AllClean, Matches, AfterGate,
               world, remote, search, answer
<1> QED
  BY <1>1, <1>2, <1>3, <1>4, <1>5, <1>6, <1>7, <1>8, <1>9, <1>11, <1>12, <1>13, <1>14,
     <1>15, <1>16, <1>17, <1>18, <1>19 DEF Next

-----------------------------------------------------------------------------
\* The inductive invariant holds throughout, for every index, limit and deployment.
THEOREM EvidenceHolds == Spec => []Evidence
BY InitEvidence, StepEvidence, PTL DEF Spec

\* Nothing outside the filters of the request reaches results, prompt, tool or citations
\* of FeedbackInsightAgent.answer, and no suspicious chunk the prompt or a citation.
THEOREM EvidenceIsAlwaysPermitted == Spec => []EvidenceIsPermitted
<1>1. Evidence => EvidenceIsPermitted
  BY DEF Evidence, EvidenceIsPermitted, AllMatch, AllClean, Permitted
<1> QED
  BY <1>1, EvidenceHolds, PTL

-----------------------------------------------------------------------------
(* Prompt, answer text and citations agree.                                *)

\* The citations of a list of results: one per record, its best chunk, better records first.
LEMMA CitationsOfResults ==
  ASSUME NEW list \in Seq(Hits), Descending(list), NEW cited \in BuildCitations(list)
  PROVE  /\ \E n \in Nat : DOMAIN cited = 1 .. n /\ cited = [k \in 1 .. n |-> cited[k]]
         /\ \A i, j \in DOMAIN cited :
              i < j => /\ cited[i].document # cited[j].document
                       /\ cited[i].score >= cited[j].score
         /\ \A k \in DOMAIN cited : \A i \in DOMAIN list :
              SourceOf[list[i].chunk] = cited[k].document => list[i].score <= cited[k].score
         /\ \A i \in DOMAIN list : \E k \in DOMAIN cited :
              cited[k].document = SourceOf[list[i].chunk]
         /\ list = <<>> => cited = <<>>
<1>1. PICK firsts \in Firsts(list) :
        cited = [k \in DOMAIN firsts |-> [document |-> SourceOf[firsts[k].chunk],
                                          chunk |-> firsts[k].chunk,
                                          score |-> firsts[k].score]]
  BY DEF BuildCitations
<1>2. /\ firsts \in Seq(Hits)
      /\ \A i, j \in DOMAIN firsts :
           i < j => SourceOf[firsts[i].chunk] # SourceOf[firsts[j].chunk]
      /\ \A i \in DOMAIN list : \E k \in DOMAIN firsts :
           SourceOf[firsts[k].chunk] = SourceOf[list[i].chunk]
      /\ Descending(firsts)
      /\ \A k \in DOMAIN firsts, i \in DOMAIN list :
           SourceOf[firsts[k].chunk] = SourceOf[list[i].chunk] =>
             list[i].score <= firsts[k].score
  BY FirstsOfHits
<1>3. Len(firsts) \in Nat /\ DOMAIN firsts = 1 .. Len(firsts)
  BY <1>2
<1>4. /\ DOMAIN cited = DOMAIN firsts
      /\ \A k \in DOMAIN firsts : /\ cited[k].document = SourceOf[firsts[k].chunk]
                                  /\ cited[k].score = firsts[k].score
  BY <1>1
<1>5. cited = [k \in DOMAIN firsts |-> cited[k]]
  BY <1>1
<1>6. ASSUME list = <<>> PROVE cited = <<>>
  <2>1. firsts = <<>>
    BY <1>6, FirstsOfNothing
  <2> QED
    BY <1>1, <2>1
<1>7. \E n \in Nat : DOMAIN cited = 1 .. n /\ cited = [k \in 1 .. n |-> cited[k]]
  BY <1>3, <1>4, <1>5
<1>8. \A i, j \in DOMAIN cited :
        i < j => cited[i].document # cited[j].document /\ cited[i].score >= cited[j].score
  BY <1>2, <1>4 DEF Descending
<1>9. /\ \A k \in DOMAIN cited : \A i \in DOMAIN list :
           SourceOf[list[i].chunk] = cited[k].document => list[i].score <= cited[k].score
      /\ \A i \in DOMAIN list : \E k \in DOMAIN cited :
           cited[k].document = SourceOf[list[i].chunk]
  BY <1>2, <1>4
<1> QED
  BY <1>6, <1>7, <1>8, <1>9

\* It can be computed as often as one likes.
LEMMA CitationsAreUnique ==
  ASSUME NEW list \in Seq(Hits),
         NEW one \in BuildCitations(list), NEW other \in BuildCitations(list)
  PROVE  one = other
<1> DEFINE Cite(firsts) == [k \in DOMAIN firsts |-> [document |-> SourceOf[firsts[k].chunk],
                                                     chunk |-> firsts[k].chunk,
                                                     score |-> firsts[k].score]]
<1>1. /\ \E firsts \in Firsts(list) : one = Cite(firsts)
      /\ \E firsts \in Firsts(list) : other = Cite(firsts)
  BY DEF BuildCitations
<1> HIDE DEF Cite
<1> QED
  BY <1>1, FirstsAreUnique

\* The markers of the prompt and of the answer text name the citations of their records.
NumberedBy(cited) ==
  /\ \A i \in DOMAIN prompt :
       /\ prompt[i].marker \in DOMAIN cited
       /\ cited[prompt[i].marker].document = SourceOf[prompt[i].chunk]
  /\ \A m \in marked : m[1] \in DOMAIN cited /\ cited[m[1]].document = m[2]

\* The inductive invariant: results are in order from reranking on, a ticket quotes them,
\* and once the prompt is built any list of citations of the results fits it.
Consistent ==
  /\ Evidence
  /\ results \in Seq(Hits) /\ Descending(results)
  /\ stage \in {"asked", "refused", "dense", "lexical", "rerank", "gate", "tool"} =>
       toolRun = NoRun
  /\ toolRun.tool = "ticket_draft" =>
       toolRun.documents \subseteq {SourceOf[results[i].chunk] : i \in DOMAIN results}
  /\ stage = "cite" => \A cited \in BuildCitations(results) : NumberedBy(cited)
  /\ AnswerMatchesEvidence

\* Consistent holds at the start.
LEMMA InitConsistent == Init => Consistent
<1> SUFFICES ASSUME Init PROVE Consistent
  OBVIOUS
<1>1. <<>> \in Seq(Hits) /\ DOMAIN <<>> = {}
  OBVIOUS
<1> QED
  BY <1>1, InitEvidence DEF Init, Consistent, Descending, AnswerMatchesEvidence, NoRun

\* A step of retrieval, or one that only ends the call.
LEMMA ConsistentBeforeRanking ==
  ASSUME Consistent, Evidence', UNCHANGED <<results, toolRun>>,
         stage \in {"asked", "dense", "lexical"},
         stage' \in {"refused", "dense", "lexical", "rerank"}
  PROVE  Consistent'
BY DEF Consistent, Descending, AnswerMatchesEvidence, NoRun

\* A step that makes new results.
LEMMA ConsistentResults ==
  ASSUME Consistent, Evidence', UNCHANGED toolRun, (results \in Seq(Hits) /\ Descending(results))',
         stage \in {"rerank", "gate"}, stage' \in {"gate", "tool"}
  PROVE  Consistent'
BY DEF Consistent, Descending, AnswerMatchesEvidence, NoRun

\* The gate leaves the order of the results it keeps.
LEMMA CheckContextConsistent ==
  ASSUME Consistent, CheckContext, Evidence'
  PROVE  Consistent'
<1> DEFINE I == {i \in DOMAIN results : ~signals[results[i].chunk].suspicious}
<1>1. results' \in Selections(results, I) /\ I \subseteq DOMAIN results
      /\ results \in Seq(Hits) /\ Descending(results)
  BY DEF CheckContext, Consistent
<1> HIDE DEF I
<1>2. \A chosen \in Selections(results, I) : chosen \in Seq(Hits) /\ Descending(chosen)
  BY <1>1, SelectionOfHits
<1>3. (results \in Seq(Hits) /\ Descending(results))'
  BY <1>1, <1>2 DEF Descending
<1> QED
  BY <1>3, ConsistentResults DEF CheckContext

\* A tool that is not the ticket draft.
LEMMA ToolConsistent ==
  ASSUME Consistent, Evidence', NEW run, ToolDone(run),
         run.tool = "ticket_draft" =>
           run.documents \subseteq {SourceOf[results[i].chunk] : i \in DOMAIN results}
  PROVE  Consistent'
<1>1. stage' = "generate" /\ toolRun' = run /\ results' = results
  BY DEF ToolDone
<1> QED
  BY <1>1 DEF Consistent, Descending, AnswerMatchesEvidence

\* A ticket quotes records of the results.
LEMMA TicketDraftConsistent ==
  ASSUME Consistent, Evidence', TicketDraft
  PROVE  Consistent'
<1> DEFINE I == {i \in DOMAIN results : Matches(results[i].chunk)}
           Quoted(firsts) == {SourceOf[UpTo(firsts, TicketLimit)[i].chunk] :
                                i \in DOMAIN UpTo(firsts, TicketLimit)}
<1>1. PICK matching \in Selections(results, I) : \E firsts \in Firsts(matching) :
        ToolDone([status |-> "ok", tool |-> "ticket_draft", documents |-> Quoted(firsts)])
  BY DEF TicketDraft
<1>2. PICK firsts \in Firsts(matching) :
        ToolDone([status |-> "ok", tool |-> "ticket_draft", documents |-> Quoted(firsts)])
  BY <1>1
<1> PICK n \in Nat : DOMAIN results = 1 .. n
  BY DEF Consistent
<1>3. I \subseteq DOMAIN results /\ results \in Seq(Hits)
  BY DEF Consistent
<1> HIDE DEF I
<1>4. /\ matching \in Seq(Hits)
      /\ \A k \in DOMAIN matching : \E i \in DOMAIN results : matching[k] = results[i]
  BY <1>3, SelectionOfHits, SelectionKeeps
<1>5. /\ firsts \in Seq(Hits)
      /\ \A k \in DOMAIN firsts : \E i \in DOMAIN matching : firsts[k] = matching[i]
  BY <1>4, FirstsOfHits
<1>6. \A i \in DOMAIN UpTo(firsts, TicketLimit) :
        i \in DOMAIN firsts /\ UpTo(firsts, TicketLimit)[i] = firsts[i]
  BY <1>5, UpToKeeps, LimitAssumption
<1>7. \A i \in DOMAIN UpTo(firsts, TicketLimit) : \E j \in DOMAIN results :
        UpTo(firsts, TicketLimit)[i] = results[j]
  BY <1>4, <1>5, <1>6
<1>8. Quoted(firsts) \subseteq {SourceOf[results[i].chunk] : i \in DOMAIN results}
  BY <1>7
<1> HIDE DEF Quoted
<1> QED
  BY <1>2, <1>8, ToolConsistent

\* The prompt fits every list of citations of the results.
LEMMA PromptIsNumbered ==
  ASSUME Consistent, BuildPrompt, NEW cited \in BuildCitations(results)
  PROVE  \A i \in DOMAIN prompt' :
           /\ prompt'[i].marker \in DOMAIN cited
           /\ cited[prompt'[i].marker].document = SourceOf[prompt'[i].chunk]
<1>1. results \in Seq(Hits) /\ Descending(results)
  BY DEF Consistent
<1>2. PICK used \in BuildCitations(results) :
        prompt' = [i \in DOMAIN results |->
                    [marker |-> MarkerOf(used, SourceOf[results[i].chunk]),
                     chunk |-> results[i].chunk]]
  BY DEF BuildPrompt
<1>3. used = cited
  BY <1>1, CitationsAreUnique
<1>4. \A i \in DOMAIN results : \E k \in DOMAIN cited :
        cited[k].document = SourceOf[results[i].chunk]
  BY <1>1, CitationsOfResults
<1>5. \A i \in DOMAIN results :
        LET k == MarkerOf(cited, SourceOf[results[i].chunk])
        IN  k \in DOMAIN cited /\ cited[k].document = SourceOf[results[i].chunk]
  BY <1>4 DEF MarkerOf
<1>6. DOMAIN prompt' = DOMAIN results
      /\ \A i \in DOMAIN results :
           /\ prompt'[i].marker = MarkerOf(cited, SourceOf[results[i].chunk])
           /\ prompt'[i].chunk = results[i].chunk
  BY <1>2, <1>3
<1> QED
  BY <1>5, <1>6

\* The markers of the prompt fit every list of citations of the results.
LEMMA GenerateConsistent ==
  ASSUME Consistent, Evidence', GenerateLocally \/ GenerateRemotely \/ GenerateFails
  PROVE  Consistent'
<1>1. BuildPrompt /\ UNCHANGED <<results, toolRun>> /\ stage' \in {"cite", "failed"}
  BY DEF GenerateLocally, GenerateRemotely, GenerateFails
<1>2. results \in Seq(Hits) /\ Descending(results)
  BY DEF Consistent
<1>3. ASSUME stage' = "cite", NEW cited \in BuildCitations(results)
      PROVE  \A m \in marked' : m[1] \in DOMAIN cited /\ cited[m[1]].document = m[2]
  <2>1. CASE GenerateLocally
    <3>1. PICK used \in BuildCitations(results) :
            marked' = {<<k, UpTo(used, 3)[k].document>> : k \in DOMAIN UpTo(used, 3)}
      BY <2>1 DEF GenerateLocally
    <3>2. used = cited
      BY <1>2, CitationsAreUnique
    <3>3. PICK n \in Nat : DOMAIN cited = 1 .. n /\ cited = [k \in 1 .. n |-> cited[k]]
      BY <1>2, CitationsOfResults
    <3> DEFINE E == {cited[k] : k \in 1 .. n}
    <3>4. cited \in Seq(E)
      BY <3>3, TableIsSequence
    <3>5. \A k \in DOMAIN UpTo(cited, 3) : k \in DOMAIN cited /\ UpTo(cited, 3)[k] = cited[k]
      <4> HIDE DEF E
      <4> QED
        BY <3>4, UpToKeeps
    <3> QED
      BY <3>1, <3>2, <3>5
  <2>2. CASE GenerateRemotely
    BY <2>2 DEF GenerateRemotely
  <2>3. CASE GenerateFails
    BY <1>3, <2>3 DEF GenerateFails
  <2> QED
    BY <2>1, <2>2, <2>3
<1>4. ASSUME stage' = "cite", NEW cited \in BuildCitations(results)
      PROVE  NumberedBy(cited)'
  BY <1>1, <1>3, <1>4, PromptIsNumbered DEF NumberedBy
<1>5. stage' = "cite" => \A cited \in BuildCitations(results)' : NumberedBy(cited)'
  <2>1. BuildCitations(results)' = BuildCitations(results)
    BY <1>1 DEF BuildCitations, Firsts, Selections, Arrangements, Listings
  <2> QED
    BY <1>4, <2>1
<1> QED
  BY <1>1, <1>5 DEF Consistent, Descending, AnswerMatchesEvidence

\* A judge that fails leaves what was generated alone.
LEMMA JudgeConsistent ==
  ASSUME Consistent, Evidence', JudgeFails
  PROVE  Consistent'
BY DEF JudgeFails, Consistent, Descending, AnswerMatchesEvidence, NumberedBy, answer

\* The citations of the answer are such a list: they are unique.
LEMMA FinishConsistent ==
  ASSUME Consistent, Evidence', Finish
  PROVE  Consistent'
<1>1. /\ stage = "cite" /\ stage' = "answered"
      /\ citations' \in BuildCitations(results)
      /\ UNCHANGED <<results, toolRun, prompt, marked>>
      /\ results \in Seq(Hits) /\ Descending(results)
  BY DEF Finish, Consistent
<1>2. /\ \A i, j \in DOMAIN citations' :
           i < j => /\ citations'[i].document # citations'[j].document
                    /\ citations'[i].score >= citations'[j].score
      /\ \A k \in DOMAIN citations' : \A i \in DOMAIN results :
           SourceOf[results[i].chunk] = citations'[k].document =>
             results[i].score <= citations'[k].score
      /\ \A i \in DOMAIN results : \E k \in DOMAIN citations' :
           citations'[k].document = SourceOf[results[i].chunk]
      /\ results = <<>> => citations' = <<>>
  <2> DEFINE cited == citations'
  <2>1. cited \in BuildCitations(results)
    BY <1>1
  <2> HIDE DEF cited
  <2>2. /\ \A i, j \in DOMAIN cited :
             i < j => /\ cited[i].document # cited[j].document
                      /\ cited[i].score >= cited[j].score
        /\ \A k \in DOMAIN cited : \A i \in DOMAIN results :
             SourceOf[results[i].chunk] = cited[k].document => results[i].score <= cited[k].score
        /\ \A i \in DOMAIN results : \E k \in DOMAIN cited :
             cited[k].document = SourceOf[results[i].chunk]
        /\ results = <<>> => cited = <<>>
    BY <1>1, <2>1, CitationsOfResults
  <2> QED
    BY <2>2 DEF cited
<1>3. NumberedBy(citations')
  BY <1>1 DEF Consistent
<1>4. results = <<>> => confidence' = 0 /\ risk' = "high"
  BY DEF Finish, Confidence, Risk
<1>5. toolRun.tool = "ticket_draft" =>
        toolRun.documents \subseteq {citations'[k].document : k \in DOMAIN citations'}
  BY <1>2 DEF Consistent
<1>6. AnswerMatchesEvidence'
  BY <1>1, <1>2, <1>3, <1>4, <1>5 DEF AnswerMatchesEvidence, NumberedBy
<1> QED
  BY <1>1, <1>6 DEF Consistent, Descending

\* Every step keeps the answer consistent.
LEMMA StepConsistent == Consistent /\ [Next]_vars => Consistent'
<1> SUFFICES ASSUME Consistent, [Next]_vars PROVE Consistent'
  OBVIOUS
<1>1. Evidence /\ Evidence'
  BY StepEvidence DEF Consistent
<1>2. CASE Refuse \/ Accept \/ SearchMemory \/ ReadPage \/ SearchLexical \/ RemoteWrite
  <2>1. /\ stage \in {"asked", "dense", "lexical"}
        /\ stage' \in {"refused", "dense", "lexical", "rerank"}
        /\ UNCHANGED <<results, toolRun>>
    BY <1>2 DEF Refuse, Accept, SearchMemory, ReadPage, SearchLexical, RemoteWrite, AfterDense
  <2> QED
    BY <1>1, <2>1, ConsistentBeforeRanking
<1>3. CASE Rerank
  BY <1>1, <1>3, RerankDescends, ConsistentResults DEF Rerank
<1>4. CASE CheckContext
  BY <1>1, <1>4, CheckContextConsistent
<1>5. CASE NoTool
  BY <1>1, <1>5, ToolConsistent DEF NoTool, NoRun
<1>6. CASE UnknownTool
  BY <1>1, <1>6, ToolConsistent DEF UnknownTool
<1>7. CASE SentimentSummary
  BY <1>1, <1>7, ToolConsistent DEF SentimentSummary
<1>8. CASE IssueCluster
  BY <1>1, <1>8, ToolConsistent DEF IssueCluster
<1>9. CASE TicketDraft
  BY <1>1, <1>9, TicketDraftConsistent
<1>10. CASE ToolFails
  BY <1>1, <1>10, ToolConsistent DEF ToolFails
<1>11. CASE GenerateLocally \/ GenerateRemotely \/ GenerateFails
  BY <1>1, <1>11, GenerateConsistent
<1>12. CASE Finish
  BY <1>1, <1>12, FinishConsistent
<1>13. CASE JudgeFails
  BY <1>1, <1>13, JudgeConsistent
<1>14. CASE UNCHANGED vars
  <2>1. UNCHANGED <<results, toolRun, stage, prompt, marked, citations, confidence, risk>>
    BY <1>14 DEF vars, answer
  <2>2. BuildCitations(results)' = BuildCitations(results)
    BY <2>1 DEF BuildCitations, Firsts, Selections, Arrangements, Listings
  <2> QED
    BY <1>1, <2>1, <2>2 DEF Consistent, Descending, AnswerMatchesEvidence, NumberedBy
<1> QED
  BY <1>2, <1>3, <1>4, <1>5, <1>6, <1>7, <1>8, <1>9, <1>10, <1>11, <1>12, <1>13,
     <1>14 DEF Next

\* Prompt, answer text and citations agree in every answer.
THEOREM AnswerAlwaysMatchesEvidence == Spec => []AnswerMatchesEvidence
<1>1. Spec => []Consistent
  BY InitConsistent, StepConsistent, PTL DEF Spec
<1>2. Consistent => AnswerMatchesEvidence
  BY DEF Consistent
<1> QED
  BY <1>1, <1>2, PTL

-----------------------------------------------------------------------------
(* The searches.                                                           *)

\* The chunks of a list of hits, and none of them listed twice.
Listed(list) == {list[i].chunk : i \in DOMAIN list}
Apart(list) == \A i, j \in DOMAIN list : i # j => list[i].chunk # list[j].chunk

\* The list holds chunks of S, none twice, and all of them unless it reaches the limit.
Fills(list, S, limit) ==
  /\ Apart(list) /\ Listed(list) \subseteq S
  /\ Len(list) >= limit \/ S \subseteq Listed(list)

\* A list without repetitions is as long as its set of chunks is large.
LEMMA CountApart ==
  ASSUME NEW list \in Seq(Hits), Apart(list)
  PROVE  IsFiniteSet(Listed(list)) /\ Cardinality(Listed(list)) = Len(list)
<1> DEFINE f == [i \in 1 .. Len(list) |-> list[i].chunk]
<1>1. Len(list) \in Nat /\ DOMAIN list = 1 .. Len(list)
  OBVIOUS
<1>2. \A i, j \in 1 .. Len(list) : f[i] = f[j] => i = j
  BY <1>1 DEF Apart
<1>3. f \in [1 .. Len(list) -> Listed(list)]
      /\ \A c \in Listed(list) : \E i \in 1 .. Len(list) : f[i] = c
  BY <1>1 DEF Listed
<1> HIDE DEF f
<1>4. f \in Bijection(1 .. Len(list), Listed(list))
  BY <1>2, <1>3 DEF Bijection, Injection, Surjection, IsInjective
<1>5. ExistsBijection(1 .. Len(list), Listed(list))
  BY <1>4 DEF ExistsBijection
<1>6. IsFiniteSet(1 .. Len(list))
  BY <1>1, FS_Interval
<1> QED
  BY <1>1, <1>5, <1>6, FS_CountingElements, FS_Bijection

\* The ranking lists S so that R never puts an element before an earlier one.
RanksBy(ranking, S, R) ==
  /\ ranking \in Listings(S)
  /\ \A i, j \in DOMAIN ranking : i < j =>
       ranking[i] # ranking[j] /\ <<ranking[j], ranking[i]>> \notin R

\* The beginning of a ranking: elements of S, none twice, all of them unless it reaches the
\* limit, and whatever R puts before one of them is there, and before it.
TopOf(top, S, R, limit) ==
  /\ top \in Seq(S) /\ Len(top) \in Nat /\ DOMAIN top = 1 .. Len(top)
  /\ \A i, j \in DOMAIN top : i # j => top[i] # top[j]
  /\ Len(top) <= limit
  /\ Len(top) >= limit \/ \A c \in S : \E i \in DOMAIN top : top[i] = c
  /\ \A c \in S, i \in DOMAIN top : <<c, top[i]>> \in R =>
       \E j \in DOMAIN top : j < i /\ top[j] = c

\* An initial segment of a ranking is its top.
LEMMA TopOfRanking ==
  ASSUME NEW S, S \subseteq Chunks, NEW R, \A c \in S : <<c, c>> \notin R,
         NEW ranking, RanksBy(ranking, S, R), NEW limit \in Nat
  PROVE  TopOf(UpTo(ranking, limit), S, R, limit)
<1> DEFINE top == UpTo(ranking, limit)
<1>0. /\ ranking \in Listings(S)
      /\ \A i, j \in DOMAIN ranking : i < j =>
           ranking[i] # ranking[j] /\ <<ranking[j], ranking[i]>> \notin R
  BY DEF RanksBy
<1>1. IsFiniteSet(S)
  BY ChunksAreFinite
<1>2. PICK n \in Nat : n = Len(ranking) /\ DOMAIN ranking = 1 .. n /\ ranking \in Seq(S)
  BY <1>0, <1>1, ListingIsSequence
<1>2a. \A i, j \in DOMAIN ranking : i < j => ranking[i] # ranking[j]
  BY <1>0
<1>3. \A c \in S : \E k \in 1 .. n : ranking[k] = c
  <2>1. \A c \in S : \E k \in DOMAIN ranking : ranking[k] = c
    BY <1>0, <1>1, <1>2a, ListingIsOnto
  <2> QED
    BY <1>2, <2>1
<1>4. /\ top \in Seq(S) /\ Len(top) \in Nat /\ DOMAIN top = 1 .. Len(top)
      /\ Len(top) = IF limit <= n THEN limit ELSE n
      /\ \A i \in DOMAIN top : i \in 1 .. n /\ top[i] = ranking[i]
  BY <1>2, UpToKeeps, UpToReaches
<1> HIDE DEF top
<1>5. \A i, j \in 1 .. n : i # j => ranking[i] # ranking[j]
  <2>1. \A i, j \in 1 .. n : i < j => ranking[i] # ranking[j]
    BY <1>2, <1>2a
  <2> QED
    BY <2>1
<1>6. \A i, j \in DOMAIN top : i # j => top[i] # top[j]
  BY <1>4, <1>5
<1>7. Len(top) >= limit \/ \A c \in S : \E i \in DOMAIN top : top[i] = c
  <2>1. SUFFICES ASSUME ~(limit <= n), NEW c \in S PROVE \E i \in DOMAIN top : top[i] = c
    BY <1>4
  <2>2. Len(top) = n
    BY <1>4, <2>1
  <2> QED
    BY <1>3, <1>4, <2>2
<1>8. ASSUME NEW c \in S, NEW i \in DOMAIN top, <<c, top[i]>> \in R
      PROVE  \E j \in DOMAIN top : j < i /\ top[j] = c
  <2>1. PICK k \in 1 .. n : ranking[k] = c
    BY <1>3
  <2>2. i \in 1 .. n /\ top[i] = ranking[i]
    BY <1>4
  <2>3. k # i
    BY <1>8, <2>1, <2>2
  <2>4. ~(i < k)
    BY <1>0, <1>2, <1>8, <2>1, <2>2
  <2>5. k < i /\ k \in DOMAIN top
    BY <1>4, <2>2, <2>3, <2>4
  <2> QED
    BY <1>4, <2>1, <2>5
<1>9. Len(top) <= limit
  BY <1>2, <1>4
<1> QED
  BY <1>4, <1>6, <1>7, <1>8, <1>9 DEF TopOf, top

-----------------------------------------------------------------------------
\* The chunks a request is about, and those of them that share words with the question.
Found == {c \in snapshot : Matches(c)}
Worded == {c \in snapshot : Matches(c) /\ signals[c].lexical > 0}

\* Vector search is over: the most similar chunks of those the request is about.
DenseFound ==
  /\ Fills(dense, Found, Pool)
  /\ \A i \in DOMAIN dense : dense[i].score = signals[dense[i].chunk].dense
  /\ \A c \in Found, i \in DOMAIN dense : MoreSimilar(c, dense[i].chunk) =>
       \E j \in DOMAIN dense : j < i /\ dense[j].chunk = c

\* Lexical search is over.
LexicalFound ==
  /\ Fills(lexical, Worded, Pool)
  /\ \A i \in DOMAIN lexical : lexical[i].score = signals[lexical[i].chunk].lexical
  /\ \A c \in Worded, i \in DOMAIN lexical : BetterLexicalMatch(c, lexical[i].chunk) =>
       \E j \in DOMAIN lexical : j < i /\ lexical[j].chunk = c

\* Signals are numbers.
LEMMA SignalsAreNumbers ==
  ASSUME Shapes
  PROVE  \A c \in Chunks : /\ signals[c].dense \in Int
                           /\ signals[c].lexical \in Nat
                           /\ signals[c].bonus \in Nat
BY ShapeAssumption DEF Shapes

\* A search of the vectors in memory leaves the best matching chunks of the index.
LEMMA MemoryFinds ==
  ASSUME Evidence, SearchMemory, indexed = snapshot
  PROVE  DenseFound'
<1> DEFINE R == {p \in Chunks \X Chunks : MoreSimilar(p[1], p[2])}
<1>1. PICK ranking \in Listings(Found) :
        /\ dense' = DenseHits(UpTo(ranking, Pool))
        /\ \A i, j \in DOMAIN ranking : i < j =>
             ranking[i] # ranking[j] /\ ~MoreSimilar(ranking[j], ranking[i])
  BY DEF SearchMemory, Arrangements, Found
<1>2. Found \subseteq Chunks /\ Pool \in Nat
  BY LimitsAreNumbers DEF Evidence, Shapes, Found
<1>3. \A c, d \in Chunks : <<c, d>> \in R <=> MoreSimilar(c, d)
  OBVIOUS
<1>4. \A c \in Chunks : ~MoreSimilar(c, c)
  BY SignalsAreNumbers DEF Evidence, MoreSimilar
<1> HIDE DEF R
<1>5. RanksBy(ranking, Found, R)
  <2>1. IsFiniteSet(Found)
    BY <1>2, ChunksAreFinite
  <2>2. \A i \in DOMAIN ranking : ranking[i] \in Chunks
    BY <1>2, <2>1, ListingIsSequence
  <2> QED
    BY <1>1, <1>3, <2>2 DEF RanksBy
<1> DEFINE top == UpTo(ranking, Pool)
<1>6. /\ top \in Seq(Found) /\ Len(top) \in Nat /\ DOMAIN top = 1 .. Len(top)
      /\ \A i, j \in DOMAIN top : i # j => top[i] # top[j]
      /\ Len(top) >= Pool \/ \A c \in Found : \E i \in DOMAIN top : top[i] = c
      /\ \A c \in Found, i \in DOMAIN top : <<c, top[i]>> \in R =>
           \E j \in DOMAIN top : j < i /\ top[j] = c
  <2>1. \A c \in Found : <<c, c>> \notin R
    BY <1>2, <1>3, <1>4
  <2>2. TopOf(top, Found, R, Pool)
    BY <1>2, <1>5, <2>1, TopOfRanking
  <2> QED
    BY <2>2 DEF TopOf
<1>7. dense' = [i \in DOMAIN top |-> [chunk |-> top[i], score |-> signals[top[i]].dense]]
  BY <1>1 DEF DenseHits
<1> HIDE DEF top
<1>8. /\ DOMAIN dense' = 1 .. Len(top) /\ Len(dense') = Len(top)
      /\ \A i \in 1 .. Len(top) : /\ dense'[i].chunk = top[i]
                                  /\ dense'[i].score = signals[top[i]].dense
                                  /\ top[i] \in Found
  BY <1>6, <1>7
<1>9. \A c \in Found, i \in DOMAIN top : MoreSimilar(c, top[i]) =>
        \E j \in DOMAIN top : j < i /\ top[j] = c
  BY <1>2, <1>3, <1>6, <1>8
<1>10. /\ Found' = Found /\ Pool' = Pool /\ UNCHANGED signals
       /\ \A c, d : MoreSimilar(c, d)' <=> MoreSimilar(c, d)
  BY DEF SearchMemory, Found, Matches, Pool, Wanted, MoreSimilar, world
<1>11. Apart(dense)' /\ Listed(dense)' \subseteq Found
       /\ (Len(dense') >= Pool \/ Found \subseteq Listed(dense)')
  BY <1>6, <1>8 DEF Apart, Listed
<1>12. Fills(dense, Found, Pool)'
  BY <1>10, <1>11 DEF Fills
<1>13. \A i \in DOMAIN dense' : dense'[i].score = signals[dense'[i].chunk].dense
  BY <1>8
<1>14. \A c \in Found, i \in DOMAIN dense' : MoreSimilar(c, dense'[i].chunk) =>
         \E j \in DOMAIN dense' : j < i /\ dense'[j].chunk = c
  BY <1>6, <1>8, <1>9
<1> QED
  BY <1>10, <1>12, <1>13, <1>14 DEF DenseFound

\* A lexical search leaves the best matching chunks with a word of the question.
LEMMA LexicalFinds ==
  ASSUME Evidence, SearchLexical
  PROVE  LexicalFound'
<1> DEFINE R == {p \in Chunks \X Chunks : BetterLexicalMatch(p[1], p[2])}
<1>1. PICK ranking \in Listings(Worded) :
        /\ lexical' = [i \in DOMAIN UpTo(ranking, Pool) |->
                        [chunk |-> UpTo(ranking, Pool)[i],
                         score |-> signals[UpTo(ranking, Pool)[i]].lexical]]
        /\ \A i, j \in DOMAIN ranking : i < j =>
             ranking[i] # ranking[j] /\ ~BetterLexicalMatch(ranking[j], ranking[i])
  BY DEF SearchLexical, Arrangements, Worded
<1>2. Worded \subseteq Chunks /\ Pool \in Nat
  BY LimitsAreNumbers DEF Evidence, Shapes, Worded
<1>3. \A c, d \in Chunks : <<c, d>> \in R <=> BetterLexicalMatch(c, d)
  OBVIOUS
<1>4. \A c \in Chunks : ~BetterLexicalMatch(c, c)
  BY SignalsAreNumbers, ShapeAssumption DEF Evidence, BetterLexicalMatch, Chunks
<1> HIDE DEF R
<1>5. RanksBy(ranking, Worded, R)
  <2>1. IsFiniteSet(Worded)
    BY <1>2, ChunksAreFinite
  <2>2. \A i \in DOMAIN ranking : ranking[i] \in Chunks
    BY <1>2, <2>1, ListingIsSequence
  <2> QED
    BY <1>1, <1>3, <2>2 DEF RanksBy
<1> DEFINE top == UpTo(ranking, Pool)
<1>6. /\ top \in Seq(Worded) /\ Len(top) \in Nat /\ DOMAIN top = 1 .. Len(top)
      /\ \A i, j \in DOMAIN top : i # j => top[i] # top[j]
      /\ Len(top) >= Pool \/ \A c \in Worded : \E i \in DOMAIN top : top[i] = c
      /\ \A c \in Worded, i \in DOMAIN top : <<c, top[i]>> \in R =>
           \E j \in DOMAIN top : j < i /\ top[j] = c
  <2>1. \A c \in Worded : <<c, c>> \notin R
    BY <1>2, <1>3, <1>4
  <2>2. TopOf(top, Worded, R, Pool)
    BY <1>2, <1>5, <2>1, TopOfRanking
  <2> QED
    BY <2>2 DEF TopOf
<1>7. lexical' = [i \in DOMAIN top |-> [chunk |-> top[i], score |-> signals[top[i]].lexical]]
  BY <1>1
<1> HIDE DEF top
<1>8. /\ DOMAIN lexical' = 1 .. Len(top) /\ Len(lexical') = Len(top)
      /\ \A i \in 1 .. Len(top) : /\ lexical'[i].chunk = top[i]
                                  /\ lexical'[i].score = signals[top[i]].lexical
                                  /\ top[i] \in Worded
  BY <1>6, <1>7
<1>9. \A c \in Worded, i \in DOMAIN top : BetterLexicalMatch(c, top[i]) =>
        \E j \in DOMAIN top : j < i /\ top[j] = c
  BY <1>2, <1>3, <1>6, <1>8
<1>10. /\ Worded' = Worded /\ Pool' = Pool /\ UNCHANGED signals
       /\ \A c, d : BetterLexicalMatch(c, d)' <=> BetterLexicalMatch(c, d)
  BY DEF SearchLexical, Worded, Matches, Pool, Wanted, BetterLexicalMatch, world
<1>11. Apart(lexical)' /\ Listed(lexical)' \subseteq Worded
       /\ (Len(lexical') >= Pool \/ Worded \subseteq Listed(lexical)')
  BY <1>6, <1>8 DEF Apart, Listed
<1>12. Fills(lexical, Worded, Pool)'
  BY <1>10, <1>11 DEF Fills
<1>13. \A i \in DOMAIN lexical' : lexical'[i].score = signals[lexical'[i].chunk].lexical
  BY <1>8
<1>14. \A c \in Worded, i \in DOMAIN lexical' : BetterLexicalMatch(c, lexical'[i].chunk) =>
         \E j \in DOMAIN lexical' : j < i /\ lexical'[j].chunk = c
  BY <1>6, <1>8, <1>9
<1> QED
  BY <1>10, <1>12, <1>13, <1>14 DEF LexicalFound

-----------------------------------------------------------------------------
(* The scan of a collection, page by page.                                 *)

\* Points of the collection that come before all others.
Leading(P) == P \subseteq indexed /\ \A c \in P, d \in indexed \ P : RanksBefore(c, d)

\* The scan has read the points P and kept those that match.
Scanned(P) ==
  /\ Leading(P) /\ Cardinality(P) = offset
  /\ Listed(dense) = {c \in P : Matches(c)}
  /\ \A i, j \in DOMAIN dense : i < j => RanksBefore(dense[i].chunk, dense[j].chunk)
  /\ \A i \in DOMAIN dense : dense[i].score = signals[dense[i].chunk].dense
  /\ Len(dense) < Pool

\* All points, in the order of the collection.
PointsInOrder(r) ==
  /\ r \in Seq(Chunks) /\ Len(r) \in Nat /\ DOMAIN r = 1 .. Len(r)
  /\ Len(r) = Cardinality(indexed)
  /\ \A i \in 1 .. Len(r) : r[i] \in indexed
  /\ \A c \in indexed : \E i \in 1 .. Len(r) : r[i] = c
  /\ \A i, j \in 1 .. Len(r) : i < j => RanksBefore(r[i], r[j])

\* The order of the points has no ties: points of one score go by their number.
LEMMA RanksAreStrict ==
  ASSUME Shapes, NEW c \in Chunks, NEW d \in Chunks
  PROVE  /\ ~(RanksBefore(c, d) /\ RanksBefore(d, c))
         /\ c # d => RanksBefore(c, d) \/ RanksBefore(d, c)
<1>1. signals[c].dense \in Int /\ signals[d].dense \in Int /\ c \in Int /\ d \in Int
  BY SignalsAreNumbers, ShapeAssumption DEF Chunks
<1> QED
  BY <1>1 DEF RanksBefore, MoreSimilar

\* As many points that come first are the same points.
LEMMA LeadersAgree ==
  ASSUME Shapes, NEW P, NEW Q, Leading(P), Leading(Q), Cardinality(P) = Cardinality(Q)
  PROVE  P = Q
<1>1. P \subseteq Chunks /\ Q \subseteq Chunks
  BY DEF Shapes, Leading
<1>2. IsFiniteSet(P) /\ IsFiniteSet(Q)
  BY <1>1, ChunksAreFinite
<1>3. P \subseteq Q \/ Q \subseteq P
  <2>1. SUFFICES ASSUME NEW x \in P \ Q, NEW y \in Q \ P PROVE FALSE
    OBVIOUS
  <2>2. RanksBefore(x, y) /\ RanksBefore(y, x)
    BY DEF Leading
  <2>3. x \in Chunks /\ y \in Chunks
    BY <1>1
  <2> QED
    BY <2>2, <2>3, RanksAreStrict
<1> QED
  BY <1>2, <1>3, FS_Subset

\* The ranking a page is cut from is the order of all points.
LEMMA RankingIsOrder ==
  ASSUME Shapes, NEW r \in Listings(indexed),
         \A i, j \in DOMAIN r : i < j => r[i] # r[j] /\ ~RanksBefore(r[j], r[i])
  PROVE  PointsInOrder(r)
<1>1. indexed \subseteq Chunks /\ IsFiniteSet(indexed)
  BY ChunksAreFinite DEF Shapes
<1>2. /\ Cardinality(indexed) \in Nat /\ DOMAIN r = 1 .. Cardinality(indexed)
      /\ r \in Seq(indexed) /\ \A k \in DOMAIN r : r[k] \in indexed
  BY <1>1, ListingIsSequence
<1>3. /\ r \in Seq(Chunks) /\ Len(r) = Cardinality(indexed)
  BY <1>1, <1>2
<1>4. \A i, j \in DOMAIN r : i < j => r[i] # r[j]
  OBVIOUS
<1>5. \A c \in indexed : \E i \in DOMAIN r : r[i] = c
  BY <1>1, <1>4, ListingIsOnto
<1>6. ASSUME NEW i \in DOMAIN r, NEW j \in DOMAIN r, i < j
      PROVE  RanksBefore(r[i], r[j])
  <2>1. r[i] \in Chunks /\ r[j] \in Chunks
    BY <1>1, <1>2
  <2> QED
    BY <1>6, <2>1, RanksAreStrict
<1> QED
  BY <1>2, <1>3, <1>5, <1>6 DEF PointsInOrder

\* The first points of the order.
Segment(r, k) == {r[i] : i \in 1 .. k}

\* The first points of the order lead, and are as many as their number says.
LEMMA SegmentLeads ==
  ASSUME Shapes, NEW r, PointsInOrder(r), NEW k \in 0 .. Len(r)
  PROVE  /\ Leading(Segment(r, k)) /\ Cardinality(Segment(r, k)) = k
         /\ k = Len(r) => Segment(r, k) = indexed
<1>1. /\ Len(r) \in Nat /\ k \in Nat /\ k <= Len(r)
      /\ \A i \in 1 .. Len(r) : r[i] \in indexed
      /\ \A c \in indexed : \E i \in 1 .. Len(r) : r[i] = c
      /\ \A i, j \in 1 .. Len(r) : i < j => RanksBefore(r[i], r[j])
  BY DEF PointsInOrder
<1>2. \A i \in 1 .. Len(r) : r[i] \in Chunks
  BY <1>1 DEF Shapes
<1>3. \A i, j \in 1 .. Len(r) : i < j => r[i] # r[j]
  BY <1>1, <1>2, RanksAreStrict
<1>4. Leading(Segment(r, k))
  <2>1. Segment(r, k) \subseteq indexed
    BY <1>1 DEF Segment
  <2>2. ASSUME NEW c \in Segment(r, k), NEW d \in indexed \ Segment(r, k)
        PROVE  RanksBefore(c, d)
    <3>1. PICK i \in 1 .. k : r[i] = c
      BY DEF Segment
    <3>2. PICK j \in 1 .. Len(r) : r[j] = d
      BY <1>1
    <3>3. ~(j <= k)
      BY <1>1, <3>2 DEF Segment
    <3> QED
      BY <1>1, <3>1, <3>2, <3>3
  <2> QED
    BY <2>1, <2>2 DEF Leading
<1>5. Cardinality(Segment(r, k)) = k
  <2> DEFINE f == [i \in 1 .. k |-> r[i]]
  <2>1. \A i, j \in 1 .. k : f[i] = f[j] => i = j
    <3>1. \A i, j \in 1 .. k : i < j => r[i] # r[j]
      BY <1>1, <1>3
    <3> QED
      BY <1>1, <3>1
  <2>2. f \in [1 .. k -> Segment(r, k)]
        /\ \A c \in Segment(r, k) : \E i \in 1 .. k : f[i] = c
    BY DEF Segment
  <2> HIDE DEF f
  <2>3. f \in Bijection(1 .. k, Segment(r, k))
    BY <2>1, <2>2 DEF Bijection, Injection, Surjection, IsInjective
  <2>4. ExistsBijection(1 .. k, Segment(r, k))
    BY <2>3 DEF ExistsBijection
  <2> QED
    BY <1>1, <2>4, FS_CountingElements
<1>6. k = Len(r) => Segment(r, k) = indexed
  BY <1>1 DEF Segment
<1> QED
  BY <1>4, <1>5, <1>6

-----------------------------------------------------------------------------
\* A page of the order: where it begins and ends.
LEMMA PageIsSlice ==
  ASSUME Shapes, NEW r, PointsInOrder(r), offset <= Len(r)
  PROVE  \E last \in offset .. Len(r) :
           /\ Page(r) \in Seq(Chunks) /\ Len(Page(r)) = last - offset
           /\ DOMAIN Page(r) = 1 .. last - offset
           /\ \A i \in 1 .. last - offset : Page(r)[i] = r[offset + i]
           /\ Len(Page(r)) < PageSize => last = Len(r)
<1> DEFINE last == Min({offset + PageSize, Len(r)})
<1>1. offset \in Nat /\ PageSize \in Nat /\ r \in Seq(Chunks) /\ Len(r) \in Nat
  BY LimitsAreNumbers DEF Shapes, PointsInOrder
<1>2. last = IF offset + PageSize <= Len(r) THEN offset + PageSize ELSE Len(r)
  <2>1. CASE offset + PageSize <= Len(r)
    BY <1>1, <2>1 DEF Min
  <2>2. CASE offset + PageSize > Len(r)
    BY <1>1, <2>2 DEF Min
  <2> QED
    BY <1>1, <2>1, <2>2
<1>3. Page(r) = SubSeq(r, offset + 1, last)
  BY DEF Page
<1> HIDE DEF last
<1>4. last \in offset .. Len(r)
  BY <1>1, <1>2
<1>5. /\ SubSeq(r, offset + 1, last) \in Seq(Chunks)
      /\ Len(SubSeq(r, offset + 1, last)) = last - offset
      /\ \A i \in 1 .. last - offset : SubSeq(r, offset + 1, last)[i] = r[offset + i]
  BY <1>1, <1>4
<1>6. Page(r) \in Seq(Chunks) /\ Len(Page(r)) = last - offset
      /\ \A i \in 1 .. last - offset : Page(r)[i] = r[offset + i]
  BY <1>3, <1>5
<1>7. DOMAIN Page(r) = 1 .. last - offset
  BY <1>6
<1>8. last - offset < PageSize => last = Len(r)
  BY <1>1, <1>2, <1>4
<1> QED
  BY <1>4, <1>6, <1>7, <1>8

\* The list of the scan with what a page adds to it.
Extended(all, P) ==
  /\ all \in Seq(Hits)
  /\ Listed(all) = {c \in P : Matches(c)}
  /\ \A i, j \in DOMAIN all : i < j => RanksBefore(all[i].chunk, all[j].chunk)
  /\ \A i \in DOMAIN all : all[i].score = signals[all[i].chunk].dense

\* A page after the pages read so far extends what they hold, in order and without repeats.
LEMMA PageExtends ==
  ASSUME Evidence, NEW r, PointsInOrder(r), Scanned(Segment(r, offset)),
         offset <= Len(r), NEW last \in offset .. Len(r),
         Page(r) \in Seq(Chunks), DOMAIN Page(r) = 1 .. last - offset,
         \A i \in 1 .. last - offset : Page(r)[i] = r[offset + i],
         NEW found \in Selections(Page(r), {i \in DOMAIN Page(r) : Matches(Page(r)[i])})
  PROVE  Extended(dense \o DenseHits(found), Segment(r, last))
<1> DEFINE I == {i \in DOMAIN Page(r) : Matches(Page(r)[i])}
           hits == DenseHits(found)
           all == dense \o hits
<1>1. /\ offset \in Nat /\ Len(r) \in Nat /\ last \in Nat /\ offset <= last /\ last <= Len(r)
      /\ \A i \in 1 .. Len(r) : r[i] \in Chunks
      /\ \A i, j \in 1 .. Len(r) : i < j => RanksBefore(r[i], r[j])
  BY DEF Evidence, Shapes, PointsInOrder
<1>2. PICK l : GoesUp(l, I) /\ found = [k \in DOMAIN l |-> Page(r)[l[k]]]
  <2>1. I \subseteq DOMAIN Page(r) /\ last - offset \in Nat
    BY <1>1
  <2> HIDE DEF I
  <2>2. found \in Selections(Page(r), I)
    BY DEF I
  <2> QED
    BY <2>1, <2>2, SelectionInOrder
<1> PICK m \in Nat : m = Cardinality(I)
  BY <1>2 DEF GoesUp
<1>3. /\ DOMAIN l = 1 .. m
      /\ \A k \in 1 .. m : l[k] \in 1 .. last - offset /\ Matches(r[offset + l[k]])
      /\ \A i, j \in 1 .. m : i < j => l[i] < l[j]
      /\ \A x \in 1 .. last - offset : Matches(r[offset + x]) => \E k \in 1 .. m : l[k] = x
  BY <1>2 DEF GoesUp
<1>4. /\ DOMAIN found = 1 .. m
      /\ \A k \in 1 .. m : found[k] = r[offset + l[k]] /\ found[k] \in Chunks
  BY <1>1, <1>2, <1>3
<1>5. found \in Seq(Chunks)
  <2>1. found \in [1 .. m -> Chunks]
    BY <1>2, <1>3, <1>4
  <2> QED
    BY <2>1, TableOf
<1>6. hits \in Seq(Hits)
  BY <1>3, <1>4, <1>5, DenseHitsMatch DEF Evidence
<1>7. /\ DOMAIN hits = 1 .. m /\ Len(hits) = m
      /\ \A k \in 1 .. m : /\ hits[k].chunk = r[offset + l[k]]
                           /\ hits[k].score = signals[hits[k].chunk].dense
  <2>1. hits = [k \in 1 .. m |-> [chunk |-> found[k], score |-> signals[found[k]].dense]]
    BY <1>4 DEF DenseHits
  <2> HIDE DEF hits
  <2> QED
    BY <1>4, <2>1, <1>6
<1>8. /\ dense \in Seq(Hits) /\ DOMAIN dense = 1 .. Len(dense) /\ Len(dense) \in Nat
      /\ Listed(dense) = {c \in Segment(r, offset) : Matches(c)}
      /\ \A i, j \in DOMAIN dense : i < j => RanksBefore(dense[i].chunk, dense[j].chunk)
      /\ \A i \in DOMAIN dense : dense[i].score = signals[dense[i].chunk].dense
  BY DEF Evidence, Shapes, Scanned
<1> DEFINE d == Len(dense)
<1> HIDE DEF hits, I
<1>9. /\ all \in Seq(Hits) /\ DOMAIN all = 1 .. d + m
      /\ \A i \in 1 .. d : all[i] = dense[i]
      /\ \A k \in 1 .. m : all[d + k] = hits[k]
      /\ \A i \in 1 .. d + m : i \in 1 .. d \/ \E k \in 1 .. m : i = d + k
  <2>1. dense \in Seq(Hits) /\ Len(hits) = m
    BY <1>7, <1>8
  <2>2. all \in Seq(Hits) /\ Joins(all, dense, hits)
    BY <1>6, <2>1, Joined
  <2> HIDE DEF all
  <2> QED
    BY <2>1, <2>2 DEF Joins
<1>10. \A i \in 1 .. d + m : i \in 1 .. d \/ \E k \in 1 .. m : i = d + k
  BY <1>9
<1> HIDE DEF all
<1>11. Listed(all) = {c \in Segment(r, last) : Matches(c)}
  <2>1. ASSUME NEW c \in Listed(all) PROVE c \in Segment(r, last) /\ Matches(c)
    <3>1. PICK i \in 1 .. d + m : all[i].chunk = c
      BY <1>9 DEF Listed
    <3>2. CASE i \in 1 .. d
      <4>1. c \in Listed(dense)
        BY <1>8, <1>9, <3>1, <3>2 DEF Listed
      <4> QED
        BY <1>1, <1>8, <4>1 DEF Segment
    <3>3. CASE \E k \in 1 .. m : i = d + k
      <4> PICK k \in 1 .. m : i = d + k
        BY <3>3
      <4>1. c = r[offset + l[k]]
        BY <1>7, <1>9, <3>1
      <4>2. offset + l[k] \in 1 .. last /\ Matches(c)
        BY <1>1, <1>3, <4>1
      <4> QED
        BY <4>1, <4>2 DEF Segment
    <3> QED
      BY <1>10, <3>2, <3>3
  <2>2. ASSUME NEW c \in Segment(r, last), Matches(c) PROVE c \in Listed(all)
    <3>1. PICK i \in 1 .. last : r[i] = c
      BY DEF Segment
    <3>2. CASE i <= offset
      <4>1. c \in Listed(dense)
        BY <1>1, <1>8, <2>2, <3>1, <3>2 DEF Segment
      <4>2. PICK k \in 1 .. d : dense[k].chunk = c
        BY <1>8, <4>1 DEF Listed
      <4>3. k \in DOMAIN all /\ all[k].chunk = c
        BY <1>8, <1>9, <4>2
      <4> QED
        BY <4>3 DEF Listed
    <3>3. CASE ~(i <= offset)
      <4>1. i - offset \in 1 .. last - offset /\ offset + (i - offset) = i
        BY <1>1, <3>3
      <4>2. PICK k \in 1 .. m : l[k] = i - offset
        BY <1>3, <2>2, <3>1, <4>1
      <4>3. d + k \in DOMAIN all /\ all[d + k].chunk = c
        BY <1>7, <1>8, <1>9, <3>1, <4>1, <4>2
      <4> QED
        BY <4>3 DEF Listed
    <3> QED
      BY <3>2, <3>3
  <2> QED
    BY <2>1, <2>2
<1>12. ASSUME NEW i \in DOMAIN all, NEW j \in DOMAIN all, i < j
       PROVE  RanksBefore(all[i].chunk, all[j].chunk)
  <2>1. CASE i \in 1 .. d /\ j \in 1 .. d
    BY <1>8, <1>9, <1>12, <2>1
  <2>2. CASE i \in 1 .. d /\ \E k \in 1 .. m : j = d + k
    <3>1. PICK k \in 1 .. m : j = d + k
      BY <2>2
    <3>2. all[i].chunk \in Segment(r, offset)
      BY <1>8, <1>9, <2>2 DEF Listed
    <3>3. PICK p \in 1 .. offset : r[p] = all[i].chunk
      BY <3>2 DEF Segment
    <3>4. all[j].chunk = r[offset + l[k]]
      BY <1>7, <1>9, <3>1
    <3>5. p \in 1 .. Len(r) /\ offset + l[k] \in 1 .. Len(r) /\ p < offset + l[k]
      BY <1>1, <1>3
    <3> QED
      BY <1>1, <3>3, <3>4, <3>5
  <2>3. CASE (\E k \in 1 .. m : i = d + k) /\ (\E k \in 1 .. m : j = d + k)
    <3>1. PICK p \in 1 .. m, q \in 1 .. m : i = d + p /\ j = d + q
      BY <2>3
    <3>2. p < q
      BY <1>8, <1>12, <3>1
    <3>3. all[i].chunk = r[offset + l[p]] /\ all[j].chunk = r[offset + l[q]]
      BY <1>7, <1>9, <3>1
    <3>4. l[p] < l[q]
      BY <1>3, <3>2
    <3>5. /\ offset + l[p] \in 1 .. Len(r) /\ offset + l[q] \in 1 .. Len(r)
          /\ offset + l[p] < offset + l[q]
      BY <1>1, <1>3, <3>4
    <3> QED
      BY <1>1, <3>3, <3>5
  <2>4. CASE (\E k \in 1 .. m : i = d + k) /\ j \in 1 .. d
    BY <1>8, <1>12, <2>4
  <2> QED
    BY <1>9, <1>10, <2>1, <2>2, <2>3, <2>4
<1>13. \A i \in DOMAIN all : all[i].score = signals[all[i].chunk].dense
  <2>1. SUFFICES ASSUME NEW i \in 1 .. d + m PROVE all[i].score = signals[all[i].chunk].dense
    BY <1>9
  <2>2. CASE i \in 1 .. d
    BY <1>8, <1>9, <2>2
  <2>3. CASE \E k \in 1 .. m : i = d + k
    BY <1>7, <1>9, <2>3
  <2> QED
    BY <1>10, <2>2, <2>3
<1> QED
  BY <1>9, <1>11, <1>12, <1>13 DEF Extended, all, hits

\* A page either leaves the scan unfinished, with more points read, or completes it.
LEMMA PageScans ==
  ASSUME Evidence, ReadPage, NEW P, Scanned(P), indexed = snapshot
  PROVE  /\ stage' = "dense" => (\E Q : Scanned(Q))'
         /\ stage' # "dense" => DenseFound'
<1>1. PICK r \in Listings(indexed) :
        /\ \A i, j \in DOMAIN r : i < j => r[i] # r[j] /\ ~RanksBefore(r[j], r[i])
        /\ \E found \in Selections(Page(r), {i \in DOMAIN Page(r) : Matches(Page(r)[i])}) :
             dense' = UpTo(dense \o DenseHits(found), Pool)
        /\ IF Len(dense') = Pool \/ Len(Page(r)) < PageSize
             THEN stage' = AfterDense /\ UNCHANGED offset
             ELSE offset' = offset + Len(Page(r)) /\ UNCHANGED stage
  BY DEF ReadPage, Arrangements
<1>2. Shapes
  BY DEF Evidence
<1>3. PointsInOrder(r)
  BY <1>1, <1>2, RankingIsOrder
<1>4. /\ offset \in Nat /\ Len(r) \in Nat /\ Len(r) = Cardinality(indexed)
      /\ Pool \in Nat /\ indexed \subseteq Chunks
  BY <1>2, <1>3, LimitsAreNumbers DEF Shapes, PointsInOrder
<1>5. offset <= Len(r)
  <2>1. P \subseteq indexed /\ Cardinality(P) = offset
    BY DEF Scanned, Leading
  <2>2. IsFiniteSet(indexed)
    BY <1>4, ChunksAreFinite
  <2> QED
    BY <1>4, <2>1, <2>2, FS_Subset
<1>6. Scanned(Segment(r, offset))
  <2>1. Leading(Segment(r, offset)) /\ Cardinality(Segment(r, offset)) = offset
    BY <1>2, <1>3, <1>4, <1>5, SegmentLeads
  <2>2. Leading(P) /\ Cardinality(P) = offset
    BY DEF Scanned
  <2>3. P = Segment(r, offset)
    BY <1>2, <2>1, <2>2, LeadersAgree
  <2> QED
    BY <2>3
<1>7. PICK last \in offset .. Len(r) :
        /\ Page(r) \in Seq(Chunks) /\ Len(Page(r)) = last - offset
        /\ DOMAIN Page(r) = 1 .. last - offset
        /\ \A i \in 1 .. last - offset : Page(r)[i] = r[offset + i]
        /\ Len(Page(r)) < PageSize => last = Len(r)
  BY <1>2, <1>3, <1>5, PageIsSlice
<1>8. PICK found \in Selections(Page(r), {i \in DOMAIN Page(r) : Matches(Page(r)[i])}) :
        dense' = UpTo(dense \o DenseHits(found), Pool)
  BY <1>1
<1> DEFINE all == dense \o DenseHits(found)
<1>9. Extended(all, Segment(r, last))
  BY <1>3, <1>5, <1>6, <1>7, PageExtends
<1>10. dense' = UpTo(all, Pool)
  BY <1>8
<1> HIDE DEF all
<1>11. /\ all \in Seq(Hits)
       /\ Listed(all) = {c \in Segment(r, last) : Matches(c)}
       /\ \A i, j \in DOMAIN all : i < j => RanksBefore(all[i].chunk, all[j].chunk)
       /\ \A i \in DOMAIN all : all[i].score = signals[all[i].chunk].dense
  BY <1>9 DEF Extended
<1>12. Len(all) \in Nat /\ DOMAIN all = 1 .. Len(all) /\ \A i \in DOMAIN all : all[i] \in Hits
  BY <1>11
<1>13. /\ dense' \in Seq(Hits) /\ Len(dense') \in Nat /\ DOMAIN dense' = 1 .. Len(dense')
       /\ Len(dense') = IF Pool <= Len(all) THEN Pool ELSE Len(all)
       /\ \A i \in DOMAIN dense' : i \in DOMAIN all /\ dense'[i] = all[i]
  BY <1>4, <1>10, <1>11, UpToKeeps, UpToReaches
<1>13a. \/ Pool <= Len(all) /\ Len(dense') = Pool
        \/ Len(all) < Pool /\ Len(dense') = Len(all)
  <2>1. Pool <= Len(all) \/ Len(all) < Pool
    BY <1>4, <1>12
  <2> QED
    BY <1>13, <2>1
<1>14. /\ Leading(Segment(r, last)) /\ Cardinality(Segment(r, last)) = last
       /\ last = Len(r) => Segment(r, last) = indexed
       /\ last \in Nat
  BY <1>2, <1>3, <1>4, <1>7, SegmentLeads
<1>15. /\ Pool' = Pool /\ UNCHANGED <<signals, snapshot, indexed, request>>
       /\ \A c : Matches(c)' <=> Matches(c)
       /\ \A c, d : RanksBefore(c, d)' <=> RanksBefore(c, d)
       /\ \A c, d : MoreSimilar(c, d)' <=> MoreSimilar(c, d)
  BY DEF ReadPage, Matches, Pool, Wanted, MoreSimilar, RanksBefore, world, remote
<1>16. \A i, j \in DOMAIN dense' : i < j => RanksBefore(dense'[i].chunk, dense'[j].chunk)
  BY <1>11, <1>13
<1>17. \A i \in DOMAIN dense' : dense'[i].score = signals[dense'[i].chunk].dense
  BY <1>11, <1>13
<1>18. ASSUME stage' = "dense" PROVE (\E Q : Scanned(Q))'
  <2>1. Len(dense') # Pool /\ offset' = last
    BY <1>1, <1>4, <1>7, <1>14, <1>18 DEF AfterDense
  <2>2. Len(dense') = Len(all) /\ Len(dense') < Pool
    BY <1>13a, <2>1
  <2>3. Listed(dense') = Listed(all)
    BY <1>12, <1>13, <2>2 DEF Listed
  <2>4. Leading(Segment(r, last))'
    BY <1>14, <1>15 DEF Leading, Segment
  <2>5. Listed(dense)' = {c \in Segment(r, last) : Matches(c)}'
    BY <1>11, <1>15, <2>3 DEF Listed, Segment
  <2>6. Scanned(Segment(r, last))'
    BY <1>14, <1>15, <1>16, <1>17, <2>1, <2>2, <2>4, <2>5 DEF Scanned, Segment
  <2> QED
    BY <2>6
<1>19. ASSUME stage' # "dense" PROVE DenseFound'
  <2>1. Len(dense') = Pool \/ Len(Page(r)) < PageSize
    BY <1>1, <1>19 DEF ReadPage
  <2>2. Segment(r, last) \subseteq indexed
    BY <1>14 DEF Leading
  <2>3. Listed(all) \subseteq Found
    BY <1>11, <2>2 DEF Found
  <2>4. Listed(dense') \subseteq Listed(all)
    BY <1>13 DEF Listed
  <2>5. Apart(dense')
    <3>1. \A i \in DOMAIN dense' : dense'[i].chunk \in Chunks
      BY <1>12, <1>13 DEF Hits
    <3>2. \A i, j \in DOMAIN dense' : i < j => dense'[i].chunk # dense'[j].chunk
      BY <1>2, <1>16, <3>1, RanksAreStrict
    <3> QED
      BY <1>13, <3>2 DEF Apart
  <2>6. Len(dense') >= Pool \/ Found \subseteq Listed(dense')
    <3>1. SUFFICES ASSUME ~(Len(dense') >= Pool) PROVE Found \subseteq Listed(dense')
      OBVIOUS
    <3>2. last = Len(r) /\ Len(dense') = Len(all)
      BY <1>4, <1>7, <1>13a, <2>1, <3>1
    <3>3. Listed(dense') = Listed(all)
      BY <1>12, <1>13, <3>2 DEF Listed
    <3> QED
      BY <1>11, <1>14, <3>2, <3>3 DEF Found
  <2>7. ASSUME NEW c \in Found, NEW i \in DOMAIN dense', MoreSimilar(c, dense'[i].chunk)
        PROVE  \E j \in DOMAIN dense' : j < i /\ dense'[j].chunk = c
    <3> DEFINE d == dense'[i].chunk
    <3>1. i \in DOMAIN all /\ d = all[i].chunk /\ d \in Chunks /\ c \in Chunks /\ c \in indexed
      BY <1>4, <1>12, <1>13 DEF Found, Hits
    <3>2. d \in Segment(r, last)
      BY <1>11, <3>1 DEF Listed
    <3>3. RanksBefore(c, d)
      BY <2>7 DEF RanksBefore
    <3> HIDE DEF d
    <3>4. c \in Segment(r, last)
      BY <1>2, <1>14, <3>1, <3>2, <3>3, RanksAreStrict DEF Leading
    <3>5. PICK j \in DOMAIN all : all[j].chunk = c
      BY <1>11, <2>7, <3>4 DEF Listed, Found
    <3>6. ~(i < j) /\ i # j
      BY <1>2, <1>11, <3>1, <3>3, <3>5, RanksAreStrict
    <3>7. j < i /\ j \in DOMAIN dense'
      BY <1>12, <1>13, <3>1, <3>5, <3>6
    <3> QED
      BY <1>13, <3>5, <3>7
  <2>8. Found' = Found
    BY <1>15 DEF Found
  <2>9. Fills(dense, Found, Pool)'
    BY <1>15, <2>3, <2>4, <2>5, <2>6, <2>8 DEF Fills, Apart, Listed
  <2> QED
    BY <1>15, <1>17, <2>7, <2>8, <2>9 DEF DenseFound
<1> QED
  BY <1>18, <1>19

-----------------------------------------------------------------------------
(* From retrieval to results.                                              *)

\* What retrieval has found when reranking begins.
Retrieved ==
  /\ IF Uses("dense") THEN DenseFound ELSE dense = <<>>
  /\ IF Uses("lexical") THEN LexicalFound ELSE lexical = <<>>
  /\ deployment.retriever \in {"dense", "lexical", "hybrid"}

-----------------------------------------------------------------------------
\* The place of a chunk in a list without repetitions.
LEMMA PlaceOf ==
  ASSUME NEW list \in Seq(Hits), Apart(list), NEW i \in DOMAIN list
  PROVE  At(list, list[i].chunk) = {i}
BY DEF At, Apart

\* What a chunk gets from a list grows with its place there.
LEMMA ContributionGrows ==
  ASSUME NEW list \in Seq(Hits), Apart(list), NEW weight \in Nat, NEW c, NEW d,
         d \in Listed(list) => \E i, j \in DOMAIN list :
           list[i].chunk = c /\ list[j].chunk = d /\ list[j].score <= list[i].score
  PROVE  /\ Contribution(list, c, weight) \in Nat /\ Contribution(list, d, weight) \in Nat
         /\ Contribution(list, d, weight) <= Contribution(list, c, weight)
<1>1. \A x : x \notin Listed(list) => At(list, x) = {}
  BY DEF At, Listed
<1>2. \A x : x \in Listed(list) => \E i \in DOMAIN list : list[i].chunk = x /\ At(list, x) = {i}
  BY PlaceOf DEF Listed
<1>3. \A x : Contribution(list, x, weight) \in Nat
  <2>1. SUFFICES ASSUME NEW x PROVE Contribution(list, x, weight) \in Nat
    OBVIOUS
  <2>2. CASE x \notin Listed(list)
    BY <1>1, <2>2, ContributionOfOne
  <2>3. CASE x \in Listed(list)
    BY <1>2, <2>3, ContributionOfOne
  <2> QED
    BY <2>2, <2>3
<1>4. CASE d \notin Listed(list)
  <2>1. Contribution(list, d, weight) = 0
    BY <1>1, <1>4, ContributionOfOne
  <2>2. Contribution(list, c, weight) \in Nat
    BY <1>3
  <2> QED
    BY <2>1, <2>2
<1>5. CASE d \in Listed(list)
  <2>1. PICK i \in DOMAIN list, j \in DOMAIN list :
          list[i].chunk = c /\ list[j].chunk = d /\ list[j].score <= list[i].score
    BY <1>5
  <2>2. At(list, c) = {i} /\ At(list, d) = {j}
    BY <2>1, PlaceOf
  <2>3. /\ Contribution(list, c, weight) = (weight * Normalized(list, i)) \div 10
        /\ Contribution(list, d, weight) = (weight * Normalized(list, j)) \div 10
    BY <2>2, ContributionOfOne
  <2>4. /\ Normalized(list, i) \in Nat /\ Normalized(list, j) \in Nat
        /\ Normalized(list, j) <= Normalized(list, i)
    BY <2>1, NormalizedOrder
  <2>5. \A x, y \in Nat :
          x <= y => weight * x \in Nat /\ weight * y \in Nat /\ weight * x <= weight * y
    OBVIOUS
  <2>6. /\ weight * Normalized(list, i) \in Nat /\ weight * Normalized(list, j) \in Nat
        /\ weight * Normalized(list, j) <= weight * Normalized(list, i)
    BY <2>4, <2>5
  <2>7. (weight * Normalized(list, j)) \div 10 <= (weight * Normalized(list, i)) \div 10
    BY <2>6, DivisionKeepsOrder
  <2> QED
    BY <1>3, <2>3, <2>7
<1> QED
  BY <1>4, <1>5

\* The least of a set of positions.
LEMMA LeastPosition ==
  ASSUME NEW S \in SUBSET Nat, NEW x \in S
  PROVE  Min(S) \in S /\ \A y \in S : Min(S) <= y
<1>1. \E m \in S : \A y \in S : m <= y
  BY LeastOf
<1> QED
  BY <1>1 DEF Min

\* A chunk that is ahead of another in both lists is fused before it.
LEMMA FusionAgrees ==
  ASSUME Evidence, Retrieved, deployment.retriever = "hybrid",
         NEW c \in Found, NEW d \in Found, Outranks(c, d),
         d \in Listed(dense) \/ d \in Listed(lexical)
  PROVE  /\ c \in Listed(dense) \/ c \in Listed(lexical)
         /\ c # d /\ FusesBefore(c, d) /\ Combined(c) >= Combined(d)
<1>1. Uses("dense") /\ Uses("lexical")
  BY DEF Uses
<1>2. /\ dense \in Seq(Hits) /\ lexical \in Seq(Hits) /\ Apart(dense) /\ Apart(lexical)
      /\ DenseFound /\ LexicalFound
  BY <1>1 DEF Evidence, Shapes, Retrieved, DenseFound, LexicalFound, Fills
<1>3. /\ signals[c].dense > signals[d].dense
      /\ \/ signals[c].lexical > signals[d].lexical
         \/ signals[c].lexical = 0 /\ signals[d].lexical = 0
      /\ c \in Chunks /\ d \in Chunks
  BY <1>1 DEF Outranks, Evidence, Shapes, Found
<1>4. /\ signals[c].dense \in Int /\ signals[d].dense \in Int
      /\ signals[c].lexical \in Nat /\ signals[d].lexical \in Nat
  BY <1>3, SignalsAreNumbers DEF Evidence
<1>5. ASSUME NEW j \in DOMAIN dense, dense[j].chunk = d
      PROVE  \E i \in DOMAIN dense : i < j /\ dense[i].chunk = c /\ dense[j].score <= dense[i].score
  <2>1. PICK i \in DOMAIN dense : i < j /\ dense[i].chunk = c
    BY <1>2, <1>3, <1>5 DEF DenseFound, MoreSimilar
  <2>2. dense[i].score = signals[c].dense /\ dense[j].score = signals[d].dense
    BY <1>2, <1>5, <2>1 DEF DenseFound
  <2> QED
    BY <1>3, <1>4, <2>1, <2>2
<1>6. ASSUME NEW j \in DOMAIN lexical, lexical[j].chunk = d
      PROVE  \E i \in DOMAIN lexical :
               i < j /\ lexical[i].chunk = c /\ lexical[j].score <= lexical[i].score
  <2>1. d \in Worded
    BY <1>2, <1>6 DEF LexicalFound, Fills, Listed
  <2>2. signals[c].lexical > signals[d].lexical /\ c \in Worded
    BY <1>3, <1>4, <2>1 DEF Worded, Found
  <2>3. PICK i \in DOMAIN lexical : i < j /\ lexical[i].chunk = c
    BY <1>2, <1>6, <2>2 DEF LexicalFound, BetterLexicalMatch
  <2>4. lexical[i].score = signals[c].lexical /\ lexical[j].score = signals[d].lexical
    BY <1>2, <1>6, <2>3 DEF LexicalFound
  <2> QED
    BY <1>4, <2>2, <2>3, <2>4
<1>7. /\ Contribution(dense, c, DenseWeight) \in Nat
      /\ Contribution(dense, d, DenseWeight) \in Nat
      /\ Contribution(dense, d, DenseWeight) <= Contribution(dense, c, DenseWeight)
  <2>1. d \in Listed(dense) => \E i, j \in DOMAIN dense :
          dense[i].chunk = c /\ dense[j].chunk = d /\ dense[j].score <= dense[i].score
    BY <1>5 DEF Listed
  <2> QED
    BY <1>2, <2>1, ContributionGrows DEF DenseWeight
<1>8. /\ Contribution(lexical, c, LexicalWeight) \in Nat
      /\ Contribution(lexical, d, LexicalWeight) \in Nat
      /\ Contribution(lexical, d, LexicalWeight) <= Contribution(lexical, c, LexicalWeight)
  <2>1. d \in Listed(lexical) => \E i, j \in DOMAIN lexical :
          lexical[i].chunk = c /\ lexical[j].chunk = d /\ lexical[j].score <= lexical[i].score
    BY <1>6 DEF Listed
  <2> QED
    BY <1>2, <2>1, ContributionGrows DEF LexicalWeight
<1>9. Combined(c) \in Nat /\ Combined(d) \in Nat /\ Combined(c) >= Combined(d)
  BY <1>7, <1>8 DEF Combined
<1>10. c # d
  BY <1>3, <1>4
<1> DEFINE both == dense \o lexical
           n == Len(dense)
<1>11. both \in Seq(Hits) /\ Joins(both, dense, lexical)
  BY <1>2, Joined
<1>12. c \in Listed(dense) \/ c \in Listed(lexical)
  BY <1>5, <1>6 DEF Listed
<1> HIDE DEF both
<1>13. /\ n \in Nat /\ DOMAIN dense = 1 .. n /\ DOMAIN lexical = 1 .. Len(lexical)
       /\ Len(lexical) \in Nat /\ DOMAIN both = 1 .. n + Len(lexical)
       /\ \A i \in 1 .. n : both[i] = dense[i]
       /\ \A k \in 1 .. Len(lexical) : both[n + k] = lexical[k]
       /\ \A i \in 1 .. n + Len(lexical) : i \in 1 .. n \/ \E k \in 1 .. Len(lexical) : i = n + k
  BY <1>11 DEF Joins
<1>14. /\ At(both, c) \in SUBSET Nat /\ At(both, d) \in SUBSET Nat
       /\ \A x, i : i \in At(both, x) <=> i \in DOMAIN both /\ both[i].chunk = x
  BY <1>13 DEF At
<1>15. ASSUME NEW j \in At(both, d) PROVE \E i \in At(both, c) : i < j
  <2>1. j \in 1 .. n + Len(lexical) /\ both[j].chunk = d
    BY <1>13, <1>14
  <2>2. CASE j \in 1 .. n
    <3>1. PICK i \in 1 .. n : i < j /\ dense[i].chunk = c
      BY <1>5, <1>13, <2>1, <2>2
    <3>2. i \in 1 .. n + Len(lexical) /\ both[i].chunk = c
      BY <1>13, <3>1
    <3> QED
      BY <1>13, <1>14, <3>1, <3>2
  <2>3. CASE \E k \in 1 .. Len(lexical) : j = n + k
    <3>1. PICK k \in 1 .. Len(lexical) : j = n + k /\ lexical[k].chunk = d
      BY <1>13, <2>1, <2>3
    <3>2. PICK i \in 1 .. Len(lexical) : i < k /\ lexical[i].chunk = c
      BY <1>6, <1>13, <3>1
    <3>3. n + i \in 1 .. n + Len(lexical) /\ both[n + i].chunk = c /\ n + i < j
      BY <1>13, <3>1, <3>2
    <3> QED
      BY <1>13, <1>14, <3>3
  <2> QED
    BY <1>13, <2>1, <2>2, <2>3
<1>16. At(both, d) # {}
  <2>1. CASE d \in Listed(dense)
    <3>1. PICK j \in 1 .. n : dense[j].chunk = d
      BY <1>13, <2>1 DEF Listed
    <3>2. j \in 1 .. n + Len(lexical) /\ both[j].chunk = d
      BY <1>13, <3>1
    <3> QED
      BY <1>13, <1>14, <3>2
  <2>2. CASE d \in Listed(lexical)
    <3>1. PICK j \in 1 .. Len(lexical) : lexical[j].chunk = d
      BY <1>13, <2>2 DEF Listed
    <3>2. n + j \in 1 .. n + Len(lexical) /\ both[n + j].chunk = d
      BY <1>13, <3>1
    <3> QED
      BY <1>13, <1>14, <3>2
  <2> QED
    BY <2>1, <2>2
<1>17. Min(At(both, c)) < Min(At(both, d))
  <2>1. Min(At(both, d)) \in At(both, d)
    BY <1>14, <1>16, LeastPosition
  <2>2. PICK i \in At(both, c) : i < Min(At(both, d))
    BY <1>15, <2>1
  <2>3. Min(At(both, c)) \in At(both, c) /\ Min(At(both, c)) <= i
    BY <1>14, LeastPosition
  <2>4. i \in Nat /\ Min(At(both, c)) \in Nat /\ Min(At(both, d)) \in Nat
    BY <1>14, <2>1, <2>3
  <2> QED
    BY <2>2, <2>3, <2>4
<1>18. FusesBefore(c, d)
  BY <1>9, <1>17 DEF FusesBefore, both
<1> QED
  BY <1>9, <1>10, <1>12, <1>18

\* What outranks a chunk of the list stands before it, with no smaller score.
Leads(list) ==
  \A c \in Retrievable, i \in DOMAIN list : Outranks(c, list[i].chunk) =>
    \E j \in DOMAIN list : j < i /\ list[j].chunk = c /\ list[j].score >= list[i].score

\* The limits of a request are positive, the narrower ones first.
LEMMA LimitsArePositive ==
  ASSUME Shapes
  PROVE  /\ request.topK \in Nat \ {0} /\ Wanted \in Nat \ {0} /\ Pool \in Nat \ {0}
         /\ request.topK <= Wanted /\ Wanted <= Pool
         /\ deployment.retriever # "hybrid" => Pool = Wanted
<1>1. \A a, b \in Nat \ {0} : a * b \in Nat \ {0} /\ a <= a * b
  OBVIOUS
<1>2. request.topK \in Nat \ {0}
  BY LimitAssumption DEF Shapes
<1>3. Wanted \in Nat \ {0} /\ request.topK <= Wanted
  BY <1>1, <1>2, LimitAssumption DEF Wanted
<1>4. Pool \in Nat \ {0} /\ Wanted <= Pool /\ (deployment.retriever # "hybrid" => Pool = Wanted)
  <2>1. Wanted * PoolFactor \in Nat \ {0} /\ Wanted <= Wanted * PoolFactor
    BY <1>1, <1>3, LimitAssumption
  <2> QED
    BY <1>3, <2>1 DEF Pool
<1> QED
  BY <1>2, <1>3, <1>4

\* What a retriever can find: with vectors every matching chunk, else those with a word.
LEMMA WhatIsRetrievable ==
  /\ Uses("dense") => Retrievable = Found
  /\ ~Uses("dense") => Retrievable = Worded
BY DEF Retrievable, Found, Worded

\* With one retriever the candidates are its list.
LEMMA PlainCandidates ==
  ASSUME Evidence, Retrieved, deployment.retriever # "hybrid", NEW candidates \in Candidates
  PROVE  Fills(candidates, Retrievable, Wanted) /\ Leads(candidates)
<1>1. candidates = dense \o lexical /\ Pool = Wanted
  BY LimitsArePositive DEF Candidates, Evidence
<1>2. dense \in Seq(Hits) /\ lexical \in Seq(Hits)
  BY DEF Evidence, Shapes
<1>3. \A list \in Seq(Hits) : list \o <<>> = list /\ <<>> \o list = list
  OBVIOUS
<1>4. snapshot \subseteq Chunks
  BY DEF Evidence, Shapes
<1>5. CASE deployment.retriever = "dense"
  <2>1. Uses("dense") /\ ~Uses("lexical")
    BY <1>5 DEF Uses
  <2>2. candidates = dense /\ DenseFound /\ Retrievable = Found
    BY <1>1, <1>2, <1>3, <2>1, WhatIsRetrievable DEF Retrieved
  <2>3. Fills(dense, Found, Wanted)
    BY <1>1, <2>2 DEF DenseFound
  <2>4. ASSUME NEW c \in Found, NEW i \in DOMAIN dense, Outranks(c, dense[i].chunk)
        PROVE  \E j \in DOMAIN dense :
                 j < i /\ dense[j].chunk = c /\ dense[j].score >= dense[i].score
    <3>1. signals[c].dense > signals[dense[i].chunk].dense
      BY <2>1, <2>4 DEF Outranks
    <3>2. PICK j \in DOMAIN dense : j < i /\ dense[j].chunk = c
      BY <2>2, <3>1 DEF DenseFound, MoreSimilar
    <3>3. dense[j].score = signals[c].dense /\ dense[i].score = signals[dense[i].chunk].dense
      BY <2>2, <3>2 DEF DenseFound
    <3>4. dense[i].chunk \in Chunks /\ c \in Chunks
      BY <1>4 DEF Evidence, AllMatch, Found
    <3>5. signals[c].dense \in Int /\ signals[dense[i].chunk].dense \in Int
      BY <3>4, SignalsAreNumbers DEF Evidence
    <3> QED
      BY <3>1, <3>2, <3>3, <3>5
  <2> QED
    BY <2>2, <2>3, <2>4 DEF Leads
<1>6. CASE deployment.retriever = "lexical"
  <2>1. Uses("lexical") /\ ~Uses("dense")
    BY <1>6 DEF Uses
  <2>2. candidates = lexical /\ LexicalFound /\ Retrievable = Worded
    BY <1>1, <1>2, <1>3, <2>1, WhatIsRetrievable DEF Retrieved
  <2>3. Fills(lexical, Worded, Wanted)
    BY <1>1, <2>2 DEF LexicalFound
  <2>4. ASSUME NEW c \in Worded, NEW i \in DOMAIN lexical, Outranks(c, lexical[i].chunk)
        PROVE  \E j \in DOMAIN lexical :
                 j < i /\ lexical[j].chunk = c /\ lexical[j].score >= lexical[i].score
    <3>1. signals[c].lexical > signals[lexical[i].chunk].lexical
      BY <2>1, <2>4 DEF Outranks
    <3>2. PICK j \in DOMAIN lexical : j < i /\ lexical[j].chunk = c
      BY <2>2, <3>1 DEF LexicalFound, BetterLexicalMatch
    <3>3. /\ lexical[j].score = signals[c].lexical
          /\ lexical[i].score = signals[lexical[i].chunk].lexical
      BY <2>2, <3>2 DEF LexicalFound
    <3>4. lexical[i].chunk \in Chunks /\ c \in Chunks
      BY <1>4 DEF Evidence, AllMatch, Worded
    <3>5. signals[c].lexical \in Int /\ signals[lexical[i].chunk].lexical \in Int
      BY <3>4, SignalsAreNumbers DEF Evidence
    <3> QED
      BY <3>1, <3>2, <3>3, <3>5
  <2> QED
    BY <2>2, <2>3, <2>4 DEF Leads
<1> QED
  BY <1>5, <1>6 DEF Retrieved

\* Fusion loses no chunk below its limit, and inverts no agreement.
LEMMA FusedCandidates ==
  ASSUME Evidence, Retrieved, deployment.retriever = "hybrid", NEW candidates \in Candidates
  PROVE  Fills(candidates, Retrievable, Wanted) /\ Leads(candidates)
<1> DEFINE both == dense \o lexical
           C == {both[i].chunk : i \in DOMAIN both}
           R == {p \in Chunks \X Chunks : FusesBefore(p[1], p[2])}
<1>1. /\ Uses("dense") /\ Uses("lexical") /\ Retrievable = Found
      /\ DenseFound /\ LexicalFound
  BY WhatIsRetrievable DEF Uses, Retrieved
<1>2. /\ dense \in Seq(Hits) /\ lexical \in Seq(Hits)
      /\ \A c \in Found : c \in Chunks
      /\ Listed(dense) \subseteq Found /\ Listed(lexical) \subseteq Found
      /\ Apart(dense)
  BY <1>1 DEF Evidence, Shapes, DenseFound, LexicalFound, Fills, Found, Worded
<1>3. PICK ranking \in Listings(C) :
        /\ candidates = [i \in DOMAIN UpTo(ranking, Wanted) |->
                          [chunk |-> UpTo(ranking, Wanted)[i],
                           score |-> Combined(UpTo(ranking, Wanted)[i])]]
        /\ \A i, j \in DOMAIN ranking : i < j =>
             ranking[i] # ranking[j] /\ ~FusesBefore(ranking[j], ranking[i])
  BY DEF Candidates, Fused, Arrangements
<1>4. both \in Seq(Hits) /\ Joins(both, dense, lexical)
  BY <1>2, Joined
<1>5. Wanted \in Nat \ {0} /\ Pool \in Nat /\ Wanted <= Pool
  BY LimitsArePositive DEF Evidence
<1> HIDE DEF both
<1>6. \A c : c \in C <=> c \in Listed(dense) \/ c \in Listed(lexical)
  <2>1. ASSUME NEW c \in C PROVE c \in Listed(dense) \/ c \in Listed(lexical)
    <3>1. PICK i \in DOMAIN both : both[i].chunk = c
      OBVIOUS
    <3>2. CASE i \in 1 .. Len(dense)
      <4>1. i \in DOMAIN dense /\ dense[i].chunk = c
        BY <1>4, <3>1, <3>2 DEF Joins
      <4> QED
        BY <4>1 DEF Listed
    <3>3. CASE \E k \in 1 .. Len(lexical) : i = Len(dense) + k
      <4>1. PICK k \in DOMAIN lexical : lexical[k].chunk = c
        BY <1>4, <3>1, <3>3 DEF Joins
      <4> QED
        BY <4>1 DEF Listed
    <3> QED
      BY <1>4, <3>2, <3>3 DEF Joins
  <2>2. ASSUME NEW c \in Listed(dense) PROVE c \in C
    <3>1. PICK i \in DOMAIN dense : dense[i].chunk = c
      BY DEF Listed
    <3>2. i \in DOMAIN both /\ both[i].chunk = c
      BY <1>4, <3>1 DEF Joins
    <3> QED
      BY <3>2
  <2>3. ASSUME NEW c \in Listed(lexical) PROVE c \in C
    <3>1. PICK i \in DOMAIN lexical : lexical[i].chunk = c
      BY DEF Listed
    <3>2. Len(dense) + i \in DOMAIN both /\ both[Len(dense) + i].chunk = c
      BY <1>4, <3>1 DEF Joins
    <3> QED
      BY <3>2
  <2> QED
    BY <2>1, <2>2, <2>3
<1>7. \A c \in C : ~FusesBefore(c, c)
  <2>1. SUFFICES ASSUME NEW c \in C PROVE ~FusesBefore(c, c)
    OBVIOUS
  <2>2. Combined(c) \in Int
    BY CombinedIsInteger
  <2>3. At(both, c) \in SUBSET Nat /\ At(both, c) # {}
    BY <1>4 DEF At, Joins
  <2>4. Min(At(both, c)) \in Nat
    BY <2>3, LeastPosition
  <2> QED
    BY <2>2, <2>4 DEF FusesBefore, both
<1>8. \A c, d \in C : <<c, d>> \in R <=> FusesBefore(c, d)
  BY <1>2, <1>6
<1>9. C \subseteq Chunks /\ C \subseteq Found
  BY <1>2, <1>6
<1> HIDE DEF C, R
<1>10. RanksBy(ranking, C, R)
  <2>1. IsFiniteSet(C)
    BY <1>9, ChunksAreFinite
  <2>2. \A i \in DOMAIN ranking : ranking[i] \in C
    BY <2>1, ListingIsSequence
  <2> QED
    BY <1>3, <1>8, <2>2 DEF RanksBy
<1> DEFINE top == UpTo(ranking, Wanted)
<1>11. TopOf(top, C, R, Wanted)
  <2>1. \A c \in C : <<c, c>> \notin R
    BY <1>7, <1>8
  <2> QED
    BY <1>5, <1>9, <1>10, <2>1, TopOfRanking
<1>12. candidates = [i \in DOMAIN top |-> [chunk |-> top[i], score |-> Combined(top[i])]]
  BY <1>3
<1> HIDE DEF top
<1>13. /\ Len(top) \in Nat /\ DOMAIN top = 1 .. Len(top)
       /\ \A i \in 1 .. Len(top) : top[i] \in C
       /\ \A i, j \in 1 .. Len(top) : i # j => top[i] # top[j]
       /\ Len(top) >= Wanted \/ \A c \in C : \E i \in 1 .. Len(top) : top[i] = c
       /\ \A c \in C, i \in 1 .. Len(top) : <<c, top[i]>> \in R =>
            \E j \in 1 .. Len(top) : j < i /\ top[j] = c
  BY <1>11 DEF TopOf
<1>14. /\ DOMAIN candidates = 1 .. Len(top) /\ Len(candidates) = Len(top)
       /\ \A i \in 1 .. Len(top) : /\ candidates[i].chunk = top[i]
                                   /\ candidates[i].score = Combined(top[i])
  BY <1>12, <1>13
<1>15. candidates \in Seq(Hits)
  BY CandidatesMatch
<1>16. Apart(candidates) /\ Listed(candidates) \subseteq C
  BY <1>13, <1>14 DEF Apart, Listed
<1>17. Len(candidates) >= Wanted \/ Found \subseteq Listed(candidates)
  <2>1. SUFFICES ASSUME ~(Len(candidates) >= Wanted) PROVE Found \subseteq Listed(candidates)
    OBVIOUS
  <2>2. \A c \in C : \E i \in 1 .. Len(top) : top[i] = c
    BY <1>13, <1>14, <2>1
  <2>3. C \subseteq Listed(candidates)
    BY <1>14, <2>2 DEF Listed
  <2>4. Listed(dense) \subseteq Listed(candidates)
    BY <1>6, <2>3
  <2>5. Len(dense) <= Len(candidates)
    <3>1. IsFiniteSet(Listed(candidates)) /\ Cardinality(Listed(candidates)) = Len(candidates)
      BY <1>15, <1>16, CountApart
    <3>2. Cardinality(Listed(dense)) = Len(dense)
      BY <1>2, CountApart
    <3> QED
      BY <2>4, <3>1, <3>2, FS_Subset
  <2>6. Len(dense) \in Nat /\ Len(candidates) \in Nat
    BY <1>2, <1>15
  <2>7. ~(Len(dense) >= Pool)
    BY <1>5, <2>1, <2>5, <2>6
  <2> QED
    BY <1>1, <2>4, <2>7 DEF DenseFound, Fills
<1>18. Fills(candidates, Retrievable, Wanted)
  BY <1>1, <1>9, <1>16, <1>17 DEF Fills
<1>19. ASSUME NEW c \in Found, NEW i \in DOMAIN candidates, Outranks(c, candidates[i].chunk)
       PROVE  \E j \in DOMAIN candidates :
                j < i /\ candidates[j].chunk = c /\ candidates[j].score >= candidates[i].score
  <2>1. i \in 1 .. Len(top) /\ candidates[i].chunk = top[i] /\ top[i] \in C /\ top[i] \in Found
    BY <1>9, <1>13, <1>14
  <2>2. /\ c \in Listed(dense) \/ c \in Listed(lexical)
        /\ FusesBefore(c, top[i]) /\ Combined(c) >= Combined(top[i])
    BY <1>6, <1>19, <2>1, FusionAgrees
  <2>3. c \in C /\ <<c, top[i]>> \in R
    BY <1>6, <1>8, <2>1, <2>2
  <2>4. PICK j \in 1 .. Len(top) : j < i /\ top[j] = c
    BY <1>13, <2>1, <2>3
  <2> QED
    BY <1>14, <2>1, <2>2, <2>4
<1> QED
  BY <1>1, <1>18, <1>19 DEF Leads

\* Reranking fills the answer up to its limit and keeps the agreements.
LEMMA RerankKeeps ==
  ASSUME Evidence, Retrieved, Rerank
  PROVE  /\ Apart(results')
         /\ Len(results') = Min({request.topK, Cardinality(Retrievable)})
         /\ \A c \in Retrievable : \A i \in DOMAIN results' :
              Outranks(c, results'[i].chunk) => \E j \in 1 .. i - 1 : results'[j].chunk = c
<1>1. PICK candidates, order : Reranks(candidates, order)
  BY RerankOrders
<1> DEFINE n == Len(candidates)
           judged == Judged(candidates)
           all == [k \in 1 .. n |-> judged[order[k]]]
<1>2. /\ candidates \in Candidates /\ candidates \in Seq(Hits)
      /\ judged \in Seq(Hits) /\ Len(judged) = n
      /\ order \in [1 .. n -> 1 .. n]
      /\ results' = UpTo(all, request.topK)
  BY <1>1 DEF Reranks
<1>3. \A x \in 1 .. n : \E k \in 1 .. n : order[k] = x
  BY <1>1 DEF Reranks
<1>4. \A i, j \in 1 .. n : i < j =>
        /\ order[i] # order[j]
        /\ \/ judged[order[i]].score > judged[order[j]].score
           \/ judged[order[i]].score = judged[order[j]].score /\ order[i] < order[j]
  BY <1>1 DEF Reranks
<1>5. n \in Nat /\ DOMAIN candidates = 1 .. n
  BY <1>2
<1>6. Fills(candidates, Retrievable, Wanted) /\ Leads(candidates)
  BY <1>2, PlainCandidates, FusedCandidates
<1>7. \A i \in 1 .. n : candidates[i].chunk \in Chunks /\ candidates[i].score \in Int
  <2>1. \A h \in Hits : h.chunk \in Chunks /\ h.score \in Int
    BY DEF Hits
  <2> QED
    BY <1>2, <1>5, <2>1
<1>8. \A i \in 1 .. n :
        /\ judged[i].chunk = candidates[i].chunk
        /\ judged[i].score = candidates[i].score + signals[candidates[i].chunk].bonus
  BY <1>2, <1>5, JudgedKeeps
<1> HIDE DEF n, judged
<1>9. all \in [1 .. n -> Hits] /\ \A k \in 1 .. n : all[k] = judged[order[k]]
  BY <1>2
<1> HIDE DEF all
<1>10. all \in Seq(Hits) /\ Len(all) = n
  BY <1>5, <1>9, TableOf
<1>11. request.topK \in Nat \ {0} /\ Wanted \in Nat \ {0} /\ request.topK <= Wanted
  BY LimitsArePositive DEF Evidence
<1>12. /\ Len(results') \in Nat /\ DOMAIN results' = 1 .. Len(results')
       /\ Len(results') = IF request.topK <= n THEN request.topK ELSE n
       /\ \A i \in DOMAIN results' : i \in 1 .. n /\ results'[i] = judged[order[i]]
  <2>1. /\ Len(UpTo(all, request.topK)) \in Nat
        /\ DOMAIN UpTo(all, request.topK) = 1 .. Len(UpTo(all, request.topK))
        /\ Len(UpTo(all, request.topK)) =
             IF request.topK <= Len(all) THEN request.topK ELSE Len(all)
    BY <1>10, <1>11, UpToReaches
  <2>2. \A i \in DOMAIN UpTo(all, request.topK) :
          i \in DOMAIN all /\ UpTo(all, request.topK)[i] = all[i]
    BY <1>10, <1>11, UpToKeeps
  <2> QED
    BY <1>2, <1>9, <1>10, <2>1, <2>2
<1>13. Apart(results')
  <2>1. \A i, j \in 1 .. n : i # j => order[i] # order[j]
    BY <1>4, <1>5
  <2>2. \A i \in DOMAIN results' :
          results'[i].chunk = candidates[order[i]].chunk /\ order[i] \in 1 .. n
    BY <1>2, <1>8, <1>12
  <2>3. \A i, j \in 1 .. n : i # j => candidates[i].chunk # candidates[j].chunk
    BY <1>5, <1>6 DEF Fills, Apart
  <2> QED
    BY <1>12, <2>1, <2>2, <2>3 DEF Apart
<1>14. Len(results') = Min({request.topK, Cardinality(Retrievable)})
  <2>1. /\ IsFiniteSet(Listed(candidates)) /\ Cardinality(Listed(candidates)) = n
        /\ Listed(candidates) \subseteq Retrievable
        /\ n >= Wanted \/ Retrievable \subseteq Listed(candidates)
    BY <1>2, <1>6, CountApart DEF Fills, n
  <2>2. IsFiniteSet(Retrievable)
    BY ChunksAreFinite DEF Retrievable, Evidence, Shapes
  <2>3. Cardinality(Retrievable) \in Nat /\ n <= Cardinality(Retrievable)
    BY <2>1, <2>2, FS_Subset, FS_CardinalityType
  <2>4. n >= Wanted \/ Cardinality(Retrievable) = n
    <3>1. CASE Retrievable \subseteq Listed(candidates)
      <4>1. Retrievable = Listed(candidates)
        BY <2>1, <3>1
      <4> QED
        BY <2>1, <4>1
    <3> QED
      BY <2>1, <3>1
  <2> DEFINE size == Cardinality(Retrievable)
  <2> HIDE DEF size
  <2>5. size \in Nat /\ n <= size /\ (n >= Wanted \/ size = n)
    BY <2>3, <2>4 DEF size
  <2>6. Min({request.topK, size}) = IF request.topK <= size THEN request.topK ELSE size
    <3>1. CASE request.topK <= size
      BY <1>11, <2>5, <3>1 DEF Min
    <3>2. CASE request.topK > size
      BY <1>11, <2>5, <3>2 DEF Min
    <3> QED
      BY <1>11, <2>5, <3>1, <3>2
  <2>7. Len(results') = Min({request.topK, size})
    <3>1. CASE n >= Wanted
      BY <1>5, <1>11, <1>12, <2>5, <2>6, <3>1
    <3>2. CASE size = n
      BY <1>12, <2>6, <3>2
    <3> QED
      BY <2>5, <3>1, <3>2
  <2> QED
    BY <2>7 DEF size
<1>15. ASSUME NEW c \in Retrievable, NEW i \in DOMAIN results', Outranks(c, results'[i].chunk)
       PROVE  \E j \in 1 .. i - 1 : results'[j].chunk = c
  <2> DEFINE p == order[i]
             d == candidates[p].chunk
  <2>1. i \in 1 .. n /\ p \in 1 .. n /\ results'[i].chunk = d
    BY <1>2, <1>8, <1>12
  <2>2. PICK q \in 1 .. n :
          q < p /\ candidates[q].chunk = c /\ candidates[q].score >= candidates[p].score
    BY <1>5, <1>6, <1>15, <2>1 DEF Leads
  <2>3. signals[c].bonus >= signals[d].bonus /\ signals[c].bonus \in Int /\ signals[d].bonus \in Int
    <3>1. c \in Chunks /\ d \in Chunks
      BY <1>7, <2>1, <2>2
    <3> QED
      BY <1>15, <2>1, <3>1, SignalsAreNumbers DEF Outranks, Evidence
  <2>4. judged[q].score >= judged[p].score /\ judged[q].score \in Int /\ judged[p].score \in Int
    BY <1>7, <1>8, <2>1, <2>2, <2>3
  <2>5. PICK k \in 1 .. n : order[k] = q
    BY <1>3
  <2>6. k # i
    BY <2>1, <2>2, <2>5
  <2>7. ~(i < k)
    BY <1>4, <2>1, <2>2, <2>4, <2>5
  <2>8. k < i
    BY <2>1, <2>6, <2>7
  <2>9. k \in DOMAIN results' /\ k \in 1 .. i - 1
    BY <1>12, <2>1, <2>8
  <2>10. results'[k].chunk = c
    BY <1>8, <1>12, <2>2, <2>5, <2>9
  <2> QED
    BY <2>9, <2>10
<1> QED
  BY <1>13, <1>14, <1>15

-----------------------------------------------------------------------------
(* Filters before limits, better chunks first.                             *)

\* The inductive invariant: while no other process has written, each search leaves the best
\* of what the request is about, a scan of pages what the pages read so far hold of it.
Searched ==
  /\ Consistent
  /\ deployment \in Deployments /\ changes \in Nat
  /\ stage \in {"asked", "dense", "lexical", "rerank", "gate"} => dropped = 0
  /\ stage = "asked" => dense = <<>> /\ offset = 0
  /\ stage = "dense" => Uses("dense")
  /\ stage = "lexical" => Uses("lexical")
  /\ ~Uses("dense") => dense = <<>>
  /\ ~Uses("lexical") => lexical = <<>>
  /\ changes = 0 =>
       /\ indexed = snapshot
       /\ stage = "dense" => \E P \in SUBSET indexed : Scanned(P)
       /\ stage \in {"lexical", "rerank"} /\ Uses("dense") => DenseFound
       /\ stage = "rerank" /\ Uses("lexical") => LexicalFound
  /\ FiltersComeBeforeLimits
  /\ BetterChunksComeFirst

\* Searched holds at the start.
LEMMA InitSearched == Init => Searched
<1> SUFFICES ASSUME Init PROVE Searched
  OBVIOUS
<1>1. Consistent
  BY InitConsistent
<1> QED
  BY <1>1 DEF Init, Searched, FiltersComeBeforeLimits, BetterChunksComeFirst, Ranked

\* A step that leaves alone what a search reads.
LEMMA WorldStands ==
  ASSUME UNCHANGED <<deployment, request, signals, snapshot>>
  PROVE  /\ \A r : Uses(r)' <=> Uses(r)
         /\ Pool' = Pool /\ Found' = Found /\ Worded' = Worded
         /\ Retrievable' = Retrievable
         /\ \A c, d : /\ Outranks(c, d)' <=> Outranks(c, d)
                      /\ MoreSimilar(c, d)' <=> MoreSimilar(c, d)
                      /\ RanksBefore(c, d)' <=> RanksBefore(c, d)
                      /\ BetterLexicalMatch(c, d)' <=> BetterLexicalMatch(c, d)
         /\ \A c : Matches(c)' <=> Matches(c)
<1>1. /\ \A r : Uses(r)' <=> Uses(r)
      /\ \A c : Matches(c)' <=> Matches(c)
      /\ \A c, d : /\ MoreSimilar(c, d)' <=> MoreSimilar(c, d)
                   /\ BetterLexicalMatch(c, d)' <=> BetterLexicalMatch(c, d)
  BY DEF Uses, Matches, MoreSimilar, BetterLexicalMatch
<1>2. Pool' = Pool
  BY DEF Pool, Wanted
<1>3. Found' = Found /\ Worded' = Worded
  BY <1>1 DEF Found, Worded
<1>4. Retrievable' = Retrievable
  BY <1>1 DEF Retrievable
<1>5. \A c, d : RanksBefore(c, d)' <=> RanksBefore(c, d)
  BY <1>1 DEF RanksBefore
<1>6. \A c, d : Outranks(c, d)' <=> Outranks(c, d)
  BY <1>1 DEF Outranks
<1> QED
  BY <1>1, <1>2, <1>3, <1>4, <1>5, <1>6

\* What the vector search left stands while its list and the index do.
LEMMA DenseStands ==
  ASSUME DenseFound, UNCHANGED <<deployment, request, signals, snapshot, dense>>
  PROVE  DenseFound'
BY WorldStands DEF DenseFound, Fills, Apart, Listed

\* What the lexical search left stands while its list and the index do.
LEMMA LexicalStands ==
  ASSUME LexicalFound, UNCHANGED <<deployment, request, signals, snapshot, lexical>>
  PROVE  LexicalFound'
BY WorldStands DEF LexicalFound, Fills, Apart, Listed

\* Before the ranking nothing is claimed of the results.
LEMMA NothingRanked ==
  ASSUME stage \in {"asked", "refused", "dense", "lexical", "rerank"}
  PROVE  FiltersComeBeforeLimits /\ BetterChunksComeFirst
BY DEF FiltersComeBeforeLimits, BetterChunksComeFirst, Ranked

\* Searched begins at the first search.
LEMMA AcceptSearched ==
  ASSUME Searched, Consistent', Accept
  PROVE  Searched'
<1>1. /\ stage = "asked" /\ stage' = IF Uses("dense") THEN "dense" ELSE "lexical"
      /\ UNCHANGED <<deployment, request, signals, snapshot, indexed, changes,
                     dense, offset, lexical, dropped>>
  BY DEF Accept, world, remote, search
<1>2. \A r : Uses(r)' <=> Uses(r)
  BY <1>1, WorldStands
<1>3. Uses("dense") \/ Uses("lexical")
  BY ShapeAssumption DEF Searched, Uses
<1>4. dense = <<>> /\ offset = 0
  BY <1>1 DEF Searched
<1>5. Scanned({})'
  <2>1. Shapes'
    BY DEF Consistent, Evidence
  <2>2. Pool' > 0 /\ Pool \in Nat \ {0} /\ Pool' = Pool
    BY <1>1, WorldStands, LimitsArePositive DEF Searched, Consistent, Evidence
  <2>3. Leading({})'
    BY DEF Leading
  <2>4. Cardinality({}) = 0 /\ DOMAIN <<>> = {} /\ Len(<<>>) = 0
    BY FS_EmptySet
  <2> QED
    BY <1>1, <1>4, <2>2, <2>3, <2>4 DEF Scanned, Listed
<1>6. (FiltersComeBeforeLimits /\ BetterChunksComeFirst)'
  BY <1>1, NothingRanked DEF FiltersComeBeforeLimits, BetterChunksComeFirst, Ranked
<1>7. indexed \in SUBSET Chunks
  BY DEF Searched, Consistent, Evidence, Shapes
<1> QED
  BY <1>1, <1>2, <1>3, <1>5, <1>6 DEF Searched

\* What a search of the vectors needs of the step.
LEMMA DenseSearched ==
  ASSUME Searched, Consistent', stage = "dense", stage' \in {"dense", AfterDense},
         UNCHANGED <<deployment, request, signals, snapshot, indexed, changes, lexical, dropped>>,
         changes = 0 /\ stage' = "dense" => (\E P : Scanned(P))',
         changes = 0 /\ stage' # "dense" => DenseFound'
  PROVE  Searched'
<1>1. \A r : Uses(r)' <=> Uses(r)
  BY WorldStands
<1>2. /\ Uses("dense") /\ AfterDense \in {"lexical", "rerank"}
      /\ AfterDense = "rerank" <=> ~Uses("lexical")
  BY DEF Searched, AfterDense
<1>3. (FiltersComeBeforeLimits /\ BetterChunksComeFirst)'
  BY <1>2 DEF FiltersComeBeforeLimits, BetterChunksComeFirst, Ranked
<1>4. \A P : Scanned(P)' => P \in SUBSET indexed'
  BY DEF Scanned, Leading
<1>5. changes = 0 => indexed = snapshot
  BY DEF Searched
<1>6. changes' = 0 /\ stage' = "dense" => (\E P \in SUBSET indexed : Scanned(P))'
  BY <1>4
<1> QED
  BY <1>1, <1>2, <1>3, <1>5, <1>6 DEF Searched

\* A search of the vectors in memory keeps Searched.
LEMMA SearchMemorySearched ==
  ASSUME Searched, Consistent', SearchMemory
  PROVE  Searched'
<1>1. /\ stage = "dense" /\ stage' = AfterDense
      /\ UNCHANGED <<deployment, request, signals, snapshot, indexed, changes, lexical, dropped>>
  BY DEF SearchMemory, world, remote
<1>2. stage' # "dense"
  BY <1>1 DEF AfterDense
<1>3. changes = 0 => DenseFound'
  BY MemoryFinds DEF Searched, Consistent
<1> QED
  BY <1>1, <1>2, <1>3, DenseSearched

\* A page keeps Searched: it extends the scan or ends it.
LEMMA ReadPageSearched ==
  ASSUME Searched, Consistent', ReadPage
  PROVE  Searched'
<1>1. /\ stage = "dense" /\ stage' \in {"dense", AfterDense}
      /\ UNCHANGED <<deployment, request, signals, snapshot, indexed, changes, lexical, dropped>>
  BY DEF ReadPage, world, remote
<1>2. ASSUME changes = 0
      PROVE  /\ stage' = "dense" => (\E P : Scanned(P))'
             /\ stage' # "dense" => DenseFound'
  <2>1. PICK P \in SUBSET indexed : Scanned(P)
    BY <1>1, <1>2 DEF Searched
  <2>2. indexed = snapshot /\ Evidence
    BY <1>2 DEF Searched, Consistent
  <2> QED
    BY <2>1, <2>2, PageScans
<1> QED
  BY <1>1, <1>2, DenseSearched

\* A lexical search keeps Searched.
LEMMA SearchLexicalSearched ==
  ASSUME Searched, Consistent', SearchLexical
  PROVE  Searched'
<1>1. /\ stage = "lexical" /\ stage' = "rerank" /\ Uses("lexical")
      /\ UNCHANGED <<deployment, request, signals, snapshot, indexed, changes>>
      /\ UNCHANGED <<dense, offset, dropped>>
  BY DEF SearchLexical, world, remote, Searched
<1>2. \A r : Uses(r)' <=> Uses(r)
  BY <1>1, WorldStands
<1>3. LexicalFound'
  BY LexicalFinds DEF Searched, Consistent
<1>4. changes = 0 /\ Uses("dense") => DenseFound'
  BY <1>1, DenseStands DEF Searched
<1>5. (FiltersComeBeforeLimits /\ BetterChunksComeFirst)'
  BY <1>1 DEF FiltersComeBeforeLimits, BetterChunksComeFirst, Ranked
<1> QED
  BY <1>1, <1>2, <1>3, <1>4, <1>5 DEF Searched

\* Reranking keeps Searched: here both promises begin.
LEMMA RerankSearched ==
  ASSUME Searched, Consistent', Rerank
  PROVE  Searched'
<1>1. /\ stage = "rerank" /\ stage' = "gate"
      /\ UNCHANGED <<deployment, request, signals, snapshot, indexed, changes, dense, offset,
                     lexical, dropped>>
  BY DEF Rerank, world, remote, search
<1>2. \A r : Uses(r)' <=> Uses(r)
  BY <1>1, WorldStands
<1>3. dropped = 0
  BY <1>1 DEF Searched
<1>4. ASSUME changes = 0
      PROVE  /\ Apart(results')
             /\ Len(results') = Min({request.topK, Cardinality(Retrievable)})
             /\ \A c \in Retrievable : \A i \in DOMAIN results' :
                  Outranks(c, results'[i].chunk) => \E j \in 1 .. i - 1 : results'[j].chunk = c
  <2>1. Evidence
    BY DEF Searched, Consistent
  <2>2. deployment.retriever \in {"dense", "lexical", "hybrid"}
    BY ShapeAssumption DEF Searched
  <2>3. Retrieved
    BY <1>1, <1>4, <2>2 DEF Searched, Retrieved
  <2> QED
    BY <2>1, <2>3, RerankKeeps
<1>5. Len(results') \in Nat
  BY DEF Consistent
<1>6. FiltersComeBeforeLimits'
  <2>1. SUFFICES ASSUME changes' = 0
                 PROVE  /\ Len(results') + dropped' =
                              Min({request'.topK, Cardinality(Retrievable')})
                        /\ \A i, j \in DOMAIN results' :
                             i # j => results'[i].chunk # results'[j].chunk
    BY DEF FiltersComeBeforeLimits
  <2>2. Len(results') + dropped' = Len(results')
    BY <1>1, <1>3, <1>5
  <2>3. Retrievable' = Retrievable
    BY <1>1, WorldStands
  <2> QED
    BY <1>1, <1>4, <2>1, <2>2, <2>3 DEF Apart
<1>7. BetterChunksComeFirst'
  BY <1>1, <1>4, WorldStands DEF BetterChunksComeFirst
<1> QED
  BY <1>1, <1>2, <1>3, <1>6, <1>7 DEF Searched

\* From the context gate on only the two properties are left to keep.
LEMMA RankedSearched ==
  ASSUME Searched, Consistent', FiltersComeBeforeLimits',
         stage' \in {"tool", "generate", "cite", "answered", "failed"},
         UNCHANGED <<deployment, request, signals, snapshot, indexed, changes>>,
         UNCHANGED <<dense, offset, lexical>>
  PROVE  Searched'
<1>1. \A r : Uses(r)' <=> Uses(r)
  BY WorldStands
<1>2. BetterChunksComeFirst'
  BY DEF BetterChunksComeFirst
<1> QED
  BY <1>1, <1>2 DEF Searched

\* The gate keeps Searched: it counts what it drops.
LEMMA CheckContextSearched ==
  ASSUME Searched, Consistent', CheckContext
  PROVE  Searched'
<1>1. /\ stage = "gate" /\ stage' = "tool"
      /\ dropped' = Len(results) - Len(results')
      /\ UNCHANGED <<deployment, request, signals, snapshot, indexed, changes>>
      /\ UNCHANGED <<dense, offset, lexical>>
  BY DEF CheckContext, world, remote, search
<1> DEFINE I == {i \in DOMAIN results : ~signals[results[i].chunk].suspicious}
<1>2. results' \in Selections(results, I) /\ I \subseteq DOMAIN results
  BY DEF CheckContext
<1> HIDE DEF I
<1>3. /\ results \in Seq(Hits) /\ Len(results) \in Nat /\ DOMAIN results = 1 .. Len(results)
      /\ Len(results') \in Nat /\ dropped = 0
  BY <1>1 DEF Searched, Consistent
<1>4. ASSUME Apart(results) PROVE Apart(results')
  <2>1. \A chosen \in Selections(results, I) :
          \E l : GoesUp(l, I) /\ chosen = [k \in DOMAIN l |-> results[l[k]]]
    BY <1>2, <1>3, SelectionInOrder
  <2>2. PICK l : GoesUp(l, I) /\ results' = [k \in DOMAIN l |-> results[l[k]]]
    BY <1>2, <2>1
  <2>3. \A i, j \in DOMAIN l : i # j => l[i] # l[j]
    <3>1. DOMAIN l \subseteq Int /\ (\A i, j \in DOMAIN l : i < j => l[i] < l[j])
          /\ \A k \in DOMAIN l : l[k] \in Int
      BY <1>2, <1>3, <2>2 DEF GoesUp
    <3> QED
      BY <3>1
  <2>4. \A k \in DOMAIN l : l[k] \in DOMAIN results
    BY <1>2, <2>2 DEF GoesUp
  <2> QED
    BY <1>4, <2>2, <2>3, <2>4 DEF Apart
<1>5. FiltersComeBeforeLimits'
  <2>1. SUFFICES ASSUME changes' = 0
                 PROVE  /\ Len(results') + dropped' =
                              Min({request'.topK, Cardinality(Retrievable')})
                        /\ Apart(results')
    BY DEF FiltersComeBeforeLimits, Apart
  <2>2. /\ Len(results) + dropped = Min({request.topK, Cardinality(Retrievable)})
        /\ Apart(results)
    BY <1>1, <2>1 DEF Searched, FiltersComeBeforeLimits, Ranked, Apart
  <2>3. Len(results') + dropped' = Len(results) + dropped
    BY <1>1, <1>3
  <2>4. Retrievable' = Retrievable
    BY <1>1, WorldStands
  <2> QED
    BY <1>1, <1>4, <2>2, <2>3, <2>4
<1> QED
  BY <1>1, <1>5, RankedSearched

\* The steps after the gate leave results alone.
LEMMA LaterSearched ==
  ASSUME Searched, Consistent',
         stage \in {"tool", "generate", "cite"},
         stage' \in {"generate", "cite", "answered", "failed"},
         UNCHANGED <<world, remote, search, results, dropped>>
  PROVE  Searched'
<1>1. UNCHANGED <<deployment, request, signals, snapshot, indexed, changes, dense, offset, lexical>>
  BY DEF world, remote, search
<1>2. FiltersComeBeforeLimits'
  BY <1>1, WorldStands DEF Searched, FiltersComeBeforeLimits, Ranked
<1> QED
  BY <1>1, <1>2, RankedSearched

\* Every step keeps Searched.
LEMMA StepSearched == Searched /\ [Next]_vars => Searched'
<1> SUFFICES ASSUME Searched, [Next]_vars PROVE Searched'
  OBVIOUS
<1>1. Consistent'
  BY StepConsistent DEF Searched
<1>2. CASE Refuse
  <2>1. /\ stage' = "refused" /\ UNCHANGED <<dense, offset, lexical>>
        /\ UNCHANGED <<deployment, request, signals, snapshot, indexed, changes>>
    BY <1>2 DEF Refuse, world, remote, search
  <2>2. \A r : Uses(r)' <=> Uses(r)
    BY <2>1, WorldStands
  <2>3. (FiltersComeBeforeLimits /\ BetterChunksComeFirst)'
    BY <2>1 DEF FiltersComeBeforeLimits, BetterChunksComeFirst, Ranked
  <2> QED
    BY <1>1, <2>1, <2>2, <2>3 DEF Searched
<1>3. CASE Accept
  BY <1>1, <1>3, AcceptSearched
<1>4. CASE SearchMemory
  BY <1>1, <1>4, SearchMemorySearched
<1>5. CASE ReadPage
  BY <1>1, <1>5, ReadPageSearched
<1>6. CASE SearchLexical
  BY <1>1, <1>6, SearchLexicalSearched
<1>7. CASE Rerank
  BY <1>1, <1>7, RerankSearched
<1>8. CASE CheckContext
  BY <1>1, <1>8, CheckContextSearched
<1>9. CASE NoTool \/ UnknownTool \/ SentimentSummary \/ IssueCluster \/ TicketDraft \/ ToolFails
  <2>1. \E run : ToolDone(run)
    BY <1>9 DEF NoTool, UnknownTool, SentimentSummary, IssueCluster, TicketDraft, ToolFails
  <2>2. /\ stage = "tool" /\ stage' = "generate"
        /\ UNCHANGED <<world, remote, search, results, dropped>>
    BY <2>1 DEF ToolDone
  <2> QED
    BY <1>1, <2>2, LaterSearched
<1>10. CASE GenerateLocally \/ GenerateRemotely \/ GenerateFails \/ JudgeFails \/ Finish
  <2>1. /\ stage \in {"generate", "cite"} /\ stage' \in {"cite", "answered", "failed"}
        /\ UNCHANGED <<world, remote, search, results, dropped>>
    BY <1>10 DEF GenerateLocally, GenerateRemotely, GenerateFails, JudgeFails, Finish
  <2> QED
    BY <1>1, <2>1, LaterSearched
<1>11. CASE RemoteWrite
  <2>1. /\ stage = "dense" /\ stage' = "dense" /\ changes' = changes + 1
        /\ UNCHANGED <<deployment, request, signals, snapshot, dense, lexical, dropped>>
    BY <1>11 DEF RemoteWrite, world, search
  <2>2. \A r : Uses(r)' <=> Uses(r)
    BY <2>1, WorldStands
  <2>3. changes' \in Nat /\ changes' # 0
    BY <2>1 DEF Searched
  <2>4. (FiltersComeBeforeLimits /\ BetterChunksComeFirst)'
    BY <2>1 DEF FiltersComeBeforeLimits, BetterChunksComeFirst, Ranked
  <2> QED
    BY <1>1, <2>1, <2>2, <2>3, <2>4 DEF Searched
<1>12. CASE UNCHANGED vars
  <2>1. UNCHANGED <<deployment, request, signals, snapshot, indexed, changes, stage, dense,
                    offset, lexical, results, dropped>>
    BY <1>12 DEF vars, world, remote, search
  <2>2. (FiltersComeBeforeLimits /\ BetterChunksComeFirst)'
    BY <2>1, WorldStands DEF Searched, FiltersComeBeforeLimits, BetterChunksComeFirst, Ranked
  <2>3. \A P : Scanned(P)' <=> Scanned(P)
    BY <2>1, WorldStands DEF Scanned, Leading, Listed
  <2>4. (DenseFound => DenseFound') /\ (LexicalFound => LexicalFound')
    BY <2>1, DenseStands, LexicalStands
  <2>5. \A r : Uses(r)' <=> Uses(r)
    BY <2>1, WorldStands
  <2> QED
    BY <1>1, <2>1, <2>2, <2>3, <2>4, <2>5 DEF Searched
<1> QED
  BY <1>2, <1>3, <1>4, <1>5, <1>6, <1>7, <1>8, <1>9, <1>10, <1>11, <1>12 DEF Next

\* Matching chunks fill an answer up to top_k whatever the limits on pools and pages.
THEOREM FiltersAlwaysComeBeforeLimits == Spec => []FiltersComeBeforeLimits
<1>1. Searched => FiltersComeBeforeLimits
  BY DEF Searched
<1> QED
  BY <1>1, InitSearched, StepSearched, PTL DEF Spec

\* Retrieval, fusion and reranking never invert an agreement of all signals.
THEOREM BetterChunksAlwaysComeFirst == Spec => []BetterChunksComeFirst
<1>1. Searched => BetterChunksComeFirst
  BY DEF Searched
<1> QED
  BY <1>1, InitSearched, StepSearched, PTL DEF Spec

=============================================================================
