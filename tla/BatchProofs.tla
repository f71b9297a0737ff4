---------------------------- MODULE BatchProofs ----------------------------
(***************************************************************************)
(* What is proved of the batch commands, with the commands that measure    *)
(* running over the same directory.                                        *)
(*                                                                         *)
(* First the orders and selections of PythonLists (Listed goes through a   *)
(* set once, Sorted only changes the order), then redaction, the contract  *)
(* and the writes of each command, up to the inductive invariant BatchInv. *)
(* Then quoting (encoded source ids tell identities apart) and chunking    *)
(* (windows cut a text well), up to MergedInv; the files of a table, up to *)
(* ExportInv; last rounding, averages, statistics and the measures of a    *)
(* case, up to ReportsInv.                                                 *)
(***************************************************************************)
EXTENDS OfflineCommands, FiniteSetTheorems, SequenceTheorems, WellFoundedInduction,
        NaturalsInduction, TLAPS

-----------------------------------------------------------------------------
(* Numbers and finite sets.                                                *)

\* Of natural numbers with a property one is the least.
LEMMA LeastOf ==
  ASSUME NEW S \in SUBSET Nat, S # {}
  PROVE  \E x \in S : \A y \in S : x <= y
  <1>1. PICK x \in S : \A y \in S : ~(<<y, x>> \in OpToRel(<, Nat))
    BY NatLessThanWellFounded, WFMin
  <1>2. \A y \in S : ~(y < x)
    BY <1>1 DEF OpToRel
  <1> QED BY <1>2

\* Induction over the numbers of a set.
LEMMA Reaches ==
  ASSUME NEW T \in SUBSET Nat, 0 \in T, \A m \in T : m + 1 \in T
  PROVE  T = Nat
  <1> SUFFICES ASSUME Nat \ T # {} PROVE FALSE
    OBVIOUS
  <1>1. PICK m \in Nat \ T : \A y \in Nat \ T : m <= y
    BY LeastOf
  <1>2. m - 1 \in T /\ (m - 1) + 1 = m
    BY <1>1
  <1> QED BY <1>1, <1>2

\* Positions of a list are finitely many.
LEMMA PositionsAreFinite ==
  ASSUME NEW n \in Nat, NEW P, P \subseteq 1..n
  PROVE  IsFiniteSet(P) /\ Cardinality(P) \in 0..n
  <1>1. IsFiniteSet(1..n) /\ Cardinality(1..n) = n
    BY FS_Interval
  <1>2. IsFiniteSet(P) /\ Cardinality(P) <= n
    BY <1>1, FS_Subset
  <1>3. Cardinality(P) \in Nat
    BY <1>2, FS_CardinalityType
  <1> QED BY <1>2, <1>3

\* A part of a finite set that is not all of it has fewer elements.
LEMMA PartsAreSmaller ==
  ASSUME NEW S, IsFiniteSet(S), NEW T, T \subseteq S, T # S
  PROVE  /\ IsFiniteSet(T) /\ Cardinality(T) \in Nat /\ Cardinality(S) \in Nat
         /\ Cardinality(T) < Cardinality(S)
  <1>1. IsFiniteSet(T) /\ Cardinality(T) <= Cardinality(S)
        /\ Cardinality(S) # Cardinality(T)
    BY FS_Subset
  <1>2. Cardinality(T) \in Nat
    BY <1>1, FS_CardinalityType
  <1>3. Cardinality(S) \in Nat
    BY FS_CardinalityType
  <1> QED BY <1>1, <1>2, <1>3

-----------------------------------------------------------------------------
(* Lists in an order.                                                      *)

\* R orders S strictly and totally.
Orders(R, S) ==
  /\ \A x \in S : <<x, x>> \notin R
  /\ \A x, y, z \in S : <<x, y>> \in R /\ <<y, z>> \in R => <<x, z>> \in R
  /\ \A x, y \in S : x # y => <<x, y>> \in R \/ <<y, x>> \in R

Below(x, S, R) == {y \in S : <<y, x>> \in R}

\* The element of each rank: Listed, with its order as a relation.
Ranked(S, R) ==
  [k \in 1..Cardinality(S) |-> CHOOSE x \in S : Cardinality(Below(x, S, R)) = k - 1]

\* l goes through S upwards.
GoesThrough(l, S, R) ==
  /\ Cardinality(S) \in Nat
  /\ l \in [1..Cardinality(S) -> S]
  /\ \A x \in S : \E k \in 1..Cardinality(S) : l[k] = x
  /\ \A i, j \in 1..Cardinality(S) : i < j => <<l[i], l[j]>> \in R

\* Of two elements the smaller one has fewer elements below it.
LEMMA RanksGrow ==
  ASSUME NEW S, IsFiniteSet(S), NEW R, Orders(R, S), NEW x \in S
  PROVE  /\ Cardinality(Below(x, S, R)) \in Nat
         /\ Cardinality(Below(x, S, R)) < Cardinality(S) /\ Cardinality(S) \in Nat
         /\ \A y \in S : <<x, y>> \in R =>
              Cardinality(Below(x, S, R)) < Cardinality(Below(y, S, R))
  <1>1. Below(x, S, R) \subseteq S /\ Below(x, S, R) # S
    BY DEF Orders, Below
  <1>2. ASSUME NEW y \in S, <<x, y>> \in R
        PROVE  Cardinality(Below(x, S, R)) < Cardinality(Below(y, S, R))
    <2>1. Below(y, S, R) \subseteq S
      BY DEF Below
    <2>2. IsFiniteSet(Below(y, S, R))
      BY <2>1, FS_Subset
    <2>3. Below(x, S, R) \subseteq Below(y, S, R) /\ Below(x, S, R) # Below(y, S, R)
      BY <1>2 DEF Orders, Below
    <2> QED BY <2>2, <2>3, PartsAreSmaller
  <1> QED BY <1>1, <1>2, PartsAreSmaller

\* Each element of a finite ordered set has a rank of its own.
LEMMA RankedGoesThrough ==
  ASSUME NEW S, IsFiniteSet(S), NEW R, Orders(R, S)
  PROVE  GoesThrough(Ranked(S, R), S, R)
  <1> DEFINE n == Cardinality(S)
             rank == [x \in S |-> Cardinality(Below(x, S, R)) + 1]
             l == Ranked(S, R)
  <1>1. n \in Nat
    BY FS_CardinalityType
  <1>2. \A x \in S : /\ Cardinality(Below(x, S, R)) \in Nat
                    /\ rank[x] = Cardinality(Below(x, S, R)) + 1
    BY RanksGrow
  <1>3. rank \in [S -> 1..n]
    <2>1. \A x \in S : Cardinality(Below(x, S, R)) + 1 \in 1..n
      BY <1>1, RanksGrow
    <2> QED BY <2>1
  <1>4. \A x, y \in S : x # y => Cardinality(Below(x, S, R)) # Cardinality(Below(y, S, R))
    <2> TAKE x \in S, y \in S
    <2> HAVE x # y
    <2>1. <<x, y>> \in R \/ <<y, x>> \in R
      BY DEF Orders
    <2>2. \A v, w \in S :
            <<v, w>> \in R => Cardinality(Below(v, S, R)) < Cardinality(Below(w, S, R))
      BY RanksGrow
    <2> QED BY <1>2, <2>1, <2>2
  <1> HIDE DEF rank, n
  <1>5. \A k \in 1..n : \E x \in S : rank[x] = k
    <2>1. IsFiniteSet(1..n) /\ Cardinality(1..n) = n
      BY <1>1, FS_Interval
    <2>2. \A x, y \in S : rank[x] = rank[y] => x = y
      BY <1>2, <1>4
    <2>3. rank \in Injection(S, 1..n)
      BY <1>3, <2>2 DEF Injection, IsInjective
    <2>4. rank \in Surjection(S, 1..n)
      <3>1. Cardinality(S) = Cardinality(1..n)
        BY <2>1 DEF n
      <3> QED BY <2>1, <2>3, <3>1, FS_Injection
    <2> QED BY <2>4 DEF Surjection
  <1>6. \A k \in 1..n : l[k] \in S /\ Cardinality(Below(l[k], S, R)) = k - 1
    <2> TAKE k \in 1..n
    <2>1. PICK x \in S : rank[x] = k
      BY <1>5
    <2>2. Cardinality(Below(x, S, R)) = k - 1
      BY <1>1, <1>2, <2>1
    <2>3. l[k] = CHOOSE z \in S : Cardinality(Below(z, S, R)) = k - 1
      BY DEF Ranked, n
    <2> HIDE DEF l
    <2> QED BY <2>2, <2>3
  <1>7. l \in [1..n -> S]
    <2>1. l = [k \in 1..n |-> l[k]]
      BY DEF Ranked, n
    <2> HIDE DEF l
    <2> QED BY <1>6, <2>1
  <1> HIDE DEF l
  <1>8. \A x \in S : \E k \in 1..n : l[k] = x
    <2> TAKE x \in S
    <2>1. rank[x] \in 1..n
      BY <1>3
    <2>2. l[rank[x]] \in S /\ Cardinality(Below(l[rank[x]], S, R)) = Cardinality(Below(x, S, R))
      BY <1>1, <1>2, <1>6, <2>1
    <2>3. l[rank[x]] = x
      BY <1>4, <2>2
    <2> QED BY <2>1, <2>3
  <1>9. ASSUME NEW i \in 1..n, NEW j \in 1..n, i < j PROVE <<l[i], l[j]>> \in R
    <2>1. l[i] \in S /\ l[j] \in S
      BY <1>6
    <2>2. Cardinality(Below(l[i], S, R)) = i - 1 /\ Cardinality(Below(l[j], S, R)) = j - 1
      BY <1>6
    <2>3. l[i] # l[j]
      BY <1>1, <1>9, <2>2
    <2>4. CASE <<l[j], l[i]>> \in R
      <3>1. Cardinality(Below(l[j], S, R)) < Cardinality(Below(l[i], S, R))
        BY <2>1, <2>4, RanksGrow
      <3> QED BY <1>1, <1>9, <2>2, <3>1
    <2> QED BY <2>1, <2>3, <2>4 DEF Orders
  <1>10. n = Cardinality(S) /\ l = Ranked(S, R)
    BY DEF n, l
  <1> QED BY <1>1, <1>7, <1>8, <1>9, <1>10 DEF GoesThrough

\* Numbers are ordered.
Less(S) == {p \in S \X S : p[1] < p[2]}

\* Less orders numbers.
LEMMA NumbersAreOrdered ==
  ASSUME NEW S \in SUBSET Int PROVE Orders(Less(S), S)
  <1>1. \A x, y \in S : <<x, y>> \in Less(S) <=> x < y
    BY DEF Less
  <1> QED BY <1>1 DEF Orders

\* What At selects with: the positions upwards.
SelectedBy(l, P) ==
  /\ Cardinality(P) \in Nat
  /\ l \in [1..Cardinality(P) -> P]
  /\ \A x \in P : \E k \in 1..Cardinality(P) : l[k] = x
  /\ \A i, j \in 1..Cardinality(P) : i < j => l[i] < l[j]

\* Numbers are listed upwards.
LEMMA NumbersAreListed ==
  ASSUME NEW n \in Nat, NEW P, P \subseteq 1..n
  PROVE  SelectedBy(Listed(P, <), P) /\ DOMAIN Listed(P, <) = 1..Cardinality(P)
  <1>1. IsFiniteSet(P)
    BY PositionsAreFinite
  <1>2. P \in SUBSET Int
    OBVIOUS
  <1>3. Orders(Less(P), P)
    BY <1>2, NumbersAreOrdered
  <1>4. GoesThrough(Ranked(P, Less(P)), P, Less(P))
    BY <1>1, <1>3, RankedGoesThrough
  <1>5. Ranked(P, Less(P)) = Listed(P, <)
    <2> DEFINE a == Ranked(P, Less(P))
               b == Listed(P, <)
    <2>1. \A x \in P : Below(x, P, Less(P)) = {y \in P : y < x}
      BY DEF Less, Below
    <2>2. a = [k \in 1..Cardinality(P) |-> a[k]]
      BY DEF Ranked
    <2>3. b = [k \in 1..Cardinality(P) |-> b[k]]
      BY DEF Listed
    <2>4. ASSUME NEW k \in 1..Cardinality(P) PROVE a[k] = b[k]
      <3>1. a[k] = CHOOSE x \in P : Cardinality(Below(x, P, Less(P))) = k - 1
        BY DEF Ranked
      <3>2. b[k] = CHOOSE x \in P : Cardinality({y \in P : y < x}) = k - 1
        BY DEF Listed
      <3> HIDE DEF a, b
      <3> QED BY <2>1, <3>1, <3>2
    <2> HIDE DEF a, b
    <2>5. a = b
      BY <2>2, <2>3, <2>4
    <2> QED BY <2>5 DEF a, b
  <1>6. \A x, y : <<x, y>> \in Less(P) => x < y
    BY DEF Less
  <1>7. DOMAIN Listed(P, <) = 1..Cardinality(P)
    BY DEF Listed
  <1> QED BY <1>4, <1>5, <1>6, <1>7 DEF GoesThrough, SelectedBy

\* At goes through the positions upwards.
AtSelection(s, P) ==
  \E l : SelectedBy(l, P) /\ At(s, P) = [k \in 1..Cardinality(P) |-> s[l[k]]]

\* It does so whatever the list.
LEMMA AtSelects ==
  ASSUME NEW n \in Nat, NEW P, P \subseteq 1..n, NEW s
  PROVE  AtSelection(s, P)
  <1>1. SelectedBy(Listed(P, <), P) /\ DOMAIN Listed(P, <) = 1..Cardinality(P)
    BY NumbersAreListed
  <1>2. At(s, P) = [k \in 1..Cardinality(P) |-> s[Listed(P, <)[k]]]
    BY <1>1 DEF At
  <1> QED BY <1>1, <1>2 DEF AtSelection

\* A list made position by position is a sequence of what was put there.
LEMMA ListsAreSequences ==
  ASSUME NEW X, NEW n \in Nat, NEW f, f \in [1..n -> X]
  PROVE  f \in Seq(X) /\ Len(f) = n /\ DOMAIN f = 1..n
  OBVIOUS

\* A selection is a list of what is at the positions.
LEMMA AtIsList ==
  ASSUME NEW n \in Nat, NEW P, P \subseteq 1..n, NEW s, NEW X, \A i \in P : s[i] \in X
  PROVE  /\ At(s, P) \in Seq(X) /\ Len(At(s, P)) = Cardinality(P) /\ Cardinality(P) \in Nat
         /\ DOMAIN At(s, P) = 1..Cardinality(P)
  <1>0. AtSelection(s, P)
    BY AtSelects
  <1>1. PICK l : SelectedBy(l, P) /\ At(s, P) = [k \in 1..Cardinality(P) |-> s[l[k]]]
    BY <1>0 DEF AtSelection
  <1>2. Cardinality(P) \in Nat /\ \A k \in 1..Cardinality(P) : l[k] \in P
    BY <1>1 DEF SelectedBy
  <1>3. At(s, P) \in [1..Cardinality(P) -> X]
    BY <1>1, <1>2
  <1> QED BY <1>2, <1>3, ListsAreSequences

\* t has the elements that s has at the positions P.
HasElements(t, s, P) ==
  /\ \A k \in DOMAIN t : \E i \in P : t[k] = s[i]
  /\ \A i \in P : \E k \in DOMAIN t : t[k] = s[i]

\* Nothing selected is left out, and what is left was selected.
LEMMA AtHasElements ==
  ASSUME NEW n \in Nat, NEW P, P \subseteq 1..n, NEW s
  PROVE  HasElements(At(s, P), s, P)
  <1>0. AtSelection(s, P)
    BY AtSelects
  <1>1. PICK l : SelectedBy(l, P) /\ At(s, P) = [k \in 1..Cardinality(P) |-> s[l[k]]]
    BY <1>0 DEF AtSelection
  <1>2. \A k \in 1..Cardinality(P) : l[k] \in P
    BY <1>1 DEF SelectedBy
  <1>3. \A i \in P : \E k \in 1..Cardinality(P) : l[k] = i
    BY <1>1 DEF SelectedBy
  <1>4. DOMAIN At(s, P) = 1..Cardinality(P) /\ \A k \in 1..Cardinality(P) : At(s, P)[k] = s[l[k]]
    BY <1>1
  <1>5. ASSUME NEW k \in DOMAIN At(s, P) PROVE \E i \in P : At(s, P)[k] = s[i]
    <2>1. k \in 1..Cardinality(P)
      BY <1>4
    <2> QED BY <1>2, <1>4, <2>1
  <1>6. ASSUME NEW i \in P PROVE \E k \in DOMAIN At(s, P) : At(s, P)[k] = s[i]
    <2>1. PICK k \in 1..Cardinality(P) : l[k] = i
      BY <1>3
    <2> QED BY <1>4, <2>1
  <1> QED BY <1>5, <1>6 DEF HasElements

-----------------------------------------------------------------------------
(* The orders of Python's tuples and strings, and its sorted.              *)

\* LexLess, with the order of the elements as a relation.
LexIn(s, t, R) ==
  \E i \in 1..Len(t) :
    /\ \A j \in 1..(i - 1) : j \in DOMAIN s /\ s[j] = t[j]
    /\ i > Len(s) \/ <<s[i], t[i]>> \in R

\* Lists of ordered elements are ordered by the first place where they differ.
LEMMA ListsAreOrdered ==
  ASSUME NEW S, NEW R, Orders(R, S)
  PROVE  Orders({p \in Seq(S) \X Seq(S) : LexIn(p[1], p[2], R)}, Seq(S))
  <1> DEFINE L == {p \in Seq(S) \X Seq(S) : LexIn(p[1], p[2], R)}
  <1>0. \A s, t \in Seq(S) : <<s, t>> \in L <=> LexIn(s, t, R)
    OBVIOUS
  <1>1. ASSUME NEW s \in Seq(S) PROVE ~LexIn(s, s, R)
    <2> SUFFICES ASSUME NEW i \in 1..Len(s), i > Len(s) \/ <<s[i], s[i]>> \in R
                 PROVE  FALSE
      BY DEF LexIn
    <2>1. Len(s) \in Nat /\ s[i] \in S
      OBVIOUS
    <2> QED BY <2>1 DEF Orders
  <1>2. ASSUME NEW s \in Seq(S), NEW t \in Seq(S), NEW u \in Seq(S),
               LexIn(s, t, R), LexIn(t, u, R)
        PROVE  LexIn(s, u, R)
    <2>1. PICK i \in 1..Len(t) : /\ \A m \in 1..(i - 1) : m \in DOMAIN s /\ s[m] = t[m]
                                 /\ i > Len(s) \/ <<s[i], t[i]>> \in R
      BY <1>2 DEF LexIn
    <2>2. PICK j \in 1..Len(u) : /\ \A m \in 1..(j - 1) : m \in DOMAIN t /\ t[m] = u[m]
                                 /\ j > Len(t) \/ <<t[j], u[j]>> \in R
      BY <1>2 DEF LexIn
    <2>3. /\ Len(s) \in Nat /\ Len(t) \in Nat /\ Len(u) \in Nat
          /\ DOMAIN s = 1..Len(s) /\ DOMAIN t = 1..Len(t)
          /\ \A m \in 1..Len(s) : s[m] \in S
          /\ \A m \in 1..Len(t) : t[m] \in S
          /\ \A m \in 1..Len(u) : u[m] \in S
      OBVIOUS
    <2>4. CASE i < j
      <3>1. i \in 1..Len(u) /\ t[i] = u[i]
        BY <2>2, <2>3, <2>4
      <3>2. \A m \in 1..(i - 1) : m \in DOMAIN s /\ s[m] = u[m]
        BY <2>1, <2>2, <2>3, <2>4
      <3>3. i > Len(s) \/ <<s[i], u[i]>> \in R
        BY <2>1, <3>1
      <3> QED BY <3>1, <3>2, <3>3 DEF LexIn
    <2>5. CASE j < i
      <3>1. j \in DOMAIN s /\ s[j] = t[j] /\ <<t[j], u[j]>> \in R
        BY <2>1, <2>2, <2>3, <2>5
      <3>2. \A m \in 1..(j - 1) : m \in DOMAIN s /\ s[m] = u[m]
        BY <2>1, <2>2, <2>3, <2>5
      <3> QED BY <3>1, <3>2 DEF LexIn
    <2>6. CASE j = i
      <3>1. <<t[i], u[i]>> \in R
        BY <2>1, <2>2, <2>3, <2>6
      <3>2. \A m \in 1..(i - 1) : m \in DOMAIN s /\ s[m] = u[m]
        BY <2>1, <2>2, <2>3, <2>6
      <3>3. i > Len(s) \/ <<s[i], u[i]>> \in R
        <4> SUFFICES ASSUME ~(i > Len(s)) PROVE <<s[i], u[i]>> \in R
          OBVIOUS
        <4>1. s[i] \in S /\ t[i] \in S /\ u[i] \in S /\ <<s[i], t[i]>> \in R
          BY <2>1, <2>2, <2>3, <2>6
        <4> QED BY <3>1, <4>1 DEF Orders
      <3>4. i \in 1..Len(u)
        BY <2>2, <2>6
      <3> QED BY <3>2, <3>3, <3>4 DEF LexIn
    <2> QED BY <2>1, <2>2, <2>4, <2>5, <2>6
  <1>3. ASSUME NEW s \in Seq(S), NEW t \in Seq(S), s # t
        PROVE  LexIn(s, t, R) \/ LexIn(t, s, R)
    <2> DEFINE D == {i \in Nat : i \in DOMAIN s /\ i \in DOMAIN t /\ s[i] # t[i]}
    <2>1. /\ Len(s) \in Nat /\ Len(t) \in Nat
          /\ DOMAIN s = 1..Len(s) /\ DOMAIN t = 1..Len(t)
          /\ \A m \in 1..Len(s) : s[m] \in S
          /\ \A m \in 1..Len(t) : t[m] \in S
      OBVIOUS
    <2>2. CASE D = {}
      <3>1. \A i \in 1..Len(s) : i \in 1..Len(t) => s[i] = t[i]
        BY <2>1, <2>2
      <3>2. Len(s) # Len(t)
        BY <1>3, <3>1, SeqEqual
      <3>3. CASE Len(s) < Len(t)
        <4>1. /\ Len(s) + 1 \in 1..Len(t) /\ Len(s) + 1 > Len(s)
              /\ \A j \in 1..(Len(s) + 1 - 1) : j \in DOMAIN s /\ s[j] = t[j]
          BY <2>1, <3>1, <3>3
        <4> QED BY <4>1 DEF LexIn
      <3>4. CASE Len(t) < Len(s)
        <4>1. /\ Len(t) + 1 \in 1..Len(s) /\ Len(t) + 1 > Len(t)
              /\ \A j \in 1..(Len(t) + 1 - 1) : j \in DOMAIN t /\ t[j] = s[j]
          BY <2>1, <3>1, <3>4
        <4> QED BY <4>1 DEF LexIn
      <3>5. Len(s) < Len(t) \/ Len(t) < Len(s)
        <4>1. Len(s) \in Nat /\ Len(t) \in Nat
          BY <2>1
        <4>2. \A a, b \in Nat : a # b => a < b \/ b < a
          OBVIOUS
        <4> QED BY <3>2, <4>1, <4>2
      <3> QED BY <3>3, <3>4, <3>5
    <2>3. CASE D # {}
      <3>1. PICK d \in D : \A y \in D : d <= y
        BY <2>3, LeastOf
      <3>2. /\ d \in Nat /\ d \in 1..Len(s) /\ d \in 1..Len(t) /\ s[d] # t[d]
            /\ \A j \in 1..(d - 1) : j \in DOMAIN s /\ j \in DOMAIN t /\ s[j] = t[j]
        BY <2>1, <3>1
      <3>3. <<s[d], t[d]>> \in R \/ <<t[d], s[d]>> \in R
        BY <2>1, <3>2 DEF Orders
      <3>4. CASE <<s[d], t[d]>> \in R
        BY <3>2, <3>4 DEF LexIn
      <3>5. CASE <<t[d], s[d]>> \in R
        BY <3>2, <3>5 DEF LexIn
      <3> QED BY <3>3, <3>4, <3>5
    <2> QED BY <2>2, <2>3
  <1> HIDE DEF L
  <1>4. Orders(L, Seq(S))
    BY <1>0, <1>1, <1>2, <1>3 DEF Orders
  <1> QED BY <1>4 DEF L

\* str and tuple of str, as relations.
StringOrder == {p \in Strings \X Strings : StringLess(p[1], p[2])}

TupleLess(k, l) == LexLess(k, l, StringLess)

TupleOrder == {p \in Seq(Strings) \X Seq(Strings) : TupleLess(p[1], p[2])}

\* str is ordered.
LEMMA StringsAreOrdered == Orders(StringOrder, Strings)
  <1>1. Orders(Less(Nat), Nat)
    BY NumbersAreOrdered
  <1>2. Orders({p \in Seq(Nat) \X Seq(Nat) : LexIn(p[1], p[2], Less(Nat))}, Seq(Nat))
    BY <1>1, ListsAreOrdered
  <1>3. ASSUME NEW s \in Seq(Nat), NEW t \in Seq(Nat)
        PROVE  StringLess(s, t) <=> LexIn(s, t, Less(Nat))
    <2>1. ASSUME NEW i \in 1..Len(t)
          PROVE  (i > Len(s) \/ s[i] < t[i]) <=> (i > Len(s) \/ <<s[i], t[i]>> \in Less(Nat))
      <3>1. CASE i > Len(s)
        BY <3>1
      <3>2. CASE ~(i > Len(s))
        <4>1. s[i] \in Nat /\ t[i] \in Nat
          BY <3>2
        <4> QED BY <4>1 DEF Less
      <3> QED BY <3>1, <3>2
    <2> QED BY <2>1 DEF StringLess, LexLess, LexIn
  <1>4. {p \in Seq(Nat) \X Seq(Nat) : LexIn(p[1], p[2], Less(Nat))} = StringOrder
    BY <1>3 DEF StringOrder, Strings
  <1> QED BY <1>2, <1>4 DEF Strings

\* Tuples of str are ordered.
LEMMA TuplesAreOrdered == Orders(TupleOrder, Seq(Strings))
  <1>1. Orders({p \in Seq(Strings) \X Seq(Strings) : LexIn(p[1], p[2], StringOrder)}, Seq(Strings))
    BY StringsAreOrdered, ListsAreOrdered
  <1>2. ASSUME NEW s \in Seq(Strings), NEW t \in Seq(Strings)
        PROVE  TupleLess(s, t) <=> LexIn(s, t, StringOrder)
    <2>1. ASSUME NEW i \in 1..Len(t)
          PROVE  (i > Len(s) \/ StringLess(s[i], t[i]))
                   <=> (i > Len(s) \/ <<s[i], t[i]>> \in StringOrder)
      <3>1. CASE i > Len(s)
        BY <3>1
      <3>2. CASE ~(i > Len(s))
        <4>1. s[i] \in Strings /\ t[i] \in Strings
          BY <3>2
        <4> QED BY <4>1 DEF StringOrder
      <3> QED BY <3>1, <3>2
    <2> QED BY <2>1 DEF TupleLess, LexLess, LexIn
  <1>3. {p \in Seq(Strings) \X Seq(Strings) : LexIn(p[1], p[2], StringOrder)} = TupleOrder
    BY <1>2 DEF TupleOrder
  <1> QED BY <1>1, <1>3

\* The positions of a list in the order of sorted: by the key, then as they were.
Stably(keys) ==
  {p \in (DOMAIN keys) \X (DOMAIN keys) :
     \/ <<keys[p[1]], keys[p[2]]>> \in TupleOrder
     \/ p[1] < p[2] /\ <<keys[p[2]], keys[p[1]]>> \notin TupleOrder}

\* That is an order.
LEMMA StablyIsOrder ==
  ASSUME NEW n \in Nat, NEW keys \in [1..n -> Seq(Strings)]
  PROVE  Orders(Stably(keys), 1..n)
  <1>1. \A i, j \in 1..n : <<i, j>> \in Stably(keys) <=>
          \/ <<keys[i], keys[j]>> \in TupleOrder
          \/ i < j /\ <<keys[j], keys[i]>> \notin TupleOrder
    BY DEF Stably
  <1>2. \A i \in 1..n : keys[i] \in Seq(Strings)
    OBVIOUS
  <1>3. \A i, j \in 1..n : <<keys[i], keys[j]>> \notin TupleOrder
                             /\ <<keys[j], keys[i]>> \notin TupleOrder => keys[i] = keys[j]
    BY <1>2, TuplesAreOrdered DEF Orders
  <1>4. \A i, j, k \in 1..n : <<keys[i], keys[j]>> \in TupleOrder
                                /\ <<keys[j], keys[k]>> \in TupleOrder
                              => <<keys[i], keys[k]>> \in TupleOrder
    BY <1>2, TuplesAreOrdered DEF Orders
  <1>5. \A i \in 1..n : <<keys[i], keys[i]>> \notin TupleOrder
    BY <1>2, TuplesAreOrdered DEF Orders
  <1>6. ASSUME NEW i \in 1..n PROVE <<i, i>> \notin Stably(keys)
    <2>1. ~(i < i)
      OBVIOUS
    <2> QED BY <1>1, <1>5, <2>1
  <1>7. ASSUME NEW i \in 1..n, NEW j \in 1..n, NEW k \in 1..n,
               <<i, j>> \in Stably(keys), <<j, k>> \in Stably(keys)
        PROVE  <<i, k>> \in Stably(keys)
    <2>1. CASE <<keys[i], keys[j]>> \in TupleOrder /\ <<keys[j], keys[k]>> \in TupleOrder
      BY <1>1, <1>4, <2>1
    <2>2. CASE <<keys[i], keys[j]>> \in TupleOrder /\ <<keys[j], keys[k]>> \notin TupleOrder
      <3>1. keys[j] = keys[k]
        BY <1>1, <1>3, <1>7, <2>2
      <3> QED BY <1>1, <2>2, <3>1
    <2>3. CASE <<keys[i], keys[j]>> \notin TupleOrder
      <3>1. keys[i] = keys[j] /\ i < j
        BY <1>1, <1>3, <1>7, <2>3
      <3>2. CASE <<keys[j], keys[k]>> \in TupleOrder
        BY <1>1, <3>1, <3>2
      <3>3. CASE <<keys[j], keys[k]>> \notin TupleOrder
        <4>1. j < k /\ <<keys[k], keys[j]>> \notin TupleOrder
          BY <1>1, <1>7, <3>3
        <4>2. i < k
          BY <3>1, <4>1
        <4> QED BY <1>1, <3>1, <4>1, <4>2
      <3> QED BY <3>2, <3>3
    <2> QED BY <2>1, <2>2, <2>3
  <1>8. ASSUME NEW i \in 1..n, NEW j \in 1..n, i # j
        PROVE  <<i, j>> \in Stably(keys) \/ <<j, i>> \in Stably(keys)
    <2>1. i < j \/ j < i
      BY <1>8
    <2> QED BY <1>1, <2>1
  <1> QED BY <1>6, <1>7, <1>8 DEF Orders

\* Keys of records, and their tuples in a table.
LEMMA KeysAreTuples ==
  \A r \in Rows : Key(r) \in Seq(Strings) /\ Len(Key(r)) = 2
  BY DEF Key, Rows

\* The rows of a partition's file are rows of its members, each once.
Permutes(l, n) ==
  /\ l \in [1..n -> 1..n]
  /\ \A i \in 1..n : \E k \in 1..n : l[k] = i
  /\ \A i, j \in 1..n : i # j => l[i] # l[j]

\* What sorted makes of the positions of rows.
Stable(s, i, j) ==
  TupleLess(Key(s[i]), Key(s[j])) \/ (i < j /\ ~TupleLess(Key(s[j]), Key(s[i])))

StablePlace(s, k) ==
  CHOOSE x \in DOMAIN s : Cardinality({y \in DOMAIN s : Stable(s, y, x)}) = k - 1

StableList(s) == [k \in 1..Cardinality(DOMAIN s) |-> StablePlace(s, k)]

\* StableList is a list.
LEMMA StableListIsList ==
  ASSUME NEW s
  PROVE  StableList(s) = [k \in 1..Cardinality(DOMAIN s) |-> StableList(s)[k]]
  BY DEF StableList

\* It is the order of sorted by the key.
LEMMA StableListSorts ==
  ASSUME NEW s
  PROVE  Sorted(s, LAMBDA r, t : LexLess(Key(r), Key(t), StringLess))
           = [k \in DOMAIN s |-> s[StableList(s)[k]]]
  BY DEF Sorted, Listed, StableList, StablePlace, Stable, TupleLess

Reorders(t, s) ==
  /\ s \in Seq(Rows)
  /\ \E l : Permutes(l, Len(s)) /\ t = [k \in 1..Len(s) |-> s[l[k]]]

MembersOf(records, columns, key) ==
  {i \in DOMAIN records : PartitionKey(records[i], columns) = key}

\* sorted only changes the order.
LEMMA RecordsOfPermutes ==
  ASSUME NEW records \in Seq(Rows), NEW columns, NEW key
  PROVE  Reorders(RecordsOf(records, columns, key), At(records, MembersOf(records, columns, key)))
  <1> DEFINE members == {i \in DOMAIN records : PartitionKey(records[i], columns) = key}
             s == At(records, members)
             n == Len(s)
             keys == [i \in 1..n |-> Key(s[i])]
             l == Ranked(1..n, Stably(keys))
  <1>1. members \subseteq 1..Len(records) /\ Len(records) \in Nat
        /\ \A i \in members : records[i] \in Rows
    OBVIOUS
  <1>2. s \in Seq(Rows)
    BY <1>1, AtIsList
  <1> HIDE DEF s, members
  <1>3. n \in Nat /\ DOMAIN s = 1..n /\ \A i \in 1..n : s[i] \in Rows
    BY <1>2
  <1> HIDE DEF n
  <1>4. keys \in [1..n -> Seq(Strings)] /\ DOMAIN keys = 1..n
    BY <1>3, KeysAreTuples
  <1>5. IsFiniteSet(1..n) /\ Cardinality(1..n) = n
    BY <1>3, FS_Interval
  <1>6. GoesThrough(l, 1..n, Stably(keys))
    BY <1>3, <1>4, <1>5, StablyIsOrder, RankedGoesThrough
  <1>7. \A i, j \in 1..n : <<i, j>> \in Stably(keys) <=>
          \/ TupleLess(Key(s[i]), Key(s[j]))
          \/ i < j /\ ~TupleLess(Key(s[j]), Key(s[i]))
    <2>1. \A i, j \in 1..n : <<Key(s[i]), Key(s[j])>> \in TupleOrder
                               <=> TupleLess(Key(s[i]), Key(s[j]))
      BY <1>3, KeysAreTuples DEF TupleOrder
    <2>2. \A i, j \in 1..n : <<i, j>> \in Stably(keys) <=>
            \/ <<keys[i], keys[j]>> \in TupleOrder
            \/ i < j /\ <<keys[j], keys[i]>> \notin TupleOrder
      BY <1>4 DEF Stably
    <2> QED BY <2>1, <2>2
  <1> HIDE DEF keys
  <1>8. \A x \in 1..n : Below(x, 1..n, Stably(keys)) =
          {y \in DOMAIN s : Stable(s, y, x)}
    BY <1>3, <1>7 DEF Below, Stable
  <1>9. l = StableList(s)
    <2>1. l = [k \in 1..Cardinality(1..n) |-> l[k]]
      BY DEF Ranked
    <2>2. StableList(s) = [k \in 1..Cardinality(DOMAIN s) |-> StableList(s)[k]]
      BY StableListIsList
    <2>3. ASSUME NEW k \in 1..n PROVE l[k] = StableList(s)[k]
      <3>1. l[k] = CHOOSE x \in 1..n : Cardinality(Below(x, 1..n, Stably(keys))) = k - 1
        BY <1>5 DEF Ranked
      <3>2. StableList(s)[k] =
              CHOOSE x \in DOMAIN s : Cardinality({y \in DOMAIN s : Stable(s, y, x)}) = k - 1
        BY <1>3, <1>5 DEF StableList, StablePlace
      <3> HIDE DEF l
      <3> QED BY <1>3, <1>8, <3>1, <3>2
    <2> HIDE DEF l
    <2> QED BY <1>3, <1>5, <2>1, <2>2, <2>3
  <1> HIDE DEF l
  <1>10. RecordsOf(records, columns, key) = [k \in DOMAIN s |-> s[l[k]]]
    <2>1. RecordsOf(records, columns, key)
            = Sorted(s, LAMBDA r, t : LexLess(Key(r), Key(t), StringLess))
      BY DEF RecordsOf, s, members
    <2> QED BY <1>9, <2>1, StableListSorts
  <1>11. Permutes(l, n)
    <2>1. l \in [1..n -> 1..n] /\ \A i \in 1..n : \E k \in 1..n : l[k] = i
      BY <1>5, <1>6 DEF GoesThrough
    <2>2. \A i, j \in 1..n : i < j => <<l[i], l[j]>> \in Stably(keys)
      BY <1>5, <1>6 DEF GoesThrough
    <2>3. \A i \in 1..n : <<i, i>> \notin Stably(keys)
      BY <1>3, <1>4, StablyIsOrder DEF Orders
    <2>4. \A i, j \in 1..n : i # j => l[i] # l[j]
      <3> TAKE i \in 1..n, j \in 1..n
      <3> HAVE i # j
      <3>1. l[i] \in 1..n /\ l[j] \in 1..n
        BY <2>1
      <3>2. CASE i < j
        BY <2>2, <2>3, <3>1, <3>2
      <3>3. CASE j < i
        BY <2>2, <2>3, <3>1, <3>3
      <3> QED BY <3>2, <3>3
    <2> QED BY <2>1, <2>4 DEF Permutes
  <1>12. RecordsOf(records, columns, key) = [k \in 1..n |-> s[l[k]]]
    BY <1>3, <1>10
  <1>13. n = Len(s)
    BY DEF n
  <1> QED BY <1>2, <1>11, <1>12, <1>13 DEF s, members, Reorders, MembersOf

-----------------------------------------------------------------------------
(* Redaction.                                                              *)

\* Redacted text is text, not empty unless it was, and clean if the words of its
\* telephone numbers stand side by side.
LEMMA RedactedTexts ==
  ASSUME NEW text \in Texts
  PROVE  /\ Redact(text) \in Texts
         /\ text # <<>> => Redact(text) # <<>>
         /\ WholeNumbers(text) => Clean(Redact(text))
  <1> DEFINE number == {i \in 2..Len(text) : text[i - 1] = Area /\ text[i] = Number}
             hidden == [i \in DOMAIN text |-> IF i + 1 \in number THEN Placeholder ELSE text[i]]
             P == DOMAIN text \ number
  <1>1. /\ Len(text) \in Nat /\ DOMAIN text = 1..Len(text)
        /\ \A i \in 1..Len(text) : text[i] \in Words
    BY DEF Texts
  <1>2. Redact(text) = At(hidden, P)
    BY DEF Redact
  <1>3. P \subseteq 1..Len(text)
    BY <1>1
  <1>4. \A i \in 1..Len(text) :
          hidden[i] = IF i + 1 \in number THEN Placeholder ELSE text[i]
    BY <1>1
  <1>5. \A i \in P : hidden[i] \in Words
    BY <1>1, <1>4, WordsAssumption
  <1>6. \A i : i \in number <=> i \in 2..Len(text) /\ text[i - 1] = Area /\ text[i] = Number
    OBVIOUS
  <1>7. P = {i \in 1..Len(text) : i \notin number}
    BY <1>1
  <1> HIDE DEF number, hidden, P
  <1>8. At(hidden, P) \in Seq(Words)
    BY <1>1, <1>3, <1>5, AtIsList
  <1>12. HasElements(At(hidden, P), hidden, P)
    BY <1>1, <1>3, AtHasElements
  <1>9. ASSUME text # <<>> PROVE At(hidden, P) # <<>>
    <2>1. Len(text) # 0
      BY <1>9 DEF Texts
    <2>2. 1 \in P
      BY <1>1, <1>6, <1>7, <2>1
    <2>3. \E k \in DOMAIN At(hidden, P) : At(hidden, P)[k] = hidden[1]
      BY <1>12, <2>2 DEF HasElements
    <2> QED BY <2>3
  <1>10. ASSUME WholeNumbers(text), NEW k \in DOMAIN At(hidden, P)
         PROVE  At(hidden, P)[k] \notin {Area, Number}
    <2>1. PICK i \in P : At(hidden, P)[k] = hidden[i]
      BY <1>12 DEF HasElements
    <2>2. i \in 1..Len(text) /\ i \notin number
      BY <1>7
    <2>3. CASE i + 1 \in number
      BY <1>4, <2>1, <2>2, <2>3, WordsAssumption
    <2>4. CASE i + 1 \notin number
      <3>1. At(hidden, P)[k] = text[i]
        BY <1>4, <2>1, <2>2, <2>4
      <3>2. text[i] # Area
        <4> SUFFICES ASSUME text[i] = Area PROVE FALSE
          OBVIOUS
        <4>1. i + 1 \in 1..Len(text) /\ text[i + 1] = Number
          BY <1>1, <1>10, <2>2 DEF WholeNumbers
        <4>2. i + 1 \in 2..Len(text) /\ text[(i + 1) - 1] = Area
          BY <1>1, <2>2, <4>1
        <4> QED BY <1>6, <2>4, <4>1, <4>2
      <3>3. text[i] # Number
        <4> SUFFICES ASSUME text[i] = Number PROVE FALSE
          OBVIOUS
        <4>1. i - 1 \in 1..Len(text) /\ text[i - 1] = Area
          BY <1>1, <1>10, <2>2 DEF WholeNumbers
        <4>2. i \in 2..Len(text)
          BY <1>1, <2>2, <4>1
        <4> QED BY <1>6, <2>2, <4>1, <4>2
      <3> QED BY <3>1, <3>2, <3>3
    <2> QED BY <2>3, <2>4
  <1>11. WholeNumbers(text) => Clean(At(hidden, P))
    BY <1>10 DEF Clean, ToSet
  <1> QED BY <1>2, <1>8, <1>9, <1>11 DEF Texts

\* Clean, word by word.
LEMMA CleanWords ==
  ASSUME NEW text
  PROVE  Clean(text) <=> \A i \in DOMAIN text : text[i] \notin {Area, Number}
  BY DEF Clean, ToSet

\* A part of a text is a text, and clean if the text is.
LEMMA PartsAreTexts ==
  ASSUME NEW text \in Texts, NEW m \in Nat \ {0}, NEW n \in Nat, n <= Len(text)
  PROVE  /\ SubSeq(text, m, n) \in Texts
         /\ Clean(text) => Clean(SubSeq(text, m, n))
  <1>1. \A i \in m..n : i \in 1..Len(text) /\ text[i] \in Words
    BY DEF Texts
  <1>2. /\ SubSeq(text, m, n) \in Seq(Words)
        /\ Len(SubSeq(text, m, n)) = IF m <= n THEN n - m + 1 ELSE 0
        /\ \A i \in 1..n - m + 1 : SubSeq(text, m, n)[i] = text[m + i - 1]
    BY <1>1, SubSeqProperties
  <1>3. ASSUME Clean(text), NEW i \in DOMAIN SubSeq(text, m, n)
        PROVE  SubSeq(text, m, n)[i] \notin {Area, Number}
    <2>1. i \in 1..(n - m + 1)
      BY <1>2
    <2>2. m + i - 1 \in 1..Len(text) /\ SubSeq(text, m, n)[i] = text[m + i - 1]
      BY <1>1, <1>2, <2>1
    <2>3. DOMAIN text = 1..Len(text)
      BY DEF Texts
    <2> QED BY <1>3, <2>2, <2>3, CleanWords
  <1> QED BY <1>2, <1>3, CleanWords DEF Texts

\* A clean text has no number to tear.
LEMMA CleanIsWhole == \A text : Clean(text) => WholeNumbers(text)
  BY CleanWords DEF WholeNumbers

-----------------------------------------------------------------------------
(* Rows.                                                                   *)

\* Redacting a row changes its text only.
LEMMA RedactedRow ==
  ASSUME NEW r \in Rows
  PROVE  /\ RedactRecord(r) \in Rows
         /\ Key(RedactRecord(r)) = Key(r) /\ RedactRecord(r).valid = r.valid
         /\ RedactRecord(r).text = Redact(r.text) /\ RedactRecord(r).plain = r.plain
  <1>1. r.text \in Texts /\ (r.valid => r.text # <<>> /\ r.plain)
    BY DEF Rows
  <1>2. RedactRecord(r) = [r EXCEPT !.text = Redact(r.text)]
    BY DEF RedactRecord
  <1>3. Redact(r.text) \in Texts /\ (r.text # <<>> => Redact(r.text) # <<>>)
    BY <1>1, RedactedTexts
  <1> HIDE DEF RedactRecord
  <1>4. RedactRecord(r) \in Rows
    BY <1>1, <1>2, <1>3 DEF Rows
  <1>5. /\ RedactRecord(r).text = Redact(r.text) /\ RedactRecord(r).valid = r.valid
        /\ RedactRecord(r).tenant = r.tenant /\ RedactRecord(r).id = r.id
        /\ RedactRecord(r).plain = r.plain
    BY <1>2 DEF Rows
  <1> QED BY <1>4, <1>5 DEF Key

\* Redacting rows keeps their number, keys and validity.
LEMMA RedactedRows ==
  ASSUME NEW rows \in Seq(Rows)
  PROVE  /\ RedactRecords(rows) \in Seq(Rows)
         /\ Len(RedactRecords(rows)) = Len(rows)
         /\ DOMAIN RedactRecords(rows) = DOMAIN rows
         /\ \A i \in DOMAIN rows : RedactRecords(rows)[i] = RedactRecord(rows[i])
         /\ IsSound(rows) => IsSound(RedactRecords(rows))
         /\ AllWhole(rows) => AllClean(RedactRecords(rows))
  <1> DEFINE new == RedactRecords(rows)
  <1>1. Len(rows) \in Nat /\ DOMAIN rows = 1..Len(rows) /\ \A i \in 1..Len(rows) : rows[i] \in Rows
    OBVIOUS
  <1>2. new = [i \in 1..Len(rows) |-> RedactRecord(rows[i])]
    BY <1>1 DEF RedactRecords
  <1> HIDE DEF new
  <1>3. DOMAIN new = 1..Len(rows) /\ \A i \in 1..Len(rows) : new[i] = RedactRecord(rows[i])
    BY <1>2
  <1>4. \A i \in 1..Len(rows) : new[i] \in Rows
    BY <1>1, <1>3, RedactedRow
  <1>5. new \in [1..Len(rows) -> Rows]
    BY <1>2, <1>3, <1>4
  <1>6. new \in Seq(Rows) /\ Len(new) = Len(rows)
    BY <1>1, <1>5, ListsAreSequences
  <1>7. \A i \in 1..Len(rows) : Key(new[i]) = Key(rows[i]) /\ new[i].valid = rows[i].valid
                                 /\ new[i].text = Redact(rows[i].text) /\ rows[i].text \in Texts
    <2> TAKE i \in 1..Len(rows)
    <2>1. rows[i] \in Rows /\ new[i] = RedactRecord(rows[i])
      BY <1>1, <1>3
    <2>2. rows[i].text \in Texts
      BY <2>1 DEF Rows
    <2> QED BY <2>1, <2>2, RedactedRow
  <1>8. ASSUME IsSound(rows) PROVE IsSound(new)
    <2> SUFFICES ASSUME NEW i \in 1..Len(rows) PROVE RowIsSound(new, i)
      BY <1>3 DEF IsSound
    <2>1. RowIsSound(rows, i)
      BY <1>1, <1>8 DEF IsSound
    <2>2. \A j \in 1..(i - 1) : j \in 1..Len(rows)
      BY <1>1
    <2> QED BY <1>7, <2>1, <2>2 DEF RowIsSound
  <1>9. ASSUME AllWhole(rows) PROVE AllClean(new)
    <2> SUFFICES ASSUME NEW i \in 1..Len(rows) PROVE Clean(new[i].text)
      BY <1>3 DEF AllClean
    <2>1. WholeNumbers(rows[i].text)
      BY <1>1, <1>9 DEF AllWhole
    <2> QED BY <1>7, <2>1, RedactedTexts
  <1> QED BY <1>1, <1>3, <1>6, <1>8, <1>9 DEF new

\* Cleaning payloads redacts the strings.
LEMMA CleanedPayloads ==
  ASSUME NEW rows \in Seq(Rows)
  PROVE  /\ CleanPayloads(rows) \in Seq(Rows)
         /\ AllWhole(rows) => StringsClean(CleanPayloads(rows))
  <1> DEFINE new == CleanPayloads(rows)
  <1>1. Len(rows) \in Nat /\ DOMAIN rows = 1..Len(rows) /\ \A i \in 1..Len(rows) : rows[i] \in Rows
    OBVIOUS
  <1>2. new = [i \in 1..Len(rows) |-> CleanPayload(rows[i])]
    BY <1>1 DEF CleanPayloads
  <1> HIDE DEF new
  <1>3. DOMAIN new = 1..Len(rows) /\ \A i \in 1..Len(rows) : new[i] = CleanPayload(rows[i])
    BY <1>2
  <1>4. ASSUME NEW i \in 1..Len(rows)
        PROVE  /\ new[i] \in Rows
               /\ new[i].plain => new[i].text = Redact(rows[i].text)
    <2>1. rows[i] \in Rows /\ new[i] = CleanPayload(rows[i])
      BY <1>1, <1>3
    <2>2. CASE rows[i].plain
      <3>1. new[i] = RedactRecord(rows[i])
        BY <2>1, <2>2 DEF CleanPayload
      <3> QED BY <2>1, <3>1, RedactedRow
    <2>3. CASE ~rows[i].plain
      <3>1. new[i] = rows[i]
        BY <2>1, <2>3 DEF CleanPayload
      <3> QED BY <2>1, <2>3, <3>1
    <2> QED BY <2>2, <2>3
  <1>5. new \in [1..Len(rows) -> Rows]
    BY <1>2, <1>3, <1>4
  <1>6. new \in Seq(Rows)
    BY <1>1, <1>5, ListsAreSequences
  <1>7. ASSUME AllWhole(rows) PROVE StringsClean(new)
    <2> SUFFICES ASSUME NEW i \in 1..Len(rows), new[i].plain PROVE Clean(new[i].text)
      BY <1>3 DEF StringsClean
    <2>1. WholeNumbers(rows[i].text) /\ rows[i] \in Rows
      BY <1>1, <1>7 DEF AllWhole
    <2>2. rows[i].text \in Texts
      BY <2>1 DEF Rows
    <2> QED BY <1>4, <2>1, <2>2, RedactedTexts
  <1> QED BY <1>6, <1>7 DEF new

\* Of two, the smaller.
LEMMA MinOfTwo ==
  ASSUME NEW a \in Nat, NEW b \in Nat
  PROVE  Min({a, b}) \in Nat /\ Min({a, b}) <= a /\ Min({a, b}) <= b
  <1>1. \E x \in {a, b} : \A y \in {a, b} : x <= y
    <2>1. CASE a <= b
      BY <2>1
    <2>2. CASE b <= a
      BY <2>2
    <2> QED BY <2>1, <2>2
  <1>2. Min({a, b}) \in {a, b} /\ \A y \in {a, b} : Min({a, b}) <= y
    BY <1>1 DEF Min
  <1> QED BY <1>2

\* The first rows of a list of rows.
LEMMA FirstRows ==
  ASSUME NEW rows \in Seq(Rows), NEW n \in Nat, n <= Len(rows)
  PROVE  /\ SubSeq(rows, 1, n) \in Seq(Rows) /\ Len(SubSeq(rows, 1, n)) = n
         /\ DOMAIN SubSeq(rows, 1, n) = 1..n
         /\ \A i \in 1..n : SubSeq(rows, 1, n)[i] = rows[i] /\ i \in DOMAIN rows
         /\ AllClean(rows) => AllClean(SubSeq(rows, 1, n))
         /\ AllWhole(rows) => AllWhole(SubSeq(rows, 1, n))
         /\ StringsClean(rows) => StringsClean(SubSeq(rows, 1, n))
  <1> DEFINE t == SubSeq(rows, 1, n)
  <1>1. \A i \in 1..n : rows[i] \in Rows /\ i \in DOMAIN rows
    OBVIOUS
  <1>2. t \in Seq(Rows) /\ Len(t) = (IF 1 <= n THEN n - 1 + 1 ELSE 0)
        /\ \A i \in 1..n - 1 + 1 : t[i] = rows[1 + i - 1]
    BY <1>1, SubSeqProperties
  <1> HIDE DEF t
  <1>3. Len(t) = n /\ DOMAIN t = 1..n
    BY <1>2
  <1>4. \A i \in 1..n : t[i] = rows[i]
    BY <1>2
  <1>5. AllClean(rows) => AllClean(t)
    BY <1>1, <1>3, <1>4 DEF AllClean
  <1>6. AllWhole(rows) => AllWhole(t)
    BY <1>1, <1>3, <1>4 DEF AllWhole
  <1>7. StringsClean(rows) => StringsClean(t)
    BY <1>1, <1>3, <1>4 DEF StringsClean
  <1> QED BY <1>1, <1>2, <1>3, <1>4, <1>5, <1>6, <1>7 DEF t

-----------------------------------------------------------------------------
(* What a stream accepts.                                                  *)

\* Different tenants or ids may have one stream key, but not the other way round.
LEMMA KeysTellMore ==
  ASSUME NEW r, NEW s, Key(r) = Key(s) PROVE StreamKey(r) = StreamKey(s)
  BY DEF Key, StreamKey

\* Accepted messages are rows that every strict loader takes: no two of one key.
LEMMA AcceptedIsSound ==
  ASSUME NEW batch \in Seq(Rows)
  PROVE  /\ Accepted(batch) \in Seq(Rows) /\ IsSound(Accepted(batch))
         /\ Rejected(batch) \in Seq(Rows)
         /\ AllWhole(batch) => AllWhole(Accepted(batch)) /\ AllWhole(Rejected(batch))
  <1> DEFINE P == {i \in DOMAIN batch : Accepts(batch, i)}
             Q == {i \in DOMAIN batch : ~Accepts(batch, i)}
             n == Cardinality(P)
  <1>1. /\ Len(batch) \in Nat /\ P \subseteq 1..Len(batch) /\ Q \subseteq 1..Len(batch)
        /\ \A i \in 1..Len(batch) : batch[i] \in Rows /\ i \in DOMAIN batch
    OBVIOUS
  <1>2. Accepted(batch) = At(batch, P) /\ Rejected(batch) = At(batch, Q)
    BY DEF Accepted, Rejected
  <1>3. \A i \in P : Accepts(batch, i)
    OBVIOUS
  <1> HIDE DEF P, Q
  <1>4. At(batch, P) \in Seq(Rows) /\ At(batch, Q) \in Seq(Rows)
    BY <1>1, AtIsList
  <1>5. IsSound(At(batch, P))
    <2>0. AtSelection(batch, P)
      BY <1>1, AtSelects
    <2>1. PICK l : SelectedBy(l, P) /\ At(batch, P) = [k \in 1..n |-> batch[l[k]]]
      BY <2>0 DEF AtSelection
    <2>2. /\ n \in Nat /\ \A k \in 1..n : l[k] \in P
          /\ \A i, j \in 1..n : i < j => l[i] < l[j]
      BY <2>1 DEF SelectedBy
    <2>3. DOMAIN At(batch, P) = 1..n /\ \A k \in 1..n : At(batch, P)[k] = batch[l[k]]
      BY <2>1
    <2> SUFFICES ASSUME NEW i \in 1..n PROVE RowIsSound(At(batch, P), i)
      BY <2>3 DEF IsSound
    <2> HIDE DEF n
    <2>4. Accepts(batch, l[i])
      BY <1>3, <2>2
    <2>5. batch[l[i]].valid
      BY <2>4 DEF Accepts
    <2>6. ASSUME NEW j \in 1..(i - 1) PROVE Key(At(batch, P)[j]) # Key(At(batch, P)[i])
      <3>1. j \in 1..n /\ j < i
        BY <2>2
      <3>2. l[j] \in P /\ l[i] \in P /\ l[j] < l[i]
        BY <2>2, <3>1
      <3>7. l[j] \in 1..Len(batch) /\ l[i] \in 1..Len(batch)
        BY <1>1, <3>2
      <3>5. l[j] \in 1..(l[i] - 1)
        BY <3>2, <3>7
      <3>6. Accepts(batch, l[j])
        BY <1>3, <3>2
      <3>3. l[j] \in 1..(l[i] - 1) /\ batch[l[j]].valid
        BY <3>5, <3>6 DEF Accepts
      <3>4. StreamKey(batch[l[j]]) # StreamKey(batch[l[i]])
        BY <2>4, <3>3 DEF Accepts
      <3> QED BY <2>3, <3>1, <3>4, KeysTellMore
    <2> QED BY <2>3, <2>5, <2>6 DEF RowIsSound
  <1>6. ASSUME AllWhole(batch), NEW S, S \subseteq 1..Len(batch) PROVE AllWhole(At(batch, S))
    <2> SUFFICES ASSUME NEW k \in DOMAIN At(batch, S) PROVE WholeNumbers(At(batch, S)[k].text)
      BY DEF AllWhole
    <2>0. HasElements(At(batch, S), batch, S)
      BY <1>1, <1>6, AtHasElements
    <2>1. PICK i \in S : At(batch, S)[k] = batch[i]
      BY <2>0 DEF HasElements
    <2> QED BY <1>1, <1>6, <2>1 DEF AllWhole
  <1> QED BY <1>1, <1>2, <1>4, <1>5, <1>6

-----------------------------------------------------------------------------
(* Lists of files to write.                                                *)

\* A list is one of its own elements.
LEMMA OwnElements ==
  ASSUME NEW X, NEW s \in Seq(X)
  PROVE  s \in Seq(ToSet(s)) /\ DOMAIN s = 1..Len(s) /\ Len(s) \in Nat
  <1>1. Len(s) \in Nat /\ DOMAIN s = 1..Len(s) /\ s = [i \in 1..Len(s) |-> s[i]]
    OBVIOUS
  <1>2. \A i \in 1..Len(s) : s[i] \in ToSet(s)
    BY <1>1 DEF ToSet
  <1>3. s \in [1..Len(s) -> ToSet(s)]
    BY <1>1, <1>2
  <1> QED BY <1>1, <1>3, ListsAreSequences

\* Writes one by one.
LEMMA ListedWrites ==
  ASSUME NEW n \in Nat, NEW f, f = [i \in 1..n |-> f[i]], \A i \in 1..n : WriteInv(f[i])
  PROVE  WritesInv(f)
  <1>1. DOMAIN f = 1..n
    OBVIOUS
  <1>2. \A i \in 1..n : f[i] \in ToSet(f)
    BY <1>1 DEF ToSet
  <1>3. f \in [1..n -> ToSet(f)]
    BY <1>2
  <1>4. f \in Seq(ToSet(f))
    BY <1>3, ListsAreSequences
  <1> QED BY <1>1, <1>4 DEF WritesInv

\* No write, one write.
LEMMA FewWrites ==
  /\ WritesInv(<<>>)
  /\ \A w : WriteInv(w) => WritesInv(<<w>>)
  <1>1. WritesInv(<<>>)
    BY DEF WritesInv
  <1>2. ASSUME NEW w, WriteInv(w) PROVE WritesInv(<<w>>)
    <2>1. <<w>> \in Seq({w}) /\ Len(<<w>>) = 1 /\ <<w>>[1] = w
      OBVIOUS
    <2>2. <<w>> \in Seq(ToSet(<<w>>)) /\ DOMAIN <<w>> = 1..1
      BY <2>1, OwnElements
    <2> QED BY <1>2, <2>1, <2>2 DEF WritesInv
  <1> QED BY <1>1, <1>2

\* Writes after writes.
LEMMA JoinedWrites ==
  ASSUME NEW a, NEW b, WritesInv(a), WritesInv(b)
  PROVE  WritesInv(a \o b)
  <1> DEFINE X == ToSet(a) \cup ToSet(b)
             c == a \o b
  <1>1. a \in Seq(X) /\ b \in Seq(X)
    <2>1. a \in Seq(ToSet(a)) /\ b \in Seq(ToSet(b)) /\ ToSet(a) \subseteq X /\ ToSet(b) \subseteq X
      BY DEF WritesInv
    <2> QED BY <2>1, SeqMonotonic
  <1> HIDE DEF X
  <1>2. /\ c \in Seq(X) /\ Len(c) = Len(a) + Len(b)
        /\ \A i \in 1..Len(a) + Len(b) : c[i] = IF i <= Len(a) THEN a[i] ELSE b[i - Len(a)]
    BY <1>1, ConcatProperties
  <1>3. /\ Len(a) \in Nat /\ DOMAIN a = 1..Len(a) /\ Len(b) \in Nat /\ DOMAIN b = 1..Len(b)
    BY <1>1
  <1> HIDE DEF c
  <1>4. c \in Seq(ToSet(c)) /\ DOMAIN c = 1..(Len(a) + Len(b))
    BY <1>2, OwnElements
  <1>5. ASSUME NEW i \in 1..(Len(a) + Len(b)) PROVE WriteInv(c[i])
    <2>1. CASE i <= Len(a)
      <3>1. i \in DOMAIN a /\ c[i] = a[i]
        BY <1>2, <1>3, <2>1
      <3> QED BY <3>1 DEF WritesInv
    <2>2. CASE ~(i <= Len(a))
      <3>1. i - Len(a) \in DOMAIN b /\ c[i] = b[i - Len(a)]
        BY <1>2, <1>3, <2>2
      <3> QED BY <3>1 DEF WritesInv
    <2> QED BY <2>1, <2>2
  <1>6. WritesInv(c)
    BY <1>4, <1>5 DEF WritesInv
  <1> QED BY <1>6 DEF c

\* With one file written, the others are left.
LEMMA WritesLeft ==
  ASSUME NEW ws, WritesInv(ws), ws # <<>>
  PROVE  WriteInv(Head(ws)) /\ WritesInv(Tail(ws))
  <1>1. ws \in Seq(ToSet(ws)) /\ DOMAIN ws = 1..Len(ws) /\ Len(ws) \in Nat \ {0}
    BY DEF WritesInv
  <1>2. /\ Tail(ws) \in Seq(ToSet(ws)) /\ Len(Tail(ws)) = Len(ws) - 1
        /\ \A i \in 1..Len(Tail(ws)) : Tail(ws)[i] = ws[i + 1]
    BY <1>1, HeadTailProperties
  <1>3. Tail(ws) \in Seq(ToSet(Tail(ws))) /\ DOMAIN Tail(ws) = 1..(Len(ws) - 1)
    BY <1>2, OwnElements
  <1>4. \A i \in 1..(Len(ws) - 1) : WriteInv(Tail(ws)[i])
    <2> TAKE i \in 1..(Len(ws) - 1)
    <2>1. Tail(ws)[i] = ws[i + 1] /\ i + 1 \in DOMAIN ws
      BY <1>1, <1>2
    <2> QED BY <2>1 DEF WritesInv
  <1>5. WritesInv(Tail(ws))
    BY <1>3, <1>4 DEF WritesInv
  <1>6. Head(ws) = ws[1] /\ 1 \in DOMAIN ws
    BY <1>1
  <1>7. WriteInv(Head(ws))
    BY <1>6 DEF WritesInv
  <1> QED BY <1>5, <1>7

\* The names of files are different.
LEMMA FileNames ==
  /\ Csv # Letters /\ Len(Csv) = 1 /\ Len(Letters) = 1
  /\ \A file \in {Manifest, DeltaLog, IcebergManifest, IcebergMetadata, Report, Results, Metrics,
                  Metadata, BenchmarkJson, BenchmarkTable} :
       Len(file) = 1 /\ file # Csv /\ file # Letters
  BY DEF Csv, Letters, Manifest, DeltaLog, IcebergManifest, IcebergMetadata, Report, Results,
         Metrics, Metadata, BenchmarkJson, BenchmarkTable

\* So are those of the parts of tables.
LEMMA PartNames ==
  ASSUME NEW columns, NEW key, NEW number
  PROVE  /\ Len(Part(columns, key, number)) = 3
         /\ Part(columns, key, number) # Csv /\ Part(columns, key, number) # Letters
  <1>1. Len(Part(columns, key, number)) = 3
    BY DEF Part
  <1> QED BY <1>1, FileNames

\* A file that is neither the CSV nor the dead letters nor part of a table may hold anything.
LEMMA OtherWrites ==
  ASSUME NEW file, Len(file) = 1, file # Csv, file # Letters, NEW content
  PROVE  WriteInv([file |-> file, content |-> content])
  BY DEF WriteInv

-----------------------------------------------------------------------------
(* What the commands write.                                                *)

\* Rows put behind rows.
LEMMA JoinedRows ==
  ASSUME NEW a \in Seq(Rows), NEW b \in Seq(Rows)
  PROVE  /\ a \o b \in Seq(Rows)
         /\ AllClean(a) /\ AllClean(b) => AllClean(a \o b)
         /\ StringsClean(a) /\ StringsClean(b) => StringsClean(a \o b)
  <1> DEFINE c == a \o b
  <1>1. /\ c \in Seq(Rows) /\ Len(c) = Len(a) + Len(b)
        /\ \A i \in 1..Len(a) + Len(b) : c[i] = IF i <= Len(a) THEN a[i] ELSE b[i - Len(a)]
    BY ConcatProperties
  <1>2. Len(a) \in Nat /\ DOMAIN a = 1..Len(a) /\ Len(b) \in Nat /\ DOMAIN b = 1..Len(b)
    OBVIOUS
  <1> HIDE DEF c
  <1>3. DOMAIN c = 1..(Len(a) + Len(b))
    BY <1>1
  <1>4. ASSUME AllClean(a), AllClean(b), NEW i \in 1..(Len(a) + Len(b)) PROVE Clean(c[i].text)
    <2>1. CASE i <= Len(a)
      <3>1. i \in DOMAIN a /\ c[i] = a[i]
        BY <1>1, <1>2, <2>1
      <3> QED BY <1>4, <3>1 DEF AllClean
    <2>2. CASE ~(i <= Len(a))
      <3>1. i - Len(a) \in DOMAIN b /\ c[i] = b[i - Len(a)]
        BY <1>1, <1>2, <2>2
      <3> QED BY <1>4, <3>1 DEF AllClean
    <2> QED BY <2>1, <2>2
  <1>5. AllClean(a) /\ AllClean(b) => AllClean(c)
    BY <1>3, <1>4 DEF AllClean
  <1>6. ASSUME StringsClean(a), StringsClean(b), NEW i \in 1..(Len(a) + Len(b)), c[i].plain
        PROVE  Clean(c[i].text)
    <2>1. CASE i <= Len(a)
      <3>1. i \in DOMAIN a /\ c[i] = a[i]
        BY <1>1, <1>2, <2>1
      <3> QED BY <1>6, <3>1 DEF StringsClean
    <2>2. CASE ~(i <= Len(a))
      <3>1. i - Len(a) \in DOMAIN b /\ c[i] = b[i - Len(a)]
        BY <1>1, <1>2, <2>2
      <3> QED BY <1>6, <3>1 DEF StringsClean
    <2> QED BY <2>1, <2>2
  <1>7. StringsClean(a) /\ StringsClean(b) => StringsClean(c)
    BY <1>3, <1>6 DEF StringsClean
  <1> QED BY <1>1, <1>5, <1>7 DEF c

\* A list with one row.
LEMMA OneRow ==
  ASSUME NEW r \in Rows
  PROVE  <<r>> \in Seq(Rows) /\ (Clean(r.text) => AllClean(<<r>>))
  <1>1. <<r>> \in Seq(Rows) /\ Len(<<r>>) = 1 /\ <<r>>[1] = r
    OBVIOUS
  <1>2. DOMAIN <<r>> = 1..1
    BY <1>1, OwnElements
  <1> QED BY <1>1, <1>2 DEF AllClean

\* stream-ingest writes dead letters whose strings are redacted, and a redacted CSV that
\* strict loaders take.
LEMMA StreamWrites ==
  ASSUME NEW batch \in Seq(Rows), AllWhole(batch),
         disk[Letters] \in Seq(Rows), StringsClean(disk[Letters])
  PROVE  LET accepted == Accepted(batch)
             rejected == CleanPayloads(Rejected(batch))
             letters == [n \in DOMAIN rejected |->
                          [file |-> Letters, content |-> disk[Letters] \o SubSeq(rejected, 1, n)]]
             rows == IF accepted = <<>> THEN <<>>
                     ELSE <<[file |-> Csv, content |-> RedactRecords(accepted)]>>
         IN  WritesInv(letters \o rows)
  <1> DEFINE accepted == Accepted(batch)
             rejected == CleanPayloads(Rejected(batch))
             letters == [n \in DOMAIN rejected |->
                          [file |-> Letters, content |-> disk[Letters] \o SubSeq(rejected, 1, n)]]
             rows == IF accepted = <<>> THEN <<>>
                     ELSE <<[file |-> Csv, content |-> RedactRecords(accepted)]>>
  <1>1. /\ accepted \in Seq(Rows) /\ IsSound(accepted) /\ AllWhole(accepted)
        /\ rejected \in Seq(Rows) /\ StringsClean(rejected)
    BY AcceptedIsSound, CleanedPayloads
  <1>2. IsWritten(RedactRecords(accepted))
    BY <1>1, RedactedRows DEF IsWritten
  <1> HIDE DEF accepted, rejected
  <1>3. DOMAIN rejected = 1..Len(rejected) /\ Len(rejected) \in Nat
    BY <1>1
  <1>4. WritesInv(letters)
    <2>1. letters = [n \in 1..Len(rejected) |-> letters[n]]
      BY <1>3
    <2>2. ASSUME NEW n \in 1..Len(rejected) PROVE WriteInv(letters[n])
      <3>1. /\ letters[n].file = Letters
            /\ letters[n].content = disk[Letters] \o SubSeq(rejected, 1, n)
        BY <1>3
      <3>2. n \in Nat /\ n <= Len(rejected)
        BY <1>3
      <3>3. SubSeq(rejected, 1, n) \in Seq(Rows) /\ StringsClean(SubSeq(rejected, 1, n))
        BY <1>1, <3>2, FirstRows
      <3>4. letters[n].content \in Seq(Rows) /\ StringsClean(letters[n].content)
        BY <3>1, <3>3, JoinedRows
      <3> HIDE DEF letters
      <3> QED BY <3>1, <3>4, FileNames DEF WriteInv
    <2> HIDE DEF letters
    <2> QED BY <1>3, <2>1, <2>2, ListedWrites
  <1>5. WritesInv(rows)
    <2>1. WriteInv([file |-> Csv, content |-> RedactRecords(accepted)])
      BY <1>2, FileNames DEF WriteInv
    <2> QED BY <2>1, FewWrites
  <1> HIDE DEF letters, rows
  <1>6. WritesInv(letters \o rows)
    BY <1>4, <1>5, JoinedWrites
  <1> QED BY <1>6 DEF letters, rows, accepted, rejected

\* generate-data writes rows without numbers, each with an id of its own.
LEMMA GeneratedRows ==
  ASSUME NEW n \in Nat, NEW dates \in [1..n -> Dates], NEW channels \in [1..n -> Channels],
         NEW texts \in [1..n -> Sentences]
  PROVE  IsWritten([i \in 1..n |-> GeneratedRow(i, texts[i], dates[i], channels[i])])
  <1> DEFINE rows == [i \in 1..n |-> GeneratedRow(i, texts[i], dates[i], channels[i])]
  <1>1. ASSUME NEW i \in 1..n
        PROVE  /\ rows[i] \in Rows /\ Clean(rows[i].text) /\ rows[i].valid
               /\ Key(rows[i]) = <<Default, <<115, 121, 110, 45, 48 + i>>>>
    <2>1. rows[i] = [tenant |-> Default, id |-> <<115, 121, 110, 45, 48 + i>>, text |-> texts[i],
                     date |-> dates[i], channel |-> channels[i], valid |-> TRUE, plain |-> TRUE]
      BY DEF GeneratedRow
    <2>2. /\ texts[i] \in Sentences /\ texts[i] \in Texts /\ texts[i] # <<>> /\ Clean(texts[i])
          /\ dates[i] \in Strings /\ channels[i] \in Strings /\ Default \in Strings
      BY RowsAssumption, NumbersAssumption
    <2>3. <<115, 121, 110, 45, 48 + i>> \in Strings
      BY DEF Strings
    <2> HIDE DEF rows
    <2> QED BY <2>1, <2>2, <2>3 DEF Rows, Key
  <1>2. DOMAIN rows = 1..n
    OBVIOUS
  <1>3. rows = [i \in 1..n |-> rows[i]]
    OBVIOUS
  <1> HIDE DEF rows
  <1>4. rows \in [1..n -> Rows]
    BY <1>1, <1>3
  <1>5. rows \in Seq(Rows)
    BY <1>4, ListsAreSequences
  <1>6. AllClean(rows)
    BY <1>1, <1>2 DEF AllClean
  <1>7. IsSound(rows)
    <2> SUFFICES ASSUME NEW i \in 1..n, NEW j \in 1..(i - 1)
                 PROVE  rows[i].valid /\ Key(rows[j]) # Key(rows[i])
      BY <1>1, <1>2 DEF IsSound, RowIsSound
    <2>1. j \in 1..n /\ j # i
      OBVIOUS
    <2>2. <<115, 121, 110, 45, 48 + j>>[5] # <<115, 121, 110, 45, 48 + i>>[5]
      BY <2>1
    <2>3. Key(rows[i]) = <<Default, <<115, 121, 110, 45, 48 + i>>>>
          /\ Key(rows[j]) = <<Default, <<115, 121, 110, 45, 48 + j>>>>
      BY <1>1, <2>1
    <2> QED BY <1>1, <2>2, <2>3
  <1>8. IsWritten(rows)
    BY <1>5, <1>6, <1>7 DEF IsWritten
  <1> QED BY <1>8 DEF rows

\* The keys of partitions are finitely many.
LEMMA PartitionsAreFinite ==
  ASSUME NEW records \in Seq(Rows), NEW columns
  PROVE  LET S == {PartitionKey(records[i], columns) : i \in DOMAIN records}
         IN  IsFiniteSet(S) /\ Cardinality(S) \in Nat
  <1> DEFINE S == {PartitionKey(records[i], columns) : i \in DOMAIN records}
             f == [i \in DOMAIN records |-> PartitionKey(records[i], columns)]
  <1>1. Len(records) \in Nat /\ DOMAIN records = 1..Len(records)
    OBVIOUS
  <1>2. IsFiniteSet(DOMAIN records)
    BY <1>1, FS_Interval
  <1>3. f \in Surjection(DOMAIN records, S)
    BY DEF Surjection
  <1> HIDE DEF f, S
  <1>4. IsFiniteSet(S)
    BY <1>2, <1>3, FS_Surjection
  <1>5. Cardinality(S) \in Nat
    BY <1>4, FS_CardinalityType
  <1> QED BY <1>4, <1>5 DEF S

\* What a partition's file holds are records.
LEMMA PartitionsAreClean ==
  ASSUME NEW records \in Seq(Rows), AllClean(records), NEW columns, NEW key
  PROVE  AllClean(RecordsOf(records, columns, key))
  <1> DEFINE members == MembersOf(records, columns, key)
             s == At(records, members)
  <1>1. Reorders(RecordsOf(records, columns, key), s)
    BY RecordsOfPermutes
  <1> HIDE DEF s
  <1>2. PICK l : /\ Permutes(l, Len(s))
                 /\ RecordsOf(records, columns, key) = [k \in 1..Len(s) |-> s[l[k]]]
    BY <1>1 DEF Reorders
  <1>3. /\ members \subseteq 1..Len(records) /\ Len(records) \in Nat
        /\ members \subseteq DOMAIN records
    BY DEF MembersOf
  <1> HIDE DEF members
  <1>4. HasElements(s, records, members)
    BY <1>3, AtHasElements DEF s
  <1>5. s \in Seq(Rows) /\ DOMAIN s = 1..Len(s)
    BY <1>1 DEF Reorders
  <1> SUFFICES ASSUME NEW k \in 1..Len(s) PROVE Clean(s[l[k]].text)
    BY <1>2 DEF AllClean
  <1>6. l[k] \in DOMAIN s
    BY <1>2, <1>5 DEF Permutes
  <1>7. PICK i \in members : s[l[k]] = records[i]
    BY <1>4, <1>6 DEF HasElements
  <1> QED BY <1>3, <1>7 DEF AllClean

\* An export writes clean files.
LEMMA ExportsAreClean ==
  ASSUME NEW records \in Seq(Rows), AllWhole(records), NEW columns, NEW format
  PROVE  WritesInv(ExportWrites(records, columns, format))
  <1> DEFINE new == RedactRecords(records)
             normal == Normalised(columns)
             keys == PartitionKeys(new, normal)
             parts == PartWrites(new, normal)
             listed == [n \in DOMAIN parts |-> parts[n].file]
             n == Cardinality({PartitionKey(new[i], normal) : i \in DOMAIN new})
  <1>1. new \in Seq(Rows) /\ AllClean(new)
    BY RedactedRows
  <1> HIDE DEF new, normal
  <1>2. n \in Nat
    BY <1>1, PartitionsAreFinite
  <1>3. DOMAIN keys = 1..n
    BY DEF PartitionKeys, Listed
  <1> HIDE DEF n
  <1>4. WritesInv(parts)
    <2>1. parts = [k \in 1..n |-> [file |-> Part(normal, keys[k], k),
                                   content |-> RecordsOf(new, normal, keys[k])]]
      BY <1>3 DEF PartWrites
    <2> HIDE DEF parts, keys
    <2>2. parts = [k \in 1..n |-> parts[k]]
      BY <2>1
    <2>3. ASSUME NEW k \in 1..n PROVE WriteInv(parts[k])
      <3>1. /\ parts[k].file = Part(normal, keys[k], k)
            /\ parts[k].content = RecordsOf(new, normal, keys[k])
        BY <2>1
      <3>2. Len(parts[k].file) = 3 /\ parts[k].file # Csv /\ parts[k].file # Letters
        BY <3>1, PartNames
      <3> QED BY <1>1, <3>1, <3>2, PartitionsAreClean DEF WriteInv
    <2> QED BY <1>2, <2>2, <2>3, ListedWrites
  <1> HIDE DEF parts, listed
  <1>5. WritesInv(MetadataWrites(parts, format))
    <2>1. \A file \in {Manifest, DeltaLog, IcebergManifest, IcebergMetadata} : \A content :
            WriteInv([file |-> file, content |-> content])
      BY FileNames, OtherWrites
    <2>2. WritesInv(<<[file |-> Manifest, content |-> listed]>>)
      BY <2>1, FewWrites
    <2>3. WritesInv(<<[file |-> DeltaLog, content |-> listed]>>)
      BY <2>1, FewWrites
    <2>4. WritesInv(<<[file |-> IcebergManifest, content |-> listed],
                      [file |-> IcebergMetadata, content |-> <<IcebergManifest>>]>>)
      <3> DEFINE a == [file |-> IcebergManifest, content |-> listed]
                 b == [file |-> IcebergMetadata, content |-> <<IcebergManifest>>]
      <3>1. WriteInv(a) /\ WriteInv(b)
        BY <2>1
      <3> HIDE DEF a, b
      <3> DEFINE f == <<a, b>>
      <3>2. f = [i \in 1..2 |-> f[i]]
        OBVIOUS
      <3>4. \A i \in 1..2 : WriteInv(f[i])
        BY <3>1
      <3> HIDE DEF f
      <3>5. WritesInv(f)
        BY <3>2, <3>4, ListedWrites
      <3>3. WritesInv(<<a, b>>)
        BY <3>5 DEF f
      <3> QED BY <3>3 DEF a, b
    <2>5. MetadataWrites(parts, format) =
            <<[file |-> Manifest, content |-> listed]>> \o
              IF format = "delta" THEN <<[file |-> DeltaLog, content |-> listed]>>
              ELSE <<[file |-> IcebergManifest, content |-> listed],
                     [file |-> IcebergMetadata, content |-> <<IcebergManifest>>]>>
      BY DEF MetadataWrites, listed
    <2> QED BY <2>2, <2>3, <2>4, <2>5, JoinedWrites
  <1>6. ExportWrites(records, columns, format) = parts \o MetadataWrites(parts, format)
    BY DEF ExportWrites, TableWrites, parts, new, normal
  <1> QED BY <1>4, <1>5, <1>6, JoinedWrites

-----------------------------------------------------------------------------
(* Chunks.                                                                 *)

\* A number of steps is a number.
LEMMA Steps ==
  ASSUME NEW k \in Nat, NEW step \in Nat
  PROVE  k * step \in Nat
  OBVIOUS

\* Windows are within the text.
LEMMA WindowsAreInside ==
  ASSUME NEW n \in Nat, NEW size \in Nat, NEW overlap \in Nat, overlap < size,
         NEW w \in Windows(n, size, overlap)
  PROVE  w[1] \in Nat \ {0} /\ w[2] \in Nat /\ w[2] <= n
  <1> DEFINE step == size - overlap
  <1>1. n # 0
    BY DEF Windows
  <1>2. PICK k \in 0..n :
          w = <<k * step + 1, IF k * step + size < n THEN k * step + size ELSE n>>
    BY <1>1 DEF Windows
  <1>3. step \in Nat /\ k \in Nat
    OBVIOUS
  <1> HIDE DEF step
  <1>4. k * step \in Nat
    BY <1>3, Steps
  <1>5. w[1] = k * step + 1 /\ w[2] = IF k * step + size < n THEN k * step + size ELSE n
    BY <1>2
  <1> QED BY <1>4, <1>5

\* Chunks of a record are clean if its numbers were whole, wherever windows cut.
LEMMA ChunksAreClean ==
  ASSUME NEW r \in Rows, WholeNumbers(r.text), NEW size \in Nat, NEW overlap \in Nat,
         overlap < size, NEW c \in Chunks(r, size, overlap)
  PROVE  Clean(c.text)
  <1> DEFINE text == Redact(r.text)
  <1>1. text \in Texts /\ Clean(text)
    BY RedactedTexts DEF Rows
  <1>2. PICK w \in Windows(Len(text), size, overlap) : c.text = SubSeq(text, w[1], w[2])
    BY DEF Chunks
  <1> HIDE DEF text
  <1>3. Len(text) \in Nat
    BY <1>1 DEF Texts
  <1>4. w[1] \in Nat \ {0} /\ w[2] \in Nat /\ w[2] <= Len(text)
    BY <1>3, WindowsAreInside
  <1> QED BY <1>1, <1>2, <1>4, PartsAreTexts

\* An index that loads has clean chunks.
LEMMA StoredAreClean ==
  ASSUME IndexInv, NEW c \in Stored PROVE Clean(c.text)
  <1>1. CASE index = Missing
    BY <1>1 DEF Stored, Contents
  <1>2. CASE index # Missing /\ index.version = 1
    <2>1. PICK d \in index.chunks : c = MigratedChunk(d)
      BY <1>2 DEF Stored, Contents, Migrated
    <2>2. d \in StoredChunks /\ Clean(d.text)
      BY <1>2, <2>1 DEF IndexInv
    <2>3. c.text = d.text
      BY <2>1, <2>2 DEF MigratedChunk, StoredChunks
    <2> QED BY <2>2, <2>3
  <1>3. CASE index # Missing /\ index.version # 1
    BY <1>3 DEF Stored, Contents, IndexInv
  <1> QED BY <1>1, <1>2, <1>3

\* Only merged records' chunks come into an index.
LEMMA MergeKeeps ==
  ASSUME IndexInv, NEW records \in Seq(Rows), AllWhole(records),
         NEW size \in Nat \X Nat, size[2] < size[1], Merge(records, size)
  PROVE  IndexInv'
  <1> DEFINE new == UNION {Chunks(r, size[1], size[2]) : r \in LastOfEachKey(records)}
  <1>1. \A r \in LastOfEachKey(records) : r \in Rows /\ WholeNumbers(r.text)
    BY DEF LastOfEachKey, AllWhole
  <1>2. \A c \in new : Clean(c.text)
    <2> TAKE c \in new
    <2>1. PICK r \in LastOfEachKey(records) : c \in Chunks(r, size[1], size[2])
      OBVIOUS
    <2> QED BY <1>1, <2>1, ChunksAreClean
  <1> HIDE DEF new
  <1>3. \A c \in Upsert(Stored, new) : Clean(c.text)
    BY <1>2, StoredAreClean DEF Upsert
  <1>4. index' = [version |-> 2, chunks |-> Upsert(Stored, new)]
    BY DEF Merge, new
  <1>5. index'.version = 2 /\ index'.chunks = Upsert(Stored, new)
    BY <1>4
  <1> QED BY <1>3, <1>5 DEF IndexInv

\* The depth of build_index.
LEMMA DefaultSizes ==
  DefaultSize \in Nat \X Nat /\ DefaultSize[2] < DefaultSize[1]
  BY DEF DefaultSize

-----------------------------------------------------------------------------
(* Files.                                                                  *)

\* One file changes.
LEMMA PutFile ==
  ASSUME NEW file, NEW content, Put(file, content)
  PROVE  /\ DOMAIN disk' = DOMAIN disk \cup {file} /\ disk'[file] = content
         /\ \A f \in DOMAIN disk : f # file => disk'[f] = disk[f]
  BY DEF Put

\* What may be put where.
LEMMA PutKeeps ==
  ASSUME FilesInv, NEW file, NEW content, Put(file, content),
         file = Csv => content \in {Missing, Torn} \/ (content \in Seq(Rows) /\ AllWhole(content)),
         file = Letters => content \in Seq(Rows) /\ StringsClean(content),
         Len(file) = 3 /\ content # Torn => AllClean(content),
         written' # None => disk'[Csv] = written' /\ IsWritten(written')
  PROVE  FilesInv'
  <1>1. /\ DOMAIN disk' = DOMAIN disk \cup {file} /\ disk'[file] = content
        /\ \A f \in DOMAIN disk : f # file => disk'[f] = disk[f]
    BY PutFile
  <1>2. {Csv, Letters} \subseteq DOMAIN disk'
    BY <1>1 DEF FilesInv
  <1>3. disk'[Csv] \in {Missing, Torn} \/ (disk'[Csv] \in Seq(Rows) /\ AllWhole(disk'[Csv]))
    <2>1. CASE file = Csv
      BY <1>1, <2>1
    <2>2. CASE file # Csv
      <3>1. disk'[Csv] = disk[Csv]
        BY <1>1, <2>2 DEF FilesInv
      <3> QED BY <3>1 DEF FilesInv
    <2> QED BY <2>1, <2>2
  <1>4. disk'[Letters] \in Seq(Rows) /\ StringsClean(disk'[Letters])
    <2>1. CASE file = Letters
      BY <1>1, <2>1
    <2>2. CASE file # Letters
      <3>1. disk'[Letters] = disk[Letters]
        BY <1>1, <2>2 DEF FilesInv
      <3> QED BY <3>1 DEF FilesInv
    <2> QED BY <2>1, <2>2
  <1>5. ASSUME NEW f \in DOMAIN disk', Len(f) = 3, disk'[f] # Torn PROVE AllClean(disk'[f])
    <2>1. CASE f = file
      BY <1>1, <1>5, <2>1
    <2>2. CASE f # file
      <3>1. f \in DOMAIN disk /\ disk'[f] = disk[f]
        BY <1>1, <1>5, <2>2
      <3> QED BY <1>5, <3>1 DEF FilesInv
    <2> QED BY <2>1, <2>2
  <1> QED BY <1>2, <1>3, <1>4, <1>5 DEF FilesInv

\* What a crash leaves of a CSV that was being written has no number to tear.
LEMMA CrashedRows ==
  ASSUME NEW rows \in Seq(Rows), AllClean(rows), NEW left \in TornCsv(rows), left # Torn
  PROVE  left \in Seq(Rows) /\ AllWhole(left)
  <1>1. Len(rows) \in Nat /\ DOMAIN rows = 1..Len(rows)
    OBVIOUS
  <1>2. CASE left \in {SubSeq(rows, 1, k) : k \in 0..Len(rows)}
    <2>1. PICK k \in 0..Len(rows) : left = SubSeq(rows, 1, k)
      BY <1>2
    <2>2. k \in Nat /\ k <= Len(rows)
      BY <1>1
    <2>3. left \in Seq(Rows) /\ AllClean(left)
      BY <2>1, <2>2, FirstRows
    <2> QED BY <2>3, CleanIsWhole DEF AllClean, AllWhole
  <1>3. CASE left \in {CutShort(rows, k) : k \in 1..Len(rows)}
    <2>1. PICK k \in 1..Len(rows) : left = CutShort(rows, k)
      BY <1>3
    <2> DEFINE a == SubSeq(rows, 1, k - 1)
               r == [rows[k] EXCEPT !.valid = FALSE]
    <2>2. k - 1 \in Nat /\ k - 1 <= Len(rows)
      BY <1>1
    <2>3. a \in Seq(Rows) /\ AllClean(a)
      BY <2>2, FirstRows
    <2>4. rows[k] \in Rows /\ Clean(rows[k].text)
      BY <1>1 DEF AllClean
    <2>5. r \in Rows /\ r.text = rows[k].text
      BY <2>4 DEF Rows
    <2> HIDE DEF a, r
    <2>6. <<r>> \in Seq(Rows) /\ AllClean(<<r>>)
      BY <2>4, <2>5, OneRow
    <2>7. left = a \o <<r>>
      BY <2>1 DEF a, r, CutShort
    <2>8. left \in Seq(Rows) /\ AllClean(left)
      BY <2>3, <2>6, <2>7, JoinedRows
    <2> QED BY <2>8, CleanIsWhole DEF AllClean, AllWhole
  <1> QED BY <1>2, <1>3 DEF TornCsv

-----------------------------------------------------------------------------
(* The steps of commands.                                                  *)

\* A row that loads is one of the CSV that the invariant knows.
LEMMA LoadedRows ==
  ASSUME FilesInv, Loads
  PROVE  disk[Csv] \in Seq(Rows) /\ AllWhole(disk[Csv]) /\ IsSound(disk[Csv])
  BY DEF FilesInv, Loads

\* A command begins.
LEMMA BeginKeeps ==
  ASSUME BatchInv, NEW writes, NEW update, NEW export, Begin(writes, update, export),
         WritesInv(writes), update # None => UpdateInv(update),
         UNCHANGED <<disk, index, written>>
  PROVE  BatchInv'
  <1>1. FilesInv' /\ IndexInv'
    BY DEF BatchInv, FilesInv, IndexInv
  <1>2. command' = [writes |-> writes, update |-> update, export |-> export]
    BY DEF Begin
  <1>3. command'.writes = writes /\ command'.update = update /\ command'.export = export
    BY <1>2
  <1>4. PendingInv'
    BY <1>2, <1>3 DEF PendingInv, WritesInv, WriteInv, UpdateInv, IsWritten
  <1> QED BY <1>1, <1>4 DEF BatchInv

\* Messages that are polled are rows.
LEMMA PolledRows ==
  ASSUME NEW lines \in Streams, NEW most \in Limits
  PROVE  Polled(lines, most) \in Seq(Rows) /\ AllWhole(Polled(lines, most))
  <1>1. lines \in Seq(Rows) /\ AllWhole(lines)
    BY RowsAssumption, NumbersAssumption DEF AllWhole
  <1>2. most \in Nat /\ Len(lines) \in Nat
    BY <1>1, OptionsAssumption
  <1>3. Min({most, Len(lines)}) \in Nat /\ Min({most, Len(lines)}) <= Len(lines)
    BY <1>2, MinOfTwo
  <1> QED BY <1>1, <1>3, FirstRows DEF Polled

\* What stream-ingest is about to write is redacted, and what it accepted is sound.
LEMMA StreamIngestKeeps ==
  ASSUME BatchInv, NEW lines \in Streams, NEW most \in Limits, NEW update \in BOOLEAN,
         StreamIngest(lines, most, update)
  PROVE  BatchInv'
  <1> DEFINE batch == Polled(lines, most)
             accepted == Accepted(batch)
             rejected == CleanPayloads(Rejected(batch))
             letters == [n \in DOMAIN rejected |->
                          [file |-> Letters, content |-> disk[Letters] \o SubSeq(rejected, 1, n)]]
             rows == IF accepted = <<>> THEN <<>>
                     ELSE <<[file |-> Csv, content |-> RedactRecords(accepted)]>>
             merging == IF update /\ accepted # <<>> THEN accepted ELSE None
  <1>1. batch \in Seq(Rows) /\ AllWhole(batch)
    BY PolledRows
  <1>2. Begin(letters \o rows, merging, None) /\ UNCHANGED <<disk, index, written>>
    BY DEF StreamIngest
  <1> HIDE DEF batch
  <1>3. disk[Letters] \in Seq(Rows) /\ StringsClean(disk[Letters])
    BY DEF BatchInv, FilesInv
  <1>4. WritesInv(letters \o rows)
    BY <1>1, <1>3, StreamWrites
  <1>5. UpdateInv(accepted)
    BY <1>1, AcceptedIsSound DEF UpdateInv
  <1> HIDE DEF letters, rows, accepted
  <1>6. merging # None => UpdateInv(merging)
    BY <1>5
  <1> HIDE DEF merging
  <1> QED BY <1>2, <1>4, <1>6, BeginKeeps

\* Generated rows have numbered ids and no telephone numbers.
LEMMA GenerateDataKeeps ==
  ASSUME BatchInv, GenerateData PROVE BatchInv'
  <1>1. PICK n \in 1..MaxRows :
          \E dates \in [1..n -> Dates], channels \in [1..n -> Channels],
             texts \in [1..n -> Sentences] :
            /\ Begin(<<[file |-> Csv,
                        content |-> [i \in 1..n |->
                                       GeneratedRow(i, texts[i], dates[i], channels[i])]]>>,
                     None, None)
            /\ UNCHANGED <<disk, index, written, merged, exported>>
    BY DEF GenerateData
  <1>2. PICK dates \in [1..n -> Dates], channels \in [1..n -> Channels],
             texts \in [1..n -> Sentences] :
          /\ Begin(<<[file |-> Csv,
                      content |-> [i \in 1..n |->
                                     GeneratedRow(i, texts[i], dates[i], channels[i])]]>>,
                   None, None)
          /\ UNCHANGED <<disk, index, written>>
    BY <1>1
  <1> DEFINE rows == [i \in 1..n |-> GeneratedRow(i, texts[i], dates[i], channels[i])]
             w == [file |-> Csv, content |-> rows]
  <1>3. n \in Nat
    BY BoundsAssumption
  <1>4. IsWritten(rows)
    BY <1>3, GeneratedRows
  <1>5. Begin(<<w>>, None, None)
    BY <1>2
  <1> HIDE DEF rows
  <1>8. w.file = Csv /\ w.content = rows
    OBVIOUS
  <1> HIDE DEF w
  <1>9. Csv # Letters /\ Len(Csv) # 3
    BY FileNames
  <1>6. WriteInv(w)
    BY <1>4, <1>8, <1>9 DEF WriteInv
  <1>7. WritesInv(<<w>>)
    BY <1>6, FewWrites
  <1> QED BY <1>2, <1>5, <1>7, BeginKeeps

\* An export writes parts of the redacted rows.
LEMMA ExportKeeps ==
  ASSUME BatchInv, NEW columns, NEW format, Export(columns, format) PROVE BatchInv'
  <1>1. disk[Csv] \in Seq(Rows) /\ AllWhole(disk[Csv])
    BY LoadedRows DEF Export, BatchInv
  <1>2. WritesInv(ExportWrites(disk[Csv], columns, format))
    BY <1>1, ExportsAreClean
  <1>3. /\ Begin(ExportWrites(disk[Csv], columns, format), None,
                 [format |-> format, rows |-> RedactRecords(disk[Csv])])
        /\ UNCHANGED <<disk, index, written>>
    BY DEF Export
  <1> QED BY <1>2, <1>3, BeginKeeps

\* update-index merges the rows of the CSV.
LEMMA UpdateIndexKeeps ==
  ASSUME BatchInv, NEW size \in Sizes, UpdateIndex(size) PROVE BatchInv'
  <1>1. disk[Csv] \in Seq(Rows) /\ AllWhole(disk[Csv])
    BY LoadedRows DEF UpdateIndex, BatchInv
  <1>2. size \in Nat \X Nat /\ size[2] < size[1]
    BY OptionsAssumption
  <1>3. IndexInv'
    BY <1>1, <1>2, MergeKeeps DEF UpdateIndex, BatchInv
  <1>4. FilesInv'
    BY DEF UpdateIndex, BatchInv, FilesInv
  <1>5. PendingInv'
    BY DEF UpdateIndex, BatchInv, PendingInv
  <1> QED BY <1>3, <1>4, <1>5 DEF BatchInv

\* index starts anew from them.
LEMMA BuildIndexKeeps ==
  ASSUME BatchInv, BuildIndex PROVE BatchInv'
  <1>1. disk[Csv] \in Seq(Rows) /\ AllWhole(disk[Csv])
    BY LoadedRows DEF BuildIndex, BatchInv
  <1>2. \A r \in ToSet(disk[Csv]) : r \in Rows /\ WholeNumbers(r.text)
    BY <1>1 DEF ToSet, AllWhole
  <1> DEFINE new == UNION {Chunks(r, DefaultSize[1], DefaultSize[2]) : r \in ToSet(disk[Csv])}
  <1>3. \A c \in new : Clean(c.text)
    <2> TAKE c \in new
    <2>1. PICK r \in ToSet(disk[Csv]) : c \in Chunks(r, DefaultSize[1], DefaultSize[2])
      OBVIOUS
    <2>2. DefaultSize[1] \in Nat /\ DefaultSize[2] \in Nat
      BY DefaultSizes
    <2> QED BY <1>2, <2>1, <2>2, DefaultSizes, ChunksAreClean
  <1> HIDE DEF new
  <1>4. index' = [version |-> 2, chunks |-> new]
    BY DEF BuildIndex, new
  <1>5. index'.version = 2 /\ index'.chunks = new
    BY <1>4
  <1>6. IndexInv'
    BY <1>3, <1>5 DEF IndexInv
  <1>7. FilesInv'
    BY DEF BuildIndex, BatchInv, FilesInv
  <1>8. PendingInv'
    BY DEF BuildIndex, BatchInv, PendingInv
  <1> QED BY <1>6, <1>7, <1>8 DEF BatchInv

\* A file that is finished holds what was meant for it.
LEMMA WriteKeeps ==
  ASSUME BatchInv, Write PROVE BatchInv'
  <1> DEFINE w == Head(command.writes)
  <1>1. /\ command # None /\ command.writes # <<>>
        /\ command = [writes |-> command.writes, update |-> command.update,
                       export |-> command.export]
        /\ WritesInv(command.writes)
        /\ command.update # None => UpdateInv(command.update)
    BY DEF Write, BatchInv, PendingInv
  <1>2. WriteInv(w) /\ WritesInv(Tail(command.writes))
    BY <1>1, WritesLeft
  <1>3. /\ Put(w.file, w.content)
        /\ written' = IF w.file = Csv THEN w.content ELSE written
        /\ command' = [command EXCEPT !.writes = Tail(@)]
        /\ index' = index
    BY DEF Write
  <1>4. /\ command' = [writes |-> command'.writes, update |-> command'.update,
                       export |-> command'.export]
        /\ command'.writes = Tail(command.writes) /\ command'.update = command.update
    BY <1>1, <1>3
  <1>5. PendingInv'
    BY <1>1, <1>2, <1>4 DEF PendingInv
  <1>6. IndexInv'
    BY <1>3 DEF IndexInv, BatchInv
  <1> HIDE DEF w
  <1>7. /\ DOMAIN disk' = DOMAIN disk \cup {w.file} /\ disk'[w.file] = w.content
        /\ \A f \in DOMAIN disk : f # w.file => disk'[f] = disk[f]
    BY <1>3, PutFile
  <1>8. w.file = Csv => w.content \in Seq(Rows) /\ AllWhole(w.content) /\ IsWritten(w.content)
    BY <1>2, CleanIsWhole DEF WriteInv, IsWritten, AllClean, AllWhole
  <1>9. written' # None => disk'[Csv] = written' /\ IsWritten(written')
    <2>1. CASE w.file = Csv
      BY <1>3, <1>7, <1>8, <2>1
    <2>2. CASE w.file # Csv
      <3>1. written' = written /\ disk'[Csv] = disk[Csv]
        BY <1>3, <1>7, <2>2 DEF BatchInv, FilesInv
      <3> QED BY <3>1 DEF BatchInv, FilesInv
    <2> QED BY <2>1, <2>2
  <1>10. FilesInv'
    <2>1. FilesInv
      BY DEF BatchInv
    <2>2. w.file = Letters => w.content \in Seq(Rows) /\ StringsClean(w.content)
      BY <1>2 DEF WriteInv
    <2>3. Len(w.file) = 3 => AllClean(w.content)
      BY <1>2 DEF WriteInv
    <2> QED BY <1>3, <1>8, <1>9, <2>1, <2>2, <2>3, PutKeeps
  <1> QED BY <1>5, <1>6, <1>10 DEF BatchInv

\* stream-ingest merges what it accepted.
LEMMA FinishKeeps ==
  ASSUME BatchInv, Finish PROVE BatchInv'
  <1>1. FilesInv'
    BY DEF Finish, BatchInv, FilesInv
  <1>2. PendingInv'
    BY DEF Finish, PendingInv
  <1>3. IndexInv'
    <2>1. CASE command.update # None /\ IndexLoads
      <3>1. UpdateInv(command.update)
        BY <2>1 DEF Finish, BatchInv, PendingInv
      <3>2. Merge(command.update, DefaultSize)
        BY <2>1 DEF Finish
      <3> QED BY <3>1, <3>2, DefaultSizes, MergeKeeps DEF UpdateInv, BatchInv
    <2>2. CASE ~(command.update # None /\ IndexLoads)
      <3>1. index' = index
        BY <2>2 DEF Finish
      <3> QED BY <3>1 DEF IndexInv, BatchInv
    <2> QED BY <2>1, <2>2
  <1> QED BY <1>1, <1>2, <1>3 DEF BatchInv

\* What a crash leaves of the CSV and of other files.
LEMMA RemainsOfFile ==
  ASSUME NEW w, NEW left \in Remains(w)
  PROVE  /\ w.file = Csv => left \in TornCsv(w.content)
         /\ w.file = Letters => left = disk[Letters]
         /\ w.file \notin {Csv, Letters} => left = Torn
  <1>1. CASE w.file = Csv
    <2>1. Remains(w) = TornCsv(w.content)
      BY <1>1, FileNames DEF Remains
    <2> QED BY <1>1, <2>1, FileNames
  <1>2. CASE w.file = Letters
    <2>1. Remains(w) = {disk[Letters]}
      BY <1>2, FileNames DEF Remains
    <2> QED BY <1>2, <2>1, FileNames
  <1>3. CASE w.file \notin {Csv, Letters}
    <2>1. Remains(w) = {Torn}
      BY <1>3 DEF Remains
    <2> QED BY <1>3, <2>1
  <1> QED BY <1>1, <1>2, <1>3

\* A crash leaves part of what was being written.
LEMMA CrashKeeps ==
  ASSUME BatchInv, Crash PROVE BatchInv'
  <1>1. IndexInv'
    BY DEF Crash, IndexInv, BatchInv
  <1>2. PendingInv'
    BY DEF Crash, PendingInv
  <1>3. FilesInv'
    <2>1. CASE UNCHANGED <<disk, written>>
      BY <2>1 DEF BatchInv, FilesInv
    <2>2. CASE /\ command.writes # <<>>
               /\ LET write == Head(command.writes)
                  IN  /\ \E left \in Remains(write) : Put(write.file, left)
                      /\ written' = IF write.file = Csv THEN None ELSE written
      <3> DEFINE w == Head(command.writes)
      <3>1. PICK left \in Remains(w) : Put(w.file, left)
        BY <2>2
      <3>8. /\ w.file = Csv => left \in TornCsv(w.content)
            /\ w.file = Letters => left = disk[Letters]
            /\ w.file \notin {Csv, Letters} => left = Torn
        BY RemainsOfFile
      <3>2. written' = IF w.file = Csv THEN None ELSE written
        BY <2>2
      <3>3. WriteInv(w)
        BY <2>2, WritesLeft DEF Crash, BatchInv, PendingInv
      <3> HIDE DEF w
      <3>4. /\ DOMAIN disk' = DOMAIN disk \cup {w.file} /\ disk'[w.file] = left
            /\ \A f \in DOMAIN disk : f # w.file => disk'[f] = disk[f]
        BY <3>1, PutFile
      <3>5. FilesInv
        BY DEF BatchInv
      <3>6. CASE w.file = Csv
        <4>1. w.content \in Seq(Rows) /\ AllClean(w.content)
          BY <3>3, <3>6 DEF WriteInv, IsWritten
        <4>2. left \in TornCsv(w.content)
          BY <3>6, <3>8
        <4>3. left = Torn \/ (left \in Seq(Rows) /\ AllWhole(left))
          BY <4>1, <4>2, CrashedRows
        <4>4. Csv # Letters /\ Len(Csv) # 3
          BY FileNames
        <4>5. written' = None
          BY <3>2, <3>6
        <4> QED BY <3>1, <3>5, <3>6, <4>3, <4>4, <4>5, PutKeeps
      <3>7. CASE w.file # Csv
        <4>1. written' = written /\ disk'[Csv] = disk[Csv]
          BY <3>2, <3>4, <3>7 DEF BatchInv, FilesInv
        <4>2. written' # None => disk'[Csv] = written' /\ IsWritten(written')
          BY <4>1 DEF BatchInv, FilesInv
        <4>3. CASE w.file = Letters
          <5>1. left = disk[Letters] /\ Len(Letters) # 3
            BY <3>8, <4>3, FileNames
          <5>2. left \in Seq(Rows) /\ StringsClean(left)
            BY <3>5, <5>1 DEF FilesInv
          <5> QED BY <3>1, <3>5, <3>7, <4>2, <4>3, <5>1, <5>2, PutKeeps
        <4>4. CASE w.file # Letters
          <5>1. left = Torn
            BY <3>8, <3>7, <4>4
          <5> QED BY <3>1, <3>5, <3>7, <4>2, <4>4, <5>1, PutKeeps
        <4> QED BY <4>3, <4>4
      <3> QED BY <3>6, <3>7
    <2> QED BY <2>1, <2>2 DEF Crash
  <1> QED BY <1>1, <1>2, <1>3 DEF BatchInv
-----------------------------------------------------------------------------
(* The commands together.                                                  *)

\* At first the invariant holds.
LEMMA InitKeeps ==
  ASSUME MarksAssumption, RowsAssumption, NumbersAssumption, IndexesAssumption, Init
  PROVE  BatchInv
  <1>1. PICK file \in Files : disk = [f \in {Csv, Letters} |-> IF f = Csv THEN file ELSE <<>>]
    BY DEF Init
  <1>2. DOMAIN disk = {Csv, Letters} /\ disk[Csv] = file /\ disk[Letters] = <<>>
    BY <1>1, FileNames
  <1>3. file \in {Missing, Torn} \/ (file \in Seq(Rows) /\ AllWhole(file))
    BY DEF RowsAssumption, NumbersAssumption, AllWhole
  <1>4. <<>> \in Seq(Rows) /\ StringsClean(<<>>)
    BY EmptySeq DEF StringsClean
  <1>5. written = None /\ command = None
    BY DEF Init
  <1>6. \A f \in DOMAIN disk : Len(f) # 3
    BY <1>2, FileNames
  <1>7. FilesInv
    BY <1>2, <1>3, <1>4, <1>5, <1>6 DEF FilesInv
  <1>8. PendingInv
    BY <1>5 DEF PendingInv
  <1>9. PICK there \in Indexes : index = there.index
    BY DEF Init
  <1>10. IndexInv
    <2> SUFFICES ASSUME index # Missing PROVE IndexInv
      BY DEF IndexInv
    <2>1. index \in [version : {1, 2}, chunks : SUBSET StoredChunks]
      BY <1>9 DEF IndexesAssumption
    <2>2. \A c \in index.chunks : Clean(c.text)
      BY <1>9 DEF IndexesAssumption
    <2> QED BY <2>1, <2>2 DEF IndexInv
  <1> QED BY <1>7, <1>8, <1>10 DEF BatchInv

\* The commands that measure leave everything but their reports alone.
Quiet ==
  /\ UNCHANGED <<disk, index, written, merged, exported>>
  /\ \/ command' = command
     \/ \E writes : /\ WritesInv(writes) /\ OffTable(writes)
                    /\ command' = [writes |-> writes, update |-> None, export |-> None]

\* A report is a file that no other command writes.
IsReport(w) ==
  /\ w.file \in {Report, Results, Metrics, Metadata, BenchmarkJson, BenchmarkTable}
  /\ WriteInv(w)

\* It may hold anything.
LEMMA Reporting ==
  ASSUME NEW file \in {Report, Results, Metrics, Metadata, BenchmarkJson, BenchmarkTable},
         NEW content
  PROVE  IsReport([file |-> file, content |-> content])
  <1>1. Len(file) = 1 /\ file # Csv /\ file # Letters
    BY FileNames
  <1>2. WriteInv([file |-> file, content |-> content])
    BY <1>1, OtherWrites
  <1> QED BY <1>2 DEF IsReport

\* And is no file of a table.
LEMMA ReportsAreOffTable ==
  ASSUME NEW w, IsReport(w) PROVE ~TableFile(w.file)
  <1>1. Len(w.file) = 1
    BY FileNames DEF IsReport
  <1>2. w.file \notin {Manifest, DeltaLog, IcebergManifest, IcebergMetadata}
    BY DEF IsReport, Report, Results, Metrics, Metadata, BenchmarkJson, BenchmarkTable,
           Manifest, DeltaLog, IcebergManifest, IcebergMetadata
  <1> QED BY <1>1, <1>2 DEF TableFile

\* The files of reports, one or several.
LEMMA ReportWrites ==
  ASSUME NEW a, NEW b, NEW c, IsReport(a), IsReport(b), IsReport(c)
  PROVE  /\ WritesInv(<<a>>) /\ WritesInv(<<a, b>>) /\ WritesInv(<<a, b, c>>)
         /\ OffTable(<<a>>) /\ OffTable(<<a, b>>) /\ OffTable(<<a, b, c>>)
  <1>0. /\ WriteInv(a) /\ WriteInv(b) /\ WriteInv(c)
        /\ ~TableFile(a.file) /\ ~TableFile(b.file) /\ ~TableFile(c.file)
    BY ReportsAreOffTable DEF IsReport
  <1>1. <<a, b>> \in Seq({a, b}) /\ Len(<<a, b>>) = 2 /\ <<a, b>>[1] = a /\ <<a, b>>[2] = b
    OBVIOUS
  <1>2. <<a, b>> \in Seq(ToSet(<<a, b>>)) /\ DOMAIN <<a, b>> = 1..2
    BY <1>1, OwnElements
  <1>3. \A i \in 1..2 : i = 1 \/ i = 2
    OBVIOUS
  <1>4. WritesInv(<<a, b>>) /\ OffTable(<<a, b>>)
    <2>1. WritesInv(<<a, b>>)
      BY <1>0, <1>1, <1>2, <1>3 DEF WritesInv
    <2>2. \A w \in ToSet(<<a, b>>) : w = a \/ w = b
      BY <1>1, <1>2, <1>3 DEF ToSet
    <2> QED BY <1>0, <2>1, <2>2 DEF OffTable
  <1>5. /\ <<a, b, c>> \in Seq({a, b, c}) /\ Len(<<a, b, c>>) = 3
        /\ <<a, b, c>>[1] = a /\ <<a, b, c>>[2] = b /\ <<a, b, c>>[3] = c
    OBVIOUS
  <1>6. <<a, b, c>> \in Seq(ToSet(<<a, b, c>>)) /\ DOMAIN <<a, b, c>> = 1..3
    BY <1>5, OwnElements
  <1>7. \A i \in 1..3 : i = 1 \/ i = 2 \/ i = 3
    OBVIOUS
  <1>8. WritesInv(<<a, b, c>>) /\ OffTable(<<a, b, c>>)
    <2>1. WritesInv(<<a, b, c>>)
      BY <1>0, <1>5, <1>6, <1>7 DEF WritesInv
    <2>2. \A w \in ToSet(<<a, b, c>>) : w = a \/ w = b \/ w = c
      BY <1>5, <1>6, <1>7 DEF ToSet
    <2> QED BY <1>0, <2>1, <2>2 DEF OffTable
  <1>9. WritesInv(<<a>>) /\ OffTable(<<a>>)
    <2>1. \A w \in ToSet(<<a>>) : w = a
      <3>1. DOMAIN <<a>> = 1..1 /\ <<a>>[1] = a /\ \A i \in 1..1 : i = 1
        OBVIOUS
      <3> QED BY <3>1 DEF ToSet
    <2> QED BY <1>0, <2>1, FewWrites DEF OffTable
  <1> QED BY <1>4, <1>8, <1>9

\* A command that measures builds an index or writes reports.
LEMMA MeasuringSteps ==
  /\ EvaluateLoad => BuildIndex \/ Quiet
  /\ EvaluateRun => Quiet
  /\ \A cases, size, k : Experiment(cases, size, k) => Quiet
  /\ \A cases, warmup, repetitions : StartBenchmark(cases, warmup, repetitions) => Quiet
  /\ TimePhase => Quiet
  /\ WriteBenchmark => Quiet
  /\ CrashEarly => Quiet
  <1>1. EvaluateLoad => BuildIndex \/ Quiet
    BY DEF EvaluateLoad, Quiet
  <1>2. ASSUME EvaluateRun PROVE Quiet
    <2>1. PICK content :
            command' = [writes |-> <<[file |-> Report, content |-> content]>>,
                        update |-> None, export |-> None]
      BY <1>2 DEF EvaluateRun
    <2>2. /\ WritesInv(<<[file |-> Report, content |-> content]>>)
          /\ OffTable(<<[file |-> Report, content |-> content]>>)
      BY Reporting, ReportWrites
    <2>3. UNCHANGED <<disk, index, written, merged, exported>>
      BY <1>2 DEF EvaluateRun
    <2> QED BY <2>1, <2>2, <2>3 DEF Quiet
  <1>3. ASSUME NEW cases, NEW size, NEW k, Experiment(cases, size, k) PROVE Quiet
    <2>1. PICK a, b, c :
            Begin(<<[file |-> Results, content |-> a], [file |-> Metrics, content |-> b],
                    [file |-> Metadata, content |-> c]>>, None, None)
      BY <1>3 DEF Experiment
    <2> DEFINE ws == <<[file |-> Results, content |-> a], [file |-> Metrics, content |-> b],
                       [file |-> Metadata, content |-> c]>>
    <2>2. /\ IsReport([file |-> Results, content |-> a])
          /\ IsReport([file |-> Metrics, content |-> b])
          /\ IsReport([file |-> Metadata, content |-> c])
      BY Reporting
    <2>3. WritesInv(ws) /\ OffTable(ws)
      BY <2>2, ReportWrites
    <2>4. UNCHANGED <<disk, index, written, merged, exported>>
      BY <1>3 DEF Experiment
    <2>5. command' = [writes |-> ws, update |-> None, export |-> None]
      BY <2>1 DEF Begin
    <2> HIDE DEF ws
    <2> QED BY <2>3, <2>4, <2>5 DEF Quiet
  <1>4. \A cases, warmup, repetitions : StartBenchmark(cases, warmup, repetitions) => Quiet
    BY DEF StartBenchmark, Quiet
  <1>5. TimePhase => Quiet
    BY DEF TimePhase, Quiet, vars
  <1>6. ASSUME WriteBenchmark PROVE Quiet
    <2>1. PICK a, b :
            command' = [writes |-> <<[file |-> BenchmarkJson, content |-> a],
                                     [file |-> BenchmarkTable, content |-> b]>>,
                        update |-> None, export |-> None]
      BY <1>6 DEF WriteBenchmark
    <2> DEFINE ws == <<[file |-> BenchmarkJson, content |-> a],
                       [file |-> BenchmarkTable, content |-> b]>>
    <2>2. /\ IsReport([file |-> BenchmarkJson, content |-> a])
          /\ IsReport([file |-> BenchmarkTable, content |-> b])
      BY Reporting
    <2>3. WritesInv(ws) /\ OffTable(ws)
      BY <2>2, ReportWrites
    <2>4. UNCHANGED <<disk, index, written, merged, exported>>
      BY <1>6 DEF WriteBenchmark
    <2>5. command' = [writes |-> ws, update |-> None, export |-> None]
      BY <2>1
    <2> HIDE DEF ws
    <2> QED BY <2>3, <2>4, <2>5 DEF Quiet
  <1>7. CrashEarly => Quiet
    BY DEF CrashEarly, Quiet, vars
  <1> QED BY <1>1, <1>2, <1>3, <1>4, <1>5, <1>6, <1>7

\* A step of the measuring commands is a batch command's or a quiet one.
LEMMA OfflineStep ==
  ASSUME [OfflineNext]_allVars PROVE Next \/ Quiet
  <1>1. CASE EvaluateLoad
    BY <1>1, MeasuringSteps DEF Next
  <1>2. CASE EvaluateRun
    BY <1>2, MeasuringSteps
  <1>3. CASE \E cases \in CaseFiles, size \in Sizes, k \in TopKs : Experiment(cases, size, k)
    BY <1>3, MeasuringSteps
  <1>4. CASE \E cases \in CaseFiles, warmup \in Warmups, repetitions \in Repetitions :
               StartBenchmark(cases, warmup, repetitions)
    BY <1>4, MeasuringSteps
  <1>5. CASE TimePhase
    BY <1>5, MeasuringSteps
  <1>6. CASE WriteBenchmark
    BY <1>6, MeasuringSteps
  <1>7. CASE CrashEarly
    BY <1>7, MeasuringSteps
  <1>8. CASE Write \/ Finish \/ Crash \/ \E size \in Sizes : UpdateIndex(size)
    BY <1>8 DEF Next
  <1>9. CASE Next
    BY <1>9
  <1>10. CASE UNCHANGED allVars
    BY <1>10 DEF allVars, vars, Quiet
  <1> QED BY <1>1, <1>2, <1>3, <1>4, <1>5, <1>6, <1>7, <1>8, <1>9, <1>10 DEF OfflineNext

\* Quiet steps keep the invariant, and what begins to be written is as it should be.
LEMMA QuietKeeps ==
  ASSUME BatchInv, Quiet PROVE BatchInv'
  <1>1. FilesInv'
    BY DEF Quiet, BatchInv, FilesInv
  <1>2. IndexInv'
    BY DEF Quiet, BatchInv, IndexInv
  <1>3. PendingInv'
    <2>1. CASE command' = command
      BY <2>1 DEF BatchInv, PendingInv
    <2>2. CASE \E writes : /\ WritesInv(writes) /\ OffTable(writes)
                           /\ command' = [writes |-> writes, update |-> None, export |-> None]
      BY <2>2 DEF PendingInv
    <2> QED BY <2>1, <2>2 DEF Quiet
  <1> QED BY <1>1, <1>2, <1>3 DEF BatchInv

\* So does every step.
LEMMA StepKeeps ==
  ASSUME BatchInv, [OfflineNext]_allVars PROVE BatchInv'
  <1>1. CASE Quiet
    BY <1>1, QuietKeeps
  <1>2. CASE \E lines \in Streams, most \in Limits, update \in BOOLEAN :
               StreamIngest(lines, most, update)
    BY <1>2, StreamIngestKeeps
  <1>3. CASE \E size \in Sizes : UpdateIndex(size)
    BY <1>3, UpdateIndexKeeps
  <1>4. CASE \E columns \in Layouts, format \in Formats : Export(columns, format)
    BY <1>4, ExportKeeps
  <1>5. CASE BuildIndex
    BY <1>5, BuildIndexKeeps
  <1>6. CASE GenerateData
    BY <1>6, GenerateDataKeeps
  <1>7. CASE Write
    BY <1>7, WriteKeeps
  <1>8. CASE Finish
    BY <1>8, FinishKeeps
  <1>9. CASE Crash
    BY <1>9, CrashKeeps
  <1> QED BY <1>1, <1>2, <1>3, <1>4, <1>5, <1>6, <1>7, <1>8, <1>9, OfflineStep DEF Next

\* Whatever commands run over the directory and wherever they die: files hold rows, and
\* what waits to be written or merged is sound and redacted.
THEOREM BatchInvariant == OfflineSpec => []BatchInv
  <1>1. OfflineInit => BatchInv
    BY InitKeeps, MarksAssumption, RowsAssumption, NumbersAssumption, IndexesAssumption
       DEF OfflineInit
  <1>2. BatchInv /\ [OfflineNext]_allVars => BatchInv'
    BY StepKeeps
  <1> QED BY <1>1, <1>2, PTL DEF OfflineSpec

\* The tool never refuses a CSV it finished itself.
THEOREM WrittenCsvIsAccepted == OfflineSpec => []WrittenCsvLoads
  <1>1. BatchInv => WrittenCsvLoads
    <2> SUFFICES ASSUME BatchInv, written # None PROVE Loads /\ disk[Csv] = written
      BY DEF WrittenCsvLoads
    <2>1. disk[Csv] = written /\ IsWritten(written)
      BY DEF BatchInv, FilesInv
    <2>2. disk[Csv] \in Seq(Rows) /\ IsSound(disk[Csv])
      BY <2>1 DEF IsWritten
    <2>3. disk[Csv] \notin {Missing, Torn}
      BY <2>2, MarksAssumption
    <2> QED BY <2>1, <2>2, <2>3 DEF Loads
  <1> QED BY <1>1, BatchInvariant, PTL

\* No telephone number reaches a file of the tool, half of one neither.
THEOREM NothingIsPersistedRaw == OfflineSpec => []NothingPersistedRaw
  <1>1. BatchInv => NothingPersistedRaw
    <2> SUFFICES ASSUME BatchInv PROVE NothingPersistedRaw
      OBVIOUS
    <2>1. StringsClean(disk[Letters])
      BY DEF BatchInv, FilesInv
    <2>2. written # None => AllClean(disk[Csv])
      BY DEF BatchInv, FilesInv, IsWritten
    <2>3. index # Missing => \A c \in index.chunks : Clean(c.text)
      BY DEF BatchInv, IndexInv
    <2>4. \A file \in DOMAIN disk : Len(file) = 3 /\ disk[file] # Torn => AllClean(disk[file])
      BY DEF BatchInv, FilesInv
    <2> QED BY <2>1, <2>2, <2>3, <2>4 DEF NothingPersistedRaw
  <1> QED BY <1>1, BatchInvariant, PTL
-----------------------------------------------------------------------------
(* Lists one after the other.                                              *)

\* The lists up to each position, joined.
Flattening(seqs, g) ==
  g = [i \in 1..Len(seqs) |-> IF i = 1 THEN seqs[i] ELSE g[i - 1] \o seqs[i]]

\* FlattenSeq is the last of them, if there are any.
LEMMA FlattensLast ==
  ASSUME NEW seqs, Len(seqs) # 0, NEW f, Flattening(seqs, f)
  PROVE  \E g : Flattening(seqs, g) /\ FlattenSeq(seqs) = g[Len(seqs)]
  <1> DEFINE g == CHOOSE h : Flattening(seqs, h)
  <1>1. Flattening(seqs, g)
    OBVIOUS
  <1>2. FlattenSeq(seqs) = g[Len(seqs)]
    BY DEF FlattenSeq, Flattening
  <1> HIDE DEF g
  <1> QED BY <1>1, <1>2

\* The lists up to position n, joined.
FlatteningTo(seqs, n, g) ==
  /\ DOMAIN g = 1..n
  /\ g = [i \in 1..n |-> g[i]]
  /\ \A i \in 1..n : g[i] = IF i = 1 THEN seqs[i] ELSE g[i - 1] \o seqs[i]

\* There are.
LEMMA FlatteningsExist ==
  ASSUME NEW seqs, Len(seqs) \in Nat
  PROVE  \E g : Flattening(seqs, g)
  <1> DEFINE T == {n \in Nat : \E g : FlatteningTo(seqs, n, g)}
  <1>1. 0 \in T
    <2>1. FlatteningTo(seqs, 0, [i \in 1..0 |-> seqs[i]])
      BY DEF FlatteningTo
    <2> QED BY <2>1
  <1>2. ASSUME NEW n \in T PROVE n + 1 \in T
    <2>1. PICK g : FlatteningTo(seqs, n, g)
      OBVIOUS
    <2>2. n \in Nat
      OBVIOUS
    <2> DEFINE last == IF n = 0 THEN seqs[1] ELSE g[n] \o seqs[n + 1]
               h == [i \in 1..(n + 1) |-> IF i = n + 1 THEN last ELSE g[i]]
    <2>3. DOMAIN h = 1..(n + 1) /\ h = [i \in 1..(n + 1) |-> h[i]]
      OBVIOUS
    <2> HIDE DEF last
    <2>4. h[n + 1] = last /\ \A i \in 1..n : h[i] = g[i]
      BY <2>2
    <2> HIDE DEF h
    <2>5. ASSUME NEW i \in 1..(n + 1)
          PROVE  h[i] = IF i = 1 THEN seqs[i] ELSE h[i - 1] \o seqs[i]
      <3>1. CASE i = n + 1
        <4>1. CASE n = 0
          BY <2>4, <3>1, <4>1 DEF last
        <4>2. CASE n # 0
          <5>1. n \in 1..n /\ i # 1 /\ i - 1 = n
            BY <2>2, <3>1, <4>2
          <5>2. h[i - 1] = g[n]
            BY <2>4, <5>1
          <5> QED BY <2>4, <3>1, <4>2, <5>1, <5>2 DEF last
        <4> QED BY <4>1, <4>2
      <3>2. CASE i # n + 1
        <4>1. i \in 1..n /\ (i # 1 => i - 1 \in 1..n)
          BY <2>2, <3>2
        <4>2. g[i] = IF i = 1 THEN seqs[i] ELSE g[i - 1] \o seqs[i]
          BY <2>1, <4>1 DEF FlatteningTo
        <4> QED BY <2>4, <4>1, <4>2
      <3> QED BY <3>1, <3>2
    <2>6. FlatteningTo(seqs, n + 1, h)
      BY <2>3, <2>5 DEF FlatteningTo
    <2> QED BY <2>2, <2>6
  <1>3. T = Nat
    <2> HIDE DEF T
    <2>1. T \in SUBSET Nat
      BY DEF T
    <2> QED BY <1>1, <1>2, <2>1, Reaches
  <1>4. PICK g : FlatteningTo(seqs, Len(seqs), g)
    BY <1>3
  <1>5. Flattening(seqs, g)
    BY <1>4 DEF FlatteningTo, Flattening
  <1> QED BY <1>5

\* Joined lists, one by one.
LEMMA Flattens ==
  ASSUME NEW seqs, Len(seqs) \in Nat, Len(seqs) # 0
  PROVE  \E g : FlatteningTo(seqs, Len(seqs), g) /\ FlattenSeq(seqs) = g[Len(seqs)]
  <1>1. PICK g : Flattening(seqs, g) /\ FlattenSeq(seqs) = g[Len(seqs)]
    BY FlatteningsExist, FlattensLast
  <1> DEFINE n == Len(seqs)
  <1>2. DOMAIN g = 1..n /\ g = [i \in 1..n |-> g[i]]
    BY <1>1 DEF Flattening
  <1>3. \A i \in 1..n : g[i] = IF i = 1 THEN seqs[i] ELSE g[i - 1] \o seqs[i]
    BY <1>1 DEF Flattening
  <1>4. FlatteningTo(seqs, n, g)
    BY <1>2, <1>3 DEF FlatteningTo
  <1> QED BY <1>1, <1>4

\* The first list, and each next one behind those before it.
Grows(seqs, n, g) ==
  /\ n # 0 => g[1] = seqs[1]
  /\ \A i \in Nat : i # 0 /\ i + 1 <= n => g[i + 1] = g[i] \o seqs[i + 1]

\* So flattenings grow.
LEMMA FlatteningGrows ==
  ASSUME NEW seqs, NEW n \in Nat, NEW g, FlatteningTo(seqs, n, g)
  PROVE  Grows(seqs, n, g)
  <1>1. n # 0 => g[1] = seqs[1]
    <2>1. n # 0 => 1 \in 1..n
      OBVIOUS
    <2> QED BY <2>1 DEF FlatteningTo
  <1>2. ASSUME NEW i \in Nat, i # 0, i + 1 <= n PROVE g[i + 1] = g[i] \o seqs[i + 1]
    <2> DEFINE k == i + 1
    <2>1. k \in 1..n /\ k # 1 /\ k - 1 = i
      BY <1>2
    <2> HIDE DEF k
    <2>2. g[k] = g[k - 1] \o seqs[k]
      BY <2>1 DEF FlatteningTo
    <2> QED BY <2>1, <2>2 DEF k
  <1> QED BY <1>1, <1>2 DEF Grows

\* Nothing to join.
LEMMA FlattensNothing == FlattenSeq(<<>>) = <<>>
  <1>1. Len(<<>>) = 0
    OBVIOUS
  <1> QED BY <1>1 DEF FlattenSeq

\* The list up to each position is one.
LEMMA FlatteningIsList ==
  ASSUME NEW X, NEW seqs \in Seq(Seq(X)), NEW g, FlatteningTo(seqs, Len(seqs), g)
  PROVE  \A m \in 1..Len(seqs) : g[m] \in Seq(X)
  <1> DEFINE n == Len(seqs)
             Listed1(m) == m \in 1..n => g[m] \in Seq(X)
             T == {m \in Nat : Listed1(m)}
  <1>1. n \in Nat /\ \A i \in 1..n : seqs[i] \in Seq(X)
    OBVIOUS
  <1>2. FlatteningTo(seqs, n, g)
    OBVIOUS
  <1> HIDE DEF n
  <1>3. /\ n # 0 => g[1] = seqs[1]
        /\ \A i \in Nat : i # 0 /\ i + 1 <= n => g[i + 1] = g[i] \o seqs[i + 1]
    <2>1. Grows(seqs, n, g)
      BY <1>1, <1>2, FlatteningGrows
    <2> QED BY <2>1 DEF Grows
  <1>4. 0 \in T
    OBVIOUS
  <1>5. ASSUME NEW m \in T PROVE m + 1 \in T
    <2>1. m \in Nat /\ Listed1(m)
      OBVIOUS
    <2>2. ASSUME m + 1 \in 1..n PROVE g[m + 1] \in Seq(X)
      <3>1. CASE m = 0
        BY <1>1, <1>3, <2>2, <3>1
      <3>2. CASE m # 0
        <4>1. m \in 1..n /\ m + 1 <= n
          BY <1>1, <2>1, <2>2, <3>2
        <4>2. g[m] \in Seq(X) /\ seqs[m + 1] \in Seq(X)
          BY <1>1, <2>1, <2>2, <4>1
        <4>3. g[m + 1] = g[m] \o seqs[m + 1]
          BY <1>3, <2>1, <3>2, <4>1
        <4> QED BY <4>2, <4>3, ConcatProperties
      <3> QED BY <3>1, <3>2
    <2>3. Listed1(m + 1)
      BY <2>2
    <2> HIDE DEF Listed1
    <2> QED BY <2>1, <2>3
  <1>6. T \in SUBSET Nat
    OBVIOUS
  <1> HIDE DEF T
  <1>7. T = Nat
    BY <1>4, <1>5, <1>6, Reaches
  <1>8. \A m \in Nat : Listed1(m)
    BY <1>7 DEF T
  <1> QED BY <1>1, <1>8 DEF n

\* So is what joining lists gives.
LEMMA FlattenedIsList ==
  ASSUME NEW X, NEW seqs \in Seq(Seq(X))
  PROVE  FlattenSeq(seqs) \in Seq(X)
  <1>1. Len(seqs) \in Nat /\ \A i \in 1..Len(seqs) : seqs[i] \in Seq(X)
    OBVIOUS
  <1>2. CASE Len(seqs) = 0
    <2>1. seqs = <<>> /\ <<>> \in Seq(X)
      BY <1>2, EmptySeq
    <2>2. FlattenSeq(seqs) = <<>>
      BY <2>1, FlattensNothing
    <2> QED BY <2>1, <2>2
  <1>3. CASE Len(seqs) # 0
    <2>1. PICK g : FlatteningTo(seqs, Len(seqs), g) /\ FlattenSeq(seqs) = g[Len(seqs)]
      BY <1>1, <1>3, Flattens
    <2>2. Len(seqs) \in 1..Len(seqs)
      BY <1>1, <1>3
    <2> QED BY <2>1, <2>2, FlatteningIsList
  <1> QED BY <1>2, <1>3

\* The first list and then the others.
LEMMA FlattensHead ==
  ASSUME NEW X, NEW seqs \in Seq(Seq(X)), Len(seqs) # 0
  PROVE  FlattenSeq(seqs) = seqs[1] \o FlattenSeq(Tail(seqs))
  <1> DEFINE n == Len(seqs)
             rest == Tail(seqs)
  <1>1. n \in Nat /\ n # 0 /\ \A i \in 1..n : seqs[i] \in Seq(X)
    OBVIOUS
  <1>2. /\ rest \in Seq(Seq(X)) /\ Len(rest) = n - 1
        /\ \A i \in 1..(n - 1) : rest[i] = seqs[i + 1]
    <2>1. seqs # <<>>
      OBVIOUS
    <2> QED BY <2>1, HeadTailProperties
  <1>3. PICK g : FlatteningTo(seqs, n, g) /\ FlattenSeq(seqs) = g[n]
    BY <1>1, Flattens
  <1>4. 1 \in 1..n /\ seqs[1] \in Seq(X)
    BY <1>1
  <1> HIDE DEF rest, n
  <1>5. /\ g[1] = seqs[1]
        /\ \A i \in Nat : i # 0 /\ i + 1 <= n => g[i + 1] = g[i] \o seqs[i + 1]
    <2>1. Grows(seqs, n, g)
      BY <1>1, <1>3, FlatteningGrows
    <2> QED BY <1>1, <2>1 DEF Grows
  <1>6. CASE n = 1
    <2>1. FlattenSeq(seqs) = seqs[1]
      BY <1>3, <1>5, <1>6
    <2>2. rest = <<>>
      BY <1>2, <1>6, EmptySeq
    <2>3. FlattenSeq(rest) = <<>> /\ seqs[1] \o <<>> = seqs[1]
      BY <1>4, <2>2, FlattensNothing, ConcatEmptySeq
    <2> QED BY <2>1, <2>3 DEF rest
  <1>7. CASE n # 1
    <2>0. Len(rest) \in Nat /\ Len(rest) # 0 /\ n - 1 \in Nat
      BY <1>1, <1>2, <1>7
    <2>1. PICK h : FlatteningTo(rest, n - 1, h) /\ FlattenSeq(rest) = h[n - 1]
      <3>1. \E h : FlatteningTo(rest, Len(rest), h) /\ FlattenSeq(rest) = h[Len(rest)]
        BY <2>0, Flattens
      <3> QED BY <1>2, <3>1
    <2>2. \A m \in 1..(n - 1) : h[m] \in Seq(X)
      BY <1>2, <2>1, FlatteningIsList
    <2>3. /\ h[1] = rest[1]
          /\ \A i \in Nat : i # 0 /\ i + 1 <= n - 1 => h[i + 1] = h[i] \o rest[i + 1]
      <3>1. Grows(rest, n - 1, h)
        BY <2>0, <2>1, FlatteningGrows
      <3>2. n - 1 # 0
        BY <1>2, <2>0
      <3> QED BY <3>1, <3>2 DEF Grows
    <2> DEFINE Follows(m) == m \in 1..(n - 1) => g[m + 1] = seqs[1] \o h[m]
               T == {m \in Nat : Follows(m)}
    <2>4. 0 \in T
      OBVIOUS
    <2>5. ASSUME NEW m \in T PROVE m + 1 \in T
      <3>1. m \in Nat /\ Follows(m)
        OBVIOUS
      <3>2. ASSUME m + 1 \in 1..(n - 1) PROVE g[(m + 1) + 1] = seqs[1] \o h[m + 1]
        <4>1. /\ rest[m + 1] = seqs[(m + 1) + 1] /\ seqs[(m + 1) + 1] \in Seq(X)
              /\ g[(m + 1) + 1] = g[m + 1] \o seqs[(m + 1) + 1]
          <5>1. m + 1 \in Nat /\ m + 1 # 0 /\ (m + 1) + 1 <= n /\ (m + 1) + 1 \in 1..n
            BY <1>1, <3>1, <3>2
          <5> QED BY <1>1, <1>2, <1>5, <3>2, <5>1
        <4>2. CASE m = 0
          <5>1. m + 1 = 1
            BY <4>2
          <5> QED BY <1>5, <2>3, <4>1, <5>1
        <4>3. CASE m # 0
          <5>1. m \in 1..(n - 1) /\ m + 1 <= n - 1
            BY <1>1, <3>1, <3>2, <4>3
          <5>2. h[m] \in Seq(X) /\ g[m + 1] = seqs[1] \o h[m]
            BY <2>2, <3>1, <5>1
          <5>3. h[m + 1] = h[m] \o rest[m + 1]
            BY <2>3, <3>1, <4>3, <5>1
          <5>4. (seqs[1] \o h[m]) \o rest[m + 1] = seqs[1] \o (h[m] \o rest[m + 1])
            <6>1. rest[m + 1] \in Seq(X)
              BY <4>1
            <6> DEFINE a == seqs[1]
                       b == h[m]
                       c == rest[m + 1]
            <6>2. a \in Seq(X) /\ b \in Seq(X) /\ c \in Seq(X)
              BY <1>4, <5>2, <6>1
            <6> HIDE DEF a, b, c
            <6>3. (a \o b) \o c = a \o (b \o c)
              BY <6>2, ConcatAssociative
            <6> QED BY <6>3 DEF a, b, c
          <5> QED BY <4>1, <5>2, <5>3, <5>4
        <4> QED BY <4>2, <4>3
      <3>3. Follows(m + 1)
        BY <3>2
      <3> HIDE DEF Follows
      <3> QED BY <3>1, <3>3
    <2>6. T \in SUBSET Nat
      OBVIOUS
    <2> HIDE DEF T
    <2>7. T = Nat
      BY <2>4, <2>5, <2>6, Reaches
    <2>8. Follows(n - 1)
      BY <2>0, <2>7 DEF T
    <2>9. n - 1 \in 1..(n - 1) /\ (n - 1) + 1 = n
      BY <1>1, <1>7
    <2>10. g[n] = seqs[1] \o h[n - 1]
      BY <2>8, <2>9
    <2> QED BY <1>3, <2>1, <2>10 DEF rest
  <1> QED BY <1>6, <1>7
-----------------------------------------------------------------------------
(* Source identifiers tell tenants and ids apart.                          *)

\* What quoting makes of a character.
Escape(c) ==
  CASE c = Percent -> <<Percent, 50, 53>>
    [] c = Colon -> <<Percent, 51, 65>>
    [] OTHER -> <<c>>

Escapes(s) == [i \in DOMAIN s |-> Escape(s[i])]

\* It is no colon and not empty.
LEMMA EscapedCharacter ==
  ASSUME NEW c \in Nat
  PROVE  /\ Escape(c) \in Strings /\ Len(Escape(c)) # 0
         /\ \A i \in 1..Len(Escape(c)) : Escape(c)[i] # Colon
         /\ c = Percent => Escape(c) = <<Percent, 50, 53>>
         /\ c = Colon => Escape(c) = <<Percent, 51, 65>>
         /\ c \notin {Percent, Colon} => Escape(c) = <<c>>
  <1>1. CASE c = Percent
    BY <1>1 DEF Escape, Percent, Colon, Strings
  <1>2. CASE c = Colon
    BY <1>2 DEF Escape, Percent, Colon, Strings
  <1>3. CASE c \notin {Percent, Colon}
    BY <1>3 DEF Escape, Percent, Colon, Strings
  <1> QED BY <1>1, <1>2, <1>3

\* The escapes of a string, first one first.
LEMMA EscapedString ==
  ASSUME NEW s \in Strings
  PROVE  /\ Quote(s) = FlattenSeq(Escapes(s))
         /\ Escapes(s) \in Seq(Strings) /\ Len(Escapes(s)) = Len(s)
         /\ s # <<>> => Escapes(s)[1] = Escape(s[1]) /\ Tail(Escapes(s)) = Escapes(Tail(s))
  <1>1. Len(s) \in Nat /\ DOMAIN s = 1..Len(s) /\ \A i \in 1..Len(s) : s[i] \in Nat
    BY DEF Strings
  <1>2. Quote(s) = FlattenSeq(Escapes(s))
    BY DEF Quote, Escapes, Escape
  <1>3. \A i \in 1..Len(s) : Escape(s[i]) \in Strings
    BY <1>1, EscapedCharacter
  <1>4. Escapes(s) \in [1..Len(s) -> Strings]
    BY <1>1, <1>3 DEF Escapes
  <1>5. Escapes(s) \in Seq(Strings) /\ Len(Escapes(s)) = Len(s)
    BY <1>1, <1>4, ListsAreSequences
  <1>6. ASSUME s # <<>>
        PROVE  Escapes(s)[1] = Escape(s[1]) /\ Tail(Escapes(s)) = Escapes(Tail(s))
    <2>1. /\ Tail(s) \in Strings /\ Len(Tail(s)) = Len(s) - 1 /\ Len(s) # 0
          /\ \A i \in 1..Len(Tail(s)) : Tail(s)[i] = s[i + 1]
      BY <1>6, HeadTailProperties DEF Strings
    <2>2. Escapes(s)[1] = Escape(s[1])
      BY <1>1, <2>1 DEF Escapes
    <2>3. Escapes(s) # <<>>
      BY <1>5, <2>1
    <2>4. /\ Tail(Escapes(s)) \in Seq(Strings) /\ Len(Tail(Escapes(s))) = Len(s) - 1
          /\ \A i \in 1..Len(Tail(Escapes(s))) : Tail(Escapes(s))[i] = Escapes(s)[i + 1]
      BY <1>5, <2>3, HeadTailProperties
    <2>5. /\ Escapes(Tail(s)) \in [1..(Len(s) - 1) -> Strings]
          /\ \A i \in 1..(Len(s) - 1) : Escapes(Tail(s))[i] = Escape(Tail(s)[i])
      <3>1. DOMAIN Tail(s) = 1..(Len(s) - 1)
        BY <2>1 DEF Strings
      <3>2. \A i \in 1..(Len(s) - 1) : Escape(Tail(s)[i]) \in Strings
        BY <1>1, <2>1, EscapedCharacter
      <3> QED BY <3>1, <3>2 DEF Escapes
    <2>6. \A i \in 1..(Len(s) - 1) : Tail(Escapes(s))[i] = Escapes(Tail(s))[i]
      <3>1. \A i \in 1..(Len(s) - 1) : i + 1 \in DOMAIN s
        BY <1>1
      <3> QED BY <2>1, <2>4, <2>5, <3>1 DEF Escapes
    <2>7. Escapes(Tail(s)) \in Seq(Strings) /\ Len(Escapes(Tail(s))) = Len(s) - 1
      <3> DEFINE e == Escapes(Tail(s))
                 m == Len(s) - 1
      <3>1. e \in [1..m -> Strings] /\ m \in Nat
        BY <1>1, <2>1, <2>5
      <3> HIDE DEF e, m
      <3>2. e \in Seq(Strings) /\ Len(e) = m
        BY <3>1, ListsAreSequences
      <3> QED BY <3>2 DEF e, m
    <2>8. Tail(Escapes(s)) = Escapes(Tail(s))
      BY <2>4, <2>6, <2>7, SeqEqual
    <2> QED BY <2>2, <2>8
  <1> QED BY <1>2, <1>5, <1>6

\* Quoting goes from left to right.
LEMMA QuoteSteps ==
  ASSUME NEW s \in Strings
  PROVE  /\ Quote(s) \in Strings
         /\ s = <<>> => Quote(s) = <<>>
         /\ s # <<>> => Quote(s) = Escape(s[1]) \o Quote(Tail(s))
  <1>1. /\ Quote(s) = FlattenSeq(Escapes(s))
        /\ Escapes(s) \in Seq(Strings) /\ Len(Escapes(s)) = Len(s)
        /\ s # <<>> => Escapes(s)[1] = Escape(s[1]) /\ Tail(Escapes(s)) = Escapes(Tail(s))
    BY EscapedString
  <1>2. Quote(s) \in Strings
    BY <1>1, FlattenedIsList DEF Strings
  <1>3. ASSUME s = <<>> PROVE Quote(s) = <<>>
    <2>1. Escapes(s) = <<>>
      BY <1>1, <1>3, EmptySeq
    <2> QED BY <1>1, <2>1, FlattensNothing
  <1>4. ASSUME s # <<>> PROVE Quote(s) = Escape(s[1]) \o Quote(Tail(s))
    <2>1. Tail(s) \in Strings /\ Len(s) # 0
      BY <1>4, HeadTailProperties DEF Strings
    <2>2. Quote(Tail(s)) = FlattenSeq(Escapes(Tail(s)))
      BY <2>1, EscapedString
    <2>3. FlattenSeq(Escapes(s)) = Escapes(s)[1] \o FlattenSeq(Tail(Escapes(s)))
      BY <1>1, <2>1, FlattensHead DEF Strings
    <2> QED BY <1>1, <1>4, <2>2, <2>3
  <1> QED BY <1>2, <1>3, <1>4

\* Two pairs are the same.
Agree(a, b, x, y) == a = b /\ x = y

\* A first character and what follows it can be told from its escape.
LEMMA EscapesTell ==
  ASSUME NEW a \in Nat, NEW b \in Nat, NEW x \in Strings, NEW y \in Strings,
         Escape(a) \o x = Escape(b) \o y
  PROVE  Agree(a, b, x, y)
  <1> DEFINE s == Escape(a)
             t == Escape(b)
             j == s \o x
             k == t \o y
  <1>1. s \in Seq(Nat) /\ t \in Seq(Nat) /\ x \in Seq(Nat) /\ y \in Seq(Nat)
    BY EscapedCharacter DEF Strings
  <1>2. /\ a = Percent => s = <<Percent, 50, 53>>
        /\ a = Colon => s = <<Percent, 51, 65>>
        /\ a \notin {Percent, Colon} => s = <<a>>
    BY EscapedCharacter
  <1>3. /\ b = Percent => t = <<Percent, 50, 53>>
        /\ b = Colon => t = <<Percent, 51, 65>>
        /\ b \notin {Percent, Colon} => t = <<b>>
    BY EscapedCharacter
  <1>4. j = k
    OBVIOUS
  <1> HIDE DEF s, t
  <1>5. /\ j \in Seq(Nat) /\ Len(j) = Len(s) + Len(x)
        /\ \A i \in 1..Len(s) + Len(x) : j[i] = IF i <= Len(s) THEN s[i] ELSE x[i - Len(s)]
    BY <1>1, ConcatProperties
  <1>6. /\ k \in Seq(Nat) /\ Len(k) = Len(t) + Len(y)
        /\ \A i \in 1..Len(t) + Len(y) : k[i] = IF i <= Len(t) THEN t[i] ELSE y[i - Len(t)]
    BY <1>1, ConcatProperties
  <1>7. Len(s) \in Nat /\ Len(t) \in Nat /\ Len(x) \in Nat /\ Len(y) \in Nat
    BY <1>1
  <1> HIDE DEF j, k
  <1>8. /\ Len(s) # 0 /\ Len(t) # 0
        /\ \A i \in 1..Len(s) : j[i] = s[i]
        /\ \A i \in 1..Len(t) : k[i] = t[i]
    <2>1. Len(s) # 0 /\ Len(t) # 0
      BY EscapedCharacter DEF s, t
    <2>3. \A i \in 1..Len(s) : j[i] = s[i]
      BY <1>5, <1>7
    <2>4. \A i \in 1..Len(t) : k[i] = t[i]
      BY <1>6, <1>7
    <2> QED BY <2>1, <2>3, <2>4
  <1>9. a = b
    <2>1. s[1] = t[1]
      <3>1. 1 \in 1..Len(s) /\ 1 \in 1..Len(t)
        BY <1>7, <1>8
      <3> QED BY <1>4, <1>8, <3>1
    <2>2. a \in {Percent, Colon} /\ b \in {Percent, Colon} => s[2] = t[2]
      <3> HAVE a \in {Percent, Colon} /\ b \in {Percent, Colon}
      <3>1. Len(s) = 3 /\ Len(t) = 3
        BY <1>2, <1>3 DEF Percent, Colon
      <3>2. 2 \in 1..Len(s) /\ 2 \in 1..Len(t)
        BY <3>1
      <3> QED BY <1>4, <1>8, <3>2
    <2> QED BY <1>2, <1>3, <2>1, <2>2 DEF Percent, Colon
  <1>10. s = t
    BY <1>9 DEF s, t
  <1>11. Len(x) = Len(y)
    BY <1>4, <1>5, <1>6, <1>7, <1>10
  <1>12. \A i \in 1..Len(x) : x[i] = y[i]
    <2> TAKE i \in 1..Len(x)
    <2>1. /\ i + Len(s) \in 1..Len(s) + Len(x) /\ i + Len(s) \in 1..Len(t) + Len(y)
          /\ ~(i + Len(s) <= Len(s)) /\ (i + Len(s)) - Len(s) = i
      BY <1>7, <1>10, <1>11
    <2>2. j[i + Len(s)] = x[i]
      BY <1>5, <2>1
    <2>3. k[i + Len(s)] = y[i]
      BY <1>6, <1>10, <2>1
    <2> QED BY <1>4, <2>2, <2>3
  <1>13. x = y
    BY <1>1, <1>11, <1>12, SeqEqual
  <1> QED BY <1>9, <1>13 DEF Agree

\* A quoted string has no colon.
LEMMA QuotesHaveNoColon ==
  ASSUME NEW s \in Strings PROVE \A i \in 1..Len(Quote(s)) : Quote(s)[i] # Colon
  <1> DEFINE Plain1(r) == \A i \in 1..Len(Quote(r)) : Quote(r)[i] # Colon
             All(n) == \A r \in Strings : Len(r) = n => Plain1(r)
             T == {n \in Nat : All(n)}
  <1>1. 0 \in T
    <2>1. ASSUME NEW r \in Strings, Len(r) = 0 PROVE Plain1(r)
      <3>1. r = <<>>
        BY <2>1, EmptySeq DEF Strings
      <3>2. Quote(r) = <<>> /\ Len(<<>>) = 0
        BY <3>1, QuoteSteps
      <3> QED BY <3>2
    <2> HIDE DEF Plain1
    <2>2. All(0)
      BY <2>1
    <2> HIDE DEF All
    <2> QED BY <2>2
  <1>2. ASSUME NEW n \in T PROVE n + 1 \in T
    <2>1. n \in Nat /\ All(n)
      OBVIOUS
    <2>2. ASSUME NEW r \in Strings, Len(r) = n + 1 PROVE Plain1(r)
      <3> DEFINE a == Escape(r[1])
                 b == Quote(Tail(r))
      <3>1. r # <<>> /\ r[1] \in Nat /\ Tail(r) \in Strings /\ Len(Tail(r)) = n
        BY <2>1, <2>2, HeadTailProperties DEF Strings
      <3>2. Quote(r) = a \o b
        BY <3>1, QuoteSteps
      <3>3. Plain1(Tail(r))
        BY <2>1, <3>1
      <3>4. a \in Seq(Nat) /\ \A i \in 1..Len(a) : a[i] # Colon
        BY <3>1, EscapedCharacter DEF Strings
      <3>5. b \in Seq(Nat) /\ \A i \in 1..Len(b) : b[i] # Colon
        BY <3>1, <3>3, QuoteSteps DEF Strings
      <3> HIDE DEF a, b
      <3>6. /\ Len(a \o b) = Len(a) + Len(b)
            /\ \A i \in 1..Len(a) + Len(b) :
                 (a \o b)[i] = IF i <= Len(a) THEN a[i] ELSE b[i - Len(a)]
        BY <3>4, <3>5, ConcatProperties
      <3>7. Len(a) \in Nat /\ Len(b) \in Nat
        BY <3>4, <3>5
      <3>8. \A i \in 1..Len(a) + Len(b) : (a \o b)[i] # Colon
        <4> TAKE i \in 1..Len(a) + Len(b)
        <4>1. CASE i <= Len(a)
          BY <3>4, <3>6, <3>7, <4>1
        <4>2. CASE ~(i <= Len(a))
          <5>1. i - Len(a) \in 1..Len(b)
            BY <3>7, <4>2
          <5> QED BY <3>5, <3>6, <4>2, <5>1
        <4> QED BY <4>1, <4>2
      <3> QED BY <3>2, <3>6, <3>8
    <2> HIDE DEF Plain1
    <2>3. All(n + 1)
      BY <2>2
    <2> HIDE DEF All
    <2> QED BY <2>1, <2>3
  <1>3. T \in SUBSET Nat
    OBVIOUS
  <1> HIDE DEF T
  <1>4. T = Nat
    BY <1>1, <1>2, <1>3, Reaches
  <1>5. Len(s) \in Nat
    BY DEF Strings
  <1>6. All(Len(s))
    BY <1>4, <1>5 DEF T
  <1> QED BY <1>6

\* A list with the elements of one and then those of another.
JoinOf(j, a, b) ==
  /\ Len(j) = Len(a) + Len(b)
  /\ \A i \in 1..Len(a) : j[i] = a[i]
  /\ \A i \in 1..Len(b) : j[Len(a) + i] = b[i]

\* Concatenation makes it.
LEMMA ConcatJoins ==
  ASSUME NEW X, NEW a \in Seq(X), NEW b \in Seq(X)
  PROVE  a \o b \in Seq(X) /\ JoinOf(a \o b, a, b)
  <1>1. /\ a \o b \in Seq(X)
        /\ Len(a \o b) = Len(a) + Len(b)
        /\ \A i \in 1..Len(a) + Len(b) : (a \o b)[i] = IF i <= Len(a) THEN a[i] ELSE b[i - Len(a)]
    BY ConcatProperties
  <1>2. Len(a) \in Nat /\ Len(b) \in Nat
    OBVIOUS
  <1>3. \A i \in 1..Len(a) : (a \o b)[i] = a[i]
    BY <1>1, <1>2
  <1>4. ASSUME NEW i \in 1..Len(b) PROVE (a \o b)[Len(a) + i] = b[i]
    <2>1. /\ Len(a) + i \in 1..Len(a) + Len(b) /\ ~(Len(a) + i <= Len(a))
          /\ (Len(a) + i) - Len(a) = i
      BY <1>2
    <2> QED BY <1>1, <2>1
  <1> QED BY <1>1, <1>3, <1>4 DEF JoinOf

\* The first element of a list and the others.
LEMMA FirstAndRest ==
  ASSUME NEW X, NEW s \in Seq(X), s # <<>>
  PROVE  s = <<s[1]>> \o Tail(s)
  <1>1. /\ Tail(s) \in Seq(X) /\ Len(Tail(s)) = Len(s) - 1 /\ Len(s) \in Nat /\ Len(s) # 0
        /\ \A i \in 1..Len(Tail(s)) : Tail(s)[i] = s[i + 1]
    BY HeadTailProperties
  <1> DEFINE f == <<s[1]>>
             t == Tail(s)
             j == f \o t
  <1>2. f \in Seq(X) /\ Len(f) = 1 /\ f[1] = s[1]
    <2>1. s[1] \in X
      BY <1>1
    <2> QED BY <2>1
  <1> HIDE DEF f, t
  <1>3. t \in Seq(X) /\ Len(t) = Len(s) - 1 /\ \A i \in 1..Len(t) : t[i] = s[i + 1]
    BY <1>1 DEF t
  <1>4. j \in Seq(X) /\ JoinOf(j, f, t)
    BY <1>2, <1>3, ConcatJoins
  <1> HIDE DEF j
  <1>5. /\ Len(j) = Len(s)
        /\ \A i \in 1..1 : j[i] = f[i]
        /\ \A i \in 1..Len(t) : j[1 + i] = t[i]
    BY <1>1, <1>2, <1>3, <1>4 DEF JoinOf
  <1>6. ASSUME NEW i \in 1..Len(s) PROVE s[i] = j[i]
    <2>1. CASE i = 1
      BY <1>2, <1>5, <2>1
    <2>2. CASE i # 1
      <3>1. i - 1 \in 1..Len(t) /\ (i - 1) + 1 = i /\ 1 + (i - 1) = i
        BY <1>1, <1>3, <2>2
      <3>2. j[1 + (i - 1)] = t[i - 1] /\ t[i - 1] = s[(i - 1) + 1]
        BY <1>3, <1>5, <3>1
      <3> QED BY <3>1, <3>2
    <2> QED BY <2>1, <2>2
  <1>7. s = j
    BY <1>4, <1>5, <1>6, SeqEqual
  <1> QED BY <1>7 DEF j, f, t

\* Quoted alike, strings begin alike, and so do their rests.
LEMMA QuotesShorten ==
  ASSUME NEW r \in Strings, NEW u \in Strings, r # <<>>, u # <<>>, Quote(r) = Quote(u)
  PROVE  r[1] = u[1] /\ Quote(Tail(r)) = Quote(Tail(u))
  <1> DEFINE a == r[1]
             b == u[1]
             x == Quote(Tail(r))
             y == Quote(Tail(u))
  <1>1. Tail(r) \in Strings /\ Tail(u) \in Strings /\ a \in Nat /\ b \in Nat
    BY HeadTailProperties DEF Strings
  <1>2. Quote(r) = Escape(a) \o x /\ Quote(u) = Escape(b) \o y
    BY QuoteSteps
  <1>3. x \in Strings /\ y \in Strings
    BY <1>1, QuoteSteps
  <1> HIDE DEF a, b, x, y
  <1>4. Escape(a) \o x = Escape(b) \o y
    BY <1>2
  <1>5. Agree(a, b, x, y)
    BY <1>1, <1>3, <1>4, EscapesTell
  <1> QED BY <1>5 DEF Agree, a, b, x, y

\* Different strings are quoted differently.
LEMMA QuotesTell ==
  ASSUME NEW s \in Strings, NEW t \in Strings, Quote(s) = Quote(t) PROVE s = t
  <1> DEFINE Tells(r) == \A u \in Strings : Quote(r) = Quote(u) => r = u
             All(n) == \A r \in Strings : Len(r) = n => Tells(r)
             T == {n \in Nat : All(n)}
  <1>1. ASSUME NEW r \in Strings, Quote(r) = <<>> PROVE r = <<>>
    <2> SUFFICES ASSUME r # <<>> PROVE FALSE
      OBVIOUS
    <2>1. r[1] \in Nat /\ Tail(r) \in Strings
      BY HeadTailProperties DEF Strings
    <2>2. /\ Escape(r[1]) \in Seq(Nat) /\ Len(Escape(r[1])) # 0
          /\ Quote(Tail(r)) \in Seq(Nat)
      BY <2>1, EscapedCharacter, QuoteSteps DEF Strings
    <2>3. Quote(r) = Escape(r[1]) \o Quote(Tail(r))
      BY QuoteSteps
    <2>4. Escape(r[1]) # <<>>
      BY <2>2
    <2> DEFINE a == Escape(r[1])
               b == Quote(Tail(r))
    <2>5. a \in Seq(Nat) /\ b \in Seq(Nat) /\ a # <<>> /\ a \o b = <<>>
      BY <1>1, <2>2, <2>3, <2>4
    <2> HIDE DEF a, b
    <2> QED BY <2>5, ConcatEqualIffEmpty
  <1>2. 0 \in T
    <2>1. ASSUME NEW r \in Strings, Len(r) = 0 PROVE Tells(r)
      <3>1. r = <<>>
        BY <2>1, EmptySeq DEF Strings
      <3>2. Quote(r) = <<>>
        BY <3>1, QuoteSteps
      <3> QED BY <1>1, <3>1, <3>2
    <2> HIDE DEF Tells
    <2>2. All(0)
      BY <2>1
    <2> HIDE DEF All
    <2> QED BY <2>2
  <1>3. ASSUME NEW n \in T PROVE n + 1 \in T
    <2>1. n \in Nat /\ All(n)
      OBVIOUS
    <2>2. ASSUME NEW r \in Strings, Len(r) = n + 1 PROVE Tells(r)
      <3> SUFFICES ASSUME NEW u \in Strings, Quote(r) = Quote(u) PROVE r = u
        OBVIOUS
      <3>1. r # <<>> /\ r[1] \in Nat /\ Tail(r) \in Strings /\ Len(Tail(r)) = n
        BY <2>1, <2>2, HeadTailProperties DEF Strings
      <3>2. u # <<>>
        <4> SUFFICES ASSUME u = <<>> PROVE FALSE
          OBVIOUS
        <4>1. Quote(r) = <<>>
          BY QuoteSteps
        <4> QED BY <1>1, <3>1, <4>1
      <3>3. u[1] \in Nat /\ Tail(u) \in Strings
        BY <3>2, HeadTailProperties DEF Strings
      <3>5. r[1] = u[1] /\ Quote(Tail(r)) = Quote(Tail(u))
        BY <3>1, <3>2, QuotesShorten
      <3>6. Tail(r) = Tail(u)
        BY <2>1, <3>1, <3>3, <3>5
      <3>7. r \in Seq(Nat) /\ u \in Seq(Nat)
        BY DEF Strings
      <3>8. r = <<r[1]>> \o Tail(r) /\ u = <<u[1]>> \o Tail(u)
        BY <3>1, <3>2, <3>7, FirstAndRest
      <3> QED BY <3>5, <3>6, <3>8
    <2> HIDE DEF Tells
    <2>3. All(n + 1)
      BY <2>2
    <2> HIDE DEF All
    <2> QED BY <2>1, <2>3
  <1>4. T \in SUBSET Nat
    OBVIOUS
  <1> HIDE DEF T
  <1>5. T = Nat
    BY <1>2, <1>3, <1>4, Reaches
  <1>6. Len(s) \in Nat
    BY DEF Strings
  <1>7. All(Len(s))
    BY <1>5, <1>6 DEF T
  <1> QED BY <1>7

\* What stands before a colon, and behind it, in a list without another.
LEMMA ColonTells ==
  ASSUME NEW a \in Seq(Nat), NEW b \in Seq(Nat), NEW x \in Seq(Nat), NEW y \in Seq(Nat),
         \A i \in 1..Len(a) : a[i] # Colon, \A i \in 1..Len(b) : b[i] # Colon,
         a \o <<Colon>> \o x = b \o <<Colon>> \o y
  PROVE  a = b /\ x = y
  <1> DEFINE c == <<Colon>>
             p == a \o c
             q == b \o c
             j == p \o x
             k == q \o y
  <1>1. c \in Seq(Nat) /\ Len(c) = 1 /\ c[1] = Colon
    BY DEF Colon
  <1>2. j = k
    OBVIOUS
  <1> HIDE DEF c
  <1>3. p \in Seq(Nat) /\ JoinOf(p, a, c) /\ q \in Seq(Nat) /\ JoinOf(q, b, c)
    BY <1>1, ConcatJoins
  <1> HIDE DEF p, q
  <1>4. JoinOf(j, p, x) /\ JoinOf(k, q, y)
    BY <1>3, ConcatJoins
  <1> HIDE DEF j, k
  <1>7. Len(a) \in Nat /\ Len(b) \in Nat /\ Len(x) \in Nat /\ Len(y) \in Nat
    OBVIOUS
  <1>5. ASSUME NEW u \in Seq(Nat), NEW v \in Seq(Nat), NEW w, NEW r,
               JoinOf(w, u, c), JoinOf(r, w, v)
        PROVE  /\ Len(r) = Len(u) + 1 + Len(v)
               /\ \A i \in 1..Len(u) : r[i] = u[i]
               /\ r[Len(u) + 1] = Colon
               /\ \A i \in 1..Len(v) : r[Len(u) + 1 + i] = v[i]
    <2>1. Len(u) \in Nat /\ Len(v) \in Nat
      OBVIOUS
    <2>2. /\ Len(w) = Len(u) + 1 /\ \A i \in 1..Len(u) : w[i] = u[i]
          /\ w[Len(u) + 1] = c[1]
      <3>1. 1 \in 1..Len(c)
        BY <1>1
      <3> QED BY <1>1, <1>5, <3>1 DEF JoinOf
    <2>3. /\ Len(r) = Len(w) + Len(v) /\ \A i \in 1..Len(w) : r[i] = w[i]
          /\ \A i \in 1..Len(v) : r[Len(w) + i] = v[i]
      BY <1>5 DEF JoinOf
    <2>4. \A i \in 1..Len(u) : r[i] = u[i]
      <3>1. \A i \in 1..Len(u) : i \in 1..Len(w)
        BY <2>1, <2>2
      <3> QED BY <2>2, <2>3, <3>1
    <2>5. r[Len(u) + 1] = Colon
      <3>1. Len(u) + 1 \in 1..Len(w)
        BY <2>1, <2>2
      <3> QED BY <1>1, <2>2, <2>3, <3>1
    <2> QED BY <2>1, <2>2, <2>3, <2>4, <2>5
  <1>8. /\ Len(j) = Len(a) + 1 + Len(x)
        /\ \A i \in 1..Len(a) : j[i] = a[i]
        /\ j[Len(a) + 1] = Colon
        /\ \A i \in 1..Len(x) : j[Len(a) + 1 + i] = x[i]
    BY <1>3, <1>4, <1>5
  <1>9. /\ Len(k) = Len(b) + 1 + Len(y)
        /\ \A i \in 1..Len(b) : k[i] = b[i]
        /\ k[Len(b) + 1] = Colon
        /\ \A i \in 1..Len(y) : k[Len(b) + 1 + i] = y[i]
    BY <1>3, <1>4, <1>5
  <1>10. Len(a) = Len(b)
    <2>1. CASE Len(a) < Len(b)
      <3>1. Len(a) + 1 \in 1..Len(b)
        BY <1>7, <2>1
      <3> QED BY <1>2, <1>8, <1>9, <3>1
    <2>2. CASE Len(b) < Len(a)
      <3>1. Len(b) + 1 \in 1..Len(a)
        BY <1>7, <2>2
      <3> QED BY <1>2, <1>8, <1>9, <3>1
    <2> QED BY <1>7, <2>1, <2>2
  <1>11. Len(x) = Len(y)
    BY <1>2, <1>7, <1>8, <1>9, <1>10
  <1>12. a = b
    <2>1. \A i \in 1..Len(a) : a[i] = b[i]
      BY <1>2, <1>8, <1>9, <1>10
    <2> QED BY <1>10, <2>1, SeqEqual
  <1>13. x = y
    <2>1. \A i \in 1..Len(x) : x[i] = y[i]
      BY <1>2, <1>8, <1>9, <1>10, <1>11
    <2> QED BY <1>11, <2>1, SeqEqual
  <1> QED BY <1>12, <1>13

\* Encoded source ids tell records apart (encode_source_id): different tenants or ids
\* never share one, whatever colons and percent signs they hold.
THEOREM SourceIdsTell ==
  ASSUME NEW t \in Strings, NEW i \in Strings, NEW u \in Strings, NEW j \in Strings,
         SourceId(t, i) = SourceId(u, j)
  PROVE  t = u /\ i = j
  <1>1. /\ Quote(t) \in Seq(Nat) /\ Quote(i) \in Seq(Nat)
        /\ Quote(u) \in Seq(Nat) /\ Quote(j) \in Seq(Nat)
    BY QuoteSteps DEF Strings
  <1>2. ASSUME NEW a \in Strings, NEW b \in Strings, NEW c \in Strings,
               Quote(a) = Quote(b) \o <<Colon>> \o Quote(c)
        PROVE  FALSE
    <2> DEFINE p == Quote(b)
               q == <<Colon>>
               r == Quote(c)
    <2>1. p \in Seq(Nat) /\ r \in Seq(Nat) /\ q \in Seq(Nat) /\ Len(q) = 1 /\ q[1] = Colon
      BY QuoteSteps DEF Strings, Colon
    <2>2. Quote(a) = (p \o q) \o r
      BY <1>2
    <2> HIDE DEF p, q, r
    <2>3. p \o q \in Seq(Nat) /\ JoinOf(p \o q, p, q)
      BY <2>1, ConcatJoins
    <2>4. JoinOf(Quote(a), p \o q, r)
      BY <2>1, <2>2, <2>3, ConcatJoins
    <2>5. Len(p) \in Nat /\ Len(r) \in Nat
      BY <2>1
    <2>6. (p \o q)[Len(p) + 1] = Colon /\ Len(p \o q) = Len(p) + 1
      <3>1. 1 \in 1..Len(q)
        BY <2>1
      <3> QED BY <2>1, <2>3, <3>1 DEF JoinOf
    <2>7. Len(p) + 1 \in 1..Len(p \o q) /\ Len(p) + 1 \in 1..Len(Quote(a))
      BY <2>4, <2>5, <2>6 DEF JoinOf
    <2>8. Quote(a)[Len(p) + 1] = Colon
      BY <2>4, <2>6, <2>7 DEF JoinOf
    <2> QED BY <2>7, <2>8, QuotesHaveNoColon
  <1>3. CASE t = Default /\ u = Default
    <2>1. Quote(i) = Quote(j)
      BY <1>3 DEF SourceId
    <2> QED BY <1>3, <2>1, QuotesTell
  <1>4. CASE t = Default /\ u # Default
    <2>1. Quote(i) = Quote(u) \o <<Colon>> \o Quote(j)
      BY <1>4 DEF SourceId
    <2> QED BY <1>2, <2>1
  <1>5. CASE t # Default /\ u = Default
    <2>1. Quote(j) = Quote(t) \o <<Colon>> \o Quote(i)
      BY <1>5 DEF SourceId
    <2> QED BY <1>2, <2>1
  <1>6. CASE t # Default /\ u # Default
    <2>1. Quote(t) \o <<Colon>> \o Quote(i) = Quote(u) \o <<Colon>> \o Quote(j)
      BY <1>6 DEF SourceId
    <2>2. /\ \A k \in 1..Len(Quote(t)) : Quote(t)[k] # Colon
          /\ \A k \in 1..Len(Quote(u)) : Quote(u)[k] # Colon
      BY QuotesHaveNoColon
    <2>3. Quote(t) = Quote(u) /\ Quote(i) = Quote(j)
      BY <1>1, <2>1, <2>2, ColonTells
    <2> QED BY <2>3, QuotesTell
  <1> QED BY <1>3, <1>4, <1>5, <1>6

\* They are strings.
LEMMA SourceIdsAreStrings ==
  ASSUME NEW t \in Strings, NEW i \in Strings PROVE SourceId(t, i) \in Strings
  <1> DEFINE p == Quote(t)
             q == <<Colon>>
             r == Quote(i)
  <1>1. p \in Seq(Nat) /\ r \in Seq(Nat) /\ q \in Seq(Nat)
    BY QuoteSteps DEF Strings, Colon
  <1>2. SourceId(t, i) = IF t = Default THEN r ELSE (p \o q) \o r
    BY DEF SourceId
  <1> HIDE DEF p, q, r
  <1>3. (p \o q) \in Seq(Nat)
    BY <1>1, ConcatProperties
  <1>4. (p \o q) \o r \in Seq(Nat)
    BY <1>1, <1>3, ConcatProperties
  <1> QED BY <1>1, <1>2, <1>4 DEF Strings
-----------------------------------------------------------------------------
(* The windows of a text.                                                  *)

\* Steps add up.
LEMMA StepsAddUp ==
  ASSUME NEW k \in Nat, NEW l \in Nat, NEW step \in Nat, step # 0
  PROVE  /\ k * step \in Nat /\ k <= k * step
         /\ (k + 1) * step = k * step + step /\ (k - 1) * step = k * step - step
         /\ k < l => k * step + step <= l * step
  <1>1. k * step \in Nat
    BY Steps
  <1>2. (k + 1) * step = k * step + step /\ (k - 1) * step = k * step - step
    OBVIOUS
  <1>3. k <= k * step
    <2>1. k * (step - 1) \in Nat
      BY Steps
    <2>2. k * (step - 1) = k * step - k
      OBVIOUS
    <2> QED BY <1>1, <2>1, <2>2
  <1>4. ASSUME k < l PROVE k * step + step <= l * step
    <2>1. l - k - 1 \in Nat
      BY <1>4
    <2>2. (l - k - 1) * step \in Nat
      BY <2>1, Steps
    <2>3. (l - k - 1) * step = l * step - k * step - step
      OBVIOUS
    <2>4. l * step \in Nat
      BY Steps
    <2> QED BY <1>1, <2>2, <2>3, <2>4
  <1> QED BY <1>1, <1>2, <1>3, <1>4

\* Window number k of n words.
Window(k, n, size, step) ==
  <<k * step + 1, IF k * step + size < n THEN k * step + size ELSE n>>

\* It begins behind the first if the one before it ended before the text did.
BeginsAt(k, n, size, step) == k \in 0..n /\ (k = 0 \/ (k - 1) * step + size < n)

\* Where it begins and ends.
LEMMA OneWindow ==
  ASSUME NEW n \in Nat, n # 0, NEW size \in Nat, NEW step \in Nat, step # 0, step <= size,
         NEW k, BeginsAt(k, n, size, step)
  PROVE  /\ k \in Nat /\ k * step \in Nat
         /\ k * step < n
         /\ Window(k, n, size, step)[1] = k * step + 1
         /\ k * step + size < n => /\ Window(k, n, size, step)[2] = k * step + size
                                   /\ BeginsAt(k + 1, n, size, step)
         /\ ~(k * step + size < n) => Window(k, n, size, step)[2] = n
  <1>1. k \in Nat
    BY DEF BeginsAt
  <1>2. /\ k * step \in Nat /\ k <= k * step /\ (k - 1) * step = k * step - step
    BY <1>1, StepsAddUp
  <1>3. k * step < n
    <2>1. CASE k = 0
      BY <2>1
    <2>2. CASE (k - 1) * step + size < n
      BY <1>2, <2>2
    <2> QED BY <2>1, <2>2 DEF BeginsAt
  <1>4. ASSUME k * step + size < n PROVE BeginsAt(k + 1, n, size, step)
    <2>1. k + 1 \in 0..n /\ (k + 1) - 1 = k
      BY <1>1, <1>2, <1>4
    <2> QED BY <1>4, <2>1 DEF BeginsAt
  <1> QED BY <1>1, <1>2, <1>3, <1>4 DEF Window

\* Windows that cut a text well.
WellCut(W, n, size, step) ==
  /\ \E w \in W : w[1] = 1
  /\ \A w \in W : /\ w[1] \in Nat \ {0} /\ w[2] \in Nat /\ w[1] <= w[2] /\ w[2] <= n
                  /\ w[2] - w[1] + 1 <= size
                  /\ w[2] = n \/ \E v \in W : v[1] = w[1] + step
  /\ \A v, w \in W : v[1] = w[1] => v = w
  /\ \E w \in W : w[2] = n
  /\ \A v, w \in W : v[2] = n /\ w[2] = n => v = w

\* So do those of chunk_text.
LEMMA WindowsCutWell ==
  ASSUME NEW n \in Nat, n # 0, NEW size \in Nat, NEW overlap \in Nat, overlap < size
  PROVE  WellCut(Windows(n, size, overlap), n, size, size - overlap)
  <1> DEFINE step == size - overlap
             W == Windows(n, size, overlap)
  <1>1. step \in Nat /\ step # 0 /\ step <= size
    OBVIOUS
  <1>2. W = {Window(k, n, size, step) : k \in {l \in 0..n : BeginsAt(l, n, size, step)}}
    BY DEF Windows, Window, BeginsAt
  <1> HIDE DEF step, W
  <1>3. \A w \in W : \E k : BeginsAt(k, n, size, step) /\ w = Window(k, n, size, step)
    BY <1>2
  <1>4. \A k : BeginsAt(k, n, size, step) => Window(k, n, size, step) \in W
    BY <1>2 DEF BeginsAt
  <1>5. \E w \in W : w[1] = 1
    <2>1. BeginsAt(0, n, size, step)
      BY DEF BeginsAt
    <2>2. Window(0, n, size, step)[1] = 0 * step + 1
      BY DEF Window
    <2>3. 0 * step + 1 = 1
      BY <1>1
    <2> QED BY <1>4, <2>1, <2>2, <2>3
  <1>6. ASSUME NEW w \in W
        PROVE  /\ w[1] \in Nat \ {0} /\ w[2] \in Nat /\ w[1] <= w[2] /\ w[2] <= n
               /\ w[2] - w[1] + 1 <= size
               /\ w[2] = n \/ \E v \in W : v[1] = w[1] + step
    <2>1. PICK k : BeginsAt(k, n, size, step) /\ w = Window(k, n, size, step)
      BY <1>3
    <2>2. /\ k \in Nat /\ k * step \in Nat /\ k * step < n /\ w[1] = k * step + 1
          /\ k * step + size < n => w[2] = k * step + size /\ BeginsAt(k + 1, n, size, step)
          /\ ~(k * step + size < n) => w[2] = n
      BY <1>1, <2>1, OneWindow
    <2>3. CASE k * step + size < n
      <3>1. /\ Window(k + 1, n, size, step) \in W
            /\ Window(k + 1, n, size, step)[1] = (k + 1) * step + 1
        <4> DEFINE j == k + 1
        <4>1. BeginsAt(j, n, size, step)
          BY <2>2, <2>3
        <4> HIDE DEF j
        <4>2. Window(j, n, size, step) \in W
          BY <1>4, <4>1
        <4>3. Window(j, n, size, step)[1] = j * step + 1
          BY <1>1, <4>1, OneWindow
        <4> QED BY <4>2, <4>3 DEF j
      <3>2. (k + 1) * step + 1 = w[1] + step
        BY <1>1, <2>2, StepsAddUp
      <3>3. \E v \in W : v[1] = w[1] + step
        BY <3>1, <3>2
      <3> QED BY <1>1, <2>2, <2>3, <3>3
    <2>4. CASE ~(k * step + size < n)
      BY <1>1, <2>2, <2>4
    <2> QED BY <2>3, <2>4
  <1>7. ASSUME NEW v \in W, NEW w \in W PROVE v[1] = w[1] => v = w
    <2> HAVE v[1] = w[1]
    <2>1. PICK k : BeginsAt(k, n, size, step) /\ v = Window(k, n, size, step)
      BY <1>3
    <2>2. PICK l : BeginsAt(l, n, size, step) /\ w = Window(l, n, size, step)
      BY <1>3
    <2>3. k \in Nat /\ k * step \in Nat /\ v[1] = k * step + 1
      BY <1>1, <2>1, OneWindow
    <2>4. l \in Nat /\ l * step \in Nat /\ w[1] = l * step + 1
      BY <1>1, <2>2, OneWindow
    <2>5. k * step = l * step
      <3> DEFINE a == k * step
                 b == l * step
      <3>1. a \in Nat /\ b \in Nat /\ a + 1 = b + 1
        BY <2>3, <2>4
      <3> HIDE DEF a, b
      <3>2. a = b
        BY <3>1
      <3> QED BY <3>2 DEF a, b
    <2>6. (k < l => k * step + step <= l * step) /\ (l < k => l * step + step <= k * step)
      BY <1>1, <2>3, <2>4, StepsAddUp
    <2>7. k = l
      BY <1>1, <2>3, <2>4, <2>5, <2>6
    <2> QED BY <2>1, <2>2, <2>7
  <1>8. \E w \in W : w[2] = n
    <2> DEFINE K == {k \in Nat : ~(k * step + size < n)}
    <2>1. n \in K
      <3>1. n <= n * step /\ n * step \in Nat
        BY <1>1, StepsAddUp
      <3> QED BY <3>1
    <2>2. PICK k \in K : \A l \in K : k <= l
      <3>1. K \in SUBSET Nat /\ K # {}
        BY <2>1
      <3> HIDE DEF K
      <3> QED BY <3>1, LeastOf
    <2>3. k \in Nat /\ k <= n /\ ~(k * step + size < n)
      BY <2>1, <2>2
    <2>4. k # 0 => (k - 1) * step + size < n
      <3> HAVE k # 0
      <3>1. k - 1 \in Nat /\ ~(k <= k - 1)
        BY <2>3
      <3> QED BY <2>2, <3>1
    <2>5. BeginsAt(k, n, size, step)
      BY <2>3, <2>4 DEF BeginsAt
    <2>6. Window(k, n, size, step)[2] = n
      BY <1>1, <2>3, <2>5, OneWindow
    <2> QED BY <1>4, <2>5, <2>6
  <1>9. ASSUME NEW k, NEW l, BeginsAt(k, n, size, step), BeginsAt(l, n, size, step),
               Window(k, n, size, step)[2] = n, k < l
        PROVE  FALSE
    <2>1. /\ k \in Nat /\ k * step \in Nat
          /\ k * step + size < n => Window(k, n, size, step)[2] = k * step + size
      BY <1>1, <1>9, OneWindow
    <2>2. ~(k * step + size < n)
      BY <1>9, <2>1
    <2>3. l \in Nat /\ l * step \in Nat /\ l # 0
      BY <1>1, <1>9, <2>1, OneWindow
    <2>4. (l - 1) * step + size < n /\ (l - 1) * step = l * step - step
      BY <1>1, <1>9, <2>3, StepsAddUp DEF BeginsAt
    <2>5. k * step + step <= l * step
      BY <1>1, <1>9, <2>1, <2>3, StepsAddUp
    <2> QED BY <1>1, <2>1, <2>2, <2>3, <2>4, <2>5
  <1>10. ASSUME NEW v \in W, NEW w \in W PROVE v[2] = n /\ w[2] = n => v = w
    <2> HAVE v[2] = n /\ w[2] = n
    <2>1. PICK k : BeginsAt(k, n, size, step) /\ v = Window(k, n, size, step)
      BY <1>3
    <2>2. PICK l : BeginsAt(l, n, size, step) /\ w = Window(l, n, size, step)
      BY <1>3
    <2>3. k \in Nat /\ l \in Nat
      BY <2>1, <2>2 DEF BeginsAt
    <2>4. ~(k < l) /\ ~(l < k)
      BY <1>9, <2>1, <2>2
    <2>5. k = l
      BY <2>3, <2>4
    <2> QED BY <2>1, <2>2, <2>5
  <1> QED BY <1>5, <1>6, <1>7, <1>8, <1>10 DEF WellCut, W, step

\* As many numbers as elements that have different ones.
LEMMA NumbersCount ==
  ASSUME NEW S, IsFiniteSet(S), NEW f, f \in Injection(S, Nat)
  PROVE  Cardinality({f[x] : x \in S}) = Cardinality(S)
  <1> DEFINE T == {f[x] : x \in S}
  <1>1. f \in [S -> T]
    BY DEF Injection, IsInjective
  <1>2. f \in Injection(S, T)
    BY <1>1 DEF Injection, IsInjective
  <1>3. f \in Surjection(S, T)
    BY <1>1 DEF Surjection
  <1>4. ExistsBijection(S, T)
    BY <1>2, <1>3 DEF ExistsBijection, Bijection
  <1> HIDE DEF T
  <1>5. Cardinality(T) = Cardinality(S)
    BY <1>4, FS_Bijection
  <1> QED BY <1>5 DEF T
-----------------------------------------------------------------------------
(* The chunks of a record.                                                 *)

\* The chunk of one window.
ChunkAt(r, w) ==
  [source |-> SourceId(r.tenant, r.id), position |-> w[1],
   text |-> SubSeq(Redact(r.text), w[1], w[2]), tenant |-> r.tenant, id |-> r.id]

\* What it holds.
ChunkHolds(c, r, w) ==
  /\ c.source = SourceId(r.tenant, r.id) /\ c.position = w[1]
  /\ Len(c.text) = w[2] - w[1] + 1 /\ c.position + Len(c.text) - 1 = w[2]
  /\ c.text = SubSeq(Redact(r.text), c.position, c.position + Len(c.text) - 1)
  /\ c \in [source : Strings, position : Nat \ {0}, text : Texts, tenant : Strings, id : Strings]

\* The chunk of a window that cuts well holds its words.
LEMMA ChunkOfWindow ==
  ASSUME NEW r \in Rows, NEW size, NEW step,
         NEW W, WellCut(W, Len(Redact(r.text)), size, step), NEW w \in W
  PROVE  ChunkHolds(ChunkAt(r, w), r, w)
  <1> DEFINE text == Redact(r.text)
             c == ChunkAt(r, w)
             a == w[1]
             b == w[2]
  <1>1. text \in Texts /\ r.tenant \in Strings /\ r.id \in Strings
    BY RedactedTexts DEF Rows
  <1>2. a \in Nat \ {0} /\ b \in Nat /\ a <= b /\ b <= Len(text)
    BY DEF WellCut
  <1>3. /\ c = [source |-> SourceId(r.tenant, r.id), position |-> a, text |-> SubSeq(text, a, b),
                tenant |-> r.tenant, id |-> r.id]
    BY DEF ChunkAt
  <1>4. SourceId(r.tenant, r.id) \in Strings
    BY <1>1, SourceIdsAreStrings
  <1> HIDE DEF text, a, b, c
  <1>5. SubSeq(text, a, b) \in Texts
    BY <1>1, <1>2, PartsAreTexts
  <1>6. Len(SubSeq(text, a, b)) = b - a + 1
    <2>1. \A i \in a..b : i \in 1..Len(text) /\ text[i] \in Words
      BY <1>1, <1>2 DEF Texts
    <2> QED BY <1>2, <2>1, SubSeqProperties
  <1>7. /\ c.source = SourceId(r.tenant, r.id) /\ c.position = a /\ c.text = SubSeq(text, a, b)
        /\ c \in [source : Strings, position : Nat \ {0}, text : Texts, tenant : Strings,
                  id : Strings]
    BY <1>1, <1>2, <1>3, <1>4, <1>5
  <1>8. Len(c.text) = b - a + 1 /\ c.position + Len(c.text) - 1 = b
    BY <1>2, <1>6, <1>7
  <1>9. c.text = SubSeq(text, c.position, c.position + Len(c.text) - 1)
    BY <1>7, <1>8
  <1>10. /\ c.source = SourceId(r.tenant, r.id) /\ c.position = w[1]
         /\ Len(c.text) = w[2] - w[1] + 1 /\ c.position + Len(c.text) - 1 = w[2]
         /\ c \in [source : Strings, position : Nat \ {0}, text : Texts, tenant : Strings,
                   id : Strings]
    BY <1>7, <1>8 DEF a, b
  <1>11. ChunkHolds(c, r, w)
    BY <1>9, <1>10 DEF ChunkHolds, text
  <1> QED BY <1>11 DEF c

\* The windows of a record.
CutOf(r, size, overlap) == Windows(Len(Redact(r.text)), size, overlap)

\* Chunks are those of the windows.
LEMMA ChunksOfWindows ==
  ASSUME NEW r \in Rows, r.text # <<>>, NEW size \in Nat, NEW overlap \in Nat, overlap < size
  PROVE  /\ Len(Redact(r.text)) \in Nat /\ Len(Redact(r.text)) # 0
         /\ WellCut(CutOf(r, size, overlap), Len(Redact(r.text)), size, size - overlap)
         /\ Chunks(r, size, overlap) = {ChunkAt(r, w) : w \in CutOf(r, size, overlap)}
         /\ \A w \in CutOf(r, size, overlap) : ChunkHolds(ChunkAt(r, w), r, w)
  <1>1. r.text \in Texts
    BY DEF Rows
  <1>2. Redact(r.text) \in Texts /\ Redact(r.text) # <<>>
    BY <1>1, RedactedTexts
  <1>3. Len(Redact(r.text)) \in Nat /\ Len(Redact(r.text)) # 0
    BY <1>2, EmptySeq DEF Texts
  <1>4. WellCut(CutOf(r, size, overlap), Len(Redact(r.text)), size, size - overlap)
    BY <1>3, WindowsCutWell DEF CutOf
  <1>5. Chunks(r, size, overlap) = {ChunkAt(r, w) : w \in CutOf(r, size, overlap)}
    BY DEF Chunks, ChunkAt, CutOf
  <1>6. \A w \in CutOf(r, size, overlap) : ChunkHolds(ChunkAt(r, w), r, w)
    BY <1>4, ChunkOfWindow
  <1> QED BY <1>3, <1>4, <1>5, <1>6

\* They hold the text of the record.
LEMMA ChunksHoldText ==
  ASSUME NEW r \in Rows, r.text # <<>>, NEW size \in Nat, NEW overlap \in Nat, overlap < size,
         NEW m, m.text = Redact(r.text), m.size = <<size, overlap>>
  PROVE  HoldsText(m, Chunks(r, size, overlap))
  <1> DEFINE text == Redact(r.text)
             W == CutOf(r, size, overlap)
             C == Chunks(r, size, overlap)
             step == size - overlap
             n == Len(text)
  <1>1. n \in Nat /\ n # 0 /\ WellCut(W, n, size, step)
    BY ChunksOfWindows
  <1>2. \A w \in W : ChunkAt(r, w) \in C
    BY ChunksOfWindows
  <1>3. \A c \in C : \E w \in W : c = ChunkAt(r, w)
    BY ChunksOfWindows
  <1>4. \A w \in W : ChunkHolds(ChunkAt(r, w), r, w)
    BY ChunksOfWindows
  <1> HIDE DEF W, C
  <1>5. \A w \in W : /\ w[1] \in Nat \ {0} /\ w[2] \in Nat /\ w[1] <= w[2] /\ w[2] <= n
                     /\ w[2] - w[1] + 1 <= size
                     /\ w[2] = n \/ \E v \in W : v[1] = w[1] + step
    BY <1>1 DEF WellCut
  <1>6. \E c \in C : c.position = 1
    <2>1. PICK w \in W : w[1] = 1
      BY <1>1 DEF WellCut
    <2>2. ChunkAt(r, w).position = 1 /\ ChunkAt(r, w) \in C
      BY <1>2, <1>4, <2>1 DEF ChunkHolds
    <2> QED BY <2>2
  <1>7. ASSUME NEW c \in C
        PROVE  /\ Len(c.text) \in 1..size
               /\ c.position + Len(c.text) - 1 <= n
               /\ c.text = SubSeq(text, c.position, c.position + Len(c.text) - 1)
               /\ \/ c.position + Len(c.text) - 1 = n
                  \/ \E d \in C : d.position = c.position + step
    <2>1. PICK w \in W : c = ChunkAt(r, w)
      BY <1>3
    <2>2. ChunkHolds(c, r, w)
      BY <1>4, <2>1
    <2> HIDE DEF text, step, n
    <2>3. Len(c.text) \in 1..size /\ c.position + Len(c.text) - 1 <= n
      BY <1>5, <2>2 DEF ChunkHolds
    <2>4. c.text = SubSeq(text, c.position, c.position + Len(c.text) - 1)
      BY <2>2 DEF ChunkHolds, text
    <2>5. CASE w[2] = n
      BY <2>2, <2>3, <2>4, <2>5 DEF ChunkHolds
    <2>6. CASE \E v \in W : v[1] = w[1] + step
      <3>1. PICK v \in W : v[1] = w[1] + step
        BY <2>6
      <3>2. ChunkAt(r, v) \in C /\ ChunkAt(r, v).position = c.position + step
        BY <1>2, <1>4, <2>2, <3>1 DEF ChunkHolds
      <3> QED BY <2>3, <2>4, <3>2
    <2> QED BY <1>5, <2>5, <2>6
  <1>8. ASSUME NEW c \in C, NEW d \in C, c.position = d.position PROVE c = d
    <2>1. PICK v \in W : c = ChunkAt(r, v)
      BY <1>3
    <2>2. PICK w \in W : d = ChunkAt(r, w)
      BY <1>3
    <2>3. v[1] = w[1]
      BY <1>4, <1>8, <2>1, <2>2 DEF ChunkHolds
    <2>4. v = w
      BY <1>1, <2>3 DEF WellCut
    <2> QED BY <2>1, <2>2, <2>4
  <1>9. IsFiniteSet(C) /\ Cardinality({c.position : c \in C}) = Cardinality(C)
    <2> DEFINE f == [c \in C |-> c.position]
    <2>1. \A c \in C : c.position \in 1..n
      <3> TAKE c \in C
      <3>1. PICK w \in W : c = ChunkAt(r, w)
        BY <1>3
      <3>2. c.position = w[1]
        BY <1>4, <3>1 DEF ChunkHolds
      <3> HIDE DEF n
      <3>3. w[1] \in 1..n
        BY <1>1, <1>5
      <3> QED BY <3>2, <3>3
    <2> HIDE DEF n
    <2>2. f \in Injection(C, 1..n) /\ f \in Injection(C, Nat)
      BY <1>1, <1>8, <2>1 DEF Injection, IsInjective
    <2>3. IsFiniteSet(1..n)
      BY <1>1, FS_Interval
    <2>4. {f[c] : c \in C} = {c.position : c \in C}
      OBVIOUS
    <2> HIDE DEF f
    <2>5. IsFiniteSet(C)
      BY <2>2, <2>3, FS_Injection
    <2>6. Cardinality({f[c] : c \in C}) = Cardinality(C)
      BY <2>2, <2>5, NumbersCount
    <2> QED BY <2>4, <2>5, <2>6
  <1>10. Cardinality({c \in C : c.position + Len(c.text) - 1 = n}) = 1
    <2>1. PICK w \in W : w[2] = n
      BY <1>1 DEF WellCut
    <2> DEFINE e == ChunkAt(r, w)
    <2>2. e \in C /\ e.position + Len(e.text) - 1 = n
      BY <1>2, <1>4, <2>1 DEF ChunkHolds
    <2>3. ASSUME NEW c \in C, c.position + Len(c.text) - 1 = n PROVE c = e
      <3>1. PICK v \in W : c = ChunkAt(r, v)
        BY <1>3
      <3>2. v[2] = n
        BY <1>4, <2>3, <3>1 DEF ChunkHolds
      <3>3. v = w
        BY <1>1, <2>1, <3>2 DEF WellCut
      <3> QED BY <3>1, <3>3
    <2> HIDE DEF e, n
    <2>4. {c \in C : c.position + Len(c.text) - 1 = n} = {e}
      BY <2>2, <2>3
    <2> QED BY <2>4, FS_Singleton
  <1>11. m.size[1] = size /\ m.size[2] = overlap
    OBVIOUS
  <1> QED BY <1>6, <1>7, <1>9, <1>10, <1>11 DEF HoldsText, C

\* All the chunks of a record carry its source id, and there are some.
LEMMA ChunksCarryTheirSource ==
  ASSUME NEW r \in Rows, r.text # <<>>, NEW size \in Nat, NEW overlap \in Nat, overlap < size
  PROVE  /\ Chunks(r, size, overlap) # {}
         /\ \A c \in Chunks(r, size, overlap) :
              /\ c.source = SourceId(r.tenant, r.id)
              /\ c \in [source : Strings, position : Nat \ {0}, text : Texts, tenant : Strings,
                        id : Strings]
  <1> DEFINE W == CutOf(r, size, overlap)
             C == Chunks(r, size, overlap)
  <1>1. WellCut(W, Len(Redact(r.text)), size, size - overlap)
    BY ChunksOfWindows
  <1>2. C = {ChunkAt(r, w) : w \in W} /\ \A w \in W : ChunkHolds(ChunkAt(r, w), r, w)
    BY ChunksOfWindows
  <1> HIDE DEF W, C
  <1>3. W # {}
    BY <1>1 DEF WellCut
  <1>4. \A c \in C : \E w \in W : ChunkHolds(c, r, w)
    BY <1>2
  <1>5. C # {}
    BY <1>2, <1>3
  <1> QED BY <1>4, <1>5 DEF ChunkHolds, C

-----------------------------------------------------------------------------
(* Merging.                                                                *)

\* The chunks of a record in an index.
ChunksOf(C, m) == {c \in C : c.source = SourceId(m.tenant, m.id)}

\* Chunks hold the text of records and nothing else.
HoldsAll(C, M) ==
  /\ \A m \in M : HoldsText(m, ChunksOf(C, m))
  /\ C = UNION {ChunksOf(C, m) : m \in M}

\* Different rows with different keys, each with text.
Apart(R) ==
  /\ R \subseteq Rows
  /\ \A r \in R : r.text # <<>>
  /\ \A r, s \in R : Key(r) = Key(s) => r = s

\* What a row is remembered as.
LEMMA Remembering ==
  ASSUME NEW R, Apart(R), NEW size \in Nat \X Nat
  PROVE  /\ Remembered(R, size) \subseteq MergedRecords
         /\ \A r \in R : \E m \in Remembered(R, size) :
              m.tenant = r.tenant /\ m.id = r.id /\ m.text = Redact(r.text) /\ m.size = size
         /\ \A m \in Remembered(R, size) : \E r \in R :
              m.tenant = r.tenant /\ m.id = r.id /\ m.text = Redact(r.text) /\ m.size = size
  <1>1. \A r \in R : /\ r.tenant \in Strings /\ r.id \in Strings /\ Redact(r.text) \in Texts
    BY RedactedTexts DEF Apart, Rows
  <1>2. Remembered(R, size) \subseteq MergedRecords
    BY <1>1 DEF Remembered, MergedRecords
  <1>3. ASSUME NEW r \in R
        PROVE  \E m \in Remembered(R, size) :
                 m.tenant = r.tenant /\ m.id = r.id /\ m.text = Redact(r.text) /\ m.size = size
    <2> DEFINE m == [tenant |-> r.tenant, id |-> r.id, text |-> Redact(r.text), size |-> size]
    <2>1. m \in Remembered(R, size)
      BY DEF Remembered
    <2>2. m.tenant = r.tenant /\ m.id = r.id /\ m.text = Redact(r.text) /\ m.size = size
      OBVIOUS
    <2> HIDE DEF m
    <2> QED BY <2>1, <2>2
  <1>4. ASSUME NEW m \in Remembered(R, size)
        PROVE  \E r \in R :
                 m.tenant = r.tenant /\ m.id = r.id /\ m.text = Redact(r.text) /\ m.size = size
    <2>1. PICK r \in R :
            m = [tenant |-> r.tenant, id |-> r.id, text |-> Redact(r.text), size |-> size]
      BY DEF Remembered
    <2>2. m.tenant = r.tenant /\ m.id = r.id /\ m.text = Redact(r.text) /\ m.size = size
      BY <2>1
    <2> QED BY <2>2
  <1> QED BY <1>2, <1>3, <1>4

\* Upserting the chunks of rows makes the index hold their text, and that of the other
\* records as before: source ids tell them apart.
LEMMA UpsertHolds ==
  ASSUME NEW C, NEW M \in SUBSET MergedRecords, HoldsAll(C, M),
         NEW R, Apart(R), NEW size \in Nat \X Nat, size[2] < size[1]
  PROVE  LET new == UNION {Chunks(r, size[1], size[2]) : r \in R}
             kept == {m \in M : \A r \in R : Key(r) # Key(m)}
         IN  HoldsAll(Upsert(C, new), kept \cup Remembered(R, size))
  <1> DEFINE new == UNION {Chunks(r, size[1], size[2]) : r \in R}
             kept == {m \in M : \A r \in R : Key(r) # Key(m)}
             D == Upsert(C, new)
             sourceOf(x) == SourceId(x.tenant, x.id)
             made(r) == Chunks(r, size[1], size[2])
  <1>1. size[1] \in Nat /\ size[2] \in Nat /\ size = <<size[1], size[2]>>
    OBVIOUS
  <1>2. \A r \in R : /\ r \in Rows /\ r.text # <<>> /\ r.tenant \in Strings /\ r.id \in Strings
    BY DEF Apart, Rows
  <1>3. \A m \in M : m.tenant \in Strings /\ m.id \in Strings
    BY DEF MergedRecords
  <1>4. ASSUME NEW r \in R PROVE made(r) # {} /\ \A c \in made(r) : c.source = sourceOf(r)
    BY <1>1, <1>2, ChunksCarryTheirSource
  <1>5. \A r, s \in R : sourceOf(r) = sourceOf(s) => r = s
    BY <1>2, SourceIdsTell DEF Apart, Key
  <1>6. \A r \in R, m \in M : sourceOf(r) = sourceOf(m) <=> Key(r) = Key(m)
    BY <1>2, <1>3, SourceIdsTell DEF Key
  <1> HIDE DEF made, sourceOf
  <1>7. new = UNION {made(r) : r \in R}
    BY DEF made
  <1> HIDE DEF new
  <1>8. \A c \in D : (c \in C /\ \A n \in new : n.source # c.source) \/ c \in new
    BY DEF Upsert
  <1>9. \A c \in C : (\A n \in new : n.source # c.source) => c \in D
    BY DEF Upsert
  <1>10. \A c \in new : c \in D
    BY DEF Upsert
  <1> HIDE DEF D
  <1>11. \A n \in new : \E r \in R : n \in made(r) /\ n.source = sourceOf(r)
    BY <1>4, <1>7
  <1>12. \A r \in R : \E n \in new : n.source = sourceOf(r)
    BY <1>4, <1>7
  <1>13. ASSUME NEW m \in kept PROVE ChunksOf(D, m) = ChunksOf(C, m)
    <2>1. \A n \in new : n.source # sourceOf(m)
      BY <1>6, <1>11
    <2> QED BY <1>8, <1>9, <2>1 DEF ChunksOf, sourceOf
  <1>14. ASSUME NEW r \in R, NEW m, m.tenant = r.tenant, m.id = r.id
         PROVE  ChunksOf(D, m) = made(r)
    <2>1. sourceOf(m) = sourceOf(r)
      BY <1>14 DEF sourceOf
    <2>2. \A c \in D : c.source = sourceOf(r) => c \in made(r)
      <3> TAKE c \in D
      <3> HAVE c.source = sourceOf(r)
      <3>1. c \in new
        BY <1>8, <1>12
      <3> QED BY <1>5, <1>11, <3>1
    <2>3. \A c \in made(r) : c \in D /\ c.source = sourceOf(r)
      BY <1>4, <1>7, <1>10
    <2> QED BY <2>1, <2>2, <2>3 DEF ChunksOf, sourceOf
  <1>15. ASSUME NEW m \in kept \cup Remembered(R, size) PROVE HoldsText(m, ChunksOf(D, m))
    <2>1. CASE m \in kept
      BY <1>13, <2>1 DEF HoldsAll
    <2>2. CASE m \in Remembered(R, size)
      <3>1. PICK r \in R :
              m.tenant = r.tenant /\ m.id = r.id /\ m.text = Redact(r.text) /\ m.size = size
        BY <2>2, Remembering
      <3>2. HoldsText(m, made(r))
        BY <1>1, <1>2, <3>1, ChunksHoldText DEF made
      <3> QED BY <1>14, <3>1, <3>2
    <2> QED BY <2>1, <2>2
  <1>16. ASSUME NEW c \in D PROVE \E m \in kept \cup Remembered(R, size) : c \in ChunksOf(D, m)
    <2>1. CASE c \in new
      <3>1. PICK r \in R : c.source = sourceOf(r)
        BY <1>11, <2>1
      <3>2. PICK m \in Remembered(R, size) : m.tenant = r.tenant /\ m.id = r.id
        BY Remembering
      <3>3. c \in ChunksOf(D, m)
        BY <3>1, <3>2 DEF ChunksOf, sourceOf
      <3> QED BY <3>3
    <2>2. CASE c \in C /\ \A n \in new : n.source # c.source
      <3>1. PICK m \in M : c \in ChunksOf(C, m)
        BY <2>2 DEF HoldsAll
      <3>2. c.source = sourceOf(m)
        BY <3>1 DEF ChunksOf, sourceOf
      <3>3. \A r \in R : Key(r) # Key(m)
        BY <1>6, <1>12, <2>2, <3>2
      <3>4. m \in kept /\ c \in ChunksOf(D, m)
        BY <3>2, <3>3 DEF ChunksOf, sourceOf
      <3> QED BY <3>4
    <2> QED BY <1>8, <2>1, <2>2
  <1> DEFINE N == kept \cup Remembered(R, size)
  <1>17. HoldsAll(D, N)
    <2>1. \A m \in N : HoldsText(m, ChunksOf(D, m))
      BY <1>15
    <2>2. \A c \in D : \E m \in N : c \in ChunksOf(D, m)
      BY <1>16
    <2>3. \A m \in N : ChunksOf(D, m) \subseteq D
      BY DEF ChunksOf
    <2> HIDE DEF N
    <2>4. D = UNION {ChunksOf(D, m) : m \in N}
      BY <2>2, <2>3
    <2> QED BY <2>1, <2>4 DEF HoldsAll
  <1> QED BY <1>17 DEF D, new
-----------------------------------------------------------------------------
(* The index holds the text of what was merged.                            *)

\* An index that holds records holds their text.
LEMMA HoldingAll ==
  ASSUME NEW there, NEW records, there # Missing, Readable(there)
  PROVE  IndexHolds(there, records) <=> HoldsAll(Contents(there), records)
  BY DEF IndexHolds, HoldsAll, ChunksOf

\* Migrating changes the source only.
LEMMA MigratedChunks ==
  ASSUME NEW c \in StoredChunks PROVE MigratedChunk(c) \in StoredChunks
  <1>1. /\ c.source \in Strings /\ c.tenant \in Strings \cup {None}
        /\ c.id \in Strings \cup {None}
    BY DEF StoredChunks
  <1>2. LegacyTenant(c) \in Strings
    BY <1>1, RowsAssumption DEF LegacyTenant
  <1>3. LegacyId(c) \in Strings
    <2> DEFINE p == LegacyTenant(c) \o <<Colon>>
    <2>1. p \in Seq(Nat) /\ Len(p) \in Nat
      <3>1. <<Colon>> \in Seq(Nat)
        BY DEF Colon
      <3>2. p \in Seq(Nat)
        BY <1>2, <3>1, ConcatProperties DEF Strings
      <3> QED BY <3>2
    <2>2. SubSeq(c.source, Len(p) + 1, Len(c.source)) \in Strings
      <3>1. c.source \in Seq(Nat) /\ Len(c.source) \in Nat
        BY <1>1 DEF Strings
      <3> DEFINE m == Len(p) + 1
                 n == Len(c.source)
      <3>2. m \in Int /\ n \in Int /\ \A i \in m..n : c.source[i] \in Nat
        BY <2>1, <3>1
      <3> HIDE DEF m, n
      <3>3. SubSeq(c.source, m, n) \in Seq(Nat)
        BY <3>2, SubSeqProperties
      <3> QED BY <3>3 DEF m, n, Strings
    <2>3. <<>> \in Strings
      BY DEF Strings
    <2> HIDE DEF p
    <2>4. \/ c.id # None /\ LegacyId(c) = c.id
          \/ LegacyId(c) = c.source
          \/ LegacyId(c) = SubSeq(c.source, Len(p) + 1, Len(c.source))
          \/ LegacyId(c) = <<>>
      BY DEF LegacyId, p
    <2> QED BY <1>1, <2>2, <2>3, <2>4
  <1>4. SourceId(LegacyTenant(c), LegacyId(c)) \in Strings
    BY <1>2, <1>3, SourceIdsAreStrings
  <1> QED BY <1>4 DEF MigratedChunk, StoredChunks

\* What an index contains is typed, and holds its records.
LEMMA StoredHolds ==
  ASSUME MergedInv, IndexLoads
  PROVE  Stored \subseteq StoredChunks /\ HoldsAll(Stored, merged)
  <1>1. CASE index = Missing
    <2>1. Stored = {} /\ merged = {}
      BY <1>1 DEF Stored, Contents, MergedInv
    <2> QED BY <2>1 DEF HoldsAll
  <1>2. CASE index # Missing
    <2>1. HoldsAll(Stored, merged)
      BY <1>2, HoldingAll DEF MergedInv, IndexLoads, Stored
    <2>2. index.chunks \subseteq StoredChunks /\ index.version \in {1, 2}
      BY <1>2 DEF MergedInv
    <2>3. CASE index.version = 1
      <3>1. Stored = Migrated(index.chunks)
        BY <1>2, <2>3 DEF Stored, Contents
      <3>2. \A c \in Stored : c \in StoredChunks
        BY <2>2, <3>1, MigratedChunks DEF Migrated
      <3> QED BY <2>1, <3>2
    <2>4. CASE index.version # 1
      <3>1. Stored = index.chunks
        BY <1>2, <2>4 DEF Stored, Contents
      <3> QED BY <2>1, <2>2, <3>1
    <2> QED BY <2>3, <2>4
  <1> QED BY <1>1, <1>2

\* A new index of the second version.
LEMMA NewIndexHolds ==
  ASSUME NEW C \in SUBSET StoredChunks, NEW M \in SUBSET MergedRecords, HoldsAll(C, M),
         index' = [version |-> 2, chunks |-> C], merged' = M
  PROVE  MergedInv'
  <1> DEFINE there == [version |-> 2, chunks |-> C]
  <1>1. there \in [version : {1, 2}, chunks : SUBSET StoredChunks]
    OBVIOUS
  <1>2. there # Missing
    <2>1. there \in [version : {1, 2}, chunks : SUBSET StoredChunks]
      OBVIOUS
    <2> QED BY <2>1, MarksAssumption
  <1>3. Readable(there) /\ Contents(there) = C
    BY <1>2 DEF Readable, Contents
  <1> HIDE DEF there
  <1>4. IndexHolds(there, M)
    BY <1>2, <1>3, HoldingAll
  <1>5. index' = there
    BY DEF there
  <1>6. IndexHolds(index', merged')
    BY <1>4, <1>5
  <1>7. IndexHolds(index, merged)'
    BY <1>6
  <1> QED BY <1>1, <1>2, <1>5, <1>7 DEF MergedInv

\* The chunks of rows are typed.
LEMMA NewChunks ==
  ASSUME NEW R, Apart(R), NEW size \in Nat \X Nat, size[2] < size[1]
  PROVE  UNION {Chunks(r, size[1], size[2]) : r \in R} \subseteq StoredChunks
  <1>1. size[1] \in Nat /\ size[2] \in Nat
    OBVIOUS
  <1>2. ASSUME NEW r \in R, NEW c \in Chunks(r, size[1], size[2]) PROVE c \in StoredChunks
    <2>1. r \in Rows /\ r.text # <<>>
      BY DEF Apart
    <2>2. c \in [source : Strings, position : Nat \ {0}, text : Texts, tenant : Strings,
                 id : Strings]
      BY <1>1, <2>1, ChunksCarryTheirSource
    <2> QED BY <2>2 DEF StoredChunks
  <1> QED BY <1>2

\* Merging rows that have text.
LEMMA MergeHolds ==
  ASSUME MergedInv, NEW records \in Seq(Rows), IsSound(records),
         NEW size \in Nat \X Nat, size[2] < size[1], Merge(records, size)
  PROVE  MergedInv'
  <1> DEFINE last == LastOfEachKey(records)
             new == UNION {Chunks(r, size[1], size[2]) : r \in last}
             kept == {m \in merged : \A r \in last : Key(r) # Key(m)}
             C == Upsert(Stored, new)
             M == kept \cup Remembered(last, size)
  <1>1. Apart(last)
    <2>1. DOMAIN records = 1..Len(records) /\ Len(records) \in Nat
      OBVIOUS
    <2>2. \A r \in last : \E i \in DOMAIN records :
            r = records[i] /\ \A j \in DOMAIN records : j > i => Key(records[j]) # Key(records[i])
      BY DEF LastOfEachKey
    <2>3. \A i \in DOMAIN records : records[i] \in Rows /\ records[i].text # <<>>
      BY DEF IsSound, RowIsSound, Rows
    <2> HIDE DEF last
    <2>4. \A r \in last : r \in Rows /\ r.text # <<>>
      BY <2>2, <2>3
    <2>5. ASSUME NEW r \in last, NEW s \in last, Key(r) = Key(s) PROVE r = s
      <3>1. PICK i \in DOMAIN records :
              r = records[i] /\ \A j \in DOMAIN records : j > i => Key(records[j]) # Key(records[i])
        BY <2>2
      <3>2. PICK k \in DOMAIN records :
              s = records[k] /\ \A j \in DOMAIN records : j > k => Key(records[j]) # Key(records[k])
        BY <2>2
      <3>3. ~(k > i) /\ ~(i > k)
        BY <2>5, <3>1, <3>2
      <3>4. i = k
        BY <2>1, <3>3
      <3> QED BY <3>1, <3>2, <3>4
    <2> QED BY <2>4, <2>5 DEF Apart
  <1>2. Stored \subseteq StoredChunks /\ HoldsAll(Stored, merged)
    BY StoredHolds DEF Merge
  <1>3. index' = [version |-> 2, chunks |-> C] /\ merged' = M
    BY DEF Merge
  <1>4. merged \subseteq MergedRecords
    BY DEF MergedInv
  <1> HIDE DEF last
  <1>5. HoldsAll(C, M)
    BY <1>1, <1>2, <1>4, UpsertHolds
  <1>6. new \subseteq StoredChunks
    BY <1>1, NewChunks
  <1>7. C \subseteq StoredChunks
    BY <1>2, <1>6 DEF Upsert
  <1>8. M \subseteq MergedRecords
    BY <1>1, <1>4, Remembering
  <1> HIDE DEF C, M
  <1> QED BY <1>3, <1>5, <1>7, <1>8, NewIndexHolds

\* Building from a CSV that loads.
LEMMA BuildHolds ==
  ASSUME BatchInv, BuildIndex PROVE MergedInv'
  <1> DEFINE rows == disk[Csv]
             R == ToSet(rows)
             size == DefaultSize
             new == UNION {Chunks(r, size[1], size[2]) : r \in R}
             none == {m \in {} : \A r \in R : Key(r) # Key(m)}
  <1>1. rows \in Seq(Rows) /\ IsSound(rows)
    BY LoadedRows DEF BuildIndex, BatchInv
  <1>2. Apart(R)
    <2> HIDE DEF rows
    <2>1. DOMAIN rows = 1..Len(rows) /\ Len(rows) \in Nat
      BY <1>1
    <2>2. \A r \in R : \E i \in DOMAIN rows : r = rows[i]
      BY DEF ToSet
    <2>3. \A i \in DOMAIN rows : rows[i] \in Rows /\ rows[i].text # <<>>
      BY <1>1 DEF IsSound, RowIsSound, Rows
    <2>4. \A i \in DOMAIN rows : \A j \in 1..(i - 1) : Key(rows[j]) # Key(rows[i])
      BY <1>1 DEF IsSound, RowIsSound
    <2> HIDE DEF R
    <2>5. ASSUME NEW r \in R, NEW s \in R, Key(r) = Key(s) PROVE r = s
      <3>1. PICK i \in DOMAIN rows : r = rows[i]
        BY <2>2
      <3>2. PICK k \in DOMAIN rows : s = rows[k]
        BY <2>2
      <3>3. CASE i < k
        <4>1. i \in 1..(k - 1)
          BY <2>1, <3>3
        <4> QED BY <2>4, <2>5, <3>1, <3>2, <4>1
      <3>4. CASE k < i
        <4>1. k \in 1..(i - 1)
          BY <2>1, <3>4
        <4> QED BY <2>4, <2>5, <3>1, <3>2, <4>1
      <3>5. CASE i = k
        BY <3>1, <3>2, <3>5
      <3> QED BY <2>1, <3>3, <3>4, <3>5
    <2>6. \A r \in R : r \in Rows /\ r.text # <<>>
      BY <2>2, <2>3
    <2> QED BY <2>5, <2>6 DEF Apart
  <1>3. index' = [version |-> 2, chunks |-> new] /\ merged' = Remembered(R, size)
    BY DEF BuildIndex
  <1>4. size \in Nat \X Nat /\ size[2] < size[1]
    BY DefaultSizes
  <1> HIDE DEF size, R
  <1>5. HoldsAll({}, {})
    BY DEF HoldsAll
  <1>6. HoldsAll(Upsert({}, new), none \cup Remembered(R, size))
    BY <1>2, <1>4, <1>5, UpsertHolds
  <1>7. Upsert({}, new) = new /\ none = {}
    BY DEF Upsert
  <1>8. new \subseteq StoredChunks /\ Remembered(R, size) \subseteq MergedRecords
    BY <1>2, <1>4, NewChunks, Remembering
  <1> DEFINE M == Remembered(R, size)
  <1>9. HoldsAll(new, M)
    BY <1>6, <1>7
  <1> HIDE DEF new, M
  <1>10. new \in SUBSET StoredChunks /\ M \in SUBSET MergedRecords
    BY <1>8 DEF M
  <1>11. index' = [version |-> 2, chunks |-> new] /\ merged' = M
    BY <1>3 DEF M
  <1> QED BY <1>9, <1>10, <1>11, NewIndexHolds

\* Steps that leave the index alone.
LEMMA IndexUntouched ==
  ASSUME MergedInv, UNCHANGED <<index, merged>> PROVE MergedInv'
  <1>1. IndexHolds(index', merged')
    BY DEF MergedInv
  <1>2. IndexHolds(index, merged)'
    BY <1>1
  <1> QED BY <1>2 DEF MergedInv

\* Every step keeps the index as it should be.
LEMMA StepHolds ==
  ASSUME BatchInv, MergedInv, [OfflineNext]_allVars PROVE MergedInv'
  <1>1. CASE Quiet
    BY <1>1, IndexUntouched DEF Quiet
  <1>2. CASE \E lines \in Streams, most \in Limits, update \in BOOLEAN :
               StreamIngest(lines, most, update)
    BY <1>2, IndexUntouched DEF StreamIngest
  <1>3. CASE \E size \in Sizes : UpdateIndex(size)
    <2>1. PICK size \in Sizes : UpdateIndex(size)
      BY <1>3
    <2>2. disk[Csv] \in Seq(Rows) /\ IsSound(disk[Csv]) /\ Merge(disk[Csv], size)
      BY <2>1, LoadedRows DEF UpdateIndex, BatchInv
    <2>3. size \in Nat \X Nat /\ size[2] < size[1]
      BY OptionsAssumption
    <2> QED BY <2>2, <2>3, MergeHolds
  <1>4. CASE \E columns \in Layouts, format \in Formats : Export(columns, format)
    BY <1>4, IndexUntouched DEF Export
  <1>5. CASE BuildIndex
    BY <1>5, BuildHolds
  <1>6. CASE GenerateData
    BY <1>6, IndexUntouched DEF GenerateData
  <1>7. CASE Write
    BY <1>7, IndexUntouched DEF Write
  <1>8. CASE Finish
    <2>1. CASE command.update # None /\ IndexLoads
      <3>1. Merge(command.update, DefaultSize)
        BY <1>8, <2>1 DEF Finish
      <3>2. command.update \in Seq(Rows) /\ IsSound(command.update)
        BY <1>8, <2>1 DEF Finish, BatchInv, PendingInv, UpdateInv
      <3> QED BY <3>1, <3>2, DefaultSizes, MergeHolds
    <2>2. CASE ~(command.update # None /\ IndexLoads)
      BY <1>8, <2>2, IndexUntouched DEF Finish
    <2> QED BY <2>1, <2>2
  <1>9. CASE Crash
    BY <1>9, IndexUntouched DEF Crash
  <1> QED BY <1>1, <1>2, <1>3, <1>4, <1>5, <1>6, <1>7, <1>8, <1>9, OfflineStep DEF Next

\* Whatever was merged and built, the chunks of the index hold the redacted text of the last
\* merged record of each tenant and id, in windows that overlap and reach its end, and
\* nothing else.
THEOREM IndexHoldsTheMergedText == OfflineSpec => []IndexIsTheMergedText
  <1>1. OfflineInit => MergedInv
    <2> SUFFICES ASSUME Init PROVE MergedInv
      BY DEF OfflineInit
    <2>1. PICK there \in Indexes : index = there.index /\ merged = there.records
      BY DEF Init
    <2>2. there.records \subseteq MergedRecords /\ IndexHolds(there.index, there.records)
      BY IndexesAssumption DEF MergedRecords
    <2>3. \/ there.index = Missing /\ there.records = {}
          \/ there.index \in [version : {1, 2}, chunks : SUBSET StoredChunks]
      BY IndexesAssumption
    <2>4. index # Missing => index \in [version : {1, 2}, chunks : SUBSET StoredChunks]
      BY <2>1, <2>3
    <2>5. index = Missing => merged = {}
      BY <2>1, <2>3, MarksAssumption
    <2>6. IndexHolds(index, merged)
      BY <2>1, <2>2
    <2> QED BY <2>1, <2>2, <2>4, <2>5, <2>6 DEF MergedInv
  <1>2. BatchInv /\ MergedInv /\ [OfflineNext]_allVars => MergedInv'
    BY StepHolds
  <1>3. MergedInv => IndexIsTheMergedText
    BY DEF MergedInv, IndexIsTheMergedText
  <1> QED BY <1>1, <1>2, <1>3, BatchInvariant, PTL DEF OfflineSpec

-----------------------------------------------------------------------------
(* The parts of a table hold every row once.                               *)

\* t holds the rows at the positions U, each once.
Gathered(rows, t, U) ==
  /\ U \subseteq 1..Len(rows)
  /\ t \in Seq(Rows)
  /\ Len(t) = Cardinality(U)
  /\ HasElements(t, rows, U)

\* The rows at some positions, behind those at others.
LEMMA GatherMore ==
  ASSUME NEW rows \in Seq(Rows), NEW s, NEW U, Gathered(rows, s, U),
         NEW t, NEW V, Gathered(rows, t, V), U \cap V = {}
  PROVE  Gathered(rows, s \o t, U \cup V)
  <1>1. s \in Seq(Rows) /\ t \in Seq(Rows) /\ Len(s) \in Nat /\ Len(t) \in Nat
    BY DEF Gathered
  <1>2. Len(rows) \in Nat /\ U \subseteq 1..Len(rows) /\ V \subseteq 1..Len(rows)
    BY DEF Gathered
  <1>3. IsFiniteSet(U) /\ IsFiniteSet(V)
    BY <1>2, PositionsAreFinite
  <1>4. Cardinality(U \cup V) = Len(s) + Len(t)
    <2>1. Cardinality(U \cup V)
            = Cardinality(U) + Cardinality(V) - Cardinality(U \cap V)
      BY <1>3, FS_Union
    <2>2. Cardinality(U \cap V) = 0
      BY FS_EmptySet
    <2>3. Cardinality(U) = Len(s) /\ Cardinality(V) = Len(t)
      BY DEF Gathered
    <2> QED BY <1>1, <2>1, <2>2, <2>3
  <1> DEFINE c == s \o t
  <1>5. /\ c \in Seq(Rows) /\ Len(c) = Len(s) + Len(t)
        /\ \A i \in 1..Len(s) + Len(t) : c[i] = IF i <= Len(s) THEN s[i] ELSE t[i - Len(s)]
    BY <1>1, ConcatProperties
  <1>6. DOMAIN s = 1..Len(s) /\ DOMAIN t = 1..Len(t) /\ DOMAIN c = 1..(Len(s) + Len(t))
    BY <1>1, <1>5
  <1> HIDE DEF c
  <1>7. ASSUME NEW k \in DOMAIN c PROVE \E i \in U \cup V : c[k] = rows[i]
    <2>1. CASE k <= Len(s)
      <3>1. k \in DOMAIN s /\ c[k] = s[k]
        BY <1>1, <1>5, <1>6, <2>1
      <3> QED BY <3>1 DEF Gathered, HasElements
    <2>2. CASE ~(k <= Len(s))
      <3>1. k - Len(s) \in DOMAIN t /\ c[k] = t[k - Len(s)]
        BY <1>1, <1>5, <1>6, <2>2
      <3> QED BY <3>1 DEF Gathered, HasElements
    <2> QED BY <2>1, <2>2
  <1>8. ASSUME NEW i \in U \cup V PROVE \E k \in DOMAIN c : c[k] = rows[i]
    <2>1. CASE i \in U
      <3>1. PICK k \in DOMAIN s : s[k] = rows[i]
        BY <2>1 DEF Gathered, HasElements
      <3>2. k \in DOMAIN c /\ c[k] = s[k]
        BY <1>1, <1>5, <1>6
      <3> QED BY <3>1, <3>2
    <2>2. CASE i \in V
      <3>1. PICK k \in DOMAIN t : t[k] = rows[i]
        BY <2>2 DEF Gathered, HasElements
      <3>2. k + Len(s) \in DOMAIN c /\ c[k + Len(s)] = t[k]
        <4>1. k \in 1..Len(t)
          BY <1>6
        <4>2. k + Len(s) \in 1..(Len(s) + Len(t)) /\ ~(k + Len(s) <= Len(s))
              /\ (k + Len(s)) - Len(s) = k
          BY <1>1, <4>1
        <4> QED BY <1>5, <1>6, <4>2
      <3> QED BY <3>1, <3>2
    <2> QED BY <2>1, <2>2
  <1>9. HasElements(c, rows, U \cup V)
    BY <1>7, <1>8 DEF HasElements
  <1> QED BY <1>2, <1>4, <1>5, <1>9 DEF Gathered, c

\* The rows of a partition.
LEMMA PartGathers ==
  ASSUME NEW rows \in Seq(Rows), NEW columns, NEW key
  PROVE  Gathered(rows, RecordsOf(rows, columns, key), MembersOf(rows, columns, key))
  <1> DEFINE members == MembersOf(rows, columns, key)
             s == At(rows, members)
             t == RecordsOf(rows, columns, key)
  <1>1. members \subseteq 1..Len(rows) /\ Len(rows) \in Nat
        /\ \A i \in members : rows[i] \in Rows
    BY DEF MembersOf
  <1>2. Reorders(t, s)
    BY RecordsOfPermutes
  <1> HIDE DEF t, members
  <1>3. s \in Seq(Rows) /\ Len(s) = Cardinality(members)
    BY <1>1, AtIsList
  <1>4. HasElements(s, rows, members)
    BY <1>1, AtHasElements
  <1> HIDE DEF s
  <1>5. PICK l : Permutes(l, Len(s)) /\ t = [k \in 1..Len(s) |-> s[l[k]]]
    BY <1>2 DEF Reorders
  <1>6. Len(s) \in Nat /\ DOMAIN s = 1..Len(s) /\ \A k \in 1..Len(s) : s[k] \in Rows
    BY <1>3
  <1>7. l \in [1..Len(s) -> 1..Len(s)] /\ \A i \in 1..Len(s) : \E k \in 1..Len(s) : l[k] = i
    BY <1>5 DEF Permutes
  <1>8. t \in [1..Len(s) -> Rows]
    BY <1>5, <1>6, <1>7
  <1>9. t \in Seq(Rows) /\ Len(t) = Len(s) /\ DOMAIN t = 1..Len(s)
    BY <1>6, <1>8, ListsAreSequences
  <1>10. HasElements(t, rows, members)
    <2>1. ASSUME NEW k \in DOMAIN t PROVE \E i \in members : t[k] = rows[i]
      <3>1. l[k] \in DOMAIN s /\ t[k] = s[l[k]]
        BY <1>5, <1>6, <1>7, <1>9
      <3> QED BY <1>4, <3>1 DEF HasElements
    <2>2. ASSUME NEW i \in members PROVE \E k \in DOMAIN t : t[k] = rows[i]
      <3>1. PICK m \in DOMAIN s : s[m] = rows[i]
        BY <1>4 DEF HasElements
      <3>2. PICK k \in 1..Len(s) : l[k] = m
        BY <1>6, <1>7
      <3>3. k \in DOMAIN t /\ t[k] = rows[i]
        BY <1>5, <1>9, <3>1, <3>2
      <3> QED BY <3>3
    <2> QED BY <2>1, <2>2 DEF HasElements
  <1> QED BY <1>1, <1>3, <1>9, <1>10 DEF Gathered, t, members

\* Positions of the first n of several sets.
FirstOf(M, n) == UNION {M[j] : j \in 1..n}

\* Lists of the rows at disjoint positions, joined.
LEMMA GatherAll ==
  ASSUME NEW rows \in Seq(Rows), NEW seqs, NEW M, Len(seqs) \in Nat, Len(seqs) # 0,
         \A n \in 1..Len(seqs) : Gathered(rows, seqs[n], M[n]),
         \A i, j \in 1..Len(seqs) : i # j => M[i] \cap M[j] = {}
  PROVE  Gathered(rows, FlattenSeq(seqs), FirstOf(M, Len(seqs)))
  <1> DEFINE N == Len(seqs)
  <1>1. PICK g : FlatteningTo(seqs, N, g) /\ FlattenSeq(seqs) = g[N]
    BY Flattens
  <1>2. Grows(seqs, N, g)
    BY <1>1, FlatteningGrows
  <1> DEFINE Holds(n) == n \in 1..N => Gathered(rows, g[n], FirstOf(M, n))
             T == {n \in Nat : Holds(n)}
  <1>3. N \in Nat /\ N # 0
    OBVIOUS
  <1> HIDE DEF N
  <1>4. 0 \in T
    OBVIOUS
  <1>5. ASSUME NEW n \in T PROVE n + 1 \in T
    <2>1. n \in Nat /\ Holds(n)
      OBVIOUS
    <2>2. ASSUME n + 1 \in 1..N PROVE Gathered(rows, g[n + 1], FirstOf(M, n + 1))
      <3> DEFINE m == n + 1
      <3>1. m \in 1..N /\ Gathered(rows, seqs[m], M[m])
        BY <2>2 DEF N
      <3>2. CASE n = 0
        <4>1. m = 1 /\ g[1] = seqs[1]
          BY <1>2, <1>3, <3>2 DEF Grows
        <4>2. FirstOf(M, m) = M[m]
          BY <4>1 DEF FirstOf
        <4> QED BY <3>1, <4>1, <4>2
      <3>3. CASE n # 0
        <4>1. n \in 1..N /\ n + 1 <= N
          BY <1>3, <2>1, <2>2, <3>3
        <4>2. Gathered(rows, g[n], FirstOf(M, n))
          BY <2>1, <4>1
        <4>3. g[m] = g[n] \o seqs[m]
          BY <1>2, <2>1, <3>3, <4>1 DEF Grows
        <4>4. FirstOf(M, n) \cap M[m] = {}
          <5>1. \A j \in 1..n : j \in 1..N /\ j # m
            BY <1>3, <2>1, <4>1
          <5>2. \A j \in 1..n : M[j] \cap M[m] = {}
            BY <3>1, <5>1 DEF N
          <5> QED BY <5>2 DEF FirstOf
        <4>5. FirstOf(M, m) = FirstOf(M, n) \cup M[m]
          <5>1. 1..m = 1..n \cup {m}
            BY <2>1
          <5> HIDE DEF m
          <5> QED BY <5>1 DEF FirstOf
        <4> HIDE DEF m
        <4>6. Gathered(rows, g[n] \o seqs[m], FirstOf(M, n) \cup M[m])
          BY <3>1, <4>2, <4>4, GatherMore
        <4>7. Gathered(rows, g[m], FirstOf(M, m))
          BY <4>3, <4>5, <4>6
        <4> QED BY <4>7 DEF m
      <3> QED BY <3>2, <3>3
    <2>3. Holds(n + 1)
      BY <2>2
    <2> HIDE DEF Holds
    <2> QED BY <2>1, <2>3
  <1>6. T \in SUBSET Nat
    OBVIOUS
  <1> HIDE DEF T
  <1>7. T = Nat
    BY <1>4, <1>5, <1>6, Reaches
  <1>8. Holds(N)
    BY <1>3, <1>7 DEF T
  <1>9. N \in 1..N
    BY <1>3
  <1> QED BY <1>1, <1>8, <1>9 DEF N

\* Some columns, each allowed.
LEMMA NormalColumns ==
  ASSUME NEW columns \in Seq(STRING), IsAllowed(columns)
  PROVE  Normalised(columns) \in Seq(AllowedColumns)
  <1> DEFINE P == {i \in DOMAIN columns : \A j \in 1..(i - 1) : columns[j] # columns[i]}
  <1>1. Len(columns) \in Nat /\ DOMAIN columns = 1..Len(columns)
    OBVIOUS
  <1>2. \A i \in 1..Len(columns) : columns[i] \in AllowedColumns
    BY <1>1 DEF IsAllowed, ToSet
  <1>3. P \subseteq 1..Len(columns)
    BY <1>1
  <1>4. Normalised(columns) = At(columns, P)
    BY DEF Normalised
  <1> HIDE DEF P
  <1>5. \A i \in P : columns[i] \in AllowedColumns
    BY <1>2, <1>3
  <1>6. At(columns, P) \in Seq(AllowedColumns)
    BY <1>1, <1>3, <1>5, AtIsList
  <1> QED BY <1>4, <1>6

\* The key of a partition is a tuple of str.
LEMMA PartitionKeysAreTuples ==
  ASSUME NEW r \in Rows, NEW columns \in Seq(AllowedColumns)
  PROVE  PartitionKey(r, columns) \in Seq(Strings)
  <1>1. r.tenant \in Strings /\ r.date \in Strings /\ r.channel \in Strings
    BY DEF Rows
  <1>2. \A c \in AllowedColumns : Value(r, c) \in Strings
    BY <1>1 DEF AllowedColumns, Value
  <1>3. /\ Len(columns) \in Nat /\ DOMAIN columns = 1..Len(columns)
        /\ \A k \in 1..Len(columns) : columns[k] \in AllowedColumns
    OBVIOUS
  <1> DEFINE f == PartitionKey(r, columns)
  <1>4. f \in [1..Len(columns) -> Strings]
    BY <1>2, <1>3 DEF PartitionKey
  <1> HIDE DEF f
  <1>5. f \in Seq(Strings)
    BY <1>3, <1>4, ListsAreSequences
  <1> QED BY <1>5 DEF f

\* All of a set, each once.
ListsOnce(l, S) ==
  /\ Cardinality(S) \in Nat
  /\ l \in [1..Cardinality(S) -> S]
  /\ \A x \in S : \E k \in 1..Cardinality(S) : l[k] = x
  /\ \A i, j \in 1..Cardinality(S) : i # j => l[i] # l[j]

KeysIn(rows, columns) == {PartitionKey(rows[i], columns) : i \in DOMAIN rows}

TuplesBelow(x, S) == {y \in S : TupleLess(y, x)}

\* The partitions are listed in the order of their keys.
LEMMA PartitionsByRank ==
  ASSUME NEW rows, NEW columns
  PROVE  PartitionKeys(rows, columns) =
           [k \in 1..Cardinality(KeysIn(rows, columns)) |->
              CHOOSE x \in KeysIn(rows, columns) :
                Cardinality(TuplesBelow(x, KeysIn(rows, columns))) = k - 1]
  BY DEF PartitionKeys, Listed, KeysIn, TuplesBelow, TupleLess

\* Every key is listed once.
LEMMA PartitionsAreListed ==
  ASSUME NEW rows \in Seq(Rows), NEW columns \in Seq(AllowedColumns)
  PROVE  ListsOnce(PartitionKeys(rows, columns), KeysIn(rows, columns))
  <1> DEFINE S == KeysIn(rows, columns)
             l == Ranked(S, TupleOrder)
             keys == PartitionKeys(rows, columns)
             n == Cardinality(S)
  <1>1. \A i \in DOMAIN rows : rows[i] \in Rows
    OBVIOUS
  <1>2. S \subseteq Seq(Strings)
    BY <1>1, PartitionKeysAreTuples DEF KeysIn
  <1>3. IsFiniteSet(S) /\ n \in Nat
    BY PartitionsAreFinite DEF KeysIn
  <1>4. keys = [k \in 1..n |-> CHOOSE x \in S : Cardinality(TuplesBelow(x, S)) = k - 1]
    BY PartitionsByRank
  <1> HIDE DEF S, keys
  <1>5. Orders(TupleOrder, S)
    BY <1>2, TuplesAreOrdered DEF Orders
  <1>6. GoesThrough(l, S, TupleOrder)
    BY <1>3, <1>5, RankedGoesThrough
  <1>7. \A x \in S : Below(x, S, TupleOrder) = TuplesBelow(x, S)
    BY <1>2 DEF Below, TuplesBelow, TupleOrder
  <1>8. l = keys
    <2>1. l = [k \in 1..n |-> l[k]] /\ keys = [k \in 1..n |-> keys[k]]
      BY <1>4 DEF Ranked
    <2>2. ASSUME NEW k \in 1..n PROVE l[k] = keys[k]
      <3>1. l[k] = CHOOSE x \in S : Cardinality(Below(x, S, TupleOrder)) = k - 1
        BY DEF Ranked
      <3>2. keys[k] = CHOOSE x \in S : Cardinality(TuplesBelow(x, S)) = k - 1
        BY <1>4
      <3> HIDE DEF l
      <3> QED BY <1>7, <3>1, <3>2
    <2> HIDE DEF l, n
    <2> QED BY <2>1, <2>2
  <1> HIDE DEF l
  <1>9. l \in [1..n -> S] /\ \A x \in S : \E k \in 1..n : l[k] = x
    BY <1>6 DEF GoesThrough
  <1>10. \A i, j \in 1..n : i < j => <<l[i], l[j]>> \in TupleOrder
    BY <1>6 DEF GoesThrough
  <1>11. \A x \in S : <<x, x>> \notin TupleOrder
    BY <1>5 DEF Orders
  <1>12. ASSUME NEW i \in 1..n, NEW j \in 1..n, i # j PROVE l[i] # l[j]
    <2>1. l[i] \in S /\ l[j] \in S
      BY <1>9
    <2>2. i < j \/ j < i
      BY <1>3, <1>12
    <2> QED BY <1>10, <1>11, <2>1, <2>2
  <1> QED BY <1>3, <1>8, <1>9, <1>12 DEF ListsOnce, S, keys

\* The rows in the parts of a table.
PartRows(rows, columns) ==
  [n \in DOMAIN PartWrites(rows, columns) |-> PartWrites(rows, columns)[n].content]

\* They are all the rows.
LEMMA PartsHoldAll ==
  ASSUME NEW rows \in Seq(Rows), NEW columns \in Seq(AllowedColumns)
  PROVE  LET all == FlattenSeq(PartRows(rows, columns))
         IN  Len(all) = Len(rows) /\ ToSet(all) = ToSet(rows)
  <1> DEFINE S == KeysIn(rows, columns)
             keys == PartitionKeys(rows, columns)
             n == Cardinality(S)
             parts == PartWrites(rows, columns)
             seqs == PartRows(rows, columns)
             M == [k \in 1..n |-> MembersOf(rows, columns, keys[k])]
             all == FlattenSeq(seqs)
  <1>0. Len(rows) \in Nat /\ DOMAIN rows = 1..Len(rows)
    OBVIOUS
  <1>1. ListsOnce(keys, S)
    BY PartitionsAreListed
  <1>2. n \in Nat /\ DOMAIN keys = 1..n
    BY <1>1 DEF ListsOnce
  <1>3. parts = [k \in 1..n |-> [file |-> Part(columns, keys[k], k),
                                 content |-> RecordsOf(rows, columns, keys[k])]]
    BY <1>2 DEF PartWrites
  <1>4. seqs = [k \in 1..n |-> RecordsOf(rows, columns, keys[k])]
    BY <1>3 DEF PartRows
  <1> HIDE DEF keys, parts, seqs, n
  <1>5. DOMAIN seqs = 1..n /\ Len(seqs) = n
    <2>1. \A k \in 1..n : RecordsOf(rows, columns, keys[k]) \in Seq(Rows)
      BY PartGathers DEF Gathered
    <2>2. seqs \in [1..n -> Seq(Rows)]
      BY <1>4, <2>1
    <2> QED BY <1>2, <2>2, ListsAreSequences
  <1>6. \A k \in 1..n : seqs[k] = RecordsOf(rows, columns, keys[k])
                        /\ M[k] = MembersOf(rows, columns, keys[k])
    BY <1>4
  <1> HIDE DEF M
  <1>7. \A k \in 1..n : Gathered(rows, seqs[k], M[k])
    BY <1>6, PartGathers
  <1>8. \A i, j \in 1..n : i # j => M[i] \cap M[j] = {}
    <2>1. \A i, j \in 1..n : i # j => keys[i] # keys[j]
      BY <1>1 DEF ListsOnce, n
    <2> QED BY <1>6, <2>1 DEF MembersOf
  <1>9. FirstOf(M, n) = 1..Len(rows)
    <2>1. \A k \in 1..n : M[k] \subseteq 1..Len(rows)
      BY <1>0, <1>6 DEF MembersOf
    <2>2. \A i \in 1..Len(rows) : \E k \in 1..n : i \in M[k]
      <3> TAKE i \in 1..Len(rows)
      <3>1. PartitionKey(rows[i], columns) \in S
        BY <1>0 DEF KeysIn
      <3>2. PICK k \in 1..n : keys[k] = PartitionKey(rows[i], columns)
        BY <1>1, <3>1 DEF ListsOnce, n
      <3> QED BY <1>0, <1>6, <3>2 DEF MembersOf
    <2> QED BY <2>1, <2>2 DEF FirstOf
  <1>10. ASSUME n = 0 PROVE Len(all) = Len(rows) /\ ToSet(all) = ToSet(rows)
    <2>1. seqs = <<>>
      BY <1>4, <1>10
    <2>2. all = <<>>
      BY <2>1, FlattensNothing
    <2>3. Len(rows) = 0
      <3>1. FirstOf(M, n) = {}
        BY <1>10 DEF FirstOf
      <3>2. \A m \in Nat : 1..m = {} => m = 0
        OBVIOUS
      <3> QED BY <1>0, <1>9, <3>1, <3>2
    <2>4. rows = <<>>
      BY <2>3, EmptySeq
    <2> HIDE DEF all
    <2> QED BY <2>2, <2>4
  <1>11. ASSUME n # 0 PROVE Len(all) = Len(rows) /\ ToSet(all) = ToSet(rows)
    <2>1. Gathered(rows, all, 1..Len(rows))
      BY <1>2, <1>5, <1>7, <1>8, <1>9, <1>11, GatherAll
    <2>2. Len(all) = Len(rows)
      <3>1. \A m \in Nat : Cardinality(1..m) = m
        BY FS_Interval
      <3>2. Cardinality(1..Len(rows)) = Len(rows)
        BY <1>0, <3>1
      <3> QED BY <2>1, <3>2 DEF Gathered
    <2>3. HasElements(all, rows, DOMAIN rows)
      BY <1>0, <2>1 DEF Gathered
    <2> HIDE DEF all
    <2>4. ToSet(all) = ToSet(rows)
      BY <2>3 DEF HasElements, ToSet
    <2> QED BY <2>2, <2>4
  <1>12. Len(all) = Len(rows) /\ ToSet(all) = ToSet(rows)
    BY <1>10, <1>11
  <1> QED BY <1>12 DEF seqs

-----------------------------------------------------------------------------
(* The files of a table.                                                   *)

\* What lists have when one is put behind another.
LEMMA JoinedElements ==
  ASSUME NEW X, NEW a \in Seq(X), NEW b \in Seq(X)
  PROVE  ToSet(a \o b) = ToSet(a) \cup ToSet(b)
  <1>1. Len(a) \in Nat /\ Len(b) \in Nat /\ DOMAIN a = 1..Len(a) /\ DOMAIN b = 1..Len(b)
    OBVIOUS
  <1> DEFINE c == a \o b
  <1>2. /\ c \in Seq(X) /\ Len(c) = Len(a) + Len(b)
        /\ \A i \in 1..Len(a) + Len(b) : c[i] = IF i <= Len(a) THEN a[i] ELSE b[i - Len(a)]
    BY <1>1, ConcatProperties
  <1>3. DOMAIN c = 1..(Len(a) + Len(b))
    BY <1>1, <1>2
  <1> HIDE DEF c
  <1>4. ASSUME NEW i \in DOMAIN c PROVE c[i] \in ToSet(a) \cup ToSet(b)
    <2>1. CASE i <= Len(a)
      <3>1. i \in DOMAIN a /\ c[i] = a[i]
        BY <1>1, <1>2, <1>3, <2>1
      <3> QED BY <3>1 DEF ToSet
    <2>2. CASE ~(i <= Len(a))
      <3>1. i - Len(a) \in DOMAIN b /\ c[i] = b[i - Len(a)]
        BY <1>1, <1>2, <1>3, <2>2
      <3> QED BY <3>1 DEF ToSet
    <2> QED BY <2>1, <2>2
  <1>5. ASSUME NEW i \in DOMAIN a PROVE a[i] \in ToSet(c)
    <2>1. i \in DOMAIN c /\ c[i] = a[i]
      BY <1>1, <1>2, <1>3
    <2> QED BY <2>1 DEF ToSet
  <1>6. ASSUME NEW i \in DOMAIN b PROVE b[i] \in ToSet(c)
    <2>1. i \in 1..Len(b) /\ Len(a) \in Nat /\ Len(b) \in Nat
      BY <1>1
    <2>2. i + Len(a) \in DOMAIN c /\ ~(i + Len(a) <= Len(a)) /\ (i + Len(a)) - Len(a) = i
      BY <1>3, <2>1
    <2>3. c[i + Len(a)] = b[i]
      BY <1>2, <1>3, <2>2
    <2> QED BY <2>2, <2>3 DEF ToSet
  <1>7. ToSet(c) = ToSet(a) \cup ToSet(b)
    <2>1. ToSet(c) = {c[i] : i \in DOMAIN c}
      BY DEF ToSet
    <2>2. ToSet(a) = {a[i] : i \in DOMAIN a} /\ ToSet(b) = {b[i] : i \in DOMAIN b}
      BY DEF ToSet
    <2> QED BY <1>4, <1>5, <1>6, <2>1, <2>2
  <1> QED BY <1>7 DEF c

\* Lists of one file and of two.
LEMMA FewElements ==
  ASSUME NEW a, NEW b
  PROVE  /\ <<a>> \in Seq({a, b}) /\ ToSet(<<a>>) = {a}
         /\ <<a, b>> \in Seq({a, b}) /\ ToSet(<<a, b>>) = {a, b}
  <1>1. <<a>> \in Seq({a, b}) /\ <<a, b>> \in Seq({a, b})
    OBVIOUS
  <1>2. DOMAIN <<a>> = 1..1 /\ DOMAIN <<a, b>> = 1..2
    OBVIOUS
  <1>3. (\A i \in 1..1 : i = 1) /\ (\A i \in 1..2 : i = 1 \/ i = 2) /\ 1 \in 1..1 /\ 1 \in 1..2
        /\ 2 \in 1..2
    OBVIOUS
  <1>4. ToSet(<<a>>) = {a}
    BY <1>2, <1>3 DEF ToSet
  <1>5. ToSet(<<a, b>>) = {a, b}
    BY <1>2, <1>3 DEF ToSet
  <1> QED BY <1>1, <1>4, <1>5

\* The parts are listed by their numbers.
IsListOfParts(parts, columns) ==
  /\ Len(parts) \in Nat /\ DOMAIN parts = 1..Len(parts)
  /\ parts \in Seq(ToSet(parts))
  /\ \A n \in 1..Len(parts) :
       /\ parts[n] = [file |-> parts[n].file, content |-> parts[n].content]
       /\ \E key : parts[n].file = Part(columns, key, n)

\* So it is.
LEMMA PartsAreListed ==
  ASSUME NEW rows \in Seq(Rows), NEW columns
  PROVE  IsListOfParts(PartWrites(rows, columns), columns)
  <1> DEFINE keys == PartitionKeys(rows, columns)
             n == Cardinality({PartitionKey(rows[i], columns) : i \in DOMAIN rows})
             parts == PartWrites(rows, columns)
  <1>1. n \in Nat
    BY PartitionsAreFinite
  <1>2. DOMAIN keys = 1..n
    BY DEF PartitionKeys, Listed
  <1>3. parts = [k \in 1..n |-> [file |-> Part(columns, keys[k], k),
                                 content |-> RecordsOf(rows, columns, keys[k])]]
    BY <1>2 DEF PartWrites
  <1> HIDE DEF parts, keys, n
  <1>4. DOMAIN parts = 1..n /\ parts = [k \in 1..n |-> parts[k]]
    BY <1>3
  <1>5. \A k \in 1..n : parts[k] \in ToSet(parts)
    BY <1>4 DEF ToSet
  <1>6. parts \in [1..n -> ToSet(parts)]
    BY <1>4, <1>5
  <1>7. parts \in Seq(ToSet(parts)) /\ Len(parts) = n
    BY <1>1, <1>6, ListsAreSequences
  <1>8. ASSUME NEW k \in 1..n
        PROVE  /\ parts[k] = [file |-> parts[k].file, content |-> parts[k].content]
               /\ parts[k].file = Part(columns, keys[k], k)
    BY <1>3
  <1> QED BY <1>1, <1>4, <1>7, <1>8 DEF IsListOfParts, parts

\* A file of the metadata.
IsMetadata(w, listed, format) ==
  \/ w = [file |-> Manifest, content |-> listed]
  \/ format = "delta" /\ w = [file |-> DeltaLog, content |-> listed]
  \/ format # "delta" /\ w = [file |-> IcebergManifest, content |-> listed]
  \/ format # "delta" /\ w = [file |-> IcebergMetadata, content |-> <<IcebergManifest>>]

\* The files of the parts.
FilesOf(parts) == [n \in DOMAIN parts |-> parts[n].file]

\* The metadata of a table.
LEMMA MetadataHolds ==
  ASSUME NEW parts, NEW format
  PROVE  LET writes == MetadataWrites(parts, format)
         IN  /\ writes \in Seq(ToSet(writes))
             /\ \A w : w \in ToSet(writes) <=> IsMetadata(w, FilesOf(parts), format)
  <1> DEFINE listed == FilesOf(parts)
             m == [file |-> Manifest, content |-> listed]
             d == [file |-> DeltaLog, content |-> listed]
             i == [file |-> IcebergManifest, content |-> listed]
             j == [file |-> IcebergMetadata, content |-> <<IcebergManifest>>]
             writes == MetadataWrites(parts, format)
  <1>1. writes = <<m>> \o IF format = "delta" THEN <<d>> ELSE <<i, j>>
    BY DEF MetadataWrites, FilesOf
  <1>2. \A w : IsMetadata(w, listed, format) <=>
          w = m \/ (format = "delta" /\ w = d) \/ (format # "delta" /\ (w = i \/ w = j))
    BY DEF IsMetadata
  <1> HIDE DEF listed, m, d, i, j, writes
  <1> DEFINE X == {m, d, i, j}
  <1>3. <<m>> \in Seq(X) /\ <<d>> \in Seq(X) /\ <<i, j>> \in Seq(X)
    OBVIOUS
  <1>4. ToSet(<<m>>) = {m} /\ ToSet(<<d>>) = {d} /\ ToSet(<<i, j>>) = {i, j}
    BY FewElements
  <1> HIDE DEF X
  <1>5. CASE format = "delta"
    <2>1. writes = <<m>> \o <<d>>
      BY <1>1, <1>5
    <2>2. ToSet(writes) = {m} \cup {d}
      <3> DEFINE a == <<m>>
                 b == <<d>>
      <3>1. a \in Seq(X) /\ b \in Seq(X) /\ ToSet(a) = {m} /\ ToSet(b) = {d}
        BY <1>3, <1>4
      <3> HIDE DEF a, b
      <3>2. ToSet(a \o b) = ToSet(a) \cup ToSet(b)
        BY <3>1, JoinedElements
      <3>3. writes = a \o b
        BY <2>1 DEF a, b
      <3> QED BY <3>1, <3>2, <3>3
    <2>3. writes \in Seq(ToSet(writes))
      BY <1>3, <2>1, ConcatProperties, OwnElements
    <2>4. \A w : w \in ToSet(writes) <=> IsMetadata(w, listed, format)
      BY <1>2, <1>5, <2>2
    <2> QED BY <2>3, <2>4 DEF listed, writes
  <1>6. CASE format # "delta"
    <2>1. writes = <<m>> \o <<i, j>>
      BY <1>1, <1>6
    <2>2. ToSet(writes) = {m} \cup {i, j}
      <3> DEFINE a == <<m>>
                 b == <<i, j>>
      <3>1. a \in Seq(X) /\ b \in Seq(X) /\ ToSet(a) = {m} /\ ToSet(b) = {i, j}
        BY <1>3, <1>4
      <3> HIDE DEF a, b
      <3>2. ToSet(a \o b) = ToSet(a) \cup ToSet(b)
        BY <3>1, JoinedElements
      <3>3. writes = a \o b
        BY <2>1 DEF a, b
      <3> QED BY <3>1, <3>2, <3>3
    <2>3. writes \in Seq(ToSet(writes))
      BY <1>3, <2>1, ConcatProperties, OwnElements
    <2>4. \A w : w \in ToSet(writes) <=> IsMetadata(w, listed, format)
      BY <1>2, <1>6, <2>2
    <2> QED BY <2>3, <2>4 DEF listed, writes
  <1> QED BY <1>5, <1>6

\* The parts, and the metadata.
TableHolds(writes, parts, format) ==
  \A w : w \in ToSet(writes) <=>
    (\E n \in 1..Len(parts) : w = parts[n]) \/ IsMetadata(w, FilesOf(parts), format)

\* What an export writes.
LEMMA TablesHold ==
  ASSUME NEW rows \in Seq(Rows), NEW columns, NEW format
  PROVE  TableHolds(TableWrites(rows, columns, format), PartWrites(rows, Normalised(columns)),
                    format)
  <1> DEFINE parts == PartWrites(rows, Normalised(columns))
             rest == MetadataWrites(parts, format)
  <1>1. IsListOfParts(parts, Normalised(columns))
    BY PartsAreListed
  <1>2. TableWrites(rows, columns, format) = parts \o rest
    BY DEF TableWrites
  <1> HIDE DEF parts
  <1>3. rest \in Seq(ToSet(rest))
        /\ \A w : w \in ToSet(rest) <=> IsMetadata(w, FilesOf(parts), format)
    BY MetadataHolds
  <1>4. parts \in Seq(ToSet(parts)) /\ DOMAIN parts = 1..Len(parts)
    BY <1>1 DEF IsListOfParts
  <1> HIDE DEF rest
  <1> DEFINE X == ToSet(parts) \cup ToSet(rest)
  <1>5. parts \in Seq(X) /\ rest \in Seq(X)
    BY <1>3, <1>4
  <1> HIDE DEF X
  <1>6. ToSet(parts \o rest) = ToSet(parts) \cup ToSet(rest)
    BY <1>5, JoinedElements
  <1>7. \A w : w \in ToSet(parts) <=> \E n \in 1..Len(parts) : w = parts[n]
    BY <1>4 DEF ToSet
  <1> QED BY <1>2, <1>3, <1>6, <1>7 DEF TableHolds, parts

\* No two files of a table have one name, and they are files of tables.
LEMMA TableFilesApart ==
  ASSUME NEW rows \in Seq(Rows), NEW columns, NEW format,
         NEW v \in ToSet(TableWrites(rows, columns, format)),
         NEW w \in ToSet(TableWrites(rows, columns, format))
  PROVE  TableFile(v.file) /\ (v.file = w.file => v = w)
  <1> DEFINE normal == Normalised(columns)
             parts == PartWrites(rows, normal)
             listed == FilesOf(parts)
             M == {Manifest, DeltaLog, IcebergManifest, IcebergMetadata}
  <1>1. IsListOfParts(parts, normal)
    BY PartsAreListed
  <1>2. TableHolds(TableWrites(rows, columns, format), parts, format)
    BY TablesHold
  <1> HIDE DEF parts, normal, listed
  <1>3. \A x : IsMetadata(x, listed, format) => x.file \in M
    BY DEF IsMetadata
  <1>4. \A x, y : IsMetadata(x, listed, format) /\ IsMetadata(y, listed, format)
                    /\ x.file = y.file => x = y
    <2>1. /\ Manifest # DeltaLog /\ Manifest # IcebergManifest /\ Manifest # IcebergMetadata
          /\ IcebergManifest # IcebergMetadata
      BY DEF Manifest, DeltaLog, IcebergManifest, IcebergMetadata
    <2>2. \A x : IsMetadata(x, listed, format) =>
            \/ x = [file |-> Manifest, content |-> listed] /\ x.file = Manifest
            \/ /\ format = "delta"
               /\ x = [file |-> DeltaLog, content |-> listed] /\ x.file = DeltaLog
            \/ /\ format # "delta"
               /\ x = [file |-> IcebergManifest, content |-> listed] /\ x.file = IcebergManifest
            \/ /\ format # "delta"
               /\ x = [file |-> IcebergMetadata, content |-> <<IcebergManifest>>]
               /\ x.file = IcebergMetadata
      BY DEF IsMetadata
    <2> QED BY <2>1, <2>2
  <1>5. \A x \in M : Len(x) = 1
    BY FileNames
  <1>6. \A n \in 1..Len(parts) : \E key : parts[n].file = Part(normal, key, n)
    BY <1>1 DEF IsListOfParts
  <1>7. \A key, n : /\ Len(Part(normal, key, n)) = 3
                   /\ Part(normal, key, n)[3] = n
    BY DEF Part
  <1>8. \A n \in 1..Len(parts) : Len(parts[n].file) = 3 /\ parts[n].file[3] = n
    BY <1>6, <1>7
  <1>9. \A x \in ToSet(TableWrites(rows, columns, format)) :
          (\E n \in 1..Len(parts) : x = parts[n]) \/ IsMetadata(x, listed, format)
    BY <1>2 DEF TableHolds, listed
  <1>10. TableFile(v.file)
    <2>1. CASE \E n \in 1..Len(parts) : v = parts[n]
      BY <1>8, <2>1 DEF TableFile
    <2>2. CASE IsMetadata(v, listed, format)
      BY <1>3, <2>2 DEF TableFile
    <2> QED BY <1>9, <2>1, <2>2
  <1>11. ASSUME v.file = w.file PROVE v = w
    <2>1. CASE \E n \in 1..Len(parts) : v = parts[n]
      <3>1. PICK n \in 1..Len(parts) : v = parts[n]
        BY <2>1
      <3>2. Len(w.file) = 3 /\ w.file[3] = n
        BY <1>8, <1>11, <3>1
      <3>3. ~IsMetadata(w, listed, format)
        BY <1>3, <1>5, <3>2
      <3>4. PICK m \in 1..Len(parts) : w = parts[m]
        BY <1>9, <3>3
      <3>5. m = n
        BY <1>8, <3>2, <3>4
      <3> QED BY <3>1, <3>4, <3>5
    <2>2. CASE IsMetadata(v, listed, format)
      <3>1. Len(w.file) = 1
        BY <1>3, <1>5, <1>11, <2>2
      <3>2. ~ \E n \in 1..Len(parts) : w = parts[n]
        BY <1>8, <3>1
      <3>3. IsMetadata(w, listed, format)
        BY <1>9, <3>2
      <3> QED BY <1>4, <1>11, <2>2, <3>3
    <2> QED BY <1>9, <2>1, <2>2
  <1> QED BY <1>10, <1>11

\* What a reader finds that reads whole files.
Reads(found, rows, format) ==
  LET all == TableRows(found, format)
  IN  /\ Len(all) = Len(rows)
      /\ ToSet(all) = ToSet(rows)
      /\ FlattenSeq([n \in DOMAIN found[Manifest] |-> found[found[Manifest][n]]]) = all

\* From the files of a table every row is read once.
LEMMA TablesRead ==
  ASSUME NEW rows \in Seq(Rows), NEW columns \in Seq(STRING), IsAllowed(columns), NEW format,
         NEW found,
         \A w \in ToSet(TableWrites(rows, columns, format)) : found[w.file] = w.content
  PROVE  Reads(found, rows, format)
  <1> DEFINE normal == Normalised(columns)
             parts == PartWrites(rows, normal)
             listed == FilesOf(parts)
             read == [n \in DOMAIN listed |-> found[listed[n]]]
  <1>1. IsListOfParts(parts, normal)
    BY PartsAreListed
  <1>2. TableHolds(TableWrites(rows, columns, format), parts, format)
    BY TablesHold
  <1>3. normal \in Seq(AllowedColumns)
    BY NormalColumns
  <1>4. Len(FlattenSeq(PartRows(rows, normal))) = Len(rows)
        /\ ToSet(FlattenSeq(PartRows(rows, normal))) = ToSet(rows)
    BY <1>3, PartsHoldAll
  <1>5. PartRows(rows, normal) = [n \in DOMAIN parts |-> parts[n].content]
    BY DEF PartRows
  <1>6. \A w : (\E n \in 1..Len(parts) : w = parts[n]) \/ IsMetadata(w, FilesOf(parts), format)
                 => found[w.file] = w.content
    BY <1>2 DEF TableHolds
  <1> HIDE DEF parts, normal
  <1>7. \A n \in 1..Len(parts) : found[parts[n].file] = parts[n].content
    BY <1>6
  <1>8. \A w : IsMetadata(w, listed, format) => found[w.file] = w.content
    BY <1>6
  <1>9. DOMAIN listed = DOMAIN parts /\ DOMAIN parts = 1..Len(parts)
        /\ \A n \in DOMAIN parts : listed[n] = parts[n].file
    BY <1>1 DEF IsListOfParts, FilesOf
  <1> HIDE DEF listed
  <1>10. read = [n \in DOMAIN parts |-> parts[n].content]
    BY <1>7, <1>9
  <1>11. FlattenSeq(read) = FlattenSeq(PartRows(rows, normal))
    BY <1>5, <1>10
  <1> HIDE DEF read
  <1>12. found[Manifest] = listed
    <2>1. IsMetadata([file |-> Manifest, content |-> listed], listed, format)
      BY DEF IsMetadata
    <2> QED BY <1>8, <2>1
  <1>13. TableRows(found, format) = FlattenSeq(read)
    <2>1. CASE format = "delta"
      <3>1. IsMetadata([file |-> DeltaLog, content |-> listed], listed, format)
        BY <2>1 DEF IsMetadata
      <3>2. found[DeltaLog] = listed
        BY <1>8, <3>1
      <3> QED BY <2>1, <3>2 DEF TableRows, read
    <2>2. CASE format # "delta"
      <3>1. /\ IsMetadata([file |-> IcebergManifest, content |-> listed], listed, format)
            /\ IsMetadata([file |-> IcebergMetadata, content |-> <<IcebergManifest>>], listed,
                          format)
        BY <2>2 DEF IsMetadata
      <3>2. found[IcebergManifest] = listed /\ found[IcebergMetadata] = <<IcebergManifest>>
        BY <1>8, <3>1
      <3>3. found[IcebergMetadata][1] = IcebergManifest
        BY <3>2
      <3> QED BY <2>2, <3>2, <3>3 DEF TableRows, read
    <2> QED BY <2>1, <2>2
  <1>14. FlattenSeq([n \in DOMAIN found[Manifest] |-> found[found[Manifest][n]]])
           = FlattenSeq(read)
    BY <1>12 DEF read
  <1> QED BY <1>4, <1>11, <1>13, <1>14 DEF Reads

-----------------------------------------------------------------------------
(* An export that finished stays readable.                                 *)

\* An export, with its columns.
ExportsBy(found, export, pending, columns) ==
  LET writes == ToSet(TableWrites(export.rows, columns, export.format))
  IN  /\ columns \in Layouts /\ IsAllowed(columns)
      /\ export.rows \in Seq(Rows)
      /\ pending \subseteq writes
      /\ \A w \in writes \ pending : w.file \in DOMAIN found /\ found[w.file] = w.content

\* Some columns are those of an export.
LEMMA ExportingBy ==
  ASSUME NEW found, NEW export, NEW pending
  PROVE  Exports(found, export, pending)
           <=> \E columns : ExportsBy(found, export, pending, columns)
  BY DEF Exports, ExportsBy

\* An export that begins has all its files to write.
LEMMA ExportBegins ==
  ASSUME BatchInv, NEW columns \in Layouts, NEW format, Export(columns, format)
  PROVE  ExportInv'
  <1> DEFINE export == [format |-> format, rows |-> RedactRecords(disk[Csv])]
             writes == ExportWrites(disk[Csv], columns, format)
  <1>1. command' = [writes |-> writes, update |-> None, export |-> export]
        /\ exported' = None /\ disk' = disk /\ IsAllowed(columns)
    BY DEF Export, Begin
  <1>2. disk[Csv] \in Seq(Rows) /\ AllWhole(disk[Csv])
    BY LoadedRows DEF Export, BatchInv
  <1>3. RedactRecords(disk[Csv]) \in Seq(Rows)
    BY <1>2, RedactedRows
  <1>4. export.rows = RedactRecords(disk[Csv]) /\ export.format = format
    OBVIOUS
  <1>5. writes = TableWrites(export.rows, columns, export.format)
    BY <1>4 DEF ExportWrites
  <1>6. export.rows \in Seq(Rows)
    BY <1>3, <1>4
  <1>7. command'.writes = writes /\ command'.export = export
    BY <1>1
  <1> HIDE DEF export, writes
  <1>8. Exports(disk, export, ToSet(writes))
    <2> DEFINE ws == ToSet(TableWrites(export.rows, columns, export.format))
    <2>1. ToSet(writes) = ws
      BY <1>5
    <2> HIDE DEF ws
    <2>2. ExportsBy(disk, export, ws, columns)
      BY <1>1, <1>6 DEF ExportsBy, ws
    <2> QED BY <2>1, <2>2, ExportingBy
  <1>9. Exports(disk', command'.export, ToSet(command'.writes))
    BY <1>1, <1>7, <1>8
  <1> QED BY <1>1, <1>9 DEF ExportInv

\* A command that writes no table changes nothing about exports.
LEMMA OtherBegins ==
  ASSUME ExportInv, NEW writes, NEW update, OffTable(writes),
         command' = [writes |-> writes, update |-> update, export |-> None],
         UNCHANGED <<disk, exported>>
  PROVE  ExportInv'
  <1>1. command'.writes = writes /\ command'.export = None
    OBVIOUS
  <1>2. exported' # None => Exports(disk', exported', {})
    BY DEF ExportInv
  <1>3. OffTable(command'.writes)
    BY <1>1
  <1> QED BY <1>1, <1>2, <1>3 DEF ExportInv

\* The CSV and the dead letters belong to no table.
LEMMA RowFilesAreOffTable ==
  ASSUME NEW w, w.file \in {Csv, Letters} PROVE ~TableFile(w.file)
  <1>1. Len(Csv) = 1 /\ Len(Letters) = 1
    BY FileNames
  <1>2. Csv \notin {Manifest, DeltaLog, IcebergManifest, IcebergMetadata}
        /\ Letters \notin {Manifest, DeltaLog, IcebergManifest, IcebergMetadata}
    BY FileNames
  <1> QED BY <1>1, <1>2 DEF TableFile

\* A command that is to write rows: the CSV, the dead letters or both.
WritesRows ==
  \E writes, update :
    /\ command' = [writes |-> writes, update |-> update, export |-> None]
    /\ \A w \in ToSet(writes) : w.file \in {Csv, Letters}

\* stream-ingest is such a command.
LEMMA StreamsWriteRows ==
  ASSUME NEW lines \in Streams, NEW most \in Limits, NEW update \in BOOLEAN,
         StreamIngest(lines, most, update)
  PROVE  WritesRows
  <1> DEFINE batch == Polled(lines, most)
             accepted == Accepted(batch)
             rejected == CleanPayloads(Rejected(batch))
             letters == [n \in DOMAIN rejected |->
                          [file |-> Letters, content |-> disk[Letters] \o SubSeq(rejected, 1, n)]]
             row == [file |-> Csv, content |-> RedactRecords(accepted)]
             rows == IF accepted = <<>> THEN <<>> ELSE <<row>>
             merging == IF update /\ accepted # <<>> THEN accepted ELSE None
  <1>1. command' = [writes |-> letters \o rows, update |-> merging, export |-> None]
    BY DEF StreamIngest, Begin
  <1>2. letters \in Seq(ToSet(letters))
    <2>1. batch \in Seq(Rows) /\ AllWhole(batch)
      BY PolledRows
    <2> HIDE DEF batch
    <2>2. Len(rejected) \in Nat /\ DOMAIN rejected = 1..Len(rejected)
      <3>1. rejected \in Seq(Rows)
        BY <2>1, AcceptedIsSound, CleanedPayloads
      <3> QED BY <3>1
    <2> HIDE DEF rejected
    <2>3. DOMAIN letters = 1..Len(rejected) /\ letters = [n \in 1..Len(rejected) |-> letters[n]]
      BY <2>2
    <2> HIDE DEF letters
    <2>4. \A n \in 1..Len(rejected) : letters[n] \in ToSet(letters)
      BY <2>3 DEF ToSet
    <2>5. letters \in [1..Len(rejected) -> ToSet(letters)]
      BY <2>3, <2>4
    <2> QED BY <2>2, <2>5, ListsAreSequences
  <1>3. \A w \in ToSet(letters) : w.file = Letters
    BY DEF ToSet
  <1> HIDE DEF letters, accepted
  <1>4. rows \in Seq(ToSet(rows)) /\ \A w \in ToSet(rows) : w.file = Csv
    <2>1. CASE accepted = <<>>
      <3>1. rows = <<>> /\ ToSet(<<>>) = {} /\ <<>> \in Seq({})
        BY <2>1 DEF ToSet
      <3> HIDE DEF rows
      <3> QED BY <3>1
    <2>2. CASE accepted # <<>>
      <3>1. rows = <<row>> /\ row.file = Csv
        BY <2>2
      <3> HIDE DEF row
      <3>2. ToSet(<<row>>) = {row}
        BY FewElements
      <3>3. <<row>> \in Seq({row})
        OBVIOUS
      <3> HIDE DEF rows
      <3> QED BY <3>1, <3>2, <3>3
    <2> QED BY <2>1, <2>2
  <1> HIDE DEF rows, merging
  <1> DEFINE X == ToSet(letters) \cup ToSet(rows)
  <1>5. letters \in Seq(X) /\ rows \in Seq(X)
    BY <1>2, <1>4
  <1> HIDE DEF X
  <1>6. ToSet(letters \o rows) = ToSet(letters) \cup ToSet(rows)
    BY <1>5, JoinedElements
  <1>7. \A w \in ToSet(letters \o rows) : w.file \in {Csv, Letters}
    BY <1>3, <1>4, <1>6
  <1> QED BY <1>1, <1>7 DEF WritesRows

\* So is generate-data.
LEMMA GeneratedRowsAreWritten ==
  ASSUME GenerateData PROVE WritesRows
  <1>1. PICK content :
          command' = [writes |-> <<[file |-> Csv, content |-> content]>>, update |-> None,
                      export |-> None]
    BY DEF GenerateData, Begin
  <1> DEFINE w == [file |-> Csv, content |-> content]
  <1>2. w.file = Csv
    OBVIOUS
  <1>3. ToSet(<<w>>) = {w}
    BY FewElements
  <1>4. command' = [writes |-> <<w>>, update |-> None, export |-> None]
    BY <1>1
  <1> HIDE DEF w
  <1>5. \A v \in ToSet(<<w>>) : v.file \in {Csv, Letters}
    BY <1>2, <1>3
  <1> QED BY <1>4, <1>5 DEF WritesRows

\* Rows belong to no table.
LEMMA RowsAreOffTable ==
  ASSUME ExportInv, WritesRows, UNCHANGED <<disk, exported>> PROVE ExportInv'
  <1>1. PICK writes, update :
          /\ command' = [writes |-> writes, update |-> update, export |-> None]
          /\ \A w \in ToSet(writes) : w.file \in {Csv, Letters}
    BY DEF WritesRows
  <1>2. OffTable(writes)
    BY <1>1, RowFilesAreOffTable DEF OffTable
  <1> QED BY <1>1, <1>2, OtherBegins

\* What is written, and what is left.
LEMMA HeadAndLeft ==
  ASSUME NEW ws, WritesInv(ws), ws # <<>>
  PROVE  ToSet(ws) = {Head(ws)} \cup ToSet(Tail(ws))
  <1>1. ws \in Seq(ToSet(ws)) /\ Len(ws) \in Nat /\ DOMAIN ws = 1..Len(ws)
    BY DEF WritesInv
  <1> DEFINE t == Tail(ws)
             n == Len(ws)
  <1>2. t \in Seq(ToSet(ws)) /\ Len(t) = n - 1 /\ \A i \in 1..(n - 1) : t[i] = ws[i + 1]
    BY <1>1, HeadTailProperties
  <1>3. n \in Nat /\ n # 0 /\ DOMAIN ws = 1..n
    BY <1>1, EmptySeq
  <1>4. Head(ws) = ws[1] /\ DOMAIN t = 1..(n - 1)
    BY <1>1, <1>2, <1>3
  <1> HIDE DEF t, n
  <1>5. ASSUME NEW i \in 1..n PROVE ws[i] = ws[1] \/ ws[i] \in ToSet(t)
    <2>1. CASE i = 1
      BY <2>1
    <2>2. CASE i # 1
      <3>1. i - 1 \in 1..(n - 1) /\ (i - 1) + 1 = i
        BY <1>3, <2>2
      <3>2. t[i - 1] = ws[i] /\ i - 1 \in DOMAIN t
        BY <1>2, <1>4, <3>1
      <3> QED BY <3>2 DEF ToSet
    <2> QED BY <2>1, <2>2
  <1>6. ASSUME NEW i \in 1..(n - 1) PROVE t[i] \in ToSet(ws)
    <2>1. i + 1 \in 1..n
      BY <1>3
    <2> QED BY <1>2, <1>3, <2>1 DEF ToSet
  <1>7. 1 \in 1..n
    BY <1>3
  <1>8. \A x \in ToSet(ws) : x = ws[1] \/ x \in ToSet(t)
    BY <1>3, <1>5 DEF ToSet
  <1>9. ws[1] \in ToSet(ws) /\ \A x \in ToSet(t) : x \in ToSet(ws)
    BY <1>3, <1>4, <1>6, <1>7 DEF ToSet
  <1>10. ToSet(ws) = {ws[1]} \cup ToSet(t)
    BY <1>8, <1>9
  <1> QED BY <1>4, <1>10 DEF t

\* A table's file is written when it is no longer pending.
LEMMA ExportWriteStep ==
  ASSUME NEW export, NEW pending, Exports(disk, export, pending),
         NEW w, NEW left, pending = {w} \cup left, Put(w.file, w.content)
  PROVE  Exports(disk', export, left)
  <1>1. PICK columns : ExportsBy(disk, export, pending, columns)
    BY ExportingBy
  <1> DEFINE ws == ToSet(TableWrites(export.rows, columns, export.format))
  <1>2. /\ columns \in Layouts /\ IsAllowed(columns) /\ export.rows \in Seq(Rows)
        /\ pending \subseteq ws
        /\ \A v \in ws \ pending : v.file \in DOMAIN disk /\ disk[v.file] = v.content
    BY <1>1 DEF ExportsBy
  <1>3. \A v \in ws : v.file = w.file => v = w
    <2>1. w \in ws
      BY <1>2
    <2> QED BY <1>2, <2>1, TableFilesApart
  <1> HIDE DEF ws
  <1>5. /\ DOMAIN disk' = DOMAIN disk \cup {w.file} /\ disk'[w.file] = w.content
        /\ \A f \in DOMAIN disk : f # w.file => disk'[f] = disk[f]
    BY PutFile
  <1>6. ASSUME NEW v \in ws \ left PROVE v.file \in DOMAIN disk' /\ disk'[v.file] = v.content
    <2>1. CASE v = w
      BY <1>5, <2>1
    <2>2. CASE v # w
      <3>1. v \notin pending /\ v.file # w.file
        BY <1>3, <2>2
      <3>2. v.file \in DOMAIN disk /\ disk[v.file] = v.content
        BY <1>2, <3>1
      <3> QED BY <1>5, <3>1, <3>2
    <2> QED BY <2>1, <2>2
  <1>7. left \subseteq ws
    BY <1>2
  <1>8. ExportsBy(disk', export, left, columns)
    BY <1>2, <1>6, <1>7 DEF ExportsBy, ws
  <1> QED BY <1>8, ExportingBy

\* Writing another file changes nothing about an export.
LEMMA OtherWriteStep ==
  ASSUME NEW export, NEW pending, Exports(disk, export, pending),
         NEW file, NEW content, ~TableFile(file), Put(file, content)
  PROVE  Exports(disk', export, pending)
  <1>1. PICK columns : ExportsBy(disk, export, pending, columns)
    BY ExportingBy
  <1> DEFINE ws == ToSet(TableWrites(export.rows, columns, export.format))
  <1>2. /\ columns \in Layouts /\ IsAllowed(columns) /\ export.rows \in Seq(Rows)
        /\ pending \subseteq ws
        /\ \A v \in ws \ pending : v.file \in DOMAIN disk /\ disk[v.file] = v.content
    BY <1>1 DEF ExportsBy
  <1>3. \A v \in ws : v.file # file
    <2>1. \A v \in ws : TableFile(v.file)
      BY <1>2, TableFilesApart
    <2> QED BY <2>1
  <1> HIDE DEF ws
  <1>4. /\ DOMAIN disk' = DOMAIN disk \cup {file}
        /\ \A f \in DOMAIN disk : f # file => disk'[f] = disk[f]
    BY PutFile
  <1>5. \A v \in ws \ pending : v.file \in DOMAIN disk' /\ disk'[v.file] = v.content
    BY <1>2, <1>3, <1>4
  <1>6. ExportsBy(disk', export, pending, columns)
    BY <1>2, <1>5 DEF ExportsBy, ws
  <1> QED BY <1>6, ExportingBy

\* One file of a command is written.
LEMMA WriteExports ==
  ASSUME BatchInv, ExportInv, Write PROVE ExportInv'
  <1> DEFINE w == Head(command.writes)
             ws == command.writes
             left == Tail(command.writes)
  <1>1. /\ command # None /\ ws # <<>>
        /\ Put(w.file, w.content) /\ exported' = exported
        /\ command' = [command EXCEPT !.writes = Tail(@)]
    BY DEF Write
  <1>2. /\ command = [writes |-> ws, update |-> command.update, export |-> command.export]
        /\ WritesInv(ws)
    BY <1>1 DEF BatchInv, PendingInv
  <1>3. command'.writes = left /\ command'.export = command.export
    BY <1>1, <1>2
  <1>4. ToSet(ws) = {w} \cup ToSet(left)
    BY <1>1, <1>2, HeadAndLeft
  <1>5. /\ exported # None => Exports(disk, exported, {})
        /\ command.export # None => Exports(disk, command.export, ToSet(ws))
        /\ exported # None => OffTable(ws)
    BY <1>1 DEF ExportInv
  <1> HIDE DEF w, ws, left
  <1>6. exported # None => Exports(disk', exported, {}) /\ OffTable(left)
    <2> HAVE exported # None
    <2>1. OffTable(ws)
      BY <1>5
    <2>2. ~TableFile(w.file) /\ OffTable(left)
      BY <1>4, <2>1 DEF OffTable
    <2>3. Exports(disk', exported, {})
      BY <1>1, <1>5, <2>2, OtherWriteStep
    <2> QED BY <2>2, <2>3
  <1>7. command.export # None => Exports(disk', command.export, ToSet(left))
    BY <1>1, <1>4, <1>5, ExportWriteStep
  <1> QED BY <1>1, <1>3, <1>6, <1>7 DEF ExportInv

\* With nothing pending the export is done.
LEMMA FinishExports ==
  ASSUME ExportInv, Finish PROVE ExportInv'
  <1>1. /\ command # None /\ command.writes = <<>> /\ command' = None /\ disk' = disk
        /\ exported' = IF command.export # None THEN command.export ELSE exported
    BY DEF Finish
  <1>2. ToSet(command.writes) = {}
    BY <1>1 DEF ToSet
  <1>3. command.export # None => Exports(disk, command.export, {})
    BY <1>1, <1>2 DEF ExportInv
  <1>4. exported' # None => Exports(disk', exported', {})
    BY <1>1, <1>3 DEF ExportInv
  <1> QED BY <1>1, <1>4 DEF ExportInv

\* A crash leaves a table that was exported before alone.
LEMMA CrashExports ==
  ASSUME BatchInv, ExportInv, Crash PROVE ExportInv'
  <1>1. command # None /\ command' = None /\ exported' = exported
    BY DEF Crash
  <1>2. exported # None => Exports(disk', exported, {})
    <2> HAVE exported # None
    <2>1. Exports(disk, exported, {}) /\ OffTable(command.writes)
      BY <1>1 DEF ExportInv
    <2>2. CASE UNCHANGED disk
      BY <2>1, <2>2
    <2>3. CASE ~UNCHANGED disk
      <3> DEFINE w == Head(command.writes)
      <3>1. command.writes # <<>> /\ \E left : Put(w.file, left)
        BY <2>3 DEF Crash
      <3>2. PICK left : Put(w.file, left)
        BY <3>1
      <3>3. WritesInv(command.writes)
        BY <1>1 DEF BatchInv, PendingInv
      <3>4. w \in ToSet(command.writes)
        BY <3>1, <3>3, HeadAndLeft
      <3>5. ~TableFile(w.file)
        BY <2>1, <3>4 DEF OffTable
      <3> HIDE DEF w
      <3> QED BY <2>1, <3>2, <3>5, OtherWriteStep
    <2> QED BY <2>2, <2>3
  <1> QED BY <1>1, <1>2 DEF ExportInv

\* Commands over the index leave exports alone.
LEMMA ExportsUntouched ==
  ASSUME ExportInv, UNCHANGED <<disk, command, exported>> PROVE ExportInv'
  BY DEF ExportInv

\* So do commands that write reports.
LEMMA QuietExports ==
  ASSUME ExportInv, Quiet PROVE ExportInv'
  <1>1. CASE command' = command
    BY <1>1, ExportsUntouched DEF Quiet
  <1>2. CASE \E writes : /\ WritesInv(writes) /\ OffTable(writes)
                         /\ command' = [writes |-> writes, update |-> None, export |-> None]
    BY <1>2, OtherBegins DEF Quiet
  <1> QED BY <1>1, <1>2 DEF Quiet

\* So does every step.
LEMMA StepExports ==
  ASSUME BatchInv, ExportInv, [OfflineNext]_allVars PROVE ExportInv'
  <1>1. CASE Quiet
    BY <1>1, QuietExports
  <1>2. CASE \E lines \in Streams, most \in Limits, update \in BOOLEAN :
               StreamIngest(lines, most, update)
    BY <1>2, StreamsWriteRows, RowsAreOffTable DEF StreamIngest
  <1>3. CASE \E size \in Sizes : UpdateIndex(size)
    BY <1>3, ExportsUntouched DEF UpdateIndex
  <1>4. CASE \E columns \in Layouts, format \in Formats : Export(columns, format)
    BY <1>4, ExportBegins
  <1>5. CASE BuildIndex
    BY <1>5, ExportsUntouched DEF BuildIndex
  <1>6. CASE GenerateData
    BY <1>6, GeneratedRowsAreWritten, RowsAreOffTable DEF GenerateData
  <1>7. CASE Write
    BY <1>7, WriteExports
  <1>8. CASE Finish
    BY <1>8, FinishExports
  <1>9. CASE Crash
    BY <1>9, CrashExports
  <1> QED BY <1>1, <1>2, <1>3, <1>4, <1>5, <1>6, <1>7, <1>8, <1>9, OfflineStep DEF Next

\* A table whose export finished reads back as the exported rows, each once, until the next
\* export begins: parts that earlier exports left behind are not listed.
THEOREM ExportsAreReadable == OfflineSpec => []ExportIsReadable
  <1>1. OfflineInit => ExportInv
    <2>1. Init => exported = None /\ command = None
      BY DEF Init
    <2> QED BY <2>1 DEF OfflineInit, ExportInv
  <1>2. BatchInv /\ ExportInv /\ [OfflineNext]_allVars => ExportInv'
    BY StepExports
  <1>3. ExportInv => ExportIsReadable
    <2> SUFFICES ASSUME ExportInv, exported # None PROVE Reads(disk, exported.rows, exported.format)
      BY DEF ExportIsReadable, Reads
    <2>1. Exports(disk, exported, {})
      BY DEF ExportInv
    <2>2. PICK columns : ExportsBy(disk, exported, {}, columns)
      BY <2>1, ExportingBy
    <2>3. columns \in Seq(STRING)
      BY <2>2, OptionsAssumption DEF ExportsBy
    <2> QED BY <2>2, <2>3, TablesRead DEF ExportsBy
  <1> QED BY <1>1, <1>2, <1>3, BatchInvariant, PTL DEF OfflineSpec
-----------------------------------------------------------------------------
(* Ratios, totals and means.                                               *)

\* Products keep an order.
LEMMA ProductsKeepOrder ==
  ASSUME NEW a \in Int, NEW b \in Int, a <= b, NEW k \in Nat
  PROVE  k * a \in Int /\ k * b \in Int /\ k * a <= k * b
  <1>1. k * b = k * a + k * (b - a)
    OBVIOUS
  <1>2. k * (b - a) \in Nat
    <2>1. b - a \in Nat
      OBVIOUS
    <2> QED BY <2>1
  <1> QED BY <1>1, <1>2

\* Whole division is the largest number whose product fits.
LEMMA Quotients ==
  ASSUME NEW x \in Nat, NEW k \in Nat \ {0}, NEW q \in Int
  PROVE  x \div k \in Nat /\ (q <= x \div k <=> k * q <= x)
  <1> DEFINE d == x \div k
  <1>1. d \in Int /\ k * d <= x /\ x < k * (d + 1)
    OBVIOUS
  <1> HIDE DEF d
  <1>2. ASSUME q <= d PROVE k * q <= x
    BY <1>1, <1>2, ProductsKeepOrder
  <1>3. ASSUME ~(q <= d) PROVE ~(k * q <= x)
    <2>1. d + 1 <= q
      BY <1>1, <1>3
    <2>2. k * (d + 1) <= k * q
      BY <1>1, <2>1, ProductsKeepOrder
    <2>3. k * q \in Int /\ k * (d + 1) \in Int
      BY <1>1
    <2> QED BY <1>1, <2>2, <2>3
  <1>4. d \in Nat
    <2> SUFFICES ASSUME d + 1 <= 0 PROVE FALSE
      BY <1>1
    <2>1. k * (d + 1) <= k * 0
      BY <1>1, ProductsKeepOrder
    <2> QED BY <1>1, <2>1
  <1> QED BY <1>2, <1>3, <1>4 DEF d

\* A ratio rounds, so it is at least q exactly if the fraction is at least q - 1/2.
LEMMA RatioIsAtLeast ==
  ASSUME NEW a \in Nat, NEW b \in Nat \ {0}, NEW q \in Int
  PROVE  Ratio(a, b) \in Nat /\ (q <= Ratio(a, b) <=> (2 * b) * q <= 2 * One * a + b)
  <1>1. 2 * One * a + b \in Nat /\ 2 * b \in Nat \ {0}
    BY DEF One
  <1> QED BY <1>1, Quotients DEF Ratio

\* It grows with the numerator.
LEMMA RatiosGrow ==
  ASSUME NEW a \in Nat, NEW c \in Nat, a <= c, NEW b \in Nat \ {0}
  PROVE  Ratio(a, b) <= Ratio(c, b)
  <1> DEFINE q == Ratio(a, b)
  <1>1. q \in Int
    BY RatioIsAtLeast
  <1>2. (2 * b) * q <= 2 * One * a + b
    BY <1>1, RatioIsAtLeast
  <1> HIDE DEF q
  <1>3. 2 * One * a + b <= 2 * One * c + b
    BY DEF One
  <1>4. (2 * b) * q \in Int /\ 2 * One * a + b \in Int /\ 2 * One * c + b \in Int
    BY <1>1 DEF One
  <1>5. (2 * b) * q <= 2 * One * c + b
    BY <1>2, <1>3, <1>4
  <1> QED BY <1>1, <1>5, RatioIsAtLeast DEF q

\* The ratio of k times the denominator is k.
LEMMA RatioOfMultiple ==
  ASSUME NEW k \in Nat, NEW b \in Nat \ {0}
  PROVE  k * b \in Nat /\ Ratio(k * b, b) = One * k
  <1> DEFINE r == Ratio(k * b, b)
             p == b * k
  <1>1. p \in Nat /\ k * b = p
    OBVIOUS
  <1>2. r \in Nat
    BY <1>1, RatioIsAtLeast
  <1>3. One * k <= r
    <2>1. (2 * b) * (One * k) = 2 * One * p
      BY DEF One
    <2>2. (2 * b) * (One * k) <= 2 * One * p + b
      BY <1>1, <2>1 DEF One
    <2>3. One * k \in Int
      BY DEF One
    <2> QED BY <1>1, <2>2, <2>3, RatioIsAtLeast
  <1>4. ~(One * k + 1 <= r)
    <2>1. (2 * b) * (One * k + 1) = 2 * One * p + 2 * b
      BY DEF One
    <2>2. ~((2 * b) * (One * k + 1) <= 2 * One * p + b)
      BY <1>1, <2>1 DEF One
    <2>3. One * k + 1 \in Int
      BY DEF One
    <2> QED BY <1>1, <2>2, <2>3, RatioIsAtLeast
  <1> HIDE DEF r, p
  <1>5. r = One * k
    BY <1>2, <1>3, <1>4 DEF One
  <1> QED BY <1>1, <1>5 DEF r

\* Shares lie between nothing and everything.
LEMMA RatiosOfParts ==
  ASSUME NEW b \in Nat \ {0}, NEW a \in 0..b
  PROVE  Ratio(a, b) \in 0..One /\ (a = 0 => Ratio(a, b) = 0)
  <1>1. Ratio(0, b) = 0 /\ Ratio(b, b) = One
    <2>1. 0 * b = 0 /\ 1 * b = b /\ One * 0 = 0 /\ One * 1 = One
      BY DEF One
    <2>2. Ratio(0 * b, b) = One * 0 /\ Ratio(1 * b, b) = One * 1
      BY RatioOfMultiple
    <2> QED BY <2>1, <2>2
  <1>2. Ratio(a, b) \in Nat /\ Ratio(a, b) <= One
    <2>1. a \in Nat /\ a <= b /\ b \in Nat
      OBVIOUS
    <2>2. Ratio(a, b) <= Ratio(b, b)
      BY <2>1, RatiosGrow
    <2>3. Ratio(a, b) \in Nat
      BY <2>1, RatioIsAtLeast
    <2> QED BY <1>1, <2>2, <2>3
  <1>3. Ratio(a, b) \in 0..One
    <2> DEFINE r == Ratio(a, b)
    <2>1. r \in Nat /\ r <= One
      BY <1>2
    <2> HIDE DEF r
    <2>2. r \in 0..One
      BY <2>1 DEF One
    <2> QED BY <2>2 DEF r
  <1>4. CASE a = 0
    BY <1>1, <1>3, <1>4
  <1>5. CASE a # 0
    BY <1>3, <1>5
  <1> QED BY <1>4, <1>5

\* The totals of the first numbers of a list.
Summing(v, n, g) ==
  /\ DOMAIN g = 0..n
  /\ g = [m \in 0..n |-> g[m]]
  /\ \A m \in 0..n : g[m] = IF m = 0 THEN 0 ELSE g[m - 1] + v[m]

IsSum(v, g) == g = [m \in 0..Len(v) |-> IF m = 0 THEN 0 ELSE g[m - 1] + v[m]]

\* There are such.
LEMMA SumsExist ==
  ASSUME NEW v, NEW k \in Nat
  PROVE  \E g : Summing(v, k, g)
  <1> DEFINE T == {n \in Nat : \E g : Summing(v, n, g)}
  <1>1. 0 \in T
    <2> DEFINE g == [m \in 0..0 |-> 0]
    <2>1. DOMAIN g = 0..0 /\ g = [m \in 0..0 |-> g[m]] /\ \A m \in 0..0 : m = 0 /\ g[m] = 0
      OBVIOUS
    <2> HIDE DEF g
    <2>2. Summing(v, 0, g)
      BY <2>1 DEF Summing
    <2> QED BY <2>2
  <1>2. ASSUME NEW n \in T PROVE n + 1 \in T
    <2>1. PICK g : Summing(v, n, g)
      OBVIOUS
    <2>2. n \in Nat
      OBVIOUS
    <2> DEFINE last == g[n] + v[n + 1]
               h == [m \in 0..(n + 1) |-> IF m = n + 1 THEN last ELSE g[m]]
    <2>3. DOMAIN h = 0..(n + 1) /\ h = [m \in 0..(n + 1) |-> h[m]]
      OBVIOUS
    <2> HIDE DEF last
    <2>4. h[n + 1] = last /\ \A m \in 0..n : h[m] = g[m]
      BY <2>2
    <2> HIDE DEF h
    <2>5. ASSUME NEW m \in 0..(n + 1)
          PROVE  h[m] = IF m = 0 THEN 0 ELSE h[m - 1] + v[m]
      <3>1. CASE m = n + 1
        <4>1. n \in 0..n /\ m # 0 /\ m - 1 = n
          BY <2>2, <3>1
        <4>2. h[m - 1] = g[n]
          BY <2>4, <4>1
        <4> QED BY <2>4, <3>1, <4>1, <4>2 DEF last
      <3>2. CASE m # n + 1
        <4>1. m \in 0..n /\ (m # 0 => m - 1 \in 0..n)
          BY <2>2, <3>2
        <4>2. g[m] = IF m = 0 THEN 0 ELSE g[m - 1] + v[m]
          BY <2>1, <4>1 DEF Summing
        <4> QED BY <2>4, <4>1, <4>2
      <3> QED BY <3>1, <3>2
    <2>6. Summing(v, n + 1, h)
      BY <2>3, <2>5 DEF Summing
    <2> QED BY <2>2, <2>6
  <1>3. T = Nat
    <2> HIDE DEF T
    <2>1. T \in SUBSET Nat
      BY DEF T
    <2> QED BY <1>1, <1>2, <2>1, Reaches
  <1> QED BY <1>3

\* Total is the last of them.
LEMMA TotalSums ==
  ASSUME NEW v, Len(v) \in Nat
  PROVE  \E g : Summing(v, Len(v), g) /\ Total(v) = g[Len(v)]
  <1> DEFINE n == Len(v)
             g == CHOOSE h : IsSum(v, h)
  <1>1. PICK f : Summing(v, n, f)
    BY SumsExist
  <1>2. IsSum(v, f)
    BY <1>1 DEF Summing, IsSum
  <1>3. IsSum(v, g)
    BY <1>2
  <1>4. Total(v) = g[n]
    BY DEF Total, IsSum
  <1> HIDE DEF g
  <1>5. DOMAIN g = 0..n /\ g = [m \in 0..n |-> g[m]]
    BY <1>3 DEF IsSum
  <1>6. \A m \in 0..n : g[m] = IF m = 0 THEN 0 ELSE g[m - 1] + v[m]
    BY <1>3 DEF IsSum
  <1>7. Summing(v, n, g)
    BY <1>5, <1>6 DEF Summing
  <1> QED BY <1>4, <1>7

\* Lists of natural numbers with as many elements, the second one's at least as large.
Under(v, w) ==
  /\ v \in Seq(Nat) /\ w \in Seq(Nat) /\ Len(w) = Len(v)
  /\ \A i \in 1..Len(v) : v[i] <= w[i]

\* Totals grow with the numbers.
LEMMA TotalsGrow ==
  ASSUME NEW v, NEW w, Under(v, w)
  PROVE  Total(v) \in Nat /\ Total(w) \in Nat /\ Total(v) <= Total(w)
  <1> DEFINE n == Len(v)
  <1>1. n \in Nat /\ Len(w) = n
        /\ \A i \in 1..n : v[i] \in Nat /\ w[i] \in Nat /\ v[i] <= w[i]
    BY DEF Under
  <1>2. PICK f : Summing(v, n, f) /\ Total(v) = f[n]
    BY <1>1, TotalSums
  <1>3. PICK g : Summing(w, n, g) /\ Total(w) = g[n]
    BY <1>1, TotalSums
  <1> HIDE DEF n
  <1> DEFINE T == {m \in Nat : m <= n => f[m] \in Nat /\ g[m] \in Nat /\ f[m] <= g[m]}
  <1>4. 0 \in T
    <2>1. 0 \in 0..n
      BY <1>1
    <2>2. f[0] = 0 /\ g[0] = 0
      BY <1>2, <1>3, <2>1 DEF Summing
    <2> QED BY <2>2
  <1>5. ASSUME NEW m \in T PROVE m + 1 \in T
    <2> SUFFICES ASSUME m + 1 <= n
                 PROVE  f[m + 1] \in Nat /\ g[m + 1] \in Nat /\ f[m + 1] <= g[m + 1]
      OBVIOUS
    <2>1. m + 1 \in 0..n /\ m + 1 # 0 /\ (m + 1) - 1 = m /\ m + 1 \in 1..n /\ m \in Nat
      BY <1>1
    <2>2. f[m + 1] = f[m] + v[m + 1] /\ g[m + 1] = g[m] + w[m + 1]
      BY <1>2, <1>3, <2>1 DEF Summing
    <2>3. f[m] \in Nat /\ g[m] \in Nat /\ f[m] <= g[m]
      BY <1>1, <2>1
    <2>4. v[m + 1] \in Nat /\ w[m + 1] \in Nat /\ v[m + 1] <= w[m + 1]
      BY <1>1, <2>1
    <2> QED BY <2>2, <2>3, <2>4
  <1>6. T = Nat
    <2> HIDE DEF T
    <2>1. T \in SUBSET Nat
      BY DEF T
    <2> QED BY <1>4, <1>5, <2>1, Reaches
  <1>7. f[n] \in Nat /\ g[n] \in Nat /\ f[n] <= g[n]
    BY <1>1, <1>6
  <1> QED BY <1>2, <1>3, <1>7

\* The total of n equal numbers is their product.
LEMMA TotalOfEqual ==
  ASSUME NEW n \in Nat, NEW k \in Nat
  PROVE  Total([i \in 1..n |-> k]) = k * n
  <1> DEFINE v == [i \in 1..n |-> k]
  <1>1. Len(v) = n /\ \A i \in 1..n : v[i] = k
    <2>1. v \in Seq(Nat) /\ Len(v) = n
      <3>1. v \in [1..n -> Nat]
        OBVIOUS
      <3> HIDE DEF v
      <3> QED BY <3>1, ListsAreSequences
    <2> QED BY <2>1
  <1> HIDE DEF v
  <1>2. PICK f : Summing(v, n, f) /\ Total(v) = f[n]
    BY <1>1, TotalSums
  <1> DEFINE T == {m \in Nat : m <= n => f[m] = k * m}
  <1>3. 0 \in T
    <2>1. 0 \in 0..n /\ k * 0 = 0
      OBVIOUS
    <2>2. f[0] = 0
      BY <1>2, <2>1 DEF Summing
    <2> QED BY <2>1, <2>2
  <1>4. ASSUME NEW m \in T PROVE m + 1 \in T
    <2> SUFFICES ASSUME m + 1 <= n PROVE f[m + 1] = k * (m + 1)
      OBVIOUS
    <2>1. m + 1 \in 0..n /\ m + 1 # 0 /\ (m + 1) - 1 = m /\ m + 1 \in 1..n /\ m \in Nat
      OBVIOUS
    <2>2. f[m + 1] = f[m] + v[m + 1]
      BY <1>2, <2>1 DEF Summing
    <2>3. f[m] = k * m
      BY <2>1
    <2>4. v[m + 1] = k
      BY <1>1, <2>1
    <2>5. k * (m + 1) = k * m + k
      BY <2>1
    <2> QED BY <2>2, <2>3, <2>4, <2>5
  <1>5. T = Nat
    <2> HIDE DEF T
    <2>1. T \in SUBSET Nat
      BY DEF T
    <2> QED BY <1>3, <1>4, <2>1, Reaches
  <1>6. f[n] = k * n
    BY <1>5
  <1> QED BY <1>2, <1>6 DEF v

\* Means grow with the numbers.
LEMMA MeansGrow ==
  ASSUME NEW v, NEW w, Under(v, w)
  PROVE  Mean(v) <= Mean(w)
  <1>1. v \in Seq(Nat) /\ w \in Seq(Nat) /\ Len(w) = Len(v)
    BY DEF Under
  <1>2. CASE Len(v) = 0
    <2>1. v = <<>> /\ w = <<>>
      BY <1>1, <1>2, EmptySeq
    <2> QED BY <2>1 DEF Mean
  <1>3. CASE Len(v) # 0
    <2>1. v # <<>> /\ w # <<>>
      BY <1>1, <1>3, EmptySeq
    <2> DEFINE n == One * Len(v)
    <2>2. Mean(v) = Ratio(Total(v), n) /\ Mean(w) = Ratio(Total(w), n)
      BY <1>1, <2>1 DEF Mean
    <2>3. n \in Nat \ {0}
      BY <1>1, <1>3 DEF One
    <2> HIDE DEF n
    <2>4. Total(v) \in Nat /\ Total(w) \in Nat /\ Total(v) <= Total(w)
      BY TotalsGrow
    <2>5. Ratio(Total(v), n) <= Ratio(Total(w), n)
      BY <2>3, <2>4, RatiosGrow
    <2> QED BY <2>2, <2>5
  <1> QED BY <1>2, <1>3

-----------------------------------------------------------------------------
(* The statistics of a benchmark.                                          *)

\* The positions of samples in the order of sorted.
Upwards(s, i, j) == s[i] < s[j] \/ (i < j /\ ~(s[j] < s[i]))

UpwardOrder(s) == {p \in (DOMAIN s) \X (DOMAIN s) : Upwards(s, p[1], p[2])}

UpwardPlace(s, k) ==
  CHOOSE x \in DOMAIN s : Cardinality({y \in DOMAIN s : Upwards(s, y, x)}) = k - 1

UpwardList(s) == [k \in 1..Cardinality(DOMAIN s) |-> UpwardPlace(s, k)]

\* UpwardList is a list.
LEMMA UpwardListIsList ==
  ASSUME NEW s
  PROVE  UpwardList(s) = [k \in 1..Cardinality(DOMAIN s) |-> UpwardList(s)[k]]
  BY DEF UpwardList

\* It is the order of the samples.
LEMMA UpwardListSorts ==
  ASSUME NEW s
  PROVE  Ordered(s) = [k \in DOMAIN s |-> s[UpwardList(s)[k]]]
  BY DEF Ordered, Sorted, Listed, UpwardList, UpwardPlace, Upwards

\* o is s in order.
InOrder(o, s) ==
  /\ o \in Seq(Nat) /\ Len(o) = Len(s)
  /\ \A k \in 1..Len(s) : \E i \in 1..Len(s) : o[k] = s[i]
  /\ \A i \in 1..Len(s) : \E k \in 1..Len(s) : o[k] = s[i]
  /\ \A j, k \in 1..Len(s) : j <= k => o[j] <= o[k]

\* Ordered samples are the samples in order.
LEMMA OrderedIsInOrder ==
  ASSUME NEW s \in Seq(Nat)
  PROVE  InOrder(Ordered(s), s)
  <1> DEFINE n == Len(s)
             R == UpwardOrder(s)
             l == Ranked(1..n, R)
             o == Ordered(s)
  <1>1. n \in Nat /\ DOMAIN s = 1..n /\ \A i \in 1..n : s[i] \in Nat
    OBVIOUS
  <1> HIDE DEF n
  <1>2. \A i, j \in 1..n : <<i, j>> \in R <=> Upwards(s, i, j)
    BY <1>1 DEF UpwardOrder
  <1>3. Orders(R, 1..n)
    <2>1. \A i \in 1..n : i \in Nat /\ s[i] \in Nat
      BY <1>1
    <2>2. \A i \in 1..n : ~Upwards(s, i, i)
      BY <2>1 DEF Upwards
    <2>3. \A i, j, k \in 1..n : Upwards(s, i, j) /\ Upwards(s, j, k) => Upwards(s, i, k)
      BY <2>1 DEF Upwards
    <2>4. \A i, j \in 1..n : i # j => Upwards(s, i, j) \/ Upwards(s, j, i)
      BY <2>1 DEF Upwards
    <2> HIDE DEF R
    <2> QED BY <1>2, <2>2, <2>3, <2>4 DEF Orders
  <1>4. IsFiniteSet(1..n) /\ Cardinality(1..n) = n
    BY <1>1, FS_Interval
  <1>5. GoesThrough(l, 1..n, R)
    BY <1>3, <1>4, RankedGoesThrough
  <1>6. \A x \in 1..n : Below(x, 1..n, R) = {y \in DOMAIN s : Upwards(s, y, x)}
    BY <1>1, <1>2 DEF Below
  <1> HIDE DEF R
  <1>7. l = UpwardList(s)
    <2>1. l = [k \in 1..Cardinality(1..n) |-> l[k]]
      BY DEF Ranked
    <2>2. UpwardList(s) = [k \in 1..Cardinality(DOMAIN s) |-> UpwardList(s)[k]]
      BY UpwardListIsList
    <2>3. ASSUME NEW k \in 1..n PROVE l[k] = UpwardList(s)[k]
      <3>1. l[k] = CHOOSE x \in 1..n : Cardinality(Below(x, 1..n, R)) = k - 1
        BY <1>4 DEF Ranked
      <3>2. UpwardList(s)[k] =
              CHOOSE x \in DOMAIN s : Cardinality({y \in DOMAIN s : Upwards(s, y, x)}) = k - 1
        BY <1>1, <1>4 DEF UpwardList, UpwardPlace
      <3> HIDE DEF l
      <3> QED BY <1>1, <1>6, <3>1, <3>2
    <2> HIDE DEF l
    <2> QED BY <1>1, <1>4, <2>1, <2>2, <2>3
  <1> HIDE DEF l
  <1>8. o = [k \in 1..n |-> s[l[k]]]
    BY <1>1, <1>7, UpwardListSorts
  <1> HIDE DEF o
  <1>9. /\ l \in [1..n -> 1..n]
        /\ \A i \in 1..n : \E k \in 1..n : l[k] = i
        /\ \A j, k \in 1..n : j < k => <<l[j], l[k]>> \in R
    BY <1>4, <1>5 DEF GoesThrough
  <1>10. \A k \in 1..n : l[k] \in 1..n /\ o[k] = s[l[k]] /\ o[k] \in Nat
    BY <1>1, <1>8, <1>9
  <1>11. o \in Seq(Nat) /\ Len(o) = n
    <2>1. o \in [1..n -> Nat]
      BY <1>8, <1>10
    <2> QED BY <1>1, <2>1, ListsAreSequences
  <1>12. ASSUME NEW i \in 1..n PROVE \E k \in 1..n : o[k] = s[i]
    <2>1. PICK k \in 1..n : l[k] = i
      BY <1>9
    <2>2. o[k] = s[i]
      BY <1>10, <2>1
    <2> QED BY <2>2
  <1>13. ASSUME NEW j \in 1..n, NEW k \in 1..n, j <= k PROVE o[j] <= o[k]
    <2>1. CASE j = k
      BY <1>10, <2>1
    <2>2. CASE j # k
      <3>1. j < k
        BY <1>13, <2>2
      <3>2. Upwards(s, l[j], l[k])
        BY <1>2, <1>9, <1>10, <3>1
      <3>3. s[l[j]] \in Nat /\ s[l[k]] \in Nat
        BY <1>1, <1>10
      <3>4. s[l[j]] <= s[l[k]]
        BY <3>2, <3>3 DEF Upwards
      <3> QED BY <1>10, <3>4
    <2> QED BY <2>1, <2>2
  <1>14. \A k \in 1..n : \E i \in 1..n : o[k] = s[i]
    BY <1>10
  <1> QED BY <1>11, <1>12, <1>13, <1>14 DEF InOrder, o, n

\* The ranks of the smallest, the middle and the 95th percentile come in that order.
LEMMA RanksOfStatistics ==
  ASSUME NEW n \in Nat \ {0}
  PROVE  /\ (95 * n + 99) \div 100 \in 1..n
         /\ (n + 1) \div 2 \in 1..((95 * n + 99) \div 100)
         /\ n \div 2 + 1 \in 1..((95 * n + 99) \div 100)
  <1> DEFINE p == (95 * n + 99) \div 100
             a == (n + 1) \div 2
             b == n \div 2
  <1>1. p \in Int /\ 100 * p <= 95 * n + 99 /\ 95 * n + 99 < 100 * (p + 1)
    OBVIOUS
  <1>2. a \in Int /\ 2 * a <= n + 1 /\ n + 1 < 2 * (a + 1)
    OBVIOUS
  <1>3. b \in Int /\ 2 * b <= n /\ n < 2 * (b + 1)
    OBVIOUS
  <1> HIDE DEF p, a, b
  <1>4. p \in 1..n
    BY <1>1
  <1>5. a \in 1..p
    BY <1>1, <1>2
  <1>6. b + 1 \in 1..p
    BY <1>1, <1>3
  <1> QED BY <1>4, <1>5, <1>6 DEF p, a, b

\* What the summary of a phase says was observed.
LEMMA SummaryIsObserved ==
  ASSUME NEW s \in Seq(Nat), Len(s) # 0, \A i \in 1..Len(s) : s[i] \in Durations
  PROVE  PhaseIsObserved(Summary(s), Len(s))
  <1> DEFINE n == Len(s)
             o == Ordered(s)
             p == (95 * n + 99) \div 100
             a == (n + 1) \div 2
             b == n \div 2 + 1
  <1>1. n \in Nat \ {0} /\ InOrder(o, s)
    BY OrderedIsInOrder
  <1>2. p \in 1..n /\ a \in 1..p /\ b \in 1..p
    BY <1>1, RanksOfStatistics
  <1>3. Summary(s) = [samples |-> n, mean |-> Ratio(Total(s), n), twiceMedian |-> o[a] + o[b],
                      p95 |-> o[p], min |-> o[1], max |-> o[n]]
    <2>2. TwiceMedian(s) = o[a] + o[b] /\ Percentile(s, 95) = o[p]
      BY DEF TwiceMedian, Percentile
    <2> HIDE DEF a, b, p
    <2>3. Summary(s) = [samples |-> n, mean |-> Ratio(Total(s), n),
                        twiceMedian |-> TwiceMedian(s), p95 |-> Percentile(s, 95),
                        min |-> o[1], max |-> o[n]]
      BY DEF Summary
    <2> HIDE DEF o, n
    <2> QED BY <2>2, <2>3
  <1> HIDE DEF n, o, p, a, b
  <1>4. /\ \A k \in 1..n : o[k] \in Nat /\ o[k] \in Durations
        /\ \A i \in 1..n : \E k \in 1..n : o[k] = s[i]
        /\ \A j, k \in 1..n : j <= k => o[j] <= o[k]
    <2>1. /\ o \in Seq(Nat) /\ Len(o) = n
          /\ \A k \in 1..n : \E i \in 1..n : o[k] = s[i]
          /\ \A i \in 1..n : \E k \in 1..n : o[k] = s[i]
          /\ \A j, k \in 1..n : j <= k => o[j] <= o[k]
      BY <1>1 DEF InOrder, n
    <2>2. \A k \in 1..n : o[k] \in Nat
      <3>1. o \in Seq(Nat) /\ Len(o) = n
        BY <2>1
      <3> QED BY <3>1
    <2>3. \A k \in 1..n : o[k] \in Durations
      BY <2>1 DEF n
    <2> QED BY <2>1, <2>2, <2>3
  <1>5. 1 \in 1..n /\ n \in 1..n /\ a \in 1..n /\ b \in 1..n /\ p \in 1..n
        /\ 1 <= p /\ p <= n /\ 1 <= a /\ a <= p /\ 1 <= b /\ b <= p
    BY <1>1, <1>2
  <1>6. /\ o[1] <= o[p] /\ o[p] <= o[n] /\ o[1] <= o[a] /\ o[a] <= o[p]
        /\ o[1] <= o[b] /\ o[b] <= o[p]
    BY <1>4, <1>5
  <1>7. o[1] \in Nat /\ o[p] \in Nat /\ o[n] \in Nat /\ o[a] \in Nat /\ o[b] \in Nat
    BY <1>4, <1>5
  <1>8. 2 * o[1] <= o[a] + o[b] /\ o[a] + o[b] <= 2 * o[p]
    BY <1>6, <1>7
  <1>9. ASSUME NEW i \in 1..n PROVE s[i] \in Nat /\ o[1] <= s[i] /\ s[i] <= o[n]
    <2>1. PICK k \in 1..n : o[k] = s[i]
      BY <1>4
    <2>2. 1 <= k /\ k <= n
      BY <1>1
    <2> QED BY <1>4, <1>5, <2>1, <2>2
  <1>10. One * o[1] <= Ratio(Total(s), n) /\ Ratio(Total(s), n) <= One * o[n]
    <2> DEFINE low == [i \in 1..n |-> o[1]]
               high == [i \in 1..n |-> o[n]]
               x == o[1]
               y == o[n]
    <2>1. x \in Nat /\ y \in Nat
      BY <1>7
    <2>2. low \in Seq(Nat) /\ Len(low) = n /\ high \in Seq(Nat) /\ Len(high) = n
      <3>1. low \in [1..n -> Nat] /\ high \in [1..n -> Nat]
        BY <1>7
      <3> HIDE DEF low, high
      <3> QED BY <1>1, <3>1, ListsAreSequences
    <2>3. \A i \in 1..n : low[i] = o[1] /\ high[i] = o[n]
      OBVIOUS
    <2>4. Total(low) = x * n /\ Total(high) = y * n
      BY <1>1, <2>1, TotalOfEqual
    <2> HIDE DEF low, high
    <2>5. Under(low, s) /\ Under(s, high)
      BY <1>9, <2>2, <2>3 DEF Under, n
    <2>6. /\ Total(low) \in Nat /\ Total(s) \in Nat /\ Total(high) \in Nat
          /\ Total(low) <= Total(s) /\ Total(s) <= Total(high)
      BY <2>5, TotalsGrow
    <2>7. Ratio(x * n, n) = One * x /\ Ratio(y * n, n) = One * y
      BY <1>1, <2>1, RatioOfMultiple
    <2> HIDE DEF x, y
    <2>8. Ratio(Total(low), n) <= Ratio(Total(s), n)
      BY <1>1, <2>6, RatiosGrow
    <2>9. Ratio(Total(s), n) <= Ratio(Total(high), n)
      BY <1>1, <2>6, RatiosGrow
    <2> QED BY <2>4, <2>7, <2>8, <2>9 DEF x, y
  <1> DEFINE S == Summary(s)
  <1>11. /\ S.samples = n /\ S.mean = Ratio(Total(s), n) /\ S.twiceMedian = o[a] + o[b]
         /\ S.p95 = o[p] /\ S.min = o[1] /\ S.max = o[n]
    BY <1>3
  <1> HIDE DEF S
  <1>12. {S.min, S.p95, S.max} \subseteq Durations
    BY <1>4, <1>5, <1>11
  <1>13. PhaseIsObserved(S, n)
    BY <1>6, <1>8, <1>10, <1>11, <1>12 DEF PhaseIsObserved
  <1> QED BY <1>13 DEF S, n

-----------------------------------------------------------------------------
(* The measures of one case.                                               *)

\* What a function gives for finitely many arguments is finite.
LEMMA ImagesAreFinite ==
  ASSUME NEW S, IsFiniteSet(S), NEW f
  PROVE  IsFiniteSet({f[x] : x \in S})
  <1> DEFINE T == {f[x] : x \in S}
             g == [x \in S |-> f[x]]
  <1>1. g \in Surjection(S, T)
    BY DEF Surjection
  <1> HIDE DEF g, T
  <1>2. IsFiniteSet(T)
    BY <1>1, FS_Surjection
  <1> QED BY <1>2 DEF T

\* As many of the n positions of d hold elements of R as d has of them.
CountsOf(n, d, R) ==
  LET I == {i \in DOMAIN d : d[i] \in R}
  IN  /\ IsFiniteSet(I) /\ IsFiniteSet(ToSet(d) \cap R)
      /\ Cardinality(I) = Cardinality(ToSet(d) \cap R)
      /\ Cardinality(I) \in 0..n

\* This is so if d holds nothing twice.
LEMMA DistinctElementsCount ==
  ASSUME NEW n \in Nat, NEW d, DOMAIN d = 1..n,
         \A i, j \in 1..n : d[i] = d[j] => i = j, NEW R
  PROVE  CountsOf(n, d, R)
  <1> DEFINE I == {i \in DOMAIN d : d[i] \in R}
             T == ToSet(d) \cap R
             f == [i \in I |-> d[i]]
  <1>1. IsFiniteSet(I) /\ Cardinality(I) \in 0..n
    BY PositionsAreFinite
  <1>2. T = {d[i] : i \in I}
    BY DEF ToSet
  <1>3. f \in [I -> T]
    BY <1>2
  <1>4. f \in Injection(I, T)
    BY <1>3 DEF Injection, IsInjective
  <1>5. f \in Surjection(I, T)
    BY <1>2, <1>3 DEF Surjection
  <1>6. ExistsBijection(I, T)
    BY <1>4, <1>5 DEF ExistsBijection, Bijection
  <1> HIDE DEF I, T, f
  <1>7. IsFiniteSet(T) /\ Cardinality(T) = Cardinality(I)
    BY <1>1, <1>6, FS_Bijection
  <1> QED BY <1>1, <1>7 DEF CountsOf, I, T

\* d has each element of ids once.
HasEachOnce(d, ids) ==
  /\ DOMAIN d = 1..Len(d) /\ Len(d) \in Nat /\ Len(d) <= Len(ids)
  /\ ToSet(d) = ToSet(ids)
  /\ \A i, j \in 1..Len(d) : d[i] = d[j] => i = j
  /\ d \in Seq(ToSet(ids))

\* Collapsing keeps the first of each.
LEMMA DedupedHasEachOnce ==
  ASSUME NEW ids, DOMAIN ids = 1..Len(ids), Len(ids) \in Nat
  PROVE  HasEachOnce(Deduped(ids), ids)
  <1> DEFINE n == Len(ids)
             P == {i \in DOMAIN ids : \A j \in 1..(i - 1) : ids[j] # ids[i]}
             d == Deduped(ids)
  <1>1. n \in Nat /\ P \subseteq 1..n /\ DOMAIN ids = 1..n
    OBVIOUS
  <1>2. d = At(ids, P)
    BY DEF Deduped
  <1>3. \A i \in P : ids[i] \in ToSet(ids)
    BY DEF ToSet
  <1>4. \A i \in P : \A j \in 1..(i - 1) : ids[j] # ids[i]
    OBVIOUS
  <1>5. ASSUME NEW x \in ToSet(ids) PROVE \E i \in P : ids[i] = x
    <2> DEFINE S == {i \in 1..n : ids[i] = x}
    <2>1. S \in SUBSET Nat /\ S # {}
      BY <1>1 DEF ToSet
    <2>2. PICK i \in S : \A j \in S : i <= j
      <3> HIDE DEF S
      <3> QED BY <2>1, LeastOf
    <2>3. \A j \in 1..(i - 1) : ids[j] # ids[i]
      <3> SUFFICES ASSUME NEW j \in 1..(i - 1), ids[j] = ids[i] PROVE FALSE
        OBVIOUS
      <3>1. i \in 1..n /\ ids[i] = x
        OBVIOUS
      <3>2. j \in S
        BY <1>1, <3>1
      <3>3. i <= j
        BY <2>2, <3>2
      <3> QED BY <1>1, <3>1, <3>3
    <2>4. i \in P
      BY <1>1, <2>3
    <2> QED BY <2>4
  <1> HIDE DEF P, d
  <1>6. /\ At(ids, P) \in Seq(ToSet(ids)) /\ Len(At(ids, P)) = Cardinality(P)
        /\ Cardinality(P) \in Nat /\ DOMAIN At(ids, P) = 1..Cardinality(P)
    BY <1>1, <1>3, AtIsList
  <1>7. HasElements(At(ids, P), ids, P)
    BY <1>1, AtHasElements
  <1>8. Cardinality(P) <= n
    <2>1. Cardinality(P) \in 0..n
      BY <1>1, PositionsAreFinite
    <2> QED BY <1>1, <2>1
  <1>9. ToSet(d) = ToSet(ids)
    <2>1. \A x \in ToSet(d) : x \in ToSet(ids)
      BY <1>2, <1>3, <1>7 DEF HasElements, ToSet
    <2>2. \A x \in ToSet(ids) : x \in ToSet(d)
      BY <1>2, <1>5, <1>7 DEF HasElements, ToSet
    <2> QED BY <2>1, <2>2
  <1>10. ASSUME NEW i \in 1..Cardinality(P), NEW j \in 1..Cardinality(P), d[i] = d[j]
         PROVE  i = j
    <2>1. AtSelection(ids, P)
      BY <1>1, AtSelects
    <2>2. PICK l : SelectedBy(l, P) /\ d = [k \in 1..Cardinality(P) |-> ids[l[k]]]
      BY <1>2, <2>1 DEF AtSelection
    <2>3. /\ l[i] \in P /\ l[j] \in P /\ d[i] = ids[l[i]] /\ d[j] = ids[l[j]]
          /\ i < j => l[i] < l[j]
          /\ j < i => l[j] < l[i]
      BY <2>2 DEF SelectedBy
    <2>4. l[i] \in 1..n /\ l[j] \in 1..n
      BY <1>1, <2>3
    <2>5. ~(l[i] < l[j])
      <3> SUFFICES ASSUME l[i] < l[j] PROVE FALSE
        OBVIOUS
      <3>1. l[i] \in 1..(l[j] - 1)
        BY <2>4
      <3> QED BY <1>4, <1>10, <2>3, <3>1
    <2>6. ~(l[j] < l[i])
      <3> SUFFICES ASSUME l[j] < l[i] PROVE FALSE
        OBVIOUS
      <3>1. l[j] \in 1..(l[i] - 1)
        BY <2>4
      <3> QED BY <1>4, <1>10, <2>3, <3>1
    <2>7. i \in Nat /\ j \in Nat
      OBVIOUS
    <2> QED BY <2>3, <2>5, <2>6, <2>7
  <1>11. d \in Seq(ToSet(ids)) /\ Len(d) = Cardinality(P) /\ DOMAIN d = 1..Cardinality(P)
    BY <1>2, <1>6
  <1>12. HasEachOnce(d, ids)
    BY <1>6, <1>8, <1>9, <1>10, <1>11 DEF HasEachOnce
  <1> QED BY <1>12 DEF d

\* The first k of a list of at most k are all of it.
LEMMA TopOfShort ==
  ASSUME NEW X, NEW ids \in Seq(X), NEW k \in Nat
  PROVE  /\ Top(ids, k) \in Seq(X) /\ Len(Top(ids, k)) <= k
         /\ DOMAIN Top(ids, k) = 1..Len(Top(ids, k)) /\ Len(Top(ids, k)) \in Nat
         /\ Len(ids) <= k => Top(ids, k) = ids
  <1> DEFINE m == IF k < Len(ids) THEN k ELSE Len(ids)
             t == Top(ids, k)
  <1>1. m \in Nat /\ m <= k /\ m <= Len(ids) /\ (Len(ids) <= k => m = Len(ids))
    OBVIOUS
  <1>2. t = SubSeq(ids, 1, m)
    BY DEF Top
  <1> HIDE DEF m
  <1>3. /\ SubSeq(ids, 1, m) \in Seq(X) /\ Len(SubSeq(ids, 1, m)) = m
        /\ \A i \in 1..m : SubSeq(ids, 1, m)[i] = ids[i]
    BY <1>1
  <1>4. Len(ids) <= k => t = ids
    <2> HAVE Len(ids) <= k
    <2>1. Len(t) = Len(ids) /\ t \in Seq(X) /\ \A i \in 1..Len(ids) : t[i] = ids[i]
      BY <1>1, <1>2, <1>3
    <2> HIDE DEF t
    <2> QED BY <2>1, SeqEqual
  <1> HIDE DEF t
  <1>5. t \in Seq(X) /\ Len(t) = m
    BY <1>2, <1>3
  <1>6. DOMAIN t = 1..Len(t)
    BY <1>5
  <1> QED BY <1>1, <1>4, <1>5, <1>6 DEF t

\* A list has as many elements as positions if it has each once.
LEMMA LengthIsCount ==
  ASSUME NEW d, NEW ids, HasEachOnce(d, ids)
  PROVE  IsFiniteSet(ToSet(d)) /\ Cardinality(ToSet(d)) = Len(d)
  <1> DEFINE n == Len(d)
             I == {i \in DOMAIN d : d[i] \in ToSet(d)}
  <1>1. n \in Nat /\ DOMAIN d = 1..n /\ \A i, j \in 1..n : d[i] = d[j] => i = j
    BY DEF HasEachOnce
  <1>2. I = 1..n
    BY <1>1 DEF ToSet
  <1>3. ToSet(d) \cap ToSet(d) = ToSet(d)
    OBVIOUS
  <1>4. /\ IsFiniteSet(ToSet(d) \cap ToSet(d))
        /\ Cardinality(I) = Cardinality(ToSet(d) \cap ToSet(d))
    BY <1>1, DistinctElementsCount DEF CountsOf
  <1>5. Cardinality(1..n) = n
    BY <1>1, FS_Interval
  <1> HIDE DEF I
  <1> QED BY <1>2, <1>3, <1>4, <1>5

\* The measures of a case over the documents ids.
MeasuresOf(case, ids, relevant, k) ==
  /\ case.retrieved = Deduped(ids) /\ case.relevant = relevant
  /\ case.precision = PrecisionAtK(ids, relevant, k)
  /\ case.recall = RecallAtK(ids, relevant, k)
  /\ case.rank = ReciprocalRank(ids, relevant)
  /\ case.hit = ContextHit(ids, relevant)

\* They agree if there are at most k.
LEMMA MeasuresOfFewAgree ==
  ASSUME NEW case, NEW k \in Nat, NEW ids, DOMAIN ids = 1..Len(ids), Len(ids) \in Nat,
         Len(ids) <= k, NEW relevant, MeasuresOf(case, ids, relevant, k)
  PROVE  CaseAgrees(case)
  <1> DEFINE u == Deduped(ids)
             n == Len(u)
             I == {i \in DOMAIN u : u[i] \in relevant}
             T == ToSet(u) \cap relevant
  <1>1. HasEachOnce(u, ids)
    BY DedupedHasEachOnce
  <1>2. Cardinality(ToSet(u)) = n
    BY <1>1, LengthIsCount
  <1> HIDE DEF u
  <1>3. /\ n \in Nat /\ n <= k /\ DOMAIN u = 1..n /\ u \in Seq(ToSet(ids))
        /\ ToSet(u) = ToSet(ids)
        /\ \A i, j \in 1..n : u[i] = u[j] => i = j
    BY <1>1 DEF HasEachOnce
  <1>4. /\ IsFiniteSet(I) /\ IsFiniteSet(T) /\ Cardinality(I) = Cardinality(T)
        /\ Cardinality(I) \in 0..n
    <2>1. n \in Nat /\ DOMAIN u = 1..n /\ \A i, j \in 1..n : u[i] = u[j] => i = j
      BY <1>3
    <2> HIDE DEF n, I, T
    <2>2. \A R : CountsOf(n, u, R)
      BY <2>1, DistinctElementsCount
    <2> QED BY <2>2 DEF CountsOf, I, T
  <1>5. Top(u, k) = u
    BY <1>3, TopOfShort
  <1>6. Hits(u, relevant) = Cardinality(T)
    BY <1>4 DEF Hits
  <1>7. u = <<>> <=> n = 0
    BY <1>3, EmptySeq
  <1>8. case.precision = (IF n = 0 THEN 0 ELSE Ratio(Cardinality(T), n))
    <2>1. case.precision
            = IF Top(u, k) = <<>> THEN 0 ELSE Ratio(Hits(Top(u, k), relevant), Len(Top(u, k)))
      BY DEF MeasuresOf, PrecisionAtK, u
    <2> HIDE DEF T
    <2> QED BY <1>5, <1>6, <1>7, <2>1
  <1>9. case.recall = (IF relevant = {} THEN 0 ELSE Ratio(Cardinality(T), Cardinality(relevant)))
    <2>1. case.recall = IF relevant = {} THEN 0
                        ELSE Ratio(Hits(Top(u, k), relevant), Cardinality(relevant))
      BY DEF MeasuresOf, RecallAtK, u
    <2> HIDE DEF T
    <2> QED BY <1>5, <1>6, <2>1
  <1>10. case.hit <=> Cardinality(T) > 0
    <2>1. case.hit <=> T # {}
      BY <1>3 DEF MeasuresOf, ContextHit
    <2>2. Cardinality(T) = 0 <=> T = {}
      BY <1>4, FS_EmptySet
    <2>3. Cardinality(T) \in Nat
      BY <1>4, FS_CardinalityType
    <2> QED BY <2>1, <2>2, <2>3
  <1>11. I = {} <=> T = {}
    BY DEF ToSet
  <1>12. IF case.hit THEN \E rank \in 1..(n - Cardinality(T) + 1) : case.rank = Ratio(1, rank)
         ELSE case.rank = 0
    <2>1. case.rank = IF I = {} THEN 0
                      ELSE Ratio(1, CHOOSE r \in I : \A s \in I : r <= s)
      BY DEF MeasuresOf, ReciprocalRank, u
    <2>2. case.hit <=> I # {}
      BY <1>3, <1>11 DEF MeasuresOf, ContextHit
    <2>3. CASE I = {}
      BY <2>1, <2>2, <2>3
    <2>4. CASE I # {}
      <3> DEFINE r == CHOOSE r \in I : \A s \in I : r <= s
      <3>1. I \in SUBSET Nat /\ I \subseteq 1..n
        BY <1>3
      <3> HIDE DEF I
      <3>2. \E x \in I : \A s \in I : x <= s
        BY <2>4, <3>1, LeastOf
      <3>3. r \in I /\ \A s \in I : r <= s
        BY <3>2
      <3>4. case.rank = Ratio(1, r)
        BY <2>1, <2>4
      <3> HIDE DEF r
      <3>5. r \in 1..n
        BY <3>1, <3>3
      <3>6. I \subseteq r..n
        BY <3>1, <3>3, <3>5
      <3>7. Cardinality(I) <= n - r + 1
        <4>1. IsFiniteSet(r..n) /\ Cardinality(r..n) = n - r + 1
          BY <1>3, <3>5, FS_Interval
        <4> QED BY <3>6, <4>1, FS_Subset
      <3>8. r \in 1..(n - Cardinality(I) + 1)
        BY <1>3, <1>4, <3>5, <3>7
      <3>9. r \in 1..(n - Cardinality(T) + 1)
        BY <1>4, <3>8
      <3> QED BY <2>2, <2>4, <3>4, <3>9
    <2> QED BY <2>3, <2>4
  <1>13. case.retrieved = u /\ case.relevant = relevant
    BY DEF MeasuresOf, u
  <1> HIDE DEF I, n
  <1>14. Len(case.retrieved) = n /\ Cardinality(ToSet(case.retrieved)) = n
         /\ ToSet(case.retrieved) \cap case.relevant = T
    BY <1>2, <1>13 DEF n
  <1> HIDE DEF T
  <1> QED BY <1>8, <1>9, <1>10, <1>12, <1>13, <1>14 DEF CaseAgrees

\* A measure of a case is a share, nothing without a hit.
IsShare(m, case) == m \in Nat /\ m <= (IF case.hit THEN One ELSE 0)

\* So are the measures of a case that agrees.
LEMMA MeasuresAreShares ==
  ASSUME NEW case, CaseAgrees(case), IsFiniteSet(ToSet(case.retrieved)),
         IsFiniteSet(case.relevant)
  PROVE  IsShare(case.precision, case) /\ IsShare(case.recall, case) /\ IsShare(case.rank, case)
  <1> DEFINE R == ToSet(case.retrieved)
             n == Cardinality(R)
             hits == Cardinality(R \cap case.relevant)
             all == Cardinality(case.relevant)
  <1>1. /\ case.precision = (IF n = 0 THEN 0 ELSE Ratio(hits, n))
        /\ case.recall = (IF case.relevant = {} THEN 0 ELSE Ratio(hits, all))
        /\ case.hit <=> hits > 0
        /\ IF case.hit THEN \E rank \in 1..(n - hits + 1) : case.rank = Ratio(1, rank)
           ELSE case.rank = 0
    BY DEF CaseAgrees
  <1>2. n \in Nat /\ all \in Nat /\ (all = 0 <=> case.relevant = {})
    BY FS_CardinalityType, FS_EmptySet
  <1>3. hits \in Nat /\ hits <= n /\ hits <= all
    <2>1. R \cap case.relevant \subseteq R /\ R \cap case.relevant \subseteq case.relevant
      OBVIOUS
    <2>2. IsFiniteSet(R \cap case.relevant) /\ hits <= n /\ hits <= all
      BY <2>1, FS_Subset
    <2> QED BY <2>2, FS_CardinalityType
  <1> HIDE DEF R, n, hits, all
  <1>4. One \in Nat
    BY DEF One
  <1>5. IsShare(case.precision, case)
    <2>1. CASE n = 0
      <3>1. case.precision = 0
        BY <1>1, <2>1
      <3> QED BY <1>4, <3>1 DEF IsShare
    <2>2. CASE n # 0
      <3> DEFINE q == Ratio(hits, n)
      <3>1. case.precision = q
        BY <1>1, <2>2
      <3>2. hits \in 0..n /\ n \in Nat \ {0}
        BY <1>2, <1>3, <2>2
      <3>3. q \in 0..One /\ (hits = 0 => q = 0)
        BY <3>2, RatiosOfParts
      <3> HIDE DEF q
      <3>4. q \in Nat /\ q <= One /\ (~case.hit => q = 0)
        BY <1>1, <1>3, <1>4, <3>3
      <3> QED BY <1>4, <3>1, <3>4 DEF IsShare
    <2> QED BY <2>1, <2>2
  <1>6. IsShare(case.recall, case)
    <2>1. CASE case.relevant = {}
      <3>1. case.recall = 0
        BY <1>1, <2>1
      <3> QED BY <1>4, <3>1 DEF IsShare
    <2>2. CASE case.relevant # {}
      <3> DEFINE q == Ratio(hits, all)
      <3>1. case.recall = q
        BY <1>1, <2>2
      <3>2. hits \in 0..all /\ all \in Nat \ {0}
        BY <1>2, <1>3, <2>2
      <3>3. q \in 0..One /\ (hits = 0 => q = 0)
        BY <3>2, RatiosOfParts
      <3> HIDE DEF q
      <3>4. q \in Nat /\ q <= One /\ (~case.hit => q = 0)
        BY <1>1, <1>3, <1>4, <3>3
      <3> QED BY <1>4, <3>1, <3>4 DEF IsShare
    <2> QED BY <2>1, <2>2
  <1>7. IsShare(case.rank, case)
    <2>1. CASE ~case.hit
      <3>1. case.rank = 0
        BY <1>1, <2>1
      <3> QED BY <1>4, <3>1 DEF IsShare
    <2>2. CASE case.hit
      <3>1. PICK rank \in 1..(n - hits + 1) : case.rank = Ratio(1, rank)
        BY <1>1, <2>2
      <3> DEFINE q == Ratio(1, rank)
      <3>2. rank \in Nat \ {0} /\ 1 \in 0..rank
        BY <1>2, <1>3
      <3>3. q \in 0..One
        BY <3>2, RatiosOfParts
      <3> HIDE DEF q
      <3>4. q \in Nat /\ q <= One
        BY <1>4, <3>3
      <3> QED BY <2>2, <3>1, <3>4 DEF IsShare, q
    <2> QED BY <2>1, <2>2
  <1> QED BY <1>5, <1>6, <1>7

\* What agrees of a case, with the documents it retrieved finitely many.
SoundCase(case) ==
  /\ CaseAgrees(case) /\ IsFiniteSet(ToSet(case.retrieved)) /\ IsFiniteSet(case.relevant)
  /\ case.answerable \in BOOLEAN

-----------------------------------------------------------------------------
(* The averages of a report.                                               *)

\* Averages of shares do not exceed the rate of hits.
LEMMA AveragesStayBelow ==
  ASSUME NEW n \in Nat, NEW list, DOMAIN list = 1..n,
         NEW v, v = [i \in 1..n |-> v[i]], \A i \in 1..n : IsShare(v[i], list[i])
  PROVE  Mean(v) <= Mean([i \in 1..n |-> IF list[i].hit THEN One ELSE 0])
  <1> DEFINE w == [i \in 1..n |-> IF list[i].hit THEN One ELSE 0]
  <1>1. One \in Nat /\ 0 \in Nat
    BY DEF One
  <1>2. w \in [1..n -> Nat] /\ \A i \in 1..n : w[i] = IF list[i].hit THEN One ELSE 0
    BY <1>1
  <1> HIDE DEF w
  <1>3. \A i \in 1..n : v[i] \in Nat /\ v[i] <= w[i]
    BY <1>2 DEF IsShare
  <1>4. v \in [1..n -> Nat]
    BY <1>3
  <1>5. v \in Seq(Nat) /\ Len(v) = n /\ w \in Seq(Nat) /\ Len(w) = n
    BY <1>2, <1>4, ListsAreSequences
  <1>6. Under(v, w)
    BY <1>3, <1>5 DEF Under
  <1>7. Mean(v) <= Mean(w)
    BY <1>6, MeansGrow
  <1> QED BY <1>7 DEF w

\* The answerable cases of a report.
Answerables(cases) == At(cases, {i \in DOMAIN cases : cases[i].answerable})

\* Totals with the averages of a list of cases.
AveragesOf(list, totals) ==
  /\ totals.precision = Mean([i \in DOMAIN list |-> list[i].precision])
  /\ totals.recall = Mean([i \in DOMAIN list |-> list[i].recall])
  /\ totals.rank = Mean([i \in DOMAIN list |-> list[i].rank])
  /\ totals.hitRate = Mean([i \in DOMAIN list |-> IF list[i].hit THEN One ELSE 0])

\* The averages are over them.
LEMMA AveragesOfAnswerables ==
  ASSUME NEW cases
  PROVE  AveragesOf(Answerables(cases), Aggregate(cases))
  BY DEF Aggregate, Answerables, Share, AveragesOf

\* Averages over sound cases stay below the rate of hits.
LEMMA SoundAverages ==
  ASSUME NEW n \in Nat, NEW cases, DOMAIN cases = 1..n, \A i \in 1..n : SoundCase(cases[i])
  PROVE  LET totals == Aggregate(cases)
         IN  \A m \in {totals.precision, totals.recall, totals.rank} : m <= totals.hitRate
  <1> DEFINE P == {i \in DOMAIN cases : cases[i].answerable}
             list == At(cases, P)
             m == Cardinality(P)
             totals == Aggregate(cases)
             hits == [i \in 1..m |-> IF list[i].hit THEN One ELSE 0]
  <1>1. P \subseteq 1..n /\ \A i \in P : SoundCase(cases[i])
    OBVIOUS
  <1> DEFINE X == {cases[i] : i \in P}
  <1>2. \A i \in P : cases[i] \in X
    OBVIOUS
  <1>3. \A c \in X : SoundCase(c)
    BY <1>1
  <1> HIDE DEF P, X
  <1>4. list \in Seq(X) /\ Len(list) = m /\ m \in Nat /\ DOMAIN list = 1..m
    BY <1>1, <1>2, AtIsList
  <1>5. list = Answerables(cases)
    BY DEF Answerables, P
  <1> HIDE DEF list, m
  <1>6. \A i \in 1..m : SoundCase(list[i])
    BY <1>3, <1>4
  <1>7. \A i \in 1..m : /\ IsShare(list[i].precision, list[i]) /\ IsShare(list[i].recall, list[i])
                        /\ IsShare(list[i].rank, list[i])
    BY <1>6, MeasuresAreShares DEF SoundCase
  <1>8. /\ totals.precision = Mean([i \in 1..m |-> list[i].precision])
        /\ totals.recall = Mean([i \in 1..m |-> list[i].recall])
        /\ totals.rank = Mean([i \in 1..m |-> list[i].rank])
        /\ totals.hitRate = Mean(hits)
    <2>1. AveragesOf(list, totals)
      BY <1>5, AveragesOfAnswerables
    <2>2. DOMAIN list = 1..m
      BY <1>4
    <2> HIDE DEF totals
    <2> QED BY <2>1, <2>2 DEF AveragesOf
  <1> HIDE DEF totals
  <1>9. totals.precision <= totals.hitRate
    <2> DEFINE v == [i \in 1..m |-> list[i].precision]
    <2>1. v = [i \in 1..m |-> v[i]] /\ \A i \in 1..m : IsShare(v[i], list[i])
      BY <1>7
    <2> HIDE DEF v
    <2>2. Mean(v) <= Mean(hits)
      BY <1>4, <2>1, AveragesStayBelow
    <2> QED BY <1>8, <2>2 DEF v
  <1>10. totals.recall <= totals.hitRate
    <2> DEFINE v == [i \in 1..m |-> list[i].recall]
    <2>1. v = [i \in 1..m |-> v[i]] /\ \A i \in 1..m : IsShare(v[i], list[i])
      BY <1>7
    <2> HIDE DEF v
    <2>2. Mean(v) <= Mean(hits)
      BY <1>4, <2>1, AveragesStayBelow
    <2> QED BY <1>8, <2>2 DEF v
  <1>11. totals.rank <= totals.hitRate
    <2> DEFINE v == [i \in 1..m |-> list[i].rank]
    <2>1. v = [i \in 1..m |-> v[i]] /\ \A i \in 1..m : IsShare(v[i], list[i])
      BY <1>7
    <2> HIDE DEF v
    <2>2. Mean(v) <= Mean(hits)
      BY <1>4, <2>1, AveragesStayBelow
    <2> QED BY <1>8, <2>2 DEF v
  <1> QED BY <1>9, <1>10, <1>11 DEF totals

-----------------------------------------------------------------------------
(* Evaluations.                                                            *)

\* Listing a finite set gives a list of it.
LEMMA SetsAreListed ==
  ASSUME NEW S, IsFiniteSet(S)
  PROVE  SetToSeq(S) \in [1..Cardinality(S) -> S] /\ Cardinality(S) \in Nat
  <1> DEFINE n == Cardinality(S)
  <1>1. n \in Nat
    BY FS_CardinalityType
  <1>2. ExistsBijection(1..n, S)
    <2>1. IsFiniteSet(1..n) /\ Cardinality(1..n) = n
      BY <1>1, FS_Interval
    <2> QED BY <2>1, FS_SameCardinalityBij
  <1>3. \E f \in [1..n -> S] : IsInjective(f)
    BY <1>2 DEF ExistsBijection, Bijection, Injection, IsInjective
  <1>4. SetToSeq(S) \in [1..n -> S]
    BY <1>3 DEF SetToSeq
  <1> QED BY <1>1, <1>4

\* sorted keeps the length.
LEMMA SearchSorts ==
  ASSUME NEW store, NEW question, NEW k
  PROVE  LET score(chunk) == Cardinality(ToSet(chunk.text) \cap question)
             found == {c \in store : score(c) > 0}
         IN  \E f : /\ f = [i \in DOMAIN SetToSeq(found) |-> f[i]]
                    /\ Searched(store, question, k) = Top(f, k)
  <1> DEFINE score(chunk) == Cardinality(ToSet(chunk.text) \cap question)
             found == {c \in store : score(c) > 0}
             f == Sorted(SetToSeq(found), LAMBDA c, d : score(c) > score(d))
  <1>1. f = [i \in DOMAIN SetToSeq(found) |-> f[i]]
    BY DEF Sorted
  <1>2. Searched(store, question, k) = Top(f, k)
    BY DEF Searched
  <1> HIDE DEF f
  <1> QED BY <1>1, <1>2

\* A search of finitely many chunks returns at most k results.
LEMMA SearchesAreShort ==
  ASSUME NEW store, IsFiniteSet(store), NEW question, NEW k \in Nat
  PROVE  LET results == Searched(store, question, k)
         IN  DOMAIN results = 1..Len(results) /\ Len(results) \in Nat /\ Len(results) <= k
  <1> DEFINE found == {c \in store : Cardinality(ToSet(c.text) \cap question) > 0}
             n == Cardinality(found)
  <1>1. PICK f : /\ f = [i \in DOMAIN SetToSeq(found) |-> f[i]]
                 /\ Searched(store, question, k) = Top(f, k)
    BY SearchSorts
  <1>2. IsFiniteSet(found)
    <2>1. found \subseteq store
      OBVIOUS
    <2> QED BY <2>1, FS_Subset
  <1> HIDE DEF found
  <1>3. n \in Nat /\ DOMAIN SetToSeq(found) = 1..n
    BY <1>2, SetsAreListed
  <1> HIDE DEF n
  <1> DEFINE X == {f[i] : i \in 1..n}
  <1>4. f \in [1..n -> X]
    BY <1>1, <1>3
  <1> HIDE DEF X
  <1>5. f \in Seq(X)
    BY <1>3, <1>4, ListsAreSequences
  <1> QED BY <1>1, <1>5, TopOfShort

\* The identifiers of a list of results.
LEMMA SourcesOfResults ==
  ASSUME NEW results, NEW n \in Nat, DOMAIN results = 1..n
  PROVE  LET ids == [i \in DOMAIN results |-> results[i].source]
         IN  DOMAIN ids = 1..Len(ids) /\ Len(ids) = n
  <1> DEFINE ids == [i \in 1..n |-> results[i].source]
             X == {results[i].source : i \in 1..n}
  <1>1. ids \in [1..n -> X]
    OBVIOUS
  <1>2. ids \in Seq(X) /\ Len(ids) = n
    <2> HIDE DEF ids, X
    <2> QED BY <1>1, ListsAreSequences
  <1>3. DOMAIN ids = 1..n
    OBVIOUS
  <1> QED BY <1>2, <1>3

\* The documents of a case, and what is measured of them.
LEMMA CaseMeasures ==
  ASSUME NEW retriever, NEW agent, NEW case, NEW k
  PROVE  LET results == Searched(retriever, case.question, k)
             ids == [i \in DOMAIN results |-> results[i].source]
             result == CaseResult(retriever, agent, case, k)
         IN  MeasuresOf(result, ids, case.relevant, k) /\ result.answerable = case.answerable
  <1> DEFINE results == Searched(retriever, case.question, k)
             ids == [i \in DOMAIN results |-> results[i].source]
             result == CaseResult(retriever, agent, case, k)
  <1>1. /\ result.retrieved = Deduped(ids) /\ result.relevant = case.relevant
        /\ result.precision = PrecisionAtK(ids, case.relevant, k)
        /\ result.recall = RecallAtK(ids, case.relevant, k)
        /\ result.rank = ReciprocalRank(ids, case.relevant)
        /\ result.hit = ContextHit(ids, case.relevant)
        /\ result.answerable = case.answerable
    BY DEF CaseResult
  <1> QED BY <1>1 DEF MeasuresOf

\* A case is measured soundly over finitely many chunks.
LEMMA CasesAreSound ==
  ASSUME NEW retriever, IsFiniteSet(retriever), NEW agent, NEW k \in Nat,
         NEW case, IsFiniteSet(case.relevant), case.answerable \in BOOLEAN
  PROVE  SoundCase(CaseResult(retriever, agent, case, k))
  <1> DEFINE results == Searched(retriever, case.question, k)
             ids == [i \in DOMAIN results |-> results[i].source]
             result == CaseResult(retriever, agent, case, k)
  <1>1. DOMAIN results = 1..Len(results) /\ Len(results) \in Nat /\ Len(results) <= k
    BY SearchesAreShort
  <1>2. MeasuresOf(result, ids, case.relevant, k) /\ result.answerable = case.answerable
    BY CaseMeasures
  <1> HIDE DEF results, result
  <1>3. DOMAIN ids = 1..Len(ids) /\ Len(ids) = Len(results)
    BY <1>1, SourcesOfResults
  <1> HIDE DEF ids
  <1>4. CaseAgrees(result)
    BY <1>1, <1>2, <1>3, MeasuresOfFewAgree
  <1>5. HasEachOnce(Deduped(ids), ids)
    BY <1>1, <1>3, DedupedHasEachOnce
  <1>6. IsFiniteSet(ToSet(Deduped(ids)))
    BY <1>5, LengthIsCount
  <1>7. result.retrieved = Deduped(ids) /\ result.relevant = case.relevant
    BY <1>2 DEF MeasuresOf
  <1> QED BY <1>2, <1>4, <1>6, <1>7 DEF SoundCase, result

\* An evaluation over finitely many chunks agrees with itself, and so does every
\* report of the same cases and totals.
LEMMA EvaluationsAgree ==
  ASSUME NEW retriever, IsFiniteSet(retriever), NEW agent, NEW cases \in CaseFiles,
         NEW k \in TopKs
  PROVE  LET outcome == Evaluated(retriever, agent, cases, k)
         IN  \A report : report.cases = outcome.cases /\ report.totals = outcome.totals
                           => ReportAgrees(report)
  <1> DEFINE outcome == Evaluated(retriever, agent, cases, k)
             results == [i \in DOMAIN cases |-> CaseResult(retriever, agent, cases[i], k)]
             n == Len(cases)
  <1>1. outcome.cases = results /\ outcome.totals = Aggregate(results)
    BY DEF Evaluated
  <1>2. n \in Nat /\ DOMAIN cases = 1..n /\ k \in Nat
    <2>1. cases \in Seq(ToSet(cases))
      BY CasesAssumption
    <2> QED BY <2>1, DepthsAssumption
  <1>3. DOMAIN results = 1..n
    BY <1>2
  <1>4. \A i \in 1..n : SoundCase(results[i])
    <2> SUFFICES ASSUME NEW i \in 1..n PROVE SoundCase(results[i])
      OBVIOUS
    <2>1. IsFiniteSet(cases[i].relevant) /\ cases[i].answerable \in BOOLEAN
      BY <1>2, CasesAssumption
    <2>2. SoundCase(CaseResult(retriever, agent, cases[i], k))
      BY <1>2, <2>1, CasesAreSound
    <2>3. results[i] = CaseResult(retriever, agent, cases[i], k)
      BY <1>2
    <2> QED BY <2>2, <2>3
  <1> HIDE DEF outcome, results, n
  <1> DEFINE totals == Aggregate(results)
  <1>5. \A m \in {totals.precision, totals.recall, totals.rank} : m <= totals.hitRate
    BY <1>2, <1>3, <1>4, SoundAverages
  <1>6. \A i \in DOMAIN results : CaseAgrees(results[i])
    BY <1>3, <1>4 DEF SoundCase
  <1> HIDE DEF totals
  <1>7. ASSUME NEW report, report.cases = outcome.cases, report.totals = outcome.totals
        PROVE  ReportAgrees(report)
    BY <1>1, <1>5, <1>6, <1>7 DEF ReportAgrees, totals
  <1> QED BY <1>7 DEF outcome

-----------------------------------------------------------------------------
(* Indexes are finite.                                                     *)

\* A record has finitely many chunks.
LEMMA ChunksAreFinite ==
  ASSUME NEW r \in Rows, NEW size, NEW overlap
  PROVE  IsFiniteSet(Chunks(r, size, overlap))
  <1> DEFINE W == CutOf(r, size, overlap)
             n == Len(Redact(r.text))
             step == size - overlap
             begins == {k \in 0..n : k = 0 \/ (k - 1) * step + size < n}
             window == [k \in begins |->
                         <<k * step + 1, IF k * step + size < n THEN k * step + size ELSE n>>]
             chunk == [w \in W |-> ChunkAt(r, w)]
  <1>1. n \in Nat
    <2>1. Redact(r.text) \in Texts
      BY RedactedTexts DEF Rows
    <2> QED BY <2>1 DEF Texts
  <1>2. W = IF n = 0 THEN {} ELSE {window[k] : k \in begins}
    BY DEF CutOf, Windows
  <1>3. begins \subseteq 0..n
    OBVIOUS
  <1>4. Chunks(r, size, overlap) = {chunk[w] : w \in W}
    BY DEF Chunks, ChunkAt, CutOf
  <1> HIDE DEF begins, window, chunk, n, W
  <1>5. IsFiniteSet(begins)
    <2>1. IsFiniteSet(0..n)
      BY <1>1, FS_Interval
    <2> QED BY <1>3, <2>1, FS_Subset
  <1>6. IsFiniteSet(W)
    <2>1. IsFiniteSet({window[k] : k \in begins})
      BY <1>5, ImagesAreFinite
    <2> QED BY <1>2, <2>1, FS_EmptySet
  <1> QED BY <1>4, <1>6, ImagesAreFinite

\* Finitely many records have finitely many.
LEMMA ChunksOfRowsAreFinite ==
  ASSUME NEW R \in SUBSET Rows, IsFiniteSet(R), NEW size, NEW overlap
  PROVE  IsFiniteSet(UNION {Chunks(r, size, overlap) : r \in R})
  <1> DEFINE f == [r \in R |-> Chunks(r, size, overlap)]
             T == {f[r] : r \in R}
  <1>1. T = {Chunks(r, size, overlap) : r \in R}
    OBVIOUS
  <1>2. \A r \in R : IsFiniteSet(f[r])
    BY ChunksAreFinite
  <1> HIDE DEF f
  <1>3. IsFiniteSet(T)
    BY ImagesAreFinite
  <1>4. \A C \in T : IsFiniteSet(C)
    BY <1>2
  <1> HIDE DEF T
  <1>5. IsFiniteSet(UNION T)
    BY <1>3, <1>4, FS_UNION
  <1> QED BY <1>1, <1>5

\* So many records as a list has are finitely many.
LEMMA ListedRowsAreFinite ==
  ASSUME NEW rows \in Seq(Rows)
  PROVE  /\ ToSet(rows) \in SUBSET Rows /\ IsFiniteSet(ToSet(rows))
         /\ LastOfEachKey(rows) \in SUBSET Rows /\ IsFiniteSet(LastOfEachKey(rows))
  <1>1. DOMAIN rows = 1..Len(rows) /\ Len(rows) \in Nat /\ \A i \in DOMAIN rows : rows[i] \in Rows
    OBVIOUS
  <1>2. ToSet(rows) = {rows[i] : i \in DOMAIN rows}
    BY DEF ToSet
  <1>3. IsFiniteSet(DOMAIN rows)
    BY <1>1, FS_Interval
  <1>4. ToSet(rows) \in SUBSET Rows /\ IsFiniteSet(ToSet(rows))
    BY <1>1, <1>2, <1>3, ImagesAreFinite
  <1>5. LastOfEachKey(rows) \subseteq ToSet(rows)
    BY <1>2 DEF LastOfEachKey
  <1>6. IsFiniteSet(LastOfEachKey(rows))
    BY <1>4, <1>5, FS_Subset
  <1> QED BY <1>4, <1>5, <1>6

\* What a finite index contains is finite.
LEMMA StoredIsFinite ==
  ASSUME HonestInv PROVE IsFiniteSet(Stored)
  <1>1. CASE index = Missing
    <2>1. Stored = {}
      BY <1>1 DEF Stored, Contents
    <2> QED BY <2>1, FS_EmptySet
  <1>2. CASE index # Missing
    <2> DEFINE C == index.chunks
               f == [c \in C |-> MigratedChunk(c)]
    <2>1. IsFiniteSet(C)
      BY <1>2 DEF HonestInv
    <2>2. Stored = C \/ Stored = {f[c] : c \in C}
      BY <1>2 DEF Stored, Contents, Migrated
    <2> HIDE DEF C, f
    <2>3. IsFiniteSet({f[c] : c \in C})
      BY <2>1, ImagesAreFinite
    <2> QED BY <2>1, <2>2, <2>3
  <1> QED BY <1>1, <1>2

\* Merging keeps an index finite.
LEMMA MergesAreFinite ==
  ASSUME HonestInv, NEW records \in Seq(Rows), NEW size, Merge(records, size)
  PROVE  IsFiniteSet(index'.chunks)
  <1> DEFINE R == LastOfEachKey(records)
             new == UNION {Chunks(r, size[1], size[2]) : r \in R}
             kept == {c \in Stored : \A n \in new : n.source # c.source}
  <1>1. R \in SUBSET Rows /\ IsFiniteSet(R)
    BY ListedRowsAreFinite
  <1>2. index' = [version |-> 2, chunks |-> Upsert(Stored, new)]
    BY DEF Merge
  <1> HIDE DEF R
  <1>3. IsFiniteSet(new)
    BY <1>1, ChunksOfRowsAreFinite
  <1> HIDE DEF new
  <1>4. IsFiniteSet(kept)
    <2>1. kept \subseteq Stored
      OBVIOUS
    <2> QED BY <2>1, StoredIsFinite, FS_Subset
  <1>5. index'.chunks = kept \cup new
    BY <1>2 DEF Upsert
  <1> HIDE DEF kept
  <1>6. IsFiniteSet(kept \cup new)
    BY <1>3, <1>4, FS_Union
  <1> QED BY <1>5, <1>6

\* An index that is built is finite.
LEMMA BuildsAreFinite ==
  ASSUME BatchInv, BuildIndex PROVE IsFiniteSet(index'.chunks)
  <1> DEFINE R == ToSet(disk[Csv])
             new == UNION {Chunks(r, DefaultSize[1], DefaultSize[2]) : r \in R}
  <1>1. disk[Csv] \in Seq(Rows)
    BY LoadedRows DEF BuildIndex, BatchInv
  <1>2. R \in SUBSET Rows /\ IsFiniteSet(R)
    BY <1>1, ListedRowsAreFinite
  <1>3. index' = [version |-> 2, chunks |-> new]
    BY DEF BuildIndex
  <1> HIDE DEF R
  <1>4. IsFiniteSet(new)
    BY <1>2, ChunksOfRowsAreFinite
  <1> HIDE DEF new
  <1> QED BY <1>3, <1>4

-----------------------------------------------------------------------------
(* Batch commands and reports.                                             *)

\* Other files than three may say anything.
LEMMA OtherFilesAreHonest ==
  ASSUME NEW file, file \in {Csv, Letters, Metrics, Metadata, BenchmarkTable} \/ TableFile(file),
         NEW content
  PROVE  Honest(file, content)
  <1>1. file \notin {Report, Results, BenchmarkJson}
    <2>1. CASE TableFile(file)
      <3>1. ASSUME NEW f \in {Report, Results, BenchmarkJson} PROVE ~TableFile(f)
        <4> DEFINE w == [file |-> f, content |-> content]
        <4>1. IsReport(w) /\ w.file = f
          BY Reporting
        <4> HIDE DEF w
        <4> QED BY <4>1, ReportsAreOffTable
      <3> QED BY <2>1, <3>1
    <2>2. CASE file \in {Csv, Letters}
      BY <2>2, FileNames
    <2>3. CASE file \in {Metrics, Metadata, BenchmarkTable}
      BY <2>3 DEF Report, Results, Metrics, Metadata, BenchmarkJson, BenchmarkTable
    <2> QED BY <2>1, <2>2, <2>3
  <1> QED BY <1>1 DEF Honest

\* A command begins whose files are honest.
LEMMA HonestBegins ==
  ASSUME HonestInv, NEW writes, NEW update, NEW export,
         command' = [writes |-> writes, update |-> update, export |-> export],
         \A w \in ToSet(writes) : Honest(w.file, w.content), UNCHANGED <<disk, index>>
  PROVE  HonestInv'
  <1>1. command'.writes = writes
    OBVIOUS
  <1>2. \A w \in ToSet(command'.writes) : Honest(w.file, w.content)
    BY <1>1
  <1> QED BY <1>2 DEF HonestInv

\* Commands that write rows.
LEMMA RowsAreHonest ==
  ASSUME HonestInv, WritesRows, UNCHANGED <<disk, index>> PROVE HonestInv'
  <1>1. PICK writes, update :
          /\ command' = [writes |-> writes, update |-> update, export |-> None]
          /\ \A w \in ToSet(writes) : w.file \in {Csv, Letters}
    BY DEF WritesRows
  <1>2. \A w \in ToSet(writes) : Honest(w.file, w.content)
    BY <1>1, OtherFilesAreHonest
  <1> QED BY <1>1, <1>2, HonestBegins

\* Exports.
LEMMA TablesAreHonest ==
  ASSUME BatchInv, HonestInv, NEW columns, NEW format, Export(columns, format)
  PROVE  HonestInv'
  <1> DEFINE rows == RedactRecords(disk[Csv])
             writes == ExportWrites(disk[Csv], columns, format)
             export == [format |-> format, rows |-> rows]
  <1>1. /\ command' = [writes |-> writes, update |-> None, export |-> export]
        /\ UNCHANGED <<disk, index>>
    BY DEF Export, Begin
  <1>2. rows \in Seq(Rows)
    BY LoadedRows, RedactedRows DEF Export, BatchInv
  <1>3. writes = TableWrites(rows, columns, format)
    BY DEF ExportWrites
  <1> HIDE DEF rows, writes, export
  <1>4. \A w \in ToSet(writes) : TableFile(w.file)
    BY <1>2, <1>3, TableFilesApart
  <1>5. \A w \in ToSet(writes) : Honest(w.file, w.content)
    BY <1>4, OtherFilesAreHonest
  <1> QED BY <1>1, <1>5, HonestBegins

\* One file is put on the disk.
LEMMA HonestFiles ==
  ASSUME HonestInv, NEW file, NEW content, Put(file, content),
         content # Torn => Honest(file, content)
  PROVE  \A f \in DOMAIN disk' : disk'[f] # Torn => Honest(f, disk'[f])
  <1>1. /\ DOMAIN disk' = DOMAIN disk \cup {file} /\ disk'[file] = content
        /\ \A f \in DOMAIN disk : f # file => disk'[f] = disk[f]
    BY PutFile
  <1>2. \A f \in DOMAIN disk : disk[f] # Torn => Honest(f, disk[f])
    BY DEF HonestInv
  <1> QED BY <1>1, <1>2

\* A file is written as the command has it.
LEMMA WritingIsHonest ==
  ASSUME BatchInv, HonestInv, Write PROVE HonestInv'
  <1> DEFINE w == Head(command.writes)
             ws == command.writes
             left == Tail(command.writes)
  <1>1. /\ command # None /\ ws # <<>> /\ index' = index
        /\ Put(w.file, w.content)
        /\ command' = [command EXCEPT !.writes = Tail(@)]
    BY DEF Write
  <1>2. /\ command = [writes |-> ws, update |-> command.update, export |-> command.export]
        /\ WritesInv(ws)
    BY <1>1 DEF BatchInv, PendingInv
  <1>3. command'.writes = left
    BY <1>1, <1>2
  <1>4. ToSet(ws) = {w} \cup ToSet(left)
    BY <1>1, <1>2, HeadAndLeft
  <1>5. \A v \in ToSet(ws) : Honest(v.file, v.content)
    BY <1>1 DEF HonestInv
  <1> HIDE DEF w, ws, left
  <1>6. Honest(w.file, w.content) /\ \A v \in ToSet(left) : Honest(v.file, v.content)
    BY <1>4, <1>5
  <1>7. \A f \in DOMAIN disk' : disk'[f] # Torn => Honest(f, disk'[f])
    BY <1>1, <1>6, HonestFiles
  <1>8. \A v \in ToSet(command'.writes) : Honest(v.file, v.content)
    BY <1>3, <1>6
  <1>9. index' # Missing => IsFiniteSet(index'.chunks)
    BY <1>1 DEF HonestInv
  <1> QED BY <1>7, <1>8, <1>9 DEF HonestInv

\* A crash tears a report or leaves it.
LEMMA CrashesAreHonest ==
  ASSUME HonestInv, Crash PROVE HonestInv'
  <1>1. command' = None /\ index' = index
    BY DEF Crash
  <1>2. \A f \in DOMAIN disk' : disk'[f] # Torn => Honest(f, disk'[f])
    <2>1. CASE UNCHANGED disk
      BY <2>1 DEF HonestInv
    <2>2. CASE ~UNCHANGED disk
      <3> DEFINE w == Head(command.writes)
      <3>1. PICK left \in Remains(w) : Put(w.file, left)
        BY <2>2 DEF Crash
      <3> HIDE DEF w
      <3>2. CASE w.file \in {Csv, Letters}
        BY <3>1, <3>2, OtherFilesAreHonest, HonestFiles
      <3>3. CASE w.file \notin {Csv, Letters}
        <4>1. left = Torn
          BY <3>3, RemainsOfFile
        <4> QED BY <3>1, <4>1, HonestFiles
      <3> QED BY <3>2, <3>3
    <2> QED BY <2>1, <2>2
  <1>3. index' # Missing => IsFiniteSet(index'.chunks)
    BY <1>1 DEF HonestInv
  <1> QED BY <1>1, <1>2, <1>3 DEF HonestInv

\* Only the index changes.
LEMMA IndexingIsHonest ==
  ASSUME HonestInv, disk' = disk, command' = command \/ command' = None,
         index' = index \/ IsFiniteSet(index'.chunks)
  PROVE  HonestInv'
  <1>1. index' # Missing => IsFiniteSet(index'.chunks)
    BY DEF HonestInv
  <1>2. command' # None => \A w \in ToSet(command'.writes) : Honest(w.file, w.content)
    BY DEF HonestInv
  <1> QED BY <1>1, <1>2 DEF HonestInv

\* The batch commands keep reports as they are.
LEMMA BatchStepsAreHonest ==
  ASSUME BatchInv, HonestInv, Next PROVE HonestInv'
  <1>1. CASE \E lines \in Streams, most \in Limits, update \in BOOLEAN :
               StreamIngest(lines, most, update)
    BY <1>1, StreamsWriteRows, RowsAreHonest DEF StreamIngest
  <1>2. CASE \E size \in Sizes : UpdateIndex(size)
    <2>1. PICK size \in Sizes : UpdateIndex(size)
      BY <1>2
    <2>2. disk[Csv] \in Seq(Rows) /\ Merge(disk[Csv], size) /\ UNCHANGED <<disk, command>>
      BY <2>1, LoadedRows DEF UpdateIndex, BatchInv
    <2>3. IsFiniteSet(index'.chunks)
      BY <2>2, MergesAreFinite
    <2> QED BY <2>2, <2>3, IndexingIsHonest
  <1>3. CASE \E columns \in Layouts, format \in Formats : Export(columns, format)
    BY <1>3, TablesAreHonest
  <1>4. CASE BuildIndex
    BY <1>4, BuildsAreFinite, IndexingIsHonest DEF BuildIndex
  <1>5. CASE GenerateData
    BY <1>5, GeneratedRowsAreWritten, RowsAreHonest DEF GenerateData
  <1>6. CASE Write
    BY <1>6, WritingIsHonest
  <1>7. CASE Finish
    <2>1. command # None /\ command' = None /\ disk' = disk
      BY <1>7 DEF Finish
    <2>2. CASE command.update # None /\ IndexLoads
      <3>1. Merge(command.update, DefaultSize)
        BY <1>7, <2>2 DEF Finish
      <3>2. command.update \in Seq(Rows)
        BY <2>1, <2>2 DEF BatchInv, PendingInv, UpdateInv
      <3>3. IsFiniteSet(index'.chunks)
        BY <3>1, <3>2, MergesAreFinite
      <3> QED BY <2>1, <3>3, IndexingIsHonest
    <2>3. CASE ~(command.update # None /\ IndexLoads)
      BY <1>7, <2>1, <2>3, IndexingIsHonest DEF Finish
    <2> QED BY <2>2, <2>3
  <1>8. CASE Crash
    BY <1>8, CrashesAreHonest
  <1> QED BY <1>1, <1>2, <1>3, <1>4, <1>5, <1>6, <1>7, <1>8 DEF Next

-----------------------------------------------------------------------------
(* The commands that measure.                                              *)

\* What evaluate holds is finite.
LEMMA EvaluateLoads ==
  ASSUME BatchInv, ReportsInv, EvaluateLoad PROVE ReportsInv'
  <1>0. HonestInv /\ timed = None /\ timed' = timed
    BY DEF ReportsInv, EvaluateLoad, Free
  <1>1. CASE index = Missing
    <2>1. BuildIndex /\ held' = index'.chunks
      BY <1>1 DEF EvaluateLoad
    <2>2. HonestInv'
      BY <1>0, <2>1, BatchStepsAreHonest DEF Next
    <2>3. IsFiniteSet(held')
      BY <2>1, BuildsAreFinite
    <2> QED BY <1>0, <2>2, <2>3 DEF ReportsInv
  <1>2. CASE index # Missing
    <2>1. held' = Stored /\ UNCHANGED <<disk, index, command>>
      BY <1>2 DEF EvaluateLoad
    <2>2. HonestInv'
      BY <1>0, <2>1, IndexingIsHonest
    <2>3. IsFiniteSet(held')
      BY <1>0, <2>1, StoredIsFinite
    <2> QED BY <1>0, <2>2, <2>3 DEF ReportsInv
  <1> QED BY <1>1, <1>2

\* An evaluation, and an experiment's results, are honest.
LEMMA EvaluationsAreHonest ==
  ASSUME NEW file \in {Report, Results}, NEW content, ReportAgrees(content)
  PROVE  Honest(file, content)
  BY DEF Honest, Report, Results, BenchmarkJson

\* Measurements are honest.
LEMMA MeasurementsAreHonest ==
  ASSUME NEW content, LatencyIsObserved(content)
  PROVE  Honest(BenchmarkJson, content)
  BY DEF Honest, Report, Results, BenchmarkJson

\* evaluate reports over what it holds.
LEMMA EvaluateRuns ==
  ASSUME ReportsInv, EvaluateRun PROVE ReportsInv'
  <1>1. /\ held # None /\ held' = None /\ UNCHANGED <<disk, index, timed>>
    BY DEF EvaluateRun
  <1>2. PICK cases \in CaseFiles, k \in TopKs :
          command' = [writes |-> <<[file |-> Report,
                                    content |-> Evaluated(held, Stored, cases, k)]>>,
                      update |-> None, export |-> None]
    BY DEF EvaluateRun
  <1> DEFINE outcome == Evaluated(held, Stored, cases, k)
             w == [file |-> Report, content |-> outcome]
  <1>3. IsFiniteSet(held)
    BY <1>1 DEF ReportsInv
  <1>4. ReportAgrees(outcome)
    BY <1>3, EvaluationsAgree
  <1> HIDE DEF outcome
  <1>5. Honest(Report, outcome)
    BY <1>4, EvaluationsAreHonest
  <1>6. w.file = Report /\ w.content = outcome
    OBVIOUS
  <1>7. command' = [writes |-> <<w>>, update |-> None, export |-> None]
    BY <1>2 DEF outcome
  <1> HIDE DEF w
  <1>8. ToSet(<<w>>) = {w}
    BY FewElements
  <1>9. HonestInv'
    BY <1>1, <1>5, <1>6, <1>7, <1>8, HonestBegins DEF ReportsInv
  <1>10. timed' # None => TimedInv'
    BY <1>1 DEF ReportsInv, TimedInv
  <1> QED BY <1>1, <1>9, <1>10 DEF ReportsInv

\* Three writes.
LEMMA ThreeElements ==
  ASSUME NEW a, NEW b, NEW c
  PROVE  ToSet(<<a, b, c>>) = {a, b, c}
  <1>1. DOMAIN <<a, b, c>> = 1..3
    OBVIOUS
  <1>2. (\A i \in 1..3 : i = 1 \/ i = 2 \/ i = 3) /\ 1 \in 1..3 /\ 2 \in 1..3 /\ 3 \in 1..3
    OBVIOUS
  <1>3. <<a, b, c>>[1] = a /\ <<a, b, c>>[2] = b /\ <<a, b, c>>[3] = c
    OBVIOUS
  <1> QED BY <1>1, <1>2, <1>3 DEF ToSet

\* An experiment reports over an index of its own.
LEMMA ExperimentsAreHonest ==
  ASSUME BatchInv, ReportsInv, NEW cases \in CaseFiles, NEW size, NEW k \in TopKs,
         Experiment(cases, size, k)
  PROVE  ReportsInv'
  <1> DEFINE store == UNION {Chunks(r, size[1], size[2]) : r \in ToSet(disk[Csv])}
             outcome == Evaluated(store, store, cases, k)
             config == [size |-> size, depth |-> k]
             results == [config |-> config, cases |-> outcome.cases, totals |-> outcome.totals]
             a == [file |-> Results, content |-> results]
             b == [file |-> Metrics, content |-> outcome.totals]
             c == [file |-> Metadata, content |-> config]
  <1>1. Begin(<<a, b, c>>, None, None) /\ UNCHANGED <<disk, index, held, timed>>
    BY DEF Experiment, offline
  <1>2. IsFiniteSet(store)
    <2>1. disk[Csv] \in Seq(Rows)
      BY LoadedRows DEF Experiment, BatchInv
    <2>2. ToSet(disk[Csv]) \in SUBSET Rows /\ IsFiniteSet(ToSet(disk[Csv]))
      BY <2>1, ListedRowsAreFinite
    <2> QED BY <2>2, ChunksOfRowsAreFinite
  <1> HIDE DEF store
  <1>3. \A report : report.cases = outcome.cases /\ report.totals = outcome.totals
                      => ReportAgrees(report)
    BY <1>2, EvaluationsAgree
  <1> HIDE DEF outcome, config
  <1>4. results.cases = outcome.cases /\ results.totals = outcome.totals
    OBVIOUS
  <1> HIDE DEF results
  <1>5. ReportAgrees(results)
    BY <1>3, <1>4
  <1>6. /\ a.file = Results /\ a.content = results /\ b.file = Metrics /\ c.file = Metadata
    OBVIOUS
  <1> HIDE DEF a, b, c
  <1>7. Honest(a.file, a.content)
    BY <1>5, <1>6, EvaluationsAreHonest
  <1>8. Honest(b.file, b.content) /\ Honest(c.file, c.content)
    BY <1>6, OtherFilesAreHonest
  <1>9. \A w \in ToSet(<<a, b, c>>) : Honest(w.file, w.content)
    BY <1>7, <1>8, ThreeElements
  <1>10. command' = [writes |-> <<a, b, c>>, update |-> None, export |-> None]
    BY <1>1 DEF Begin
  <1>11. HonestInv'
    BY <1>1, <1>9, <1>10, HonestBegins DEF ReportsInv
  <1> QED BY <1>1, <1>11 DEF ReportsInv, TimedInv

\* A benchmark begins with no phase.
LEMMA BenchmarksBegin ==
  ASSUME ReportsInv, NEW cases, NEW warmup \in Warmups, NEW repetitions \in Repetitions,
         StartBenchmark(cases, warmup, repetitions)
  PROVE  ReportsInv'
  <1>1. /\ timed' = [warmup |-> warmup, repetitions |-> repetitions, phases |-> <<>>]
        /\ UNCHANGED <<disk, index, command, held>>
    BY DEF StartBenchmark
  <1>2. HonestInv'
    BY <1>1, IndexingIsHonest DEF ReportsInv
  <1>3. timed'.phases = <<>> /\ timed'.warmup = warmup /\ timed'.repetitions = repetitions
    BY <1>1
  <1>4. DOMAIN timed'.phases = {} /\ timed'.phases \in Seq(ToSet(timed'.phases))
    BY <1>3
  <1>5. LatencyIsObserved(timed')
    BY <1>4 DEF LatencyIsObserved
  <1>6. TimedInv'
    BY <1>1, <1>3, <1>4, <1>5 DEF TimedInv
  <1> QED BY <1>1, <1>2, <1>6 DEF ReportsInv

\* The repetitions that count.
LEMMA MeasuredCalls ==
  ASSUME NEW w \in Warmups, NEW r \in Repetitions, NEW calls \in [1..(w + r) -> Durations]
  PROVE  LET samples == Measured(calls, w)
         IN  /\ samples \in Seq(Nat) /\ Len(samples) = r /\ r # 0
             /\ \A i \in 1..Len(samples) : samples[i] \in Durations
  <1> DEFINE n == w + r
             samples == Measured(calls, w)
  <1>1. w \in Nat /\ r \in Nat \ {0} /\ n \in Nat /\ Durations \subseteq Nat
    BY RepetitionsAssumption
  <1>2. calls \in Seq(Durations) /\ Len(calls) = n
    BY <1>1, ListsAreSequences
  <1>3. samples = SubSeq(calls, w + 1, n)
    BY <1>2 DEF Measured
  <1>4. w + 1 <= n + 1 /\ \A i \in (w + 1)..n : calls[i] \in Durations
    BY <1>1
  <1>5. /\ SubSeq(calls, w + 1, n) \in Seq(Durations)
        /\ Len(SubSeq(calls, w + 1, n)) = n - (w + 1) + 1
    BY <1>1, <1>4, SubSeqProperties
  <1> HIDE DEF samples
  <1>6. samples \in Seq(Durations) /\ Len(samples) = r
    BY <1>1, <1>3, <1>5
  <1>7. samples \in Seq(Nat)
    BY <1>1, <1>6, SeqMonotonic
  <1>8. \A i \in 1..Len(samples) : samples[i] \in Durations
    BY <1>6
  <1> QED BY <1>1, <1>6, <1>7, <1>8 DEF samples

\* A phase is what was timed of it.
LEMMA PhasesAreTimed ==
  ASSUME ReportsInv, TimePhase PROVE ReportsInv'
  <1>1. timed # None /\ UNCHANGED <<disk, index, command, held>>
    BY DEF TimePhase, vars
  <1> DEFINE w == timed.warmup
             r == timed.repetitions
             old == timed.phases
  <1>2. PICK calls \in [1..(w + r) -> Durations] :
          timed' = [timed EXCEPT !.phases = Append(@, Summary(Measured(calls, w)))]
    BY DEF TimePhase
  <1> DEFINE phase == Summary(Measured(calls, w))
             new == Append(old, phase)
  <1>3. TimedInv
    BY <1>1 DEF ReportsInv
  <1>4. /\ timed = [warmup |-> w, repetitions |-> r, phases |-> old]
        /\ w \in Warmups /\ r \in Repetitions /\ old \in Seq(ToSet(old))
        /\ \A n \in DOMAIN old : PhaseIsObserved(old[n], r)
    BY <1>3 DEF TimedInv, LatencyIsObserved
  <1>5. PhaseIsObserved(phase, r)
    BY <1>4, MeasuredCalls, SummaryIsObserved
  <1>6. timed' = [warmup |-> w, repetitions |-> r, phases |-> new]
    BY <1>2, <1>4
  <1> HIDE DEF phase, w, r, old
  <1> DEFINE X == ToSet(old) \cup {phase}
             m == Len(old)
  <1>7. old \in Seq(X) /\ m \in Nat
    BY <1>4
  <1> HIDE DEF X
  <1>8. phase \in X
    BY DEF X
  <1>9. /\ new \in Seq(X) /\ Len(new) = m + 1 /\ new[m + 1] = phase
        /\ \A n \in 1..m : new[n] = old[n]
    BY <1>7, <1>8, AppendProperties
  <1>10. DOMAIN old = 1..m
    BY <1>7
  <1> HIDE DEF new, m
  <1>11. new \in Seq(ToSet(new)) /\ DOMAIN new = 1..(m + 1)
    BY <1>9, OwnElements
  <1>12. \A n \in 1..(m + 1) : PhaseIsObserved(new[n], r)
    <2> TAKE n \in 1..(m + 1)
    <2>1. n = m + 1 \/ n \in 1..m
      BY <1>7
    <2> QED BY <1>4, <1>5, <1>9, <1>10, <2>1
  <1>13. timed'.warmup = w /\ timed'.repetitions = r /\ timed'.phases = new
    BY <1>6
  <1>14. LatencyIsObserved(timed')
    BY <1>11, <1>12, <1>13 DEF LatencyIsObserved
  <1>15. TimedInv'
    BY <1>4, <1>6, <1>11, <1>13, <1>14 DEF TimedInv
  <1>16. HonestInv'
    BY <1>1, IndexingIsHonest DEF ReportsInv
  <1> QED BY <1>1, <1>15, <1>16 DEF ReportsInv

\* A benchmark is written as it was timed.
LEMMA BenchmarksAreHonest ==
  ASSUME ReportsInv, WriteBenchmark PROVE ReportsInv'
  <1> DEFINE a == [file |-> BenchmarkJson, content |-> timed]
             b == [file |-> BenchmarkTable, content |-> timed.phases]
  <1>1. /\ timed # None /\ timed' = None /\ UNCHANGED <<disk, index, held>>
        /\ command' = [writes |-> <<a, b>>, update |-> None, export |-> None]
    BY DEF WriteBenchmark
  <1>2. LatencyIsObserved(timed)
    BY <1>1 DEF ReportsInv, TimedInv
  <1>3. a.file = BenchmarkJson /\ a.content = timed /\ b.file = BenchmarkTable
    OBVIOUS
  <1> HIDE DEF a, b
  <1>4. Honest(a.file, a.content) /\ Honest(b.file, b.content)
    BY <1>2, <1>3, MeasurementsAreHonest, OtherFilesAreHonest
  <1>5. ToSet(<<a, b>>) = {a, b}
    BY FewElements
  <1>6. \A w \in ToSet(<<a, b>>) : Honest(w.file, w.content)
    BY <1>4, <1>5
  <1>7. HonestInv'
    BY <1>1, <1>6, HonestBegins DEF ReportsInv
  <1> QED BY <1>1, <1>7 DEF ReportsInv

\* A crash before anything is written.
LEMMA EarlyCrashes ==
  ASSUME ReportsInv, CrashEarly PROVE ReportsInv'
  <1>1. UNCHANGED <<disk, index, command>> /\ held' = None /\ timed' = None
    BY DEF CrashEarly, vars
  <1>2. HonestInv'
    BY <1>1, IndexingIsHonest DEF ReportsInv
  <1> QED BY <1>1, <1>2 DEF ReportsInv

\* Batch commands with the others at rest.
LEMMA OthersAtRest ==
  ASSUME ReportsInv, HonestInv', UNCHANGED offline PROVE ReportsInv'
  BY DEF ReportsInv, TimedInv, offline

\* Every step keeps reports honest.
LEMMA StepsAreHonest ==
  ASSUME BatchInv, ReportsInv, [OfflineNext]_allVars PROVE ReportsInv'
  <1>0. HonestInv
    BY DEF ReportsInv
  <1>1. CASE EvaluateLoad
    BY <1>1, EvaluateLoads
  <1>2. CASE EvaluateRun
    BY <1>2, EvaluateRuns
  <1>3. CASE \E cases \in CaseFiles, size \in Sizes, k \in TopKs : Experiment(cases, size, k)
    BY <1>3, ExperimentsAreHonest
  <1>4. CASE \E cases \in CaseFiles, warmup \in Warmups, repetitions \in Repetitions :
               StartBenchmark(cases, warmup, repetitions)
    BY <1>4, BenchmarksBegin
  <1>5. CASE TimePhase
    BY <1>5, PhasesAreTimed
  <1>6. CASE WriteBenchmark
    BY <1>6, BenchmarksAreHonest
  <1>7. CASE CrashEarly
    BY <1>7, EarlyCrashes
  <1>8. CASE measuring /\ UNCHANGED offline
               /\ (Write \/ Finish \/ Crash \/ \E size \in Sizes : UpdateIndex(size))
    <2>1. Next
      BY <1>8 DEF Next
    <2> QED BY <1>0, <1>8, <2>1, BatchStepsAreHonest, OthersAtRest
  <1>9. CASE ~measuring /\ Next /\ UNCHANGED offline
    BY <1>0, <1>9, BatchStepsAreHonest, OthersAtRest
  <1>10. CASE UNCHANGED allVars
    <2>1. UNCHANGED <<disk, index, command>> /\ UNCHANGED offline
      BY <1>10 DEF allVars, vars
    <2>2. HonestInv'
      BY <1>0, <2>1, IndexingIsHonest
    <2> QED BY <2>1, <2>2, OthersAtRest
  <1> QED BY <1>1, <1>2, <1>3, <1>4, <1>5, <1>6, <1>7, <1>8, <1>9, <1>10 DEF OfflineNext

\* At first there is no report.
LEMMA NoReportAtFirst ==
  ASSUME OfflineInit PROVE ReportsInv
  <1>1. Init /\ held = None /\ timed = None /\ command = None
    BY DEF OfflineInit, Init
  <1>2. DOMAIN disk = {Csv, Letters}
    BY <1>1 DEF Init
  <1>3. \A file \in DOMAIN disk : Honest(file, disk[file])
    BY <1>2, OtherFilesAreHonest
  <1>4. PICK there \in Indexes : index = there.index
    BY <1>1 DEF Init
  <1>5. index # Missing => IsFiniteSet(index.chunks)
    BY <1>4, IndexesAssumption
  <1>6. HonestInv
    BY <1>1, <1>3, <1>5 DEF HonestInv
  <1> QED BY <1>1, <1>6 DEF ReportsInv

\* A report on the disk that a crash did not tear says what happened: the measures of a case
\* count the same documents, no average exceeds the rate of hits, and latencies are those of
\* the measured repetitions, in order.
THEOREM EveryReportIsHonest == OfflineSpec => []ReportsAreHonest
  <1>1. OfflineInit => ReportsInv
    BY NoReportAtFirst
  <1>2. BatchInv /\ ReportsInv /\ [OfflineNext]_allVars => ReportsInv'
    BY StepsAreHonest
  <1>3. ReportsInv => ReportsAreHonest
    BY DEF ReportsInv, HonestInv, ReportsAreHonest
  <1> QED BY <1>1, <1>2, <1>3, BatchInvariant, PTL DEF OfflineSpec
=============================================================================
