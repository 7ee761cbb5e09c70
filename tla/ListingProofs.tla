---------------------------- MODULE ListingProofs -----------------------------
(***************************************************************************)
(* What clients are shown, for every number of rows: nodes are listed in   *)
(* the order they were asked to be in, and a listing that is read page by  *)
(* page has every row once.                                                *)
(***************************************************************************)
EXTENDS SiblingOrder, Listings, ResourceReport, SequenceTheorems, FiniteSetTheorems,
        WellFoundedInduction, TLAPS

\* A set of integers that are not above b has a largest one, which Max finds.
LEMMA LargestOf ==
  ASSUME NEW b \in Int, NEW S, S # {}, \A x \in S : x \in Int /\ x <= b
  PROVE  Max(S) \in S /\ \A x \in S : x <= Max(S)
<1> DEFINE Segments == {x .. b : x \in S}
<1>1. Segments \subseteq FiniteSubsetsOf(Int) /\ Segments # {}
  <2>1. \A x \in Int : IsFiniteSet(x .. b) /\ (x .. b) \in SUBSET Int
    BY FS_Interval
  <2> QED BY <2>1 DEF FiniteSubsetsOf
<1>2. PICK U \in Segments : \A V \in Segments : <<V, U>> \notin StrictSubsetOrdering(Int)
  <2> HIDE DEF Segments
  <2> QED BY <1>1, WFMin, FS_StrictSubsetOrderingWellFounded
<1>3. PICK m \in S : U = m .. b
  OBVIOUS
<1>4. ASSUME NEW x \in S, m < x PROVE FALSE
  <2>1. (x .. b) \in Segments /\ (x .. b) \subseteq (m .. b) /\ (x .. b) # (m .. b)
    BY <1>4
  <2>2. (x .. b) \in SUBSET Int /\ (m .. b) \in SUBSET Int
    OBVIOUS
  <2> QED BY <1>2, <1>3, <2>1, <2>2 DEF StrictSubsetOrdering
<1>5. \E x \in S : \A y \in S : x >= y
  BY <1>4
<1> HIDE DEF Segments
<1>6. Max(S) \in S /\ \A y \in S : Max(S) >= y
  BY <1>5 DEF Max
<1> QED BY <1>6

-----------------------------------------------------------------------------
(* The order of siblings. *)

\* The numbers the assumption is about.
LEMMA StepsAre ==
  /\ SiblingCount \in Nat /\ MaxOrder \in Nat /\ MaxOrderSteps \in Nat
  /\ MoveStep \in Nat /\ MinGap \in Nat /\ CreateStep \in Nat
  /\ MoveStep > 0 /\ MinGap > 0 /\ CreateStep > 0
  /\ MoveStep > MinGap + 1 /\ MoveStep > CreateStep
  /\ MaxOrder > SiblingCount * MoveStep + 4 * MoveStep
  /\ SiblingCount * MoveStep \in Nat
<1>1. /\ SiblingCount \in Nat /\ MaxOrder \in Nat /\ MaxOrderSteps \in Nat
      /\ MoveStep \in Nat /\ MinGap \in Nat /\ CreateStep \in Nat
      /\ MoveStep > 0 /\ MinGap > 0 /\ CreateStep > 0
      /\ MoveStep > MinGap + 1 /\ MoveStep > CreateStep
      /\ MaxOrder > (SiblingCount + 4) * MoveStep
  BY OrderStepsAssumption
<1>2. (SiblingCount + 4) * MoveStep = SiblingCount * MoveStep + 4 * MoveStep /\ SiblingCount * MoveStep \in Nat
  BY <1>1
<1> QED BY <1>1, <1>2

\* There are at most as many nodes in a set of them as there are nodes.
LEMMA SiblingsFinite ==
  ASSUME NEW S \in SUBSET Sibling
  PROVE  IsFiniteSet(S) /\ Cardinality(S) \in 0 .. SiblingCount
<1>1. IsFiniteSet(Sibling) /\ Cardinality(Sibling) = SiblingCount
  BY StepsAre, FS_Interval DEF Sibling
<1>2. IsFiniteSet(S) /\ Cardinality(S) <= SiblingCount
  BY <1>1, FS_Subset
<1> QED BY <1>2, FS_CardinalityType, StepsAre

\* The numbers of a renumbering.
LEMMA Multiples ==
  ASSUME NEW k \in 0 .. SiblingCount
  PROVE  /\ k * MoveStep \in 0 .. SiblingCount * MoveStep
         /\ MoveStep * (1 + k) = k * MoveStep + MoveStep
         /\ \A j \in 0 .. SiblingCount : j < k => j * MoveStep + MoveStep <= k * MoveStep
<1>1. k \in Nat /\ MoveStep \in Nat /\ SiblingCount \in Nat /\ k <= SiblingCount
  BY StepsAre
<1>2. k * MoveStep <= SiblingCount * MoveStep /\ k * MoveStep >= 0 /\ k * MoveStep \in Int /\ SiblingCount * MoveStep \in Int
  BY <1>1
<1>3. MoveStep * (1 + k) = k * MoveStep + MoveStep
  BY <1>1
<1>4. ASSUME NEW j \in 0 .. SiblingCount, j < k PROVE j * MoveStep + MoveStep <= k * MoveStep
  <2>1. j \in Nat /\ j + 1 <= k
    BY <1>1, <1>4
  <2>2. (j + 1) * MoveStep <= k * MoveStep
    BY <1>1, <2>1
  <2>3. (j + 1) * MoveStep = j * MoveStep + MoveStep
    BY <1>1, <2>1
  <2> QED BY <2>2, <2>3
<1> QED BY <1>2, <1>3, <1>4

\* Renumbering gives the nodes here distinct multiples of the step, in the order
\* of the listing, and leaves the others.
LEMMA ReindexedIs ==
  ASSUME sortOrder \in [Sibling -> Int32]
  PROVE  /\ Reindexed \in [Sibling -> Int32]
         /\ \A n \in Here : Reindexed[n] \in MoveStep .. SiblingCount * MoveStep + MoveStep
         /\ \A m, n \in Here : Before(m, n) => Reindexed[m] + MoveStep <= Reindexed[n]
<1> DEFINE below(n) == {m \in Here : Before(m, n)}
           card(n) == Cardinality(below(n))
<1>0. \A n \in Sibling : sortOrder[n] \in Int /\ n \in Nat
  BY StepsAre DEF Int32, Sibling
<1>1. \A n \in Here : card(n) \in 0 .. SiblingCount /\ Reindexed[n] = card(n) * MoveStep + MoveStep
  <2> SUFFICES ASSUME NEW n \in Here
               PROVE  card(n) \in 0 .. SiblingCount /\ Reindexed[n] = card(n) * MoveStep + MoveStep
    OBVIOUS
  <2>1. below(n) \in SUBSET Sibling /\ n \in Sibling
    BY DEF Here
  <2>2. card(n) \in 0 .. SiblingCount
    <3> HIDE DEF below
    <3> QED BY <2>1, SiblingsFinite
  <2>3. Reindexed[n] = MoveStep * (1 + card(n))
    BY <2>1 DEF Reindexed
  <2> HIDE DEF card
  <2> QED BY <2>2, <2>3, Multiples
<1>2. \A m, n \in Here : Before(m, n) => card(m) < card(n)
  <2> SUFFICES ASSUME NEW m \in Here, NEW n \in Here, Before(m, n) PROVE card(m) < card(n)
    OBVIOUS
  <2>1. below(m) \subseteq below(n) /\ m \in below(n) /\ m \notin below(m)
    BY <1>0 DEF Before, Here
  <2>2. below(n) \in SUBSET Sibling
    BY DEF Here
  <2> HIDE DEF below
  <2>3. IsFiniteSet(below(n))
    BY <2>2, SiblingsFinite
  <2>4. below(m) # below(n)
    BY <2>1
  <2> QED BY <2>1, <2>3, <2>4, FS_Subset, FS_CardinalityType
<1> HIDE DEF card, below
<1>3. \A n \in Here : Reindexed[n] \in MoveStep .. SiblingCount * MoveStep + MoveStep
  BY <1>1, Multiples, StepsAre
<1>4. \A m, n \in Here : Before(m, n) => Reindexed[m] + MoveStep <= Reindexed[n]
  <2> SUFFICES ASSUME NEW m \in Here, NEW n \in Here, Before(m, n) PROVE Reindexed[m] + MoveStep <= Reindexed[n]
    OBVIOUS
  <2>1. card(m) * MoveStep + MoveStep <= card(n) * MoveStep
    BY <1>1, <1>2, Multiples
  <2>2. card(m) * MoveStep \in Int /\ card(n) * MoveStep \in Int
    BY <1>1, Multiples, StepsAre
  <2> QED BY <1>1, <2>1, <2>2, StepsAre
<1>5. \A n \in Sibling \ Here : Reindexed[n] = sortOrder[n]
  BY DEF Reindexed
<1>6. \A n \in Sibling : Reindexed[n] \in Int32
  <2>1. \A n \in Here : Reindexed[n] \in Int32
    BY <1>3, StepsAre DEF Int32
  <2> QED BY <1>5, <2>1
<1>7. Reindexed = [n \in Sibling |-> Reindexed[n]]
  BY DEF Reindexed
<1>8. Reindexed \in [Sibling -> Int32]
  BY <1>6, <1>7
<1> QED BY <1>3, <1>4, <1>8

\* The largest number of some nodes, 0 without any.
LEMMA MaxSortOrderIs ==
  ASSUME NEW orders \in [Sibling -> Int32], NEW S \in SUBSET Sibling
  PROVE  /\ MaxSortOrder(orders, S) \in Int32
         /\ \A n \in S : orders[n] <= MaxSortOrder(orders, S)
         /\ S # {} => \E n \in S : MaxSortOrder(orders, S) = orders[n]
<1>1. CASE S = {}
  BY <1>1, StepsAre DEF MaxSortOrder, Int32
<1>2. CASE S # {}
  <2> DEFINE T == {orders[n] : n \in S}
  <2>1. T # {} /\ \A x \in T : x \in Int32
    BY <1>2
  <2>2. MaxOrder \in Int /\ \A x \in Int32 : x \in Int /\ x <= MaxOrder
    BY StepsAre DEF Int32
  <2>3. MaxSortOrder(orders, S) = Max(T)
    BY <1>2 DEF MaxSortOrder
  <2>4. \A n \in S : orders[n] \in T
    OBVIOUS
  <2> HIDE DEF T
  <2>5. Max(T) \in T /\ \A x \in T : x <= Max(T)
    BY <2>1, <2>2, LargestOf
  <2> USE DEF T
  <2> QED BY <2>1, <2>3, <2>4, <2>5
<1> QED BY <1>1, <1>2

\* A number that is at least 0.
LEMMA MaxOfTwo ==
  ASSUME NEW k \in Int
  PROVE  Max({0, k}) = IF k > 0 THEN k ELSE 0
<1> DEFINE S == {0, k}
<1>0. S # {} /\ \A x \in S : x \in Int /\ x <= (IF k > 0 THEN k ELSE 0)
  OBVIOUS
<1>1. (IF k > 0 THEN k ELSE 0) \in Int
  OBVIOUS
<1>2. Max(S) \in S /\ \A x \in S : x <= Max(S)
  <2> HIDE DEF S
  <2> QED BY <1>0, <1>1, LargestOf
<1>3. Max(S) \in {0, k} /\ Max(S) >= 0 /\ Max(S) >= k
  BY <1>2
<1> QED BY <1>3

\* A creation that adds to the limit wraps around.
LEMMA WrappedType ==
  ASSUME NEW k \in Int32
  PROVE  Wrapped(k + CreateStep) \in Int32
BY StepsAre DEF Int32, Wrapped

-----------------------------------------------------------------------------
(* A finite set that is strictly and totally ordered, listed in that order. *)
Earlier(S, R, c) == {d \in S : <<d, c>> \in R}

Enumeration(S, R) ==
  [i \in 1 .. Cardinality(S) |-> CHOOSE c \in S : Cardinality(Earlier(S, R, c)) = i - 1]

\* An enumeration has every element once, in the order R.
LEMMA Enumerates ==
  ASSUME NEW S, IsFiniteSet(S), NEW R,
         \A c \in S : <<c, c>> \notin R,
         \A c, d \in S : c = d \/ <<c, d>> \in R \/ <<d, c>> \in R,
         \A c, d, e \in S : <<c, d>> \in R /\ <<d, e>> \in R => <<c, e>> \in R
  PROVE  /\ Cardinality(S) \in Nat
         /\ Enumeration(S, R) \in [1 .. Cardinality(S) -> S]
         /\ \A c \in S : \E i \in 1 .. Cardinality(S) : Enumeration(S, R)[i] = c
         /\ \A i, j \in 1 .. Cardinality(S) :
              i < j => <<Enumeration(S, R)[i], Enumeration(S, R)[j]>> \in R
<1> DEFINE below(c) == Earlier(S, R, c)
           n == Cardinality(S)
           at == [c \in S |-> Cardinality(below(c)) + 1]
           enum == Enumeration(S, R)
<1>1. n \in Nat
  BY FS_CardinalityType
<1>2. \A c \in S : Cardinality(below(c)) \in Nat /\ Cardinality(below(c)) < n
  <2> SUFFICES ASSUME NEW c \in S PROVE Cardinality(below(c)) \in Nat /\ Cardinality(below(c)) < n
    OBVIOUS
  <2>1. below(c) \subseteq S /\ c \notin below(c)
    BY DEF Earlier
  <2>2. below(c) # S
    BY <2>1
  <2> HIDE DEF below
  <2> QED BY <2>1, <2>2, FS_Subset, FS_CardinalityType
<1>3. \A c, d \in S : <<c, d>> \in R => at[c] < at[d]
  <2> SUFFICES ASSUME NEW c \in S, NEW d \in S, <<c, d>> \in R PROVE at[c] < at[d]
    OBVIOUS
  <2>1. below(c) \subseteq below(d) /\ c \in below(d) /\ c \notin below(c) /\ below(d) \subseteq S
    BY DEF Earlier
  <2>2. IsFiniteSet(below(d))
    BY <2>1, FS_Subset
  <2>3. Cardinality(below(c)) < Cardinality(below(d))
    <3>1. below(c) # below(d)
      BY <2>1
    <3> HIDE DEF below
    <3> QED BY <2>1, <2>2, <3>1, FS_Subset, FS_CardinalityType
  <2> HIDE DEF below
  <2> QED BY <1>2, <2>3
<1>4. at \in [S -> 1 .. n]
  <2> HIDE DEF below, n
  <2> QED BY <1>1, <1>2
<1>5. \A c \in S : at[c] \in Int
  BY <1>1, <1>4
<1>6. \A c, d \in S : at[c] = at[d] => c = d
  <2> HIDE DEF at, n
  <2> SUFFICES ASSUME NEW c \in S, NEW d \in S, at[c] = at[d], c # d PROVE FALSE
    OBVIOUS
  <2>1. at[c] < at[d] \/ at[d] < at[c]
    BY <1>3
  <2> QED BY <1>5, <2>1
<1>7. \A i \in 1 .. n : \E c \in S : at[c] = i
  <2> HIDE DEF at
  <2>1. at \in Injection(S, 1 .. n)
    BY <1>4, <1>6 DEF Injection, IsInjective
  <2>2. IsFiniteSet(1 .. n) /\ Cardinality(1 .. n) = n
    BY <1>1, FS_Interval
  <2>3. at \in Surjection(S, 1 .. n)
    <3>1. Cardinality(S) = Cardinality(1 .. n)
      BY <2>2
    <3> HIDE DEF n
    <3> QED BY <2>1, <2>2, <3>1, FS_Injection
  <2> QED BY <2>3 DEF Surjection
<1>8. \A i \in 1 .. n : enum[i] \in S /\ at[enum[i]] = i
  <2> SUFFICES ASSUME NEW i \in 1 .. n PROVE enum[i] \in S /\ at[enum[i]] = i
    OBVIOUS
  <2>1. PICK c \in S : at[c] = i
    BY <1>7
  <2>2. Cardinality(below(c)) = i - 1
    <3>1. i \in Int /\ Cardinality(below(c)) \in Int
      BY <1>1, <1>2
    <3> HIDE DEF below
    <3> QED BY <2>1, <3>1
  <2>3. enum[i] = CHOOSE d \in S : Cardinality(below(d)) = i - 1
    BY DEF Enumeration
  <2>4. enum[i] \in S /\ Cardinality(below(enum[i])) = i - 1
    <3> HIDE DEF below, enum
    <3> QED BY <2>2, <2>3
  <2>5. i \in Int
    BY <1>1
  <2> HIDE DEF below, enum
  <2> QED BY <2>4, <2>5
<1>9. enum \in [1 .. n -> S]
  <2>1. enum = [i \in 1 .. n |-> enum[i]]
    BY DEF Enumeration
  <2> HIDE DEF enum, n
  <2> QED BY <1>8, <2>1
<1>10. \A c \in S : \E i \in 1 .. n : enum[i] = c
  <2> HIDE DEF at, enum, n
  <2> QED BY <1>4, <1>6, <1>8
<1>11. \A i, j \in 1 .. n : i < j => <<enum[i], enum[j]>> \in R
  <2> SUFFICES ASSUME NEW i \in 1 .. n, NEW j \in 1 .. n, i < j PROVE <<enum[i], enum[j]>> \in R
    OBVIOUS
  <2>1. i \in Int /\ j \in Int
    BY <1>1
  <2> HIDE DEF at, enum, n
  <2>2. enum[i] # enum[j] /\ ~(<<enum[j], enum[i]>> \in R)
    BY <1>3, <1>8, <2>1
  <2> QED BY <1>8, <2>2
<1> QED BY <1>1, <1>9, <1>10, <1>11

-----------------------------------------------------------------------------
\* The numbers the assumption is about.
LEMMA PageSizes == RowCount \in Nat /\ MaxListSteps \in Nat /\ PageSize \in Nat /\ PageSize > 0
BY ListBounds

\* Ids are positive, and finitely many.
LEMMA RowsFinite ==
  ASSUME NEW S \in SUBSET ListRow
  PROVE  IsFiniteSet(S) /\ \A r \in S : r \in Nat /\ r > 0
<1>1. IsFiniteSet(ListRow)
  BY PageSizes, FS_Interval DEF ListRow
<1>2. \A r \in ListRow : r \in Nat /\ r > 0
  BY PageSizes DEF ListRow
<1> QED BY <1>1, <1>2, FS_Subset

\* The ids of S, smallest first.
LEMMA IdsInOrder ==
  ASSUME NEW S \in SUBSET ListRow
  PROVE  /\ InOrder(S, <) \in Seq(S)
         /\ \A r \in S : \E i \in 1 .. Len(InOrder(S, <)) : InOrder(S, <)[i] = r
         /\ \A i, j \in 1 .. Len(InOrder(S, <)) : i < j => InOrder(S, <)[i] < InOrder(S, <)[j]
<1> DEFINE R == {p \in S \X S : p[1] < p[2]}
           enum == Enumeration(S, R)
<1>0. \A c, d \in S : (<<c, d>> \in R <=> c < d) /\ c \in Int /\ d \in Int
  BY RowsFinite
<1>1. \A c \in S : Earlier(S, R, c) = {d \in S : d < c}
  BY <1>0 DEF Earlier
<1>2. InOrder(S, <) = enum
  <2>1. InOrder(S, <) = [i \in 1 .. Cardinality(S) |->
                           CHOOSE c \in S : Cardinality({d \in S : d < c}) = i - 1]
    BY DEF InOrder
  <2>2. \A i : (CHOOSE c \in S : Cardinality({d \in S : d < c}) = i - 1)
                 = CHOOSE c \in S : Cardinality(Earlier(S, R, c)) = i - 1
    BY <1>1
  <2> QED BY <2>1, <2>2 DEF Enumeration
<1>3. /\ \A c \in S : <<c, c>> \notin R
      /\ \A c, d \in S : c = d \/ <<c, d>> \in R \/ <<d, c>> \in R
      /\ \A c, d, e \in S : <<c, d>> \in R /\ <<d, e>> \in R => <<c, e>> \in R
  <2> HIDE DEF R
  <2> QED BY <1>0
<1>4. IsFiniteSet(S)
  BY RowsFinite
<1> HIDE DEF R
<1>5. /\ Cardinality(S) \in Nat
      /\ enum \in [1 .. Cardinality(S) -> S]
      /\ \A c \in S : \E i \in 1 .. Cardinality(S) : enum[i] = c
      /\ \A i, j \in 1 .. Cardinality(S) : i < j => <<enum[i], enum[j]>> \in R
  BY <1>3, <1>4, Enumerates
<1> HIDE DEF enum
<1>6. enum \in Seq(S) /\ Len(enum) = Cardinality(S)
  BY <1>5
<1> QED BY <1>0, <1>2, <1>5, <1>6

\* A slice of a sequence.
LEMMA SliceIs ==
  ASSUME NEW T, NEW s \in Seq(T), NEW k \in Nat, NEW n \in Nat
  PROVE  /\ Slice(s, k, n) \in Seq(T)
         /\ k <= Len(s) => Len(Slice(s, k, n)) = (IF k + n < Len(s) THEN n ELSE Len(s) - k)
         /\ k >= Len(s) => Slice(s, k, n) = <<>>
         /\ \A i \in 1 .. Len(Slice(s, k, n)) : k + i \in 1 .. Len(s) /\ Slice(s, k, n)[i] = s[k + i]
<1> DEFINE last == IF k + n < Len(s) THEN k + n ELSE Len(s)
           t == Slice(s, k, n)
<1>0. Len(s) \in Nat /\ last \in Nat /\ last <= Len(s)
  OBVIOUS
<1>1. t = SubSeq(s, k + 1, last)
  BY DEF Slice
<1>2. \A i \in (k + 1) .. last : s[i] \in T
  BY <1>0
<1> HIDE DEF last
<1>3. /\ t \in Seq(T)
      /\ Len(t) = IF k + 1 <= last THEN last - k ELSE 0
      /\ \A i \in 1 .. last - k : t[i] = s[k + i]
  <2>1. k + 1 \in Int /\ last \in Int
    BY <1>0
  <2>2. /\ SubSeq(s, k + 1, last) \in Seq(T)
        /\ Len(SubSeq(s, k + 1, last)) = IF k + 1 <= last THEN last - (k + 1) + 1 ELSE 0
        /\ \A i \in 1 .. last - (k + 1) + 1 : SubSeq(s, k + 1, last)[i] = s[k + 1 + i - 1]
    BY <2>1, <1>2, SubSeqProperties
  <2>3. last - (k + 1) + 1 = last - k /\ \A i \in 1 .. last - k : k + 1 + i - 1 = k + i
    BY <2>1
  <2> HIDE DEF t
  <2> QED BY <1>1, <2>2, <2>3
<1> HIDE DEF t
<1>4. k <= Len(s) => Len(t) = (IF k + n < Len(s) THEN n ELSE Len(s) - k)
  BY <1>0, <1>3 DEF last
<1>5. k >= Len(s) => t = <<>>
  <2> SUFFICES ASSUME k >= Len(s) PROVE t = <<>>
    OBVIOUS
  <2>1. Len(t) = 0
    BY <1>0, <1>3
  <2> QED BY <1>3, <2>1, EmptySeq
<1>6. \A i \in 1 .. Len(t) : k + i \in 1 .. Len(s) /\ t[i] = s[k + i]
  BY <1>0, <1>3
<1> QED BY <1>3, <1>4, <1>5, <1>6 DEF t

\* What a sequence has.
LEMMA RangeIs ==
  ASSUME NEW T, NEW s \in Seq(T)
  PROVE  /\ Range(s) = {s[i] : i \in 1 .. Len(s)}
         /\ Range(s) \subseteq T
         /\ IsInjective(s) <=> \A i, j \in 1 .. Len(s) : s[i] = s[j] => i = j
<1>1. DOMAIN s = 1 .. Len(s) /\ \A i \in 1 .. Len(s) : s[i] \in T
  OBVIOUS
<1>2. Range(s) = {s[i] : i \in 1 .. Len(s)}
  BY <1>1 DEF Range
<1>3. IsInjective(s) <=> \A i, j \in 1 .. Len(s) : s[i] = s[j] => i = j
  BY <1>1 DEF IsInjective
<1> QED BY <1>1, <1>2, <1>3

\* Two sequences without repetitions and with nothing in common, joined.
LEMMA Joined ==
  ASSUME NEW T, NEW s \in Seq(T), NEW t \in Seq(T)
  PROVE  /\ s \o t \in Seq(T)
         /\ Len(s \o t) = Len(s) + Len(t)
         /\ Range(s \o t) = Range(s) \cup Range(t)
         /\ IsInjective(s) /\ IsInjective(t) /\ Range(s) \cap Range(t) = {} => IsInjective(s \o t)
<1> DEFINE u == s \o t
<1>1. /\ u \in Seq(T) /\ Len(u) = Len(s) + Len(t) /\ Len(s) \in Nat /\ Len(t) \in Nat
      /\ \A i \in 1 .. Len(s) : u[i] = s[i]
      /\ \A i \in (Len(s) + 1) .. (Len(s) + Len(t)) : u[i] = t[i - Len(s)]
  BY ConcatProperties
<1> HIDE DEF u
<1>0. IsInjective(u) <=> \A a, b \in 1 .. Len(u) : u[a] = u[b] => a = b
  BY <1>1, RangeIs
<1>2. \A i \in 1 .. Len(t) : i + Len(s) \in 1 .. Len(u) /\ u[i + Len(s)] = t[i]
  BY <1>1
<1>3. \A i \in 1 .. Len(u) : \/ i \in 1 .. Len(s) /\ u[i] = s[i]
                             \/ i - Len(s) \in 1 .. Len(t) /\ u[i] = t[i - Len(s)]
  BY <1>1
<1>4. Range(u) = Range(s) \cup Range(t)
  <2>1. /\ Range(u) = {u[i] : i \in 1 .. Len(u)}
        /\ Range(s) = {s[i] : i \in 1 .. Len(s)}
        /\ Range(t) = {t[i] : i \in 1 .. Len(t)}
    <3>1. \A v \in Seq(T) : Range(v) = {v[i] : i \in 1 .. Len(v)}
      BY RangeIs
    <3> QED BY <1>1, <3>1
  <2>2. \A i \in 1 .. Len(s) : i \in 1 .. Len(u)
    BY <1>1
  <2> QED BY <1>1, <1>2, <1>3, <2>1, <2>2
<1>5. IsInjective(s) /\ IsInjective(t) /\ Range(s) \cap Range(t) = {} => IsInjective(u)
  <2> SUFFICES ASSUME IsInjective(s), IsInjective(t), Range(s) \cap Range(t) = {},
                      NEW i \in 1 .. Len(u), NEW j \in 1 .. Len(u), u[i] = u[j]
               PROVE  i = j
    BY <1>0
  <2>0. /\ \A a, b \in 1 .. Len(s) : s[a] = s[b] => a = b
        /\ \A a, b \in 1 .. Len(t) : t[a] = t[b] => a = b
    BY RangeIs
  <2>1. /\ \A a, b \in 1 .. Len(s) : s[a] = s[b] => a = b
        /\ \A a, b \in 1 .. Len(t) : t[a] = t[b] => a = b
        /\ \A a \in 1 .. Len(s), b \in 1 .. Len(t) : s[a] # t[b]
    <3>1. Range(s) = {s[a] : a \in 1 .. Len(s)} /\ Range(t) = {t[a] : a \in 1 .. Len(t)}
      BY RangeIs
    <3> QED BY <2>0, <3>1
  <2>2. CASE i \in 1 .. Len(s) /\ u[i] = s[i]
    BY <1>3, <2>1, <2>2
  <2>3. CASE i - Len(s) \in 1 .. Len(t) /\ u[i] = t[i - Len(s)]
    <3>1. j - Len(s) \in 1 .. Len(t) /\ u[j] = t[j - Len(s)]
      BY <1>3, <2>1, <2>3
    <3>2. i - Len(s) = j - Len(s)
      BY <2>1, <2>3, <3>1
    <3> QED BY <1>1, <3>2
  <2> QED BY <1>3, <2>2, <2>3
<1> QED BY <1>1, <1>4, <1>5 DEF u

-----------------------------------------------------------------------------
(* Pages of a listing that goes on after an id. *)

\* s has the ids of T from the smallest on, without repetitions: all of them,
\* or n of them.
PageOf(s, T, n) ==
  /\ s \in Seq(T)
  /\ IsInjective(s)
  /\ s # <<>> => Last(s) \in T /\ \A x \in Range(s) : x <= Last(s)
  /\ Len(s) <= n
  /\ \A r \in T : \/ r \in Range(s)
                  \/ Len(s) = n /\ (s # <<>> => r > Last(s))

\* A page that is read by ids is the next n of them.
LEMMA SliceIsPage ==
  ASSUME NEW S \in SUBSET ListRow, NEW n \in Nat
  PROVE  /\ PageOf(Slice(InOrder(S, <), 0, n), S, n)
         /\ Len(Slice(InOrder(S, <), 0, n)) < n => Range(Slice(InOrder(S, <), 0, n)) = S
         /\ Slice(InOrder(S, <), 0, n) \in Seq(S)
<1> DEFINE s == InOrder(S, <)
           t == Slice(s, 0, n)
<1>1. /\ s \in Seq(S)
      /\ \A r \in S : \E i \in 1 .. Len(s) : s[i] = r
      /\ \A i, j \in 1 .. Len(s) : i < j => s[i] < s[j]
  BY IdsInOrder
<1> HIDE DEF s
<1>2. /\ t \in Seq(S)
      /\ Len(t) = (IF n < Len(s) THEN n ELSE Len(s))
      /\ \A i \in 1 .. Len(t) : i \in 1 .. Len(s) /\ t[i] = s[i]
  <2>1. /\ t \in Seq(S)
        /\ 0 <= Len(s) => Len(t) = (IF 0 + n < Len(s) THEN n ELSE Len(s) - 0)
        /\ \A i \in 1 .. Len(t) : 0 + i \in 1 .. Len(s) /\ t[i] = s[0 + i]
    <3>1. 0 \in Nat
      OBVIOUS
    <3> HIDE DEF t
    <3>2. t = Slice(s, 0, n)
      BY DEF t
    <3>3. \A k \in Nat :
             /\ Slice(s, k, n) \in Seq(S)
             /\ (k <= Len(s) => Len(Slice(s, k, n)) = (IF k + n < Len(s) THEN n ELSE Len(s) - k))
             /\ \A i \in 1 .. Len(Slice(s, k, n)) :
                  k + i \in 1 .. Len(s) /\ Slice(s, k, n)[i] = s[k + i]
      <4>1. s \in Seq(S) /\ n \in Nat
        BY <1>1
      <4> QED BY ONLY <4>1, SliceIs
    <3> QED BY <3>1, <3>2, <3>3
  <2>2. Len(s) \in Nat /\ Len(t) \in Nat
    BY <1>1, <2>1
  <2> HIDE DEF t
  <2> QED BY <2>1, <2>2
<1> HIDE DEF t
<1>3. /\ Len(s) \in Nat /\ Len(t) \in Nat /\ \A r \in S : r \in Int
      /\ \A i \in 1 .. Len(s) : s[i] \in S
  <2>1. \A r \in S : r \in Nat
    BY RowsFinite
  <2> QED BY <1>1, <1>2, <2>1
<1>4. Range(t) = {t[i] : i \in 1 .. Len(t)} /\ Range(t) \subseteq S
  BY <1>2, RangeIs
<1>5. IsInjective(t)
  <2>1. \A i, j \in 1 .. Len(t) : t[i] = t[j] => i = j
    <3> SUFFICES ASSUME NEW i \in 1 .. Len(t), NEW j \in 1 .. Len(t), t[i] = t[j], i < j
                 PROVE  FALSE
      BY <1>3
    <3>1. s[i] < s[j] /\ s[i] = s[j] /\ s[i] \in S
      BY <1>1, <1>2
    <3> QED BY <1>3, <3>1
  <2> QED BY <1>2, <2>1, RangeIs
<1>6. ASSUME t # <<>> PROVE Last(t) = t[Len(t)] /\ Len(t) \in 1 .. Len(t)
  <2>1. Len(t) # 0
    BY <1>2, <1>6, EmptySeq
  <2> QED BY <1>3, <2>1 DEF Last
<1>7. t # <<>> => Last(t) \in S /\ \A x \in Range(t) : x <= Last(t)
  <2> SUFFICES ASSUME t # <<>> PROVE Last(t) \in S /\ \A x \in Range(t) : x <= Last(t)
    OBVIOUS
  <2>1. Last(t) = s[Len(t)] /\ Len(t) \in 1 .. Len(s) /\ s[Len(t)] \in S
    <3>1. Last(t) = t[Len(t)] /\ Len(t) \in 1 .. Len(t)
      BY <1>6
    <3> QED BY <1>2, <1>3, <3>1
  <2>2. \A i \in 1 .. Len(t) : t[i] <= Last(t)
    <3> SUFFICES ASSUME NEW i \in 1 .. Len(t) PROVE t[i] <= Last(t)
      OBVIOUS
    <3>1. i \in 1 .. Len(s) /\ t[i] = s[i] /\ s[i] \in S
      BY <1>2, <1>3
    <3>2. i = Len(t) \/ i < Len(t)
      BY <1>3
    <3>3. CASE i = Len(t)
      BY <1>3, <2>1, <3>1, <3>3
    <3>4. CASE i < Len(t)
      <4>1. s[i] < s[Len(t)]
        BY <1>1, <2>1, <3>1, <3>4
      <4> QED BY <1>3, <2>1, <3>1, <4>1
    <3> QED BY <3>2, <3>3, <3>4
  <2> QED BY <1>4, <2>1, <2>2
<1>8. \A r \in S : r \in Range(t) \/ (Len(t) = n /\ n < Len(s) /\ (t # <<>> => r > Last(t)))
  <2> SUFFICES ASSUME NEW r \in S, r \notin Range(t)
               PROVE  Len(t) = n /\ n < Len(s) /\ (t # <<>> => r > Last(t))
    OBVIOUS
  <2>1. PICK i \in 1 .. Len(s) : s[i] = r
    BY <1>1
  <2>2. i \notin 1 .. Len(t)
    BY <1>2, <1>4, <2>1
  <2>3. Len(t) = n /\ n < Len(s) /\ i > Len(t)
    BY <1>2, <1>3, <2>2
  <2>4. ASSUME t # <<>> PROVE r > Last(t)
    <3>1. Last(t) = s[Len(t)] /\ Len(t) \in 1 .. Len(s) /\ s[Len(t)] \in S
      <4>1. Last(t) = t[Len(t)] /\ Len(t) \in 1 .. Len(t)
        BY <1>6, <2>4
      <4> QED BY <1>2, <1>3, <4>1
    <3>2. s[Len(t)] < s[i]
      BY <1>1, <2>1, <2>3, <3>1
    <3> QED BY <1>3, <2>1, <3>1, <3>2
  <2> QED BY <2>3, <2>4
<1>9. Len(t) <= n
  BY <1>2, <1>3
<1>10. PageOf(t, S, n)
  BY <1>2, <1>5, <1>7, <1>8, <1>9 DEF PageOf
<1>11. Len(t) < n => Range(t) = S
  BY <1>3, <1>4, <1>8
<1> QED BY <1>2, <1>10, <1>11 DEF s, t

\* got has every row of U up to the id after, and nothing beyond it or twice.
GotOf(got, after, U) ==
  /\ IsInjective(got)
  /\ \A r \in Range(got) : r <= after
  /\ \A r \in U : r <= after => r \in Range(got)

\* T has every row of U beyond the id after, and nothing up to it.
Beyond(T, after, U) ==
  T \in SUBSET {r \in ListRow : r > after} /\ {r \in U : r > after} \subseteq T

\* A page joined to what the client has got.
LEMMA PageAdds ==
  ASSUME NEW got \in Seq(ListRow), NEW after \in Nat, NEW U \in SUBSET ListRow, GotOf(got, after, U),
         NEW T, Beyond(T, after, U), NEW n \in Nat, n > 0,
         NEW page \in Seq(T), PageOf(page, T, n)
  PROVE  /\ got \o page \in Seq(ListRow)
         /\ IsInjective(got \o page)
         /\ page # <<>> => Last(page) \in Nat /\ GotOf(got \o page, Last(page), U)
         /\ Len(page) < n \/ Range(page) = T => U \subseteq Range(got \o page)
<1>a. /\ IsInjective(got)
      /\ T \in SUBSET ListRow /\ (\A r \in T : r > after)
      /\ (\A r \in U : r > after => r \in T)
      /\ (\A r \in Range(got) : r <= after)
      /\ (\A r \in U : r <= after => r \in Range(got))
  BY DEF GotOf, Beyond
<1>0. page \in Seq(ListRow) /\ Range(page) \subseteq T /\ Range(got) \subseteq ListRow
  BY <1>a, RangeIs
<1>1. \A r \in ListRow : r \in Nat
  BY RowsFinite
<1>2. IsInjective(page) /\ Range(got) \cap Range(page) = {}
  BY <1>a, <1>0, <1>1 DEF PageOf
<1>3. got \o page \in Seq(ListRow) /\ IsInjective(got \o page) /\ Range(got \o page) = Range(got) \cup Range(page)
  BY <1>a, <1>0, <1>2, Joined
<1>4. ASSUME page # <<>>
      PROVE  /\ Last(page) \in Nat
             /\ \A r \in Range(got \o page) : r <= Last(page)
             /\ \A r \in U : r <= Last(page) => r \in Range(got \o page)
  <2>1. Last(page) \in T /\ \A x \in Range(page) : x <= Last(page)
    BY <1>4 DEF PageOf
  <2>2. Last(page) \in Nat /\ Last(page) > after
    BY <1>a, <1>1, <2>1
  <2>3. \A r \in Range(got) : r <= Last(page)
    BY <1>a, <1>0, <1>1, <2>2
  <2>4. \A r \in T : r <= Last(page) => r \in Range(page)
    BY <1>a, <1>1, <1>4, <2>2 DEF PageOf
  <2>5. \A r \in U : r <= after \/ r \in T
    BY <1>a, <1>1
  <2> QED BY <1>a, <1>3, <2>1, <2>2, <2>3, <2>4, <2>5
<1>5. ASSUME Len(page) < n \/ Range(page) = T PROVE U \subseteq Range(got \o page)
  <2>1. T \subseteq Range(page)
    <3>1. Len(page) \in Nat
      BY <1>0
    <3> QED BY <1>5, <3>1 DEF PageOf
  <2>2. \A r \in U : r <= after \/ r \in T
    BY <1>a, <1>1
  <2> QED BY <1>a, <1>3, <2>1, <2>2
<1> QED BY <1>3, <1>4, <1>5 DEF GotOf

\* The page of BrowseMetadata, which reads one row more than it returns.
LEMMA OneMore ==
  ASSUME NEW S \in SUBSET ListRow, NEW n \in Nat, n > 0
  PROVE  LET rows == Slice(InOrder(S, <), 0, n + 1)
             page == Slice(rows, 0, n)
         IN /\ page \in Seq(S) /\ PageOf(page, S, n)
            /\ Len(rows) > n => page # <<>>
            /\ ~(Len(rows) > n) => Range(page) = S
<1> DEFINE s == InOrder(S, <)
           rows == Slice(s, 0, n + 1)
           page == Slice(rows, 0, n)
<1>0. s \in Seq(S) /\ Len(s) \in Nat /\ n + 1 \in Nat /\ 0 \in Nat
  <2>1. s \in Seq(S)
    BY IdsInOrder
  <2> HIDE DEF s
  <2> QED BY <2>1
<1>1. /\ PageOf(Slice(s, 0, n), S, n)
      /\ (Len(Slice(s, 0, n)) < n => Range(Slice(s, 0, n)) = S)
      /\ Slice(s, 0, n) \in Seq(S)
  BY SliceIsPage
<1>2. (Len(rows) < n + 1 => Range(rows) = S)
  BY <1>0, SliceIsPage
<1> HIDE DEF s
<1>3. \A t \in Seq(S), m \in Nat :
        /\ Slice(t, 0, m) \in Seq(S)
        /\ Len(Slice(t, 0, m)) = (IF m < Len(t) THEN m ELSE Len(t))
        /\ \A i \in 1 .. Len(Slice(t, 0, m)) : i \in 1 .. Len(t) /\ Slice(t, 0, m)[i] = t[i]
  <2> SUFFICES ASSUME NEW t \in Seq(S), NEW m \in Nat
               PROVE  /\ Slice(t, 0, m) \in Seq(S)
                      /\ Len(Slice(t, 0, m)) = (IF m < Len(t) THEN m ELSE Len(t))
                      /\ \A i \in 1 .. Len(Slice(t, 0, m)) : i \in 1 .. Len(t) /\ Slice(t, 0, m)[i] = t[i]
    OBVIOUS
  <2> DEFINE u == Slice(t, 0, m)
  <2>1. \A k \in Nat :
           /\ Slice(t, k, m) \in Seq(S)
           /\ (k <= Len(t) => Len(Slice(t, k, m)) = (IF k + m < Len(t) THEN m ELSE Len(t) - k))
           /\ \A i \in 1 .. Len(Slice(t, k, m)) :
                k + i \in 1 .. Len(t) /\ Slice(t, k, m)[i] = t[k + i]
    <3>1. t \in Seq(S) /\ m \in Nat
      OBVIOUS
    <3> QED BY ONLY <3>1, SliceIs
  <2>2. /\ u \in Seq(S)
        /\ (0 <= Len(t) => Len(u) = (IF 0 + m < Len(t) THEN m ELSE Len(t) - 0))
        /\ \A i \in 1 .. Len(u) : 0 + i \in 1 .. Len(t) /\ u[i] = t[0 + i]
    BY <1>0, <2>1
  <2> HIDE DEF u
  <2>3. Len(t) \in Nat /\ Len(u) \in Nat
    BY <2>2
  <2>4. /\ u \in Seq(S)
        /\ Len(u) = (IF m < Len(t) THEN m ELSE Len(t))
        /\ \A i \in 1 .. Len(u) : i \in 1 .. Len(t) /\ u[i] = t[i]
    BY <2>2, <2>3
  <2> QED BY <2>4 DEF u
<1>4. /\ rows \in Seq(S)
      /\ Len(rows) = (IF n + 1 < Len(s) THEN n + 1 ELSE Len(s))
      /\ \A i \in 1 .. Len(rows) : i \in 1 .. Len(s) /\ rows[i] = s[i]
  BY <1>0, <1>3
<1> HIDE DEF rows
<1>5. /\ page \in Seq(S)
      /\ Len(page) = (IF n < Len(rows) THEN n ELSE Len(rows))
      /\ \A i \in 1 .. Len(page) : i \in 1 .. Len(rows) /\ page[i] = rows[i]
  BY <1>3, <1>4
<1> HIDE DEF page
<1>6. page = Slice(s, 0, n)
  <2> DEFINE t == Slice(s, 0, n)
  <2>1. /\ t \in Seq(S)
        /\ Len(t) = (IF n < Len(s) THEN n ELSE Len(s))
        /\ \A i \in 1 .. Len(t) : i \in 1 .. Len(s) /\ t[i] = s[i]
    BY <1>0, <1>3
  <2> HIDE DEF t
  <2>2. Len(page) = Len(t) /\ Len(page) \in Nat
    BY <1>0, <1>4, <1>5, <2>1
  <2>3. \A i \in 1 .. Len(page) : page[i] = t[i]
    BY <1>4, <1>5, <2>1, <2>2
  <2>4. page = t
    BY <1>5, <2>1, <2>2, <2>3
  <2> QED BY <2>4 DEF t
<1>7. Len(rows) \in Nat /\ Len(page) \in Nat
  BY <1>4, <1>5
<1>8. Len(rows) > n => page # <<>>
  BY <1>5, <1>7, EmptySeq
<1>9. ~(Len(rows) > n) => Range(page) = S
  <2> SUFFICES ASSUME ~(Len(rows) > n) PROVE Range(page) = S
    OBVIOUS
  <2>1. Len(rows) < n + 1 /\ Len(page) = Len(rows)
    BY <1>5, <1>7
  <2>2. page = rows
    BY <1>4, <1>5, <2>1
  <2> QED BY <1>2, <2>1, <2>2
<1> QED BY <1>1, <1>5, <1>6, <1>8, <1>9 DEF page, rows, s

-----------------------------------------------------------------------------
(* The cards of an archive. *)

\* A row is a card of one branch of a union at most.
LEMMA BranchesApart ==
  ASSUME NEW l \in Listing
  PROVE  /\ DOMAIN CardBranches(l) \in SUBSET (1 .. 3)
         /\ \A i, j \in DOMAIN CardBranches(l) :
              i # j => CardBranches(l)[i] \cap CardBranches(l)[j] = {}
<1>1. CASE l \in {"video", "audio"}
  <2> DEFINE b == << {"file"}, {"unit"}, Collections(l) >>
  <2>1. CardBranches(l) = b /\ DOMAIN b = {1, 2, 3}
    BY <1>1 DEF CardBranches
  <2>2. Collections(l) \subseteq {"collection"}
    BY DEF Collections
  <2>3. b[1] = {"file"} /\ b[2] = {"unit"} /\ b[3] = Collections(l)
    OBVIOUS
  <2> HIDE DEF b
  <2>4. b[1] \cap b[2] = {} /\ b[1] \cap b[3] = {} /\ b[2] \cap b[3] = {}
    BY <2>2, <2>3
  <2>5. \A i, j \in {1, 2, 3} : i # j => b[i] \cap b[j] = {}
    BY <2>4
  <2> QED BY <2>1, <2>5
<1>2. CASE l = "comic"
  <2>1. CardBranches(l) = << {"bare", "unit", "collection"} >>
    BY <1>2 DEF CardBranches
  <2>2. DOMAIN CardBranches(l) = {1}
    BY <2>1
  <2> QED BY <2>2
<1>3. CASE l \notin {"video", "audio", "comic"}
  <2>1. CardBranches(l) = << {"bare", "unit"} >>
    BY <1>3 DEF CardBranches
  <2>2. DOMAIN CardBranches(l) = {1}
    BY <2>1
  <2> QED BY <2>2
<1> QED BY <1>1, <1>2, <1>3

\* The cards are rows, each once.
LEMMA CardsAre ==
  ASSUME rank \in [ListRow -> 1 .. 2], NEW l \in Listing
  PROVE  Cards(l) \in Seq(ListRow) /\ IsInjective(Cards(l))
<1> DEFINE found == {c \in ListRow \X DOMAIN CardBranches(l) : item[c[1]] \in CardBranches(l)[c[2]]}
           before(c, d) == \/ rank[c[1]] < rank[d[1]]
                           \/ rank[c[1]] = rank[d[1]] /\ c[1] < d[1]
                           \/ c[1] = d[1] /\ c[2] < d[2]
           R == {p \in found \X found : before(p[1], p[2])}
           enum == Enumeration(found, R)
<1>1. /\ IsFiniteSet(found)
      /\ \A c \in found : c[1] \in ListRow /\ c[2] \in DOMAIN CardBranches(l) /\ c = <<c[1], c[2]>>
      /\ \A c \in found : item[c[1]] \in CardBranches(l)[c[2]]
  <2>1. IsFiniteSet(ListRow) /\ IsFiniteSet(DOMAIN CardBranches(l))
    <3>1. IsFiniteSet(1 .. 3) /\ IsFiniteSet(1 .. RowCount)
      <4>1. \A n \in Int : IsFiniteSet(1 .. n)
        BY FS_Interval
      <4>2. IsFiniteSet(1 .. RowCount)
        BY <4>1, PageSizes
      <4>3. 3 \in Int
        OBVIOUS
      <4>4. IsFiniteSet(1 .. 3)
        BY <4>1, <4>3, Zenon
      <4> QED BY <4>2, <4>4
    <3>2. DOMAIN CardBranches(l) \in SUBSET (1 .. 3)
      BY BranchesApart
    <3> QED BY <3>1, <3>2, FS_Subset DEF ListRow
  <2>2. IsFiniteSet(ListRow \X DOMAIN CardBranches(l))
    BY <2>1, FS_Product
  <2>3. found \subseteq ListRow \X DOMAIN CardBranches(l)
    OBVIOUS
  <2> QED BY <2>2, <2>3, FS_Subset
<1>2. /\ \A r \in ListRow : r \in Int /\ rank[r] \in Int
      /\ \A b \in DOMAIN CardBranches(l) : b \in Int
  BY BranchesApart, RowsFinite
<1>3. \A c, d \in found : <<c, d>> \in R <=> before(c, d)
  OBVIOUS
<1>4. \A c, d \in found : c[1] = d[1] => c = d
  BY <1>1, BranchesApart
<1>5. Cards(l) = [i \in 1 .. Cardinality(found) |-> enum[i][1]]
  <2>1. Cards(l) = [i \in DOMAIN InOrder(found, before) |-> InOrder(found, before)[i][1]]
    BY DEF Cards
  <2>2. InOrder(found, before) = [i \in 1 .. Cardinality(found) |->
                           CHOOSE c \in found : Cardinality({d \in found : before(d, c)}) = i - 1]
    BY DEF InOrder
  <2>3. \A c \in found : Earlier(found, R, c) = {d \in found : before(d, c)}
    BY <1>3 DEF Earlier
  <2>4. \A i : (CHOOSE c \in found : Cardinality({d \in found : before(d, c)}) = i - 1)
                 = CHOOSE c \in found : Cardinality(Earlier(found, R, c)) = i - 1
    <3> HIDE DEF found, before
    <3> QED BY <2>3
  <2>5. InOrder(found, before) = enum
    <3> HIDE DEF found, before, R
    <3> QED BY <2>2, <2>4 DEF Enumeration
  <2>6. DOMAIN enum = 1 .. Cardinality(found)
    BY DEF Enumeration
  <2> HIDE DEF enum
  <2> QED BY <2>1, <2>5, <2>6
<1>6. /\ \A c \in found : <<c, c>> \notin R
      /\ \A c, d \in found : c = d \/ <<c, d>> \in R \/ <<d, c>> \in R
      /\ \A c, d, e \in found : <<c, d>> \in R /\ <<d, e>> \in R => <<c, e>> \in R
  <2> HIDE DEF found, R
  <2>1. \A c \in found : ~before(c, c)
    BY <1>1, <1>2
  <2>2. \A c, d \in found : c = d \/ before(c, d) \/ before(d, c)
    BY <1>1, <1>2, <1>4
  <2>3. \A c, d, e \in found : before(c, d) /\ before(d, e) => before(c, e)
    BY <1>1, <1>2, <1>4
  <2> HIDE DEF before
  <2> QED BY <1>3, <2>1, <2>2, <2>3
<1> HIDE DEF found, R
<1>7. /\ Cardinality(found) \in Nat
      /\ enum \in [1 .. Cardinality(found) -> found]
      /\ \A i, j \in 1 .. Cardinality(found) : i < j => <<enum[i], enum[j]>> \in R
  BY <1>1, <1>6, Enumerates
<1> DEFINE n == Cardinality(found)
<1> HIDE DEF enum, n
<1>8. \A i \in 1 .. n : enum[i] \in found /\ enum[i][1] \in ListRow
  BY <1>1, <1>7 DEF n
<1>9. Cards(l) \in Seq(ListRow) /\ Len(Cards(l)) = n /\ \A i \in 1 .. n : Cards(l)[i] = enum[i][1]
  <2>1. Cards(l) = [i \in 1 .. n |-> enum[i][1]] /\ n \in Nat
    BY <1>5, <1>7 DEF n
  <2> QED BY <1>8, <2>1
<1>10. \A i, j \in 1 .. n : Cards(l)[i] = Cards(l)[j] => i = j
  <2> SUFFICES ASSUME NEW i \in 1 .. n, NEW j \in 1 .. n, Cards(l)[i] = Cards(l)[j], i # j PROVE FALSE
    OBVIOUS
  <2>1. enum[i] = enum[j] /\ enum[i] \in found
    BY <1>4, <1>8, <1>9
  <2>2. i < j \/ j < i
    BY <1>7 DEF n
  <2>3. <<enum[i], enum[j]>> \in R \/ <<enum[j], enum[i]>> \in R
    BY <1>7, <2>2 DEF n
  <2> QED BY <1>6, <2>1, <2>3
<1> QED BY <1>9, <1>10, RangeIs

-----------------------------------------------------------------------------
(* The client's walk through a listing. *)

\* The types the invariant needs.
ScrollTypes ==
  /\ item \in [ListRow -> ItemKind]
  /\ rank \in [ListRow -> 1 .. 2]
  /\ scroll \in [step : {"idle", "next", "authorize", "page", "done"}, list : Listing, after : Nat,
                 scope : Listing \cup {"none"}, got : Seq(ListRow), total : Nat, page : Seq(ListRow),
                 sound : BOOLEAN]
  /\ steady \subseteq ListRow
  /\ listSteps \in 0 .. MaxListSteps

\* Before the first page the client has nothing.
NothingYet == scroll.got = <<>> /\ scroll.after = 0 /\ scroll.scope = "none"

\* What the client has got of a listing that goes on after an id: every row
\* that was there all the time up to that id.
GotUpTo == GotOf(scroll.got, scroll.after, steady)

\* The page that waits for the check of its owners was read from rows that have
\* all that are still there.
PageHeld ==
  \E T : /\ Beyond(T, scroll.after, steady)
         /\ scroll.page \in Seq(T) /\ PageOf(scroll.page, T, PageSize)

\* A cursor of another query goes with nothing that was got.
KeysetInv ==
  /\ scroll.step # "page"
  /\ scroll.list = "libraries" => scroll.scope = "none"
  /\ scroll.step = "next" /\ scroll.scope = "none" /\ scroll.list # "libraries" => scroll.after = 0
  /\ scroll.step \in {"next", "authorize"} =>
       /\ steady \subseteq Rows(scroll.list)
       /\ IF CursorFits(scroll.list) THEN GotUpTo ELSE scroll.got = <<>>
  /\ scroll.step = "authorize" => scroll.list = "libraries" /\ PageHeld
  /\ scroll.step = "done" => IsInjective(scroll.got) /\ steady \subseteq Range(scroll.got)

\* What the client has got of the cards is where they begin.
CardsInv ==
  /\ scroll.step # "authorize"
  /\ scroll.after = Len(scroll.got)
  /\ scroll.step \in {"next", "page"} => steady \subseteq Range(Cards(scroll.list))
  /\ scroll.sound = TRUE =>
       /\ scroll.step \in {"next", "page"} => Slice(Cards(scroll.list), 0, Len(scroll.got)) = scroll.got
       /\ scroll.step = "page" => scroll.total = Len(Cards(scroll.list))
       /\ scroll.step = "done" => IsInjective(scroll.got) /\ steady \subseteq Range(scroll.got)

\* The inductive invariant.
ListInv ==
  /\ ScrollTypes
  /\ scroll.step = "idle" => NothingYet
  /\ scroll.list \in Keyset => KeysetInv
  /\ scroll.list \notin Keyset => CardsInv

\* Listings that go on after an id.
LEMMA KeysetIs == Keyset \subseteq Listing /\ "libraries" \in Keyset
BY DEF Keyset, Listing

\* What a client has at first.
LEMMA EmptyGot == IsInjective(<<>>) /\ Range(<<>>) = {} /\ Len(<<>>) = 0 /\ <<>> \in Seq(ListRow)
<1>1. <<>> \in Seq(ListRow) /\ Len(<<>>) = 0 /\ DOMAIN <<>> = {}
  OBVIOUS
<1> QED BY <1>1 DEF IsInjective, Range

\* What a listing shows.
LEMMA ShownIs ==
  /\ \A l \in Keyset : ShownIn(l) = Rows(l)
  /\ \A l \in Listing \ Keyset : ShownIn(l) = Range(Cards(l))
  /\ \A l \in Listing : Rows(l) \subseteq ListRow
BY DEF ShownIn, Rows

\* Listings depend on the rows only.
LEMMA SameRows ==
  ASSUME UNCHANGED <<item, rank>>
  PROVE  \A l \in Listing : Cards(l)' = Cards(l) /\ Rows(l)' = Rows(l)
BY DEF Cards, Rows, InOrder

\* The invariant, at the start and step by step.
LEMMA ListInvInit == ListingsStart => ListInv
<1> SUFFICES ASSUME ListingsStart PROVE ListInv
  OBVIOUS
<1>1. PICK l \in Listing : /\ scroll = [NoScroll EXCEPT !.list = l]
                           /\ item \in [ListRow -> KindsFor(l)]
                           /\ rank = [r \in ListRow |-> IF l \in Keyset THEN 1 ELSE 1 + (r % 2)]
  BY DEF ListingsStart
<1>2. scroll = [step |-> "idle", list |-> l, after |-> 0, scope |-> "none",
                got |-> <<>>, total |-> 0, page |-> <<>>, sound |-> TRUE]
  BY <1>1 DEF NoScroll
<1>3. item \in [ListRow -> ItemKind]
  BY <1>1 DEF KindsFor, ItemKind
<1>4. rank \in [ListRow -> 1 .. 2]
  <2>1. \A r \in ListRow : 1 + (r % 2) \in 1 .. 2 /\ 1 \in 1 .. 2
    BY RowsFinite
  <2> QED BY <1>1, <2>1
<1>5. <<>> \in Seq(ListRow) /\ 0 \in Nat
  OBVIOUS
<1>6. ScrollTypes
  <2>1. scroll \in [step : {"idle", "next", "authorize", "page", "done"}, list : Listing, after : Nat,
                 scope : Listing \cup {"none"}, got : Seq(ListRow), total : Nat, page : Seq(ListRow),
                 sound : BOOLEAN]
    BY <1>2, <1>5
  <2>2. steady \subseteq ListRow /\ listSteps \in 0 .. MaxListSteps
    BY PageSizes DEF ListingsStart
  <2> QED BY <1>3, <1>4, <2>1, <2>2 DEF ScrollTypes
<1>7. KeysetInv /\ CardsInv /\ NothingYet
  BY <1>2, EmptyGot DEF KeysetInv, CardsInv, NothingYet
<1> QED BY <1>6, <1>7 DEF ListInv

\* An id listing has begun.
LEMMA ScrollBeginKeeps ==
  ASSUME ListInv, ScrollBegin
  PROVE  ListInv'
<1>1. /\ scroll' = [scroll EXCEPT !.step = "next"] /\ steady' = ShownIn(scroll.list)
      /\ UNCHANGED <<item, rank, listSteps>> /\ NothingYet /\ ScrollTypes
  BY DEF ScrollBegin, ListInv
<1>2. /\ scroll'.step = "next" /\ scroll'.list = scroll.list /\ scroll'.got = <<>>
      /\ scroll'.after = 0 /\ scroll'.scope = "none" /\ scroll.list \in Listing
      /\ scroll'.sound = scroll.sound
  BY <1>1 DEF ScrollTypes, NothingYet
<1>3. steady' \subseteq ListRow
  <2>1. scroll.list \notin Keyset => Range(Cards(scroll.list)) \subseteq ListRow
    BY <1>1, <1>2, CardsAre, RangeIs DEF ScrollTypes
  <2> QED BY <1>1, <1>2, <2>1, ShownIs
<1>4. ScrollTypes'
  BY <1>1, <1>3 DEF ScrollTypes
<1>5. ASSUME scroll.list \in Keyset PROVE KeysetInv'
  <2>1. steady' = Rows(scroll.list)'
    BY <1>1, <1>2, <1>5, ShownIs, SameRows
  <2>2. \A r \in steady' : ~(r <= 0)
    BY <1>3, RowsFinite
  <2>3. GotUpTo'
    BY <1>2, <2>2, EmptyGot DEF GotUpTo, GotOf
  <2>4. (CursorFits(scroll.list))'
    BY <1>2 DEF CursorFits
  <2> QED BY <1>2, <2>1, <2>3, <2>4 DEF KeysetInv
<1>6. ASSUME scroll.list \notin Keyset PROVE CardsInv'
  <2>1. steady' = Range(Cards(scroll.list))' /\ Cards(scroll.list)' = Cards(scroll.list)
    BY <1>1, <1>2, <1>6, ShownIs, SameRows
  <2>2. Cards(scroll.list) \in Seq(ListRow)
    BY <1>1, <1>2, CardsAre DEF ScrollTypes
  <2>3. Slice(Cards(scroll.list), 0, 0) = <<>>
    <3> DEFINE s == Cards(scroll.list)
    <3>1. Slice(s, 0, 0) = SubSeq(s, 1, 0)
      <4>1. Len(s) \in Nat
        BY <2>2
      <4> HIDE DEF s
      <4> QED BY <4>1 DEF Slice
    <3> QED BY <3>1, SubSeqEmpty
  <2> QED BY <1>2, <2>1, <2>3, EmptyGot DEF CardsInv
<1> QED BY <1>2, <1>4, <1>5, <1>6 DEF ListInv

\* The steps of a scroll leave the rows alone.
LEMMA ScrollLeavesRows ==
  ASSUME ScrollTypes, UNCHANGED <<item, rank, listSteps>>,
         steady' \subseteq ListRow,
         scroll' \in [step : {"idle", "next", "authorize", "page", "done"}, list : Listing, after : Nat,
                      scope : Listing \cup {"none"}, got : Seq(ListRow), total : Nat,
                      page : Seq(ListRow), sound : BOOLEAN]
  PROVE  ScrollTypes'
BY DEF ScrollTypes

\* The page of libraries is read.
LEMMA PageReadKeeps ==
  ASSUME ListInv, ScrollLibraries
  PROVE  ListInv'
<1> DEFINE S == {r \in Rows("libraries") : r > scroll.after}
           page == Slice(InOrder(S, <), 0, PageSize)
<1>1. /\ scroll.step = "next" /\ scroll.list = "libraries" /\ UNCHANGED <<item, rank, steady, listSteps>>
      /\ scroll' = [scroll EXCEPT !.page = page, !.step = "authorize"]
  BY DEF ScrollLibraries, After
<1>2. ScrollTypes /\ KeysetInv /\ "libraries" \in Listing
  BY <1>1, KeysetIs DEF ListInv
<1>3. S \in SUBSET ListRow /\ S \in SUBSET {r \in ListRow : r > scroll.after}
  BY <1>2, ShownIs
<1>4. page \in Seq(S) /\ PageOf(page, S, PageSize)
  <2> HIDE DEF S
  <2> QED BY <1>3, PageSizes, SliceIsPage
<1>5. page \in Seq(ListRow)
  <2> HIDE DEF page
  <2> QED BY <1>3, <1>4
<1> HIDE DEF page
<1>6. /\ scroll'.step = "authorize" /\ scroll'.list = "libraries" /\ scroll'.page = page
      /\ scroll'.after = scroll.after /\ scroll'.got = scroll.got /\ scroll'.scope = scroll.scope
  BY <1>1, <1>2 DEF ScrollTypes
<1>7. ScrollTypes'
  <2>1. scroll' \in [step : {"idle", "next", "authorize", "page", "done"}, list : Listing, after : Nat,
                      scope : Listing \cup {"none"}, got : Seq(ListRow), total : Nat,
                      page : Seq(ListRow), sound : BOOLEAN]
    BY <1>1, <1>2, <1>5 DEF ScrollTypes
  <2> QED BY <1>1, <1>2, <2>1, ScrollLeavesRows DEF ScrollTypes
<1>8. CursorFits("libraries") /\ (CursorFits("libraries"))'
  BY <1>1, <1>2, <1>6 DEF KeysetInv, CursorFits
<1>9. GotUpTo'
  <2>1. GotUpTo
    BY <1>1, <1>2, <1>8 DEF KeysetInv
  <2> QED BY <1>1, <1>6, <2>1 DEF GotUpTo
<1>10. steady \subseteq Rows("libraries") /\ Rows("libraries")' = Rows("libraries")
  BY <1>1, <1>2, SameRows DEF KeysetInv
<1>11. PageHeld'
  <2>1. Beyond(S, scroll.after, steady)
    BY <1>3, <1>10 DEF Beyond
  <2> HIDE DEF S
  <2> QED BY <1>1, <1>4, <1>6, <2>1 DEF PageHeld
<1>12. KeysetInv'
  <2>1. scroll'.scope = "none"
    BY <1>1, <1>2, <1>6 DEF KeysetInv
  <2>2. steady' \subseteq Rows(scroll.list)'
    BY <1>1, <1>6, <1>10
  <2>3. (CursorFits(scroll.list))'
    BY <1>6, <1>8
  <2> QED BY <1>6, <1>9, <1>11, <2>1, <2>2, <2>3 DEF KeysetInv
<1> QED BY <1>6, <1>7, <1>12, KeysetIs DEF ListInv

\* The owners of a page are checked.
LEMMA AuthorizeKeeps ==
  ASSUME ListInv, ScrollAuthorize
  PROVE  ListInv'
<1>0. ScrollTypes /\ scroll.step = "authorize" /\ UNCHANGED <<item, rank, steady, listSteps>>
  BY DEF ScrollAuthorize, ListInv
<1>1. scroll.list \in Keyset
  BY <1>0 DEF ListInv, CardsInv
<1>2. KeysetInv /\ scroll.list = "libraries" /\ PageHeld /\ scroll.scope = "none"
  BY <1>0, <1>1 DEF ListInv, KeysetInv
<1>3. GotUpTo /\ steady \subseteq Rows("libraries")
  BY <1>0, <1>2 DEF KeysetInv, CursorFits
<1>4. Rows("libraries")' = Rows("libraries") /\ "libraries" \in Listing
  BY <1>0, SameRows, KeysetIs
<1>5. /\ scroll.got \in Seq(ListRow) /\ scroll.page \in Seq(ListRow) /\ scroll.after \in Nat
      /\ steady \in SUBSET ListRow /\ scroll.sound \in BOOLEAN /\ scroll.total \in Nat
  BY <1>0 DEF ScrollTypes
<1>6. CASE Range(scroll.page) \subseteq Rows("libraries")
  <2> DEFINE last == IF scroll.page = <<>> THEN scroll.after ELSE Last(scroll.page)
             more == Len(scroll.page) = PageSize
             got == scroll.got \o scroll.page
  <2>1. scroll' = [scroll EXCEPT !.got = got, !.after = last, !.page = <<>>, !.total = 0,
                                 !.step = IF more THEN "next" ELSE "done"]
    BY <1>2, <1>6, <1>0 DEF ScrollAuthorize, Receive
  <2>2. PICK T : /\ Beyond(T, scroll.after, steady)
                 /\ scroll.page \in Seq(T) /\ PageOf(scroll.page, T, PageSize)
    BY <1>2 DEF PageHeld
  <2>3. GotOf(scroll.got, scroll.after, steady)
    BY <1>3 DEF GotUpTo
  <2>5. /\ got \in Seq(ListRow)
        /\ IsInjective(got)
        /\ (scroll.page # <<>> => Last(scroll.page) \in Nat /\ GotOf(got, Last(scroll.page), steady))
        /\ (Len(scroll.page) < PageSize \/ Range(scroll.page) = T => steady \subseteq Range(got))
    BY <1>5, <2>2, <2>3, PageSizes, PageAdds
  <2>6. Len(scroll.page) \in Nat /\ Len(scroll.page) <= PageSize
    BY <1>5, <2>2 DEF PageOf
  <2> HIDE DEF got
  <2>7. more => scroll.page # <<>>
    BY <2>6, PageSizes
  <2>8. last \in Nat
    BY <1>5, <2>5
  <2> HIDE DEF last
  <2>9. /\ scroll'.step = (IF more THEN "next" ELSE "done") /\ scroll'.list = "libraries"
        /\ scroll'.after = last /\ scroll'.got = got /\ scroll'.scope = "none"
    BY <1>0, <1>2, <2>1 DEF ScrollTypes
  <2>10. ScrollTypes'
    <3>1. scroll' \in [step : {"idle", "next", "authorize", "page", "done"}, list : Listing, after : Nat,
                      scope : Listing \cup {"none"}, got : Seq(ListRow), total : Nat,
                      page : Seq(ListRow), sound : BOOLEAN]
      BY <1>0, <2>1, <2>5, <2>8, EmptyGot DEF ScrollTypes
    <3> QED BY <1>0, <1>5, <3>1, ScrollLeavesRows
  <2>11. CASE more
    <3>1. last = Last(scroll.page) /\ scroll.page # <<>>
      BY <2>7, <2>11 DEF last
    <3>2. GotUpTo'
      BY <1>0, <2>5, <2>9, <3>1 DEF GotUpTo
    <3>3. KeysetInv'
      BY <1>0, <1>3, <1>4, <2>9, <2>11, <3>2 DEF KeysetInv, CursorFits
    <3> QED BY <1>1, <1>2, <2>9, <2>10, <2>11, <3>3 DEF ListInv
  <2>12. CASE ~more
    <3>1. steady \subseteq Range(got)
      BY <2>5, <2>6, <2>12, PageSizes
    <3>2. KeysetInv'
      BY <1>0, <2>5, <2>9, <2>12, <3>1 DEF KeysetInv
    <3> QED BY <1>1, <1>2, <2>9, <2>10, <2>12, <3>2 DEF ListInv
  <2> QED BY <2>11, <2>12
<1>7. CASE ~(Range(scroll.page) \subseteq Rows("libraries"))
  <2>1. scroll' = [scroll EXCEPT !.page = <<>>, !.step = "next"]
    BY <1>0, <1>7 DEF ScrollAuthorize
  <2>2. /\ scroll'.step = "next" /\ scroll'.list = "libraries"
        /\ scroll'.after = scroll.after /\ scroll'.got = scroll.got /\ scroll'.scope = "none"
    BY <1>0, <1>2, <2>1 DEF ScrollTypes
  <2>3. ScrollTypes'
    <3>1. scroll' \in [step : {"idle", "next", "authorize", "page", "done"}, list : Listing, after : Nat,
                      scope : Listing \cup {"none"}, got : Seq(ListRow), total : Nat,
                      page : Seq(ListRow), sound : BOOLEAN]
      BY <1>0, <2>1, EmptyGot DEF ScrollTypes
    <3> QED BY <1>0, <1>5, <3>1, ScrollLeavesRows
  <2>4. GotUpTo'
    BY <1>0, <1>3, <2>2 DEF GotUpTo
  <2>5. KeysetInv'
    BY <1>0, <1>3, <1>4, <2>2, <2>4 DEF KeysetInv, CursorFits
  <2> QED BY <1>1, <1>2, <2>2, <2>3, <2>5 DEF ListInv
<1> QED BY <1>6, <1>7

\* A page of metadata is read.
LEMMA BrowseKeeps ==
  ASSUME ListInv, BrowseMetadata
  PROVE  ListInv'
<1>a. PICK l : l = scroll.list
  OBVIOUS
<1> DEFINE S == {r \in Rows(l) : r > scroll.after}
           rows == Slice(InOrder(S, <), 0, PageSize + 1)
           page == Slice(rows, 0, PageSize)
           more == Len(rows) > PageSize
           got == scroll.got \o page
<1>0. /\ scroll.step = "next" /\ l \in Keyset /\ l # "libraries" /\ UNCHANGED <<item, rank, listSteps>>
      /\ ScrollTypes /\ KeysetInv
  BY <1>a DEF BrowseMetadata, ListInv
<1>1. l \in Listing /\ ShownIn(l) = Rows(l) /\ Rows(l)' = Rows(l) /\ Rows(l) \subseteq ListRow
  BY <1>0, SameRows, ShownIs, KeysetIs
<1>2. CASE ~CursorFits(l)
  <2>1. scroll' = [NoScroll EXCEPT !.list = scroll.list] /\ steady' = {}
    BY <1>2, <1>a DEF BrowseMetadata
  <2>2. scroll' = [step |-> "idle", list |-> l, after |-> 0, scope |-> "none",
                   got |-> <<>>, total |-> 0, page |-> <<>>, sound |-> TRUE]
    BY <1>a, <2>1 DEF NoScroll
  <2>3. ScrollTypes'
    <3>1. scroll' \in [step : {"idle", "next", "authorize", "page", "done"}, list : Listing, after : Nat,
                      scope : Listing \cup {"none"}, got : Seq(ListRow), total : Nat,
                      page : Seq(ListRow), sound : BOOLEAN]
      BY <1>1, <2>2, EmptyGot
    <3> QED BY <1>0, <2>1, <3>1, ScrollLeavesRows
  <2>4. NothingYet' /\ KeysetInv'
    BY <2>2 DEF NothingYet, KeysetInv
  <2> QED BY <1>0, <2>2, <2>3, <2>4 DEF ListInv
<1>3. CASE CursorFits(l)
  <2>1. /\ UNCHANGED steady
        /\ scroll' = [scroll EXCEPT !.got = got, !.after = IF more THEN Last(page) ELSE 0,
                                    !.scope = IF more THEN l ELSE "none",
                                    !.step = IF more THEN "next" ELSE "done"]
    BY <1>3, <1>a DEF BrowseMetadata, After
  <2>2. /\ scroll.got \in Seq(ListRow) /\ scroll.after \in Nat /\ steady \in SUBSET ListRow
        /\ GotOf(scroll.got, scroll.after, steady) /\ steady \subseteq Rows(l)
    BY <1>a, <1>0, <1>3 DEF ScrollTypes, KeysetInv, GotUpTo
  <2>3. S \in SUBSET ListRow /\ Beyond(S, scroll.after, steady)
    BY <1>1, <2>2 DEF Beyond
  <2>4. /\ page \in Seq(S) /\ PageOf(page, S, PageSize)
        /\ (more => page # <<>>)
        /\ (~more => Range(page) = S)
    <3> HIDE DEF S
    <3> QED BY <2>3, PageSizes, OneMore
  <2> HIDE DEF S, page, more
  <2>5. /\ got \in Seq(ListRow) /\ IsInjective(got)
        /\ (page # <<>> => Last(page) \in Nat /\ GotOf(got, Last(page), steady))
        /\ (Len(page) < PageSize \/ Range(page) = S => steady \subseteq Range(got))
    BY <2>2, <2>3, <2>4, PageSizes, PageAdds
  <2> HIDE DEF got
  <2>6. ScrollTypes'
    <3>1. (IF more THEN Last(page) ELSE 0) \in Nat
      BY <2>4, <2>5
    <3>2. scroll' \in [step : {"idle", "next", "authorize", "page", "done"}, list : Listing, after : Nat,
                      scope : Listing \cup {"none"}, got : Seq(ListRow), total : Nat,
                      page : Seq(ListRow), sound : BOOLEAN]
      BY <1>a, <1>0, <1>1, <2>1, <2>5, <3>1 DEF ScrollTypes
    <3> QED BY <1>0, <2>1, <2>2, <3>2, ScrollLeavesRows
  <2>7. /\ scroll'.step = (IF more THEN "next" ELSE "done") /\ scroll'.list = l
        /\ scroll'.after = (IF more THEN Last(page) ELSE 0) /\ scroll'.got = got
        /\ scroll'.scope = (IF more THEN l ELSE "none")
    BY <1>a, <1>0, <2>1 DEF ScrollTypes
  <2>8. CASE more
    <3>1. GotUpTo'
      BY <2>1, <2>4, <2>5, <2>7, <2>8 DEF GotUpTo
    <3>2. steady' \subseteq Rows(scroll.list)'
      BY <1>1, <2>1, <2>2, <2>7
    <3>3. l # "none"
      BY <1>1 DEF Listing
    <3>4. KeysetInv'
      <4>1. scroll'.step = "next" /\ scroll'.scope = l /\ scroll'.list = l
        BY <2>7, <2>8
      <4>2. (CursorFits(scroll.list))'
        BY <4>1 DEF CursorFits
      <4> QED BY <1>0, <4>1, <4>2, <3>1, <3>2, <3>3 DEF KeysetInv
    <3> QED BY <1>0, <2>6, <2>7, <2>8, <3>4 DEF ListInv
  <2>9. CASE ~more
    <3>1. steady' \subseteq Range(got)
      BY <2>1, <2>4, <2>5, <2>9
    <3>2. KeysetInv'
      BY <1>0, <2>5, <2>7, <2>9, <3>1 DEF KeysetInv
    <3> QED BY <1>0, <2>6, <2>7, <2>9, <3>2 DEF ListInv
  <2> QED BY <2>8, <2>9
<1> QED BY <1>2, <1>3

\* The client changes its filter.
LEMMA FilterKeeps ==
  ASSUME ListInv, ChangeFilter
  PROVE  ListInv'
<1>1. PICK l \in Keyset \ {"libraries", scroll.list} :
        /\ scroll.list \in Keyset \ {"libraries"}
        /\ scroll' = [scroll EXCEPT !.list = l, !.got = <<>>]
        /\ steady' = ShownIn(l)
  BY DEF ChangeFilter
<1>2. /\ scroll.step = "next" /\ scroll.scope \in {"none", scroll.list}
      /\ UNCHANGED <<item, rank, listSteps>> /\ ScrollTypes /\ KeysetInv
  BY <1>1 DEF ChangeFilter, ListInv
<1>3. l \in Listing /\ l # "libraries" /\ l # scroll.list /\ steady' = Rows(l)' /\ steady' \subseteq ListRow
  BY <1>1, <1>2, SameRows, ShownIs, KeysetIs
<1>4. /\ scroll'.step = "next" /\ scroll'.list = l /\ scroll'.got = <<>>
      /\ scroll'.after = scroll.after /\ scroll'.scope = scroll.scope
  BY <1>1, <1>2 DEF ScrollTypes
<1>5. ScrollTypes'
  <2>1. scroll' \in [step : {"idle", "next", "authorize", "page", "done"}, list : Listing, after : Nat,
                      scope : Listing \cup {"none"}, got : Seq(ListRow), total : Nat,
                      page : Seq(ListRow), sound : BOOLEAN]
    BY <1>1, <1>2, <1>3, EmptyGot DEF ScrollTypes
  <2> QED BY <1>2, <1>3, <2>1, ScrollLeavesRows
<1>6. scroll.scope = "none" => scroll.after = 0
  BY <1>1, <1>2 DEF KeysetInv
<1>7. (CursorFits(scroll.list))' => GotUpTo'
  <2> SUFFICES ASSUME (CursorFits(scroll.list))' PROVE GotUpTo'
    OBVIOUS
  <2>1. scroll.after = 0
    BY <1>2, <1>3, <1>4, <1>6 DEF CursorFits
  <2>2. \A r \in steady' : ~(r <= 0)
    BY <1>3, RowsFinite
  <2> QED BY <1>4, <2>1, <2>2, EmptyGot DEF GotUpTo, GotOf
<1>8. KeysetInv'
  BY <1>3, <1>4, <1>6, <1>7 DEF KeysetInv
<1> QED BY <1>1, <1>4, <1>5, <1>8 DEF ListInv

\* A page that goes on where the last one ended makes a longer beginning.
LEMMA CardsSliced ==
  ASSUME NEW s \in Seq(ListRow), NEW k \in Nat, NEW n \in Nat, IsInjective(s),
         k = Len(Slice(s, 0, k))
  PROVE  /\ Slice(s, k, n) \in Seq(ListRow)
         /\ Slice(s, 0, k) \o Slice(s, k, n) = Slice(s, 0, k + Len(Slice(s, k, n)))
         /\ k + Len(Slice(s, k, n)) <= Len(s)
         /\ (n > 0 /\ Slice(s, k, n) = <<>> => k = Len(s))
         /\ Slice(s, 0, Len(s)) = s
         /\ IsInjective(Slice(s, 0, k))
<1> DEFINE u == Slice(s, 0, k)
           v == Slice(s, k, n)
           m == k + Len(v)
           w == Slice(s, 0, m)
<1>1. \A i, j \in Nat :
         /\ Slice(s, i, j) \in Seq(ListRow)
         /\ (i <= Len(s) => Len(Slice(s, i, j)) = (IF i + j < Len(s) THEN j ELSE Len(s) - i))
         /\ \A x \in 1 .. Len(Slice(s, i, j)) :
              i + x \in 1 .. Len(s) /\ Slice(s, i, j)[x] = s[i + x]
  <2>1. s \in Seq(ListRow)
    OBVIOUS
  <2> QED BY ONLY <2>1, SliceIs
<1>2. Len(s) \in Nat /\ 0 \in Nat
  OBVIOUS
<1>3. \A j \in Nat : /\ Len(Slice(s, 0, j)) = (IF j < Len(s) THEN j ELSE Len(s))
                     /\ \A x \in 1 .. Len(Slice(s, 0, j)) : x \in 1 .. Len(s) /\ Slice(s, 0, j)[x] = s[x]
  <2> SUFFICES ASSUME NEW j \in Nat
               PROVE  /\ Len(Slice(s, 0, j)) = (IF j < Len(s) THEN j ELSE Len(s))
                      /\ \A x \in 1 .. Len(Slice(s, 0, j)) : x \in 1 .. Len(s) /\ Slice(s, 0, j)[x] = s[x]
    OBVIOUS
  <2> DEFINE t == Slice(s, 0, j)
  <2>1. /\ t \in Seq(ListRow)
        /\ (0 <= Len(s) => Len(t) = (IF 0 + j < Len(s) THEN j ELSE Len(s) - 0))
        /\ \A x \in 1 .. Len(t) : 0 + x \in 1 .. Len(s) /\ t[x] = s[0 + x]
    BY <1>1, <1>2
  <2> HIDE DEF t
  <2>2. Len(t) \in Nat
    BY <2>1
  <2>3. /\ Len(t) = (IF j < Len(s) THEN j ELSE Len(s))
        /\ \A x \in 1 .. Len(t) : x \in 1 .. Len(s) /\ t[x] = s[x]
    BY <1>2, <2>1, <2>2
  <2> QED BY <2>3 DEF t
<1>4. /\ u \in Seq(ListRow) /\ Len(u) = k /\ k <= Len(s)
      /\ \A x \in 1 .. k : x \in 1 .. Len(s) /\ u[x] = s[x]
  <2>1. u \in Seq(ListRow)
    BY <1>1, <1>2
  <2>2. /\ Len(u) = (IF k < Len(s) THEN k ELSE Len(s))
        /\ \A x \in 1 .. Len(u) : x \in 1 .. Len(s) /\ u[x] = s[x]
    BY <1>3
  <2>3. k = Len(u)
    OBVIOUS
  <2> HIDE DEF u
  <2> QED BY <1>2, <2>1, <2>2, <2>3
<1>5. /\ v \in Seq(ListRow) /\ Len(v) = (IF k + n < Len(s) THEN n ELSE Len(s) - k)
      /\ \A x \in 1 .. Len(v) : k + x \in 1 .. Len(s) /\ v[x] = s[k + x]
  BY <1>1, <1>4
<1> HIDE DEF u, v
<1>6. m \in Nat /\ m <= Len(s) /\ Len(v) \in Nat
  BY <1>2, <1>4, <1>5
<1>7. /\ w \in Seq(ListRow) /\ Len(w) = m /\ \A x \in 1 .. m : w[x] = s[x]
  <2> HIDE DEF m
  <2>1. w \in Seq(ListRow)
    BY <1>1, <1>2, <1>6
  <2>2. /\ Len(w) = (IF m < Len(s) THEN m ELSE Len(s))
        /\ \A x \in 1 .. Len(w) : x \in 1 .. Len(s) /\ w[x] = s[x]
    BY <1>3, <1>6
  <2> HIDE DEF w
  <2> QED BY <1>2, <1>6, <2>1, <2>2
<1> HIDE DEF w
<1>8. u \o v = w
  <2>1. /\ u \o v \in Seq(ListRow) /\ Len(u \o v) = k + Len(v)
        /\ \A i \in 1 .. k : (u \o v)[i] = u[i]
        /\ \A i \in (k + 1) .. (k + Len(v)) : (u \o v)[i] = v[i - k]
    <3>1. u \in Seq(ListRow) /\ v \in Seq(ListRow)
      BY <1>4, <1>5
    <3>2. /\ u \o v \in Seq(ListRow) /\ Len(u \o v) = Len(u) + Len(v)
          /\ \A i \in 1 .. Len(u) : (u \o v)[i] = u[i]
          /\ \A i \in (Len(u) + 1) .. (Len(u) + Len(v)) : (u \o v)[i] = v[i - Len(u)]
      BY ONLY <3>1, ConcatProperties
    <3>3. Len(u) = k
      BY <1>4
    <3> QED BY <3>2, <3>3
  <2>2. \A i \in 1 .. k : (u \o v)[i] = s[i]
    BY <1>4, <2>1
  <2>3. \A i \in (k + 1) .. m : (u \o v)[i] = s[i]
    <3> SUFFICES ASSUME NEW i \in (k + 1) .. m PROVE (u \o v)[i] = s[i]
      OBVIOUS
    <3>1. i - k \in 1 .. Len(v) /\ k + (i - k) = i
      BY <1>6
    <3> QED BY <1>5, <2>1, <3>1
  <2>4. \A i \in 1 .. m : i \in 1 .. k \/ i \in (k + 1) .. m
    BY <1>6
  <2>5. \A i \in 1 .. m : (u \o v)[i] = w[i]
    BY <1>7, <2>2, <2>3, <2>4
  <2> QED BY <1>7, <2>1, <2>5
<1>9. n > 0 /\ v = <<>> => k = Len(s)
  <2> SUFFICES ASSUME n > 0, v = <<>> PROVE k = Len(s)
    OBVIOUS
  <2>1. Len(v) = 0
    OBVIOUS
  <2> QED BY <1>2, <1>4, <1>5, <2>1
<1>10. Slice(s, 0, Len(s)) = s
  <2> DEFINE t == Slice(s, 0, Len(s))
  <2>1. t \in Seq(ListRow)
    BY <1>1, <1>2
  <2>2. /\ Len(t) = (IF Len(s) < Len(s) THEN Len(s) ELSE Len(s))
        /\ \A x \in 1 .. Len(t) : x \in 1 .. Len(s) /\ t[x] = s[x]
    BY <1>2, <1>3
  <2> HIDE DEF t
  <2>3. t = s
    BY <1>2, <2>1, <2>2
  <2> QED BY <2>3 DEF t
<1>11. IsInjective(u)
  <2>1. \A i, j \in 1 .. Len(s) : s[i] = s[j] => i = j
    BY RangeIs
  <2>2. \A i, j \in 1 .. Len(u) : u[i] = u[j] => i = j
    BY <1>4, <2>1
  <2> QED BY <1>4, <2>2, RangeIs
<1> QED BY <1>5, <1>6, <1>8, <1>9, <1>10, <1>11 DEF u, v, w, m

\* The cards are counted.
LEMMA CountKeeps ==
  ASSUME ListInv, CountCards
  PROVE  ListInv'
<1>0. /\ scroll.step = "next" /\ scroll.list \notin Keyset /\ UNCHANGED <<item, rank, steady, listSteps>>
      /\ ScrollTypes /\ CardsInv
  BY DEF CountCards, ListInv
<1>1. PICK l \in Listing : l = scroll.list
  BY <1>0 DEF ScrollTypes
<1> DEFINE s == Cards(l)
<1>2. s \in Seq(ListRow) /\ IsInjective(s) /\ s' = s
  BY <1>0, <1>1, CardsAre, SameRows DEF ScrollTypes
<1>3. Len(s) \in Nat /\ steady \subseteq ListRow /\ scroll.got \in Seq(ListRow)
  BY <1>0, <1>2 DEF ScrollTypes
<1>4. steady \subseteq Range(s) /\ scroll.after = Len(scroll.got)
      /\ (scroll.sound = TRUE => Slice(s, 0, Len(scroll.got)) = scroll.got)
  BY <1>0, <1>1 DEF CardsInv
<1>5. CASE Len(s) = 0
  <2>1. scroll' = [scroll EXCEPT !.got = @ \o <<>>, !.after = scroll.after, !.page = <<>>, !.total = 0,
                                 !.step = "done"]
    BY <1>1, <1>5 DEF CountCards, Receive
  <2>2. scroll.got \o <<>> = scroll.got
    BY <1>3
  <2>3. scroll' = [scroll EXCEPT !.page = <<>>, !.total = 0, !.step = "done"]
    BY <1>0, <2>1, <2>2 DEF ScrollTypes
  <2>4. /\ scroll'.step = "done" /\ scroll'.list = l /\ scroll'.got = scroll.got
        /\ scroll'.after = scroll.after /\ scroll'.sound = scroll.sound
    BY <1>0, <1>1, <2>3 DEF ScrollTypes
  <2>5. ScrollTypes'
    <3>1. scroll' \in [step : {"idle", "next", "authorize", "page", "done"}, list : Listing, after : Nat,
                      scope : Listing \cup {"none"}, got : Seq(ListRow), total : Nat,
                      page : Seq(ListRow), sound : BOOLEAN]
      BY <1>0, <2>3, EmptyGot DEF ScrollTypes
    <3> QED BY <1>0, <1>3, <3>1, ScrollLeavesRows
  <2>6. s = <<>>
    <3> HIDE DEF s
    <3> QED BY <1>2, <1>5, EmptySeq
  <2>7. steady = {}
    BY <1>4, <2>6, EmptyGot
  <2>8. scroll.sound = TRUE => scroll.got = <<>>
    <3> SUFFICES ASSUME scroll.sound = TRUE PROVE scroll.got = <<>>
      OBVIOUS
    <3>1. scroll.got = Slice(<<>>, 0, Len(scroll.got))
      BY <1>4, <2>6
    <3>2. Slice(<<>>, 0, Len(scroll.got)) = <<>>
      <4>1. \A k, n \in Nat : k >= Len(<<>>) => Slice(<<>>, k, n) = <<>>
        BY ONLY EmptyGot, SliceIs
      <4>2. 0 \in Nat /\ Len(scroll.got) \in Nat /\ 0 >= Len(<<>>)
        BY <1>3, EmptyGot
      <4> QED BY <4>1, <4>2
    <3> QED BY <3>1, <3>2
  <2>9. CardsInv'
    BY <1>0, <1>4, <2>4, <2>7, <2>8, EmptyGot DEF CardsInv
  <2> QED BY <1>0, <1>1, <2>4, <2>5, <2>9 DEF ListInv
<1>6. CASE Len(s) # 0
  <2>1. scroll' = [scroll EXCEPT !.total = Len(s), !.step = "page"]
    BY <1>1, <1>6 DEF CountCards
  <2> HIDE DEF s
  <2>2. /\ scroll'.step = "page" /\ scroll'.list = l /\ scroll'.got = scroll.got
        /\ scroll'.after = scroll.after /\ scroll'.sound = scroll.sound /\ scroll'.total = Len(s)
    BY <1>0, <1>1, <2>1 DEF ScrollTypes
  <2>3. ScrollTypes'
    <3>1. scroll' \in [step : {"idle", "next", "authorize", "page", "done"}, list : Listing, after : Nat,
                      scope : Listing \cup {"none"}, got : Seq(ListRow), total : Nat,
                      page : Seq(ListRow), sound : BOOLEAN]
      BY <1>0, <1>3, <2>1 DEF ScrollTypes
    <3> QED BY <1>0, <1>3, <3>1, ScrollLeavesRows
  <2>4. Cards(scroll.list)' = s
    <3>1. Cards(scroll.list)' = s'
      BY <2>2 DEF s
    <3> QED BY <1>2, <3>1
  <2>5. CardsInv'
    BY <1>0, <1>4, <2>2, <2>4 DEF CardsInv
  <2> QED BY <1>0, <1>1, <2>2, <2>3, <2>5 DEF ListInv
<1> QED BY <1>5, <1>6

\* A page of cards is read.
LEMMA CardsReadKeeps ==
  ASSUME ListInv, ReadCards
  PROVE  ListInv'
<1>0. /\ scroll.step = "page" /\ UNCHANGED <<item, rank, steady, listSteps>> /\ ScrollTypes
  BY DEF ReadCards, ListInv
<1>1. PICK l \in Listing : l = scroll.list
  BY <1>0 DEF ScrollTypes
<1>2. l \notin Keyset /\ CardsInv
  BY <1>0, <1>1 DEF ListInv, KeysetInv
<1> DEFINE s == Cards(l)
           page == Slice(s, scroll.after, PageSize)
           next == scroll.after + Len(page)
           more == page # <<>> /\ next < scroll.total
           got == scroll.got \o page
<1>3. s \in Seq(ListRow) /\ IsInjective(s) /\ s' = s
  BY <1>0, <1>1, CardsAre, SameRows DEF ScrollTypes
<1>4. /\ Len(s) \in Nat /\ steady \subseteq ListRow /\ scroll.got \in Seq(ListRow)
      /\ scroll.after \in Nat /\ scroll.total \in Nat
  BY <1>0, <1>3 DEF ScrollTypes
<1>5. /\ steady \subseteq Range(s) /\ scroll.after = Len(scroll.got)
      /\ (scroll.sound = TRUE => Slice(s, 0, Len(scroll.got)) = scroll.got /\ scroll.total = Len(s))
  BY <1>0, <1>1, <1>2 DEF CardsInv
<1>6. scroll' = [scroll EXCEPT !.got = got, !.after = next, !.page = <<>>, !.total = 0,
                               !.step = IF more THEN "next" ELSE "done"]
  BY <1>1 DEF ReadCards, Receive
<1> HIDE DEF s
<1>7. page \in Seq(ListRow)
  <2>1. s \in Seq(ListRow) /\ scroll.after \in Nat /\ PageSize \in Nat
    BY <1>3, <1>4, PageSizes
  <2> QED BY ONLY <2>1, SliceIs
<1> HIDE DEF page
<1>8. /\ got \in Seq(ListRow) /\ Len(got) = next /\ next \in Nat
  BY <1>4, <1>5, <1>7
<1> HIDE DEF got, next, more
<1>9. /\ scroll'.step = (IF more THEN "next" ELSE "done") /\ scroll'.list = l /\ scroll'.got = got
      /\ scroll'.after = next /\ scroll'.sound = scroll.sound
  BY <1>0, <1>1, <1>6 DEF ScrollTypes
<1>10. ScrollTypes'
  <2>1. scroll' \in [step : {"idle", "next", "authorize", "page", "done"}, list : Listing, after : Nat,
                    scope : Listing \cup {"none"}, got : Seq(ListRow), total : Nat,
                    page : Seq(ListRow), sound : BOOLEAN]
    BY <1>0, <1>6, <1>8, EmptyGot DEF ScrollTypes
  <2> QED BY <1>0, <1>4, <2>1, ScrollLeavesRows
<1>11. Cards(scroll.list)' = s
  <2>1. Cards(scroll.list)' = s'
    BY <1>9 DEF s
  <2> QED BY <1>3, <2>1
<1>12. ASSUME scroll.sound = TRUE
       PROVE  /\ Slice(s, 0, Len(got)) = got
              /\ ~more => IsInjective(got) /\ steady \subseteq Range(got)
  <2> DEFINE k == Len(scroll.got)
  <2>1. /\ Slice(s, 0, k) = scroll.got /\ page = Slice(s, k, PageSize) /\ scroll.total = Len(s)
        /\ next = k + Len(page) /\ k \in Nat
    BY <1>4, <1>5, <1>12 DEF page, next
  <2>2. k = Len(Slice(s, 0, k))
    BY <2>1
  <2>3. s \in Seq(ListRow) /\ k \in Nat /\ PageSize \in Nat /\ IsInjective(s) /\ PageSize > 0
    BY <1>3, <2>1, PageSizes
  <2>4. /\ Slice(s, 0, k) \o Slice(s, k, PageSize) = Slice(s, 0, k + Len(Slice(s, k, PageSize)))
        /\ k + Len(Slice(s, k, PageSize)) <= Len(s)
        /\ (PageSize > 0 /\ Slice(s, k, PageSize) = <<>> => k = Len(s))
        /\ Slice(s, 0, Len(s)) = s
    <3> HIDE DEF k
    <3> QED BY ONLY <2>2, <2>3, CardsSliced
  <2> HIDE DEF k
  <2>5. got = Slice(s, 0, next) /\ next <= Len(s)
    BY <2>1, <2>4 DEF got
  <2>6. ASSUME ~more PROVE got = s
    <3>1. CASE page = <<>>
      <4>1. Len(page) = 0 /\ k = Len(s)
        BY <2>1, <2>3, <2>4, <3>1
      <4>2. next = Len(s)
        BY <2>1, <4>1
      <4> QED BY <2>4, <2>5, <4>2
    <3>2. CASE ~(next < scroll.total)
      <4>1. next = Len(s)
        BY <1>4, <1>8, <2>1, <2>5, <3>2
      <4> QED BY <2>4, <2>5, <4>1
    <3> QED BY <2>6, <3>1, <3>2 DEF more
  <2> QED BY <1>3, <1>5, <1>8, <2>5, <2>6
<1>13. CardsInv'
  BY <1>0, <1>5, <1>8, <1>9, <1>11, <1>12 DEF CardsInv
<1> QED BY <1>2, <1>9, <1>10, <1>13 DEF ListInv

\* Another request changes a row.
LEMMA ChangeKeeps ==
  ASSUME ListInv, NEW r \in ListRow, ListChange(r)
  PROVE  ListInv'
<1>1. PICK l \in {scroll.list} :
        /\ \E k \in KindsFor(l), n \in RanksFor(l) :
             /\ item' = [item EXCEPT ![r] = k]
             /\ rank' = [rank EXCEPT ![r] = n]
        /\ steady' = steady \cap ShownIn(l)'
        /\ scroll' = [scroll EXCEPT !.sound =
                        /\ @
                        /\ \/ l \in Keyset
                           \/ /\ scroll.step # "page"
                              /\ Slice(Cards(l)', 0, Len(scroll.got)) = scroll.got]
  BY DEF ListChange
<1>2. /\ scroll.step \in {"next", "authorize", "page"} /\ listSteps < MaxListSteps
      /\ listSteps' = listSteps + 1 /\ ScrollTypes /\ l = scroll.list /\ l \in Listing
  BY <1>1 DEF ListChange, ListInv, ScrollTypes
<1> DEFINE still == l \in Keyset \/ (scroll.step # "page" /\ Slice(Cards(l)', 0, Len(scroll.got)) = scroll.got)
<1>3. scroll' = [scroll EXCEPT !.sound = scroll.sound /\ still]
  BY <1>1
<1> HIDE DEF still
<1>4. /\ scroll'.step = scroll.step /\ scroll'.list = l /\ scroll'.got = scroll.got
      /\ scroll'.after = scroll.after /\ scroll'.scope = scroll.scope /\ scroll'.page = scroll.page
      /\ scroll'.total = scroll.total
  BY <1>2, <1>3 DEF ScrollTypes
<1>5. scroll'.sound = TRUE => scroll.sound = TRUE /\ still
  BY <1>2, <1>3 DEF ScrollTypes
<1>6. ScrollTypes'
  <2>1. item' \in [ListRow -> ItemKind] /\ rank' \in [ListRow -> 1 .. 2]
    <3>1. \A k \in KindsFor(l), n \in RanksFor(l) : k \in ItemKind /\ n \in 1 .. 2
      BY DEF KindsFor, RanksFor, ItemKind
    <3> QED BY <1>1, <1>2, <3>1 DEF ScrollTypes
  <2>2. listSteps' \in 0 .. MaxListSteps /\ steady' \subseteq ListRow
    BY <1>1, <1>2, PageSizes DEF ScrollTypes
  <2>3. scroll' \in [step : {"idle", "next", "authorize", "page", "done"}, list : Listing, after : Nat,
                    scope : Listing \cup {"none"}, got : Seq(ListRow), total : Nat,
                    page : Seq(ListRow), sound : BOOLEAN]
    <3>1. (scroll.sound /\ still) \in BOOLEAN
      OBVIOUS
    <3> QED BY <1>2, <1>3, <3>1 DEF ScrollTypes
  <2> QED BY <2>1, <2>2, <2>3 DEF ScrollTypes
<1>7. steady' \subseteq steady /\ steady' \subseteq ShownIn(l)'
  BY <1>1
<1>8. ASSUME l \in Keyset PROVE KeysetInv'
  <2>1. KeysetInv /\ scroll.step \in {"next", "authorize"}
    BY <1>2, <1>8 DEF ListInv, KeysetInv
  <2>2. steady' \subseteq Rows(scroll.list)'
    <3>1. steady' \subseteq Rows(l)'
      BY <1>7, <1>8 DEF ShownIn
    <3> QED BY <1>4, <3>1 DEF Rows
  <2>3. (CursorFits(scroll.list))' <=> CursorFits(scroll.list)
    BY <1>2, <1>4 DEF CursorFits
  <2>4. GotUpTo => GotUpTo'
    BY <1>4, <1>7 DEF GotUpTo, GotOf
  <2>5. PageHeld => PageHeld'
    BY <1>4, <1>7 DEF PageHeld, Beyond
  <2> QED BY <1>2, <1>4, <2>1, <2>2, <2>3, <2>4, <2>5 DEF KeysetInv
<1>9. ASSUME l \notin Keyset PROVE CardsInv'
  <2>1. CardsInv /\ scroll.step \in {"next", "page"}
    BY <1>2, <1>9 DEF ListInv, CardsInv
  <2>2. Cards(scroll.list)' = Cards(l)'
    BY <1>4
  <2>3. steady' \subseteq Range(Cards(l)')
    BY <1>7, <1>9 DEF ShownIn
  <2>4. scroll'.sound = TRUE => scroll.step = "next" /\ Slice(Cards(l)', 0, Len(scroll.got)) = scroll.got
    BY <1>5, <1>9, <2>1 DEF still
  <2>5. scroll'.after = Len(scroll'.got)
    BY <1>4, <2>1 DEF CardsInv
  <2> QED BY <1>4, <2>1, <2>2, <2>3, <2>4, <2>5 DEF CardsInv
<1> QED BY <1>2, <1>4, <1>6, <1>8, <1>9 DEF ListInv

\* Every step keeps the invariant.
LEMMA ListInvNext == ListInv /\ [ListingsNext]_listVars => ListInv'
<1> SUFFICES ASSUME ListInv, [ListingsNext]_listVars PROVE ListInv'
  OBVIOUS
<1>1. CASE UNCHANGED listVars
  <2>1. UNCHANGED <<item, rank, scroll, steady, listSteps>> /\ ScrollTypes
    BY <1>1 DEF listVars, ListInv
  <2>2. /\ Cards(scroll.list)' = Cards(scroll.list)
        /\ Rows(scroll.list)' = Rows(scroll.list)
    <3>1. PICK l \in Listing : l = scroll.list
      BY <2>1 DEF ScrollTypes
    <3> QED BY <2>1, <3>1, SameRows
  <2>3. ScrollTypes' /\ (NothingYet => NothingYet')
    BY <2>1 DEF ScrollTypes, NothingYet
  <2>4. KeysetInv => KeysetInv'
    BY <2>1, <2>2 DEF KeysetInv, CursorFits, GotUpTo, PageHeld
  <2>5. CardsInv => CardsInv'
    BY <2>1, <2>2 DEF CardsInv
  <2> QED BY <2>1, <2>3, <2>4, <2>5 DEF ListInv
<1> QED BY <1>1, ScrollBeginKeeps, PageReadKeeps, AuthorizeKeeps, BrowseKeeps, FilterKeeps, CountKeeps,
           CardsReadKeeps, ChangeKeeps DEF ListingsNext

\* What a client has got are rows, and its cursor is a number, whatever the
\* requests change between two pages.
THEOREM ListingsAreTyped == ListingsSpec => []ListingsTypeOK
<1>1. ListInv => ListingsTypeOK
  <2> SUFFICES ASSUME ListInv PROVE ListingsTypeOK
    OBVIOUS
  <2>1. ScrollTypes
    BY DEF ListInv
  <2>2. Range(scroll.got) \subseteq ListRow
    BY <2>1, RangeIs DEF ScrollTypes
  <2> QED BY <2>1, <2>2 DEF ScrollTypes, ListingsTypeOK
<1> QED BY <1>1, ListInvInit, ListInvNext, PTL DEF ListingsSpec

\* A client that follows a listing to its end has got every row that was there all
\* the time, and no row twice, for every number of rows and every size of the page.
THEOREM RowsListedOnce == ListingsSpec => []ListedOnce
<1>1. ListInv => ListedOnce
  <2> SUFFICES ASSUME ListInv, scroll.step = "done", scroll.list \in Keyset \/ scroll.sound
               PROVE  IsInjective(scroll.got) /\ steady \subseteq Range(scroll.got)
    BY DEF ListedOnce
  <2>1. CASE scroll.list \in Keyset
    BY <2>1 DEF ListInv, KeysetInv
  <2>2. CASE scroll.list \notin Keyset
    <3>1. scroll.sound = TRUE
      BY <2>2 DEF ListInv, ScrollTypes
    <3> QED BY <2>2, <3>1 DEF ListInv, CardsInv
  <2> QED BY <2>1, <2>2
<1> QED BY <1>1, ListInvInit, ListInvNext, PTL DEF ListingsSpec

-----------------------------------------------------------------------------
(* Sums over finite sets. *)

\* The units that the members of s weigh, and how many they are.
Units(w, s) == UNION {{x} \X (1 .. w[x]) : x \in s}

Amount(w, s) == Cardinality(Units(w, s))

\* A smaller set.
Within(u, s) == u \subseteq s /\ u # s

\* A non-empty set of finite subsets of S has a smallest member.
LEMMA SmallestSet ==
  ASSUME NEW S, NEW F, F # {}, \A s \in F : s \subseteq S /\ IsFiniteSet(s)
  PROVE  \E s \in F : \A u \in F : ~Within(u, s)
<1>1. F \subseteq FiniteSubsetsOf(S)
  BY DEF FiniteSubsetsOf
<1>2. PICK s \in F : \A u \in F : <<u, s>> \notin StrictSubsetOrdering(S)
  BY <1>1, WFMin, FS_StrictSubsetOrderingWellFounded
<1>3. ASSUME NEW u \in F, Within(u, s) PROVE FALSE
  <2>1. u \in SUBSET S /\ s \in SUBSET S
    OBVIOUS
  <2> QED BY <1>2, <1>3, <2>1 DEF StrictSubsetOrdering, Within
<1> QED BY <1>3

\* A non-empty set of naturals has a smallest member, which Min finds.
LEMMA LeastOf ==
  ASSUME NEW T \in SUBSET Nat, T # {}
  PROVE  /\ \E m \in T : \A n \in T : m <= n
         /\ Min(T) \in T /\ \A n \in T : Min(T) <= n
<1> DEFINE upTo == {0 .. m : m \in T}
<1>1. upTo \in SUBSET (SUBSET Nat) /\ upTo # {}
  <2>1. \A m \in Nat : 0 .. m \subseteq Nat
    OBVIOUS
  <2> QED BY <2>1
<1>2. \A s \in upTo : IsFiniteSet(s)
  BY FS_Interval
<1>3. \E s \in upTo : \A u \in upTo : ~(u \subseteq s /\ u # s)
  <2>1. upTo \subseteq FiniteSubsetsOf(Nat) /\ upTo # {}
    BY <1>1, <1>2 DEF FiniteSubsetsOf
  <2>2. PICK s \in upTo : \A u \in upTo : <<u, s>> \notin StrictSubsetOrdering(Nat)
    <3> HIDE DEF upTo
    <3> QED BY <2>1, WFMin, FS_StrictSubsetOrderingWellFounded
  <2>3. ASSUME NEW u \in upTo, u \subseteq s, u # s PROVE FALSE
    <3>1. u \in SUBSET Nat /\ s \in SUBSET Nat
      BY <1>1
    <3> QED BY <2>2, <2>3, <3>1 DEF StrictSubsetOrdering
  <2> HIDE DEF upTo
  <2> QED BY <2>3
<1> HIDE DEF upTo
<1>4. PICK s \in upTo : \A u \in upTo : ~(u \subseteq s /\ u # s)
  BY <1>3
<1> USE DEF upTo
<1>5. PICK m \in T : s = 0 .. m
  OBVIOUS
<1>6. ASSUME NEW n \in T, n < m PROVE FALSE
  <2>1. (0 .. n) \in upTo /\ (0 .. n) \subseteq (0 .. m) /\ (0 .. n) # (0 .. m)
    BY <1>6
  <2> QED BY <1>4, <1>5, <2>1
<1>7. \A n \in T : m <= n
  BY <1>6
<1>8. Min(T) \in T /\ \A n \in T : Min(T) <= n
  BY <1>7 DEF Min
<1> QED BY <1>7, <1>8

\* The units of finitely many members are finitely many.
LEMMA UnitsFinite ==
  ASSUME NEW s, IsFiniteSet(s), NEW w, \A x \in s : w[x] \in Nat
  PROVE  IsFiniteSet(Units(w, s)) /\ Amount(w, s) \in Nat
<1> DEFINE part == [x \in s |-> {x} \X (1 .. w[x])]
           parts == {part[x] : x \in s}
<1>1. \A x \in s : IsFiniteSet(part[x])
  <2> SUFFICES ASSUME NEW x \in s PROVE IsFiniteSet({x} \X (1 .. w[x]))
    OBVIOUS
  <2>1. IsFiniteSet({x})
    BY FS_Singleton
  <2>2. IsFiniteSet(1 .. w[x])
    BY FS_Interval
  <2> QED BY <2>1, <2>2, FS_Product
<1>2. IsFiniteSet(parts)
  <2>1. part \in Surjection(s, parts)
    BY DEF Surjection
  <2> HIDE DEF part, parts
  <2> QED BY <2>1, FS_Surjection
<1>3. Units(w, s) = UNION parts
  BY DEF Units
<1>4. IsFiniteSet(UNION parts)
  <2>1. \A p \in parts : IsFiniteSet(p)
    BY <1>1
  <2> HIDE DEF parts
  <2> QED BY <1>2, <2>1, FS_UNION
<1> QED BY <1>3, <1>4, FS_CardinalityType DEF Amount

\* The amount of a union of two sets that share nothing.
LEMMA AmountOfUnion ==
  ASSUME NEW s, NEW t, IsFiniteSet(s), IsFiniteSet(t), s \cap t = {},
         NEW w, \A x \in s \cup t : w[x] \in Nat
  PROVE  Amount(w, s \cup t) = Amount(w, s) + Amount(w, t)
<1>1. Units(w, s \cup t) = Units(w, s) \cup Units(w, t)
  BY DEF Units
<1>2. Units(w, s) \cap Units(w, t) = {}
  BY DEF Units
<1>3. IsFiniteSet(Units(w, s)) /\ IsFiniteSet(Units(w, t))
  BY UnitsFinite
<1>4. Amount(w, s) \in Nat /\ Amount(w, t) \in Nat
  BY UnitsFinite
<1>5. Cardinality(Units(w, s) \cup Units(w, t))
        = Cardinality(Units(w, s)) + Cardinality(Units(w, t)) - Cardinality(Units(w, s) \cap Units(w, t))
  BY <1>3, FS_Union
<1>6. Cardinality(Units(w, s) \cap Units(w, t)) = 0
  BY <1>2, FS_EmptySet
<1>7. Amount(w, s \cup t) = Amount(w, s) + Amount(w, t) - 0
  BY <1>1, <1>5, <1>6 DEF Amount
<1> QED BY <1>4, <1>7

\* The amount of one member, and of none.
LEMMA AmountOfOne ==
  ASSUME NEW x, NEW w, w[x] \in Nat
  PROVE  Amount(w, {x}) = w[x]
<1>1. Units(w, {x}) = {x} \X (1 .. w[x])
  BY DEF Units
<1>2. IsFiniteSet({x}) /\ Cardinality({x}) = 1
  BY FS_Singleton
<1>3. IsFiniteSet(1 .. w[x]) /\ Cardinality(1 .. w[x]) = w[x]
  BY FS_Interval
<1>4. Cardinality({x} \X (1 .. w[x])) = Cardinality({x}) * Cardinality(1 .. w[x])
  BY <1>2, <1>3, FS_Product
<1>5. Cardinality({x} \X (1 .. w[x])) = 1 * w[x]
  BY <1>2, <1>3, <1>4
<1>6. 1 * w[x] = w[x]
  OBVIOUS
<1> QED BY <1>1, <1>5, <1>6 DEF Amount

\* Nothing weighs nothing.
LEMMA AmountOfNone == \A w : Amount(w, {}) = 0
<1>1. \A w : Units(w, {}) = {}
  BY DEF Units
<1> QED BY <1>1, FS_EmptySet DEF Amount

\* Amounts depend on the weights of the members only.
LEMMA AmountSame ==
  ASSUME NEW s, NEW v, NEW w, \A x \in s : v[x] = w[x]
  PROVE  Amount(v, s) = Amount(w, s)
<1>1. Units(v, s) = Units(w, s)
  BY DEF Units
<1> QED BY <1>1 DEF Amount

\* Members that weigh one are counted.
LEMMA AmountOfOnes ==
  ASSUME NEW s, IsFiniteSet(s)
  PROVE  Amount([x \in s |-> 1], s) = Cardinality(s)
<1> DEFINE w == [x \in s |-> 1]
<1>1. Units(w, s) = s \X (1 .. 1)
  <2>1. Units(w, s) = UNION {{x} \X (1 .. 1) : x \in s}
    BY DEF Units
  <2> QED BY <2>1
<1>2. IsFiniteSet({1}) /\ Cardinality({1}) = 1 /\ 1 .. 1 = {1}
  BY FS_Singleton
<1>3. Cardinality(s \X {1}) = Cardinality(s) * Cardinality({1})
  BY <1>2, FS_Product
<1>4. Cardinality(s) \in Nat
  BY FS_CardinalityType
<1>5. Cardinality(s) * Cardinality({1}) = Cardinality(s)
  BY <1>2, <1>4
<1> HIDE DEF w
<1>6. Amount(w, s) = Cardinality(s)
  BY <1>1, <1>2, <1>3, <1>5 DEF Amount
<1> QED BY <1>6 DEF w

\* What is left without x, and x.
LEMMA AmountWithout ==
  ASSUME NEW s, IsFiniteSet(s), NEW w, \A y \in s : w[y] \in Nat, NEW x \in s
  PROVE  Amount(w, s) = w[x] + Amount(w, s \ {x})
<1>1. s = {x} \cup (s \ {x}) /\ {x} \cap (s \ {x}) = {}
  OBVIOUS
<1>2. IsFiniteSet({x}) /\ IsFiniteSet(s \ {x})
  BY FS_Singleton, FS_Difference
<1>3. Amount(w, {x} \cup (s \ {x})) = Amount(w, {x}) + Amount(w, s \ {x})
  BY <1>1, <1>2, AmountOfUnion
<1> QED BY <1>1, <1>3, AmountOfOne

\* The recursion by which the community modules sum the weights of S.
SumsUp(g, w, S) ==
  g = [s \in SUBSET S |->
         IF s = {} THEN 0 ELSE w[CHOOSE x \in s : TRUE] + g[s \ {CHOOSE x \in s : TRUE}]]

\* The amounts of the subsets.
Amounts(w, S) == [s \in SUBSET S |-> Amount(w, s)]

\* It has one solution, the amounts of the subsets.
LEMMA SumSolved ==
  ASSUME NEW S, IsFiniteSet(S), NEW w, \A x \in S : w[x] \in Nat, NEW g
  PROVE  SumsUp(g, w, S) <=> g = Amounts(w, S)
<1> DEFINE member(s) == CHOOSE x \in s : TRUE
           next == [s \in SUBSET S |-> IF s = {} THEN 0 ELSE w[member(s)] + g[s \ {member(s)}]]
<1>0. (SumsUp(g, w, S) <=> g = next) /\ Amounts(w, S) = [s \in SUBSET S |-> Amount(w, s)]
  BY DEF SumsUp, Amounts
<1>1. \A s \in SUBSET S : IsFiniteSet(s)
  BY FS_Subset
<1>2. \A s \in SUBSET S : s # {} => /\ member(s) \in s
                                    /\ Amount(w, s) = w[member(s)] + Amount(w, s \ {member(s)})
  <2> SUFFICES ASSUME NEW s \in SUBSET S, s # {}
               PROVE  /\ member(s) \in s
                      /\ Amount(w, s) = w[member(s)] + Amount(w, s \ {member(s)})
    OBVIOUS
  <2>1. member(s) \in s
    OBVIOUS
  <2>2. IsFiniteSet(s) /\ \A y \in s : w[y] \in Nat
    BY <1>1
  <2> HIDE DEF member
  <2> QED BY <2>1, <2>2, AmountWithout
<1>3. ASSUME g = Amounts(w, S) PROVE g = next
  <2>1. g = [s \in SUBSET S |-> Amount(w, s)] /\ \A s \in SUBSET S : g[s] = Amount(w, s)
    BY <1>0, <1>3
  <2>2. \A s \in SUBSET S : (IF s = {} THEN 0 ELSE w[member(s)] + g[s \ {member(s)}]) = Amount(w, s)
    <3> SUFFICES ASSUME NEW s \in SUBSET S
                 PROVE  (IF s = {} THEN 0 ELSE w[member(s)] + g[s \ {member(s)}]) = Amount(w, s)
      OBVIOUS
    <3>1. CASE s = {}
      BY <3>1, AmountOfNone
    <3>2. CASE s # {}
      <4>1. s \ {member(s)} \in SUBSET S
        OBVIOUS
      <4>2. g[s \ {member(s)}] = Amount(w, s \ {member(s)})
        BY <2>1, <4>1
      <4> HIDE DEF member
      <4> QED BY <1>2, <3>2, <4>2
    <3> QED BY <3>1, <3>2
  <2> QED BY <2>1, <2>2
<1>4. ASSUME g = next PROVE g = Amounts(w, S)
  <2>1. \A s \in SUBSET S : g[s] = IF s = {} THEN 0 ELSE w[member(s)] + g[s \ {member(s)}]
    BY <1>4
  <2> DEFINE F == {s \in SUBSET S : g[s] # Amount(w, s)}
  <2>2. F = {}
    <3> SUFFICES ASSUME F # {} PROVE FALSE
      OBVIOUS
    <3>1. PICK s \in F : \A u \in F : ~Within(u, s)
      <4>1. F # {} /\ \A u \in F : u \subseteq S /\ IsFiniteSet(u)
        BY <1>1
      <4> HIDE DEF F
      <4> QED BY <4>1, SmallestSet
    <3>2. s \in SUBSET S /\ g[s] # Amount(w, s)
      OBVIOUS
    <3>3. s # {}
      BY <2>1, <3>2, AmountOfNone
    <3>4. member(s) \in s
      BY <1>2, <3>2, <3>3
    <3> HIDE DEF member
    <3>5. s \ {member(s)} \in SUBSET S /\ s \ {member(s)} \notin F
      BY <3>1, <3>2, <3>4 DEF Within
    <3>6. g[s \ {member(s)}] = Amount(w, s \ {member(s)})
      BY <3>5
    <3>7. g[s] = w[member(s)] + g[s \ {member(s)}]
      BY <2>1, <3>2, <3>3
    <3> QED BY <1>2, <3>2, <3>3, <3>6, <3>7
  <2>3. \A s \in SUBSET S : g[s] = Amount(w, s)
    BY <2>2
  <2> QED BY <1>0, <1>4, <2>3
<1> QED BY <1>0, <1>3, <1>4

\* The solution is what a sum takes.
LEMMA SumIs ==
  ASSUME NEW S, IsFiniteSet(S), NEW w, \A x \in S : w[x] \in Nat
  PROVE  (CHOOSE g : SumsUp(g, w, S))[S] = Amount(w, S)
<1>1. \A g : SumsUp(g, w, S) <=> g = Amounts(w, S)
  BY SumSolved
<1>2. (CHOOSE g : SumsUp(g, w, S)) = Amounts(w, S)
  BY <1>1
<1> QED BY <1>2 DEF Amounts

\* The members of S in a cell.
Group(S, cell, c) == {y \in S : cell[y] = c}

\* Sums over groups of S add up to the sum over S.
LEMMA Grouped ==
  ASSUME NEW S, IsFiniteSet(S), NEW w, \A x \in S : w[x] \in Nat,
         NEW C, IsFiniteSet(C), NEW cell, \A x \in S : cell[x] \in C,
         NEW v, \A c \in C : v[c] = Amount(w, Group(S, cell, c))
  PROVE  /\ \A c \in C : v[c] \in Nat
         /\ Amount(v, C) = Amount(w, S)
<1> DEFINE within(D) == {x \in S : cell[x] \in D}
<1>1. \A D : IsFiniteSet(within(D)) /\ Amount(w, within(D)) \in Nat
  <2> SUFFICES ASSUME NEW D PROVE IsFiniteSet(within(D)) /\ Amount(w, within(D)) \in Nat
    OBVIOUS
  <2>1. within(D) \subseteq S /\ \A x \in within(D) : w[x] \in Nat
    OBVIOUS
  <2> HIDE DEF within
  <2> QED BY <2>1, FS_Subset, UnitsFinite
<1>2. \A c \in C : v[c] = Amount(w, within({c}))
  <2>1. \A c : within({c}) = Group(S, cell, c)
    BY DEF Group
  <2> HIDE DEF within
  <2> QED BY <2>1
<1>3. \A c \in C : v[c] \in Nat
  BY <1>1, <1>2
<1> DEFINE F == {D \in SUBSET C : Amount(v, D) # Amount(w, within(D))}
<1>4. F = {}
  <2> SUFFICES ASSUME F # {} PROVE FALSE
    OBVIOUS
  <2>1. PICK D \in F : \A E \in F : ~Within(E, D)
    <3>1. F # {} /\ \A D \in F : D \subseteq C /\ IsFiniteSet(D)
      BY FS_Subset
    <3> HIDE DEF F
    <3> QED BY ONLY <3>1, SmallestSet
  <2>2. D \in SUBSET C /\ Amount(v, D) # Amount(w, within(D)) /\ IsFiniteSet(D)
    BY FS_Subset
  <2>3. D # {}
    <3>1. within({}) = {}
      OBVIOUS
    <3> HIDE DEF within
    <3> QED BY <2>2, <3>1, AmountOfNone
  <2>4. PICK c \in D : TRUE
    BY <2>3
  <2>5. Amount(v, D \ {c}) = Amount(w, within(D \ {c}))
    <3>1. D \ {c} \notin F
      BY <2>1, <2>2, <2>4 DEF Within
    <3> HIDE DEF within
    <3> QED BY <2>2, <3>1
  <2>6. Amount(v, D) = v[c] + Amount(v, D \ {c})
    BY <1>3, <2>2, <2>4, AmountWithout
  <2>7. within(D) = within({c}) \cup within(D \ {c}) /\ within({c}) \cap within(D \ {c}) = {}
    BY <2>4
  <2>8. Amount(w, within(D)) = Amount(w, within({c})) + Amount(w, within(D \ {c}))
    <3> DEFINE one == within({c})
               rest == within(D \ {c})
    <3>1. \A x \in one \cup rest : w[x] \in Nat
      OBVIOUS
    <3>2. IsFiniteSet(one) /\ IsFiniteSet(rest) /\ one \cap rest = {} /\ within(D) = one \cup rest
      BY <1>1, <2>7
    <3> HIDE DEF one, rest
    <3>3. Amount(w, one \cup rest) = Amount(w, one) + Amount(w, rest)
      BY <3>1, <3>2, AmountOfUnion
    <3> HIDE DEF within
    <3> QED BY <3>2, <3>3 DEF one, rest
  <2> HIDE DEF within
  <2> QED BY <1>2, <2>2, <2>4, <2>5, <2>6, <2>8
<1>5. within(C) = S
  OBVIOUS
<1>6. Amount(v, C) = Amount(w, within(C))
  <2> HIDE DEF within
  <2> QED BY <1>4
<1> HIDE DEF within
<1> QED BY <1>3, <1>5, <1>6

-----------------------------------------------------------------------------
(* The tables. *)

\* The tables have their types.
TablesTyped ==
  /\ dirs \in [Dir -> [parent : 0 .. DirCount, type : BuiltIn \cup {"DEF"}]]
  /\ files \in [ReportFile -> [parent : 0 .. DirCount, state : {"visible", "recycled", "purged"},
                               object : StoredObject]]
  /\ bytes \in [StoredObject -> 0 .. MaxBytes]

\* The numbers and sets the assumption is about.
LEMMA ReportSizes ==
  /\ DirCount \in Nat /\ FileCount \in Nat /\ MaxBytes \in Nat /\ MaxWalk \in Nat
  /\ MaxReportSteps \in Nat
  /\ IsFiniteSet(StoredObject) /\ IsFiniteSet(BuiltIn) /\ "UNCLASSIFIED" \notin BuiltIn
BY ReportBounds

\* There are finitely many files.
LEMMA FilesFinite == IsFiniteSet(ReportFile)
<1>1. 1 \in Int /\ FileCount \in Int
  BY ReportSizes
<1> QED BY <1>1, FS_Interval DEF ReportFile

\* The recursion of a walk to the root.
WalksUp(up, f, n) ==
  up = [k \in 1 .. n |->
          IF k = 1 THEN files[f].parent ELSE IF up[k - 1] = 0 THEN 0 ELSE dirs[up[k - 1]].parent]

\* A walk goes up through directories to the root.
LEMMA WalkTypes ==
  ASSUME TablesTyped, NEW f \in ReportFile
  PROVE  Walk(f) \in [1 .. MaxWalk -> 0 .. DirCount]
<1>1. files[f].parent \in 0 .. DirCount /\ \A d \in 0 .. DirCount : d # 0 => dirs[d].parent \in 0 .. DirCount
  <2>1. \A d \in 0 .. DirCount : d # 0 => d \in Dir
    BY ReportSizes DEF Dir
  <2> QED BY <2>1 DEF TablesTyped
<1>2. \A n \in Nat : \E up : WalksUp(up, f, n)
  <2> DEFINE T == {n \in Nat : ~ \E up : WalksUp(up, f, n)}
  <2> SUFFICES ASSUME T # {} PROVE FALSE
    OBVIOUS
  <2>1. PICK n \in T : \A k \in T : n <= k
    <3>1. T \in SUBSET Nat
      OBVIOUS
    <3> HIDE DEF T
    <3> QED BY <3>1, LeastOf
  <2>2. n # 0
    <3>1. WalksUp([k \in 1 .. 0 |-> 0], f, 0)
      BY DEF WalksUp
    <3> QED BY <2>1, <3>1
  <2>3. n \in Nat /\ n - 1 \in Nat /\ n - 1 \notin T
    BY <2>1, <2>2
  <2>4. PICK up : WalksUp(up, f, n - 1)
    BY <2>3
  <2> DEFINE last == IF n = 1 THEN files[f].parent
                     ELSE IF up[n - 1] = 0 THEN 0 ELSE dirs[up[n - 1]].parent
             more == [k \in 1 .. n |-> IF k = n THEN last ELSE up[k]]
  <2>5. \A k \in 1 .. n - 1 : more[k] = up[k]
    BY <2>3
  <2>6. \A k \in 1 .. n - 1 :
           up[k] = IF k = 1 THEN files[f].parent ELSE IF up[k - 1] = 0 THEN 0 ELSE dirs[up[k - 1]].parent
    BY <2>4 DEF WalksUp
  <2>7. \A k \in 1 .. n :
           (IF k = n THEN last ELSE up[k])
             = IF k = 1 THEN files[f].parent
               ELSE IF more[k - 1] = 0 THEN 0 ELSE dirs[more[k - 1]].parent
    <3> SUFFICES ASSUME NEW k \in 1 .. n
                 PROVE  (IF k = n THEN last ELSE up[k])
                          = IF k = 1 THEN files[f].parent
                            ELSE IF more[k - 1] = 0 THEN 0 ELSE dirs[more[k - 1]].parent
      OBVIOUS
    <3>1. CASE k = 1 /\ k = n
      BY <3>1
    <3>2. CASE k = 1 /\ k # n
      BY <2>3, <2>6, <3>2
    <3>3. CASE k # 1
      <4>1. k - 1 \in 1 .. n - 1 /\ (k # n => k \in 1 .. n - 1)
        BY <2>3, <3>3
      <4>2. more[k - 1] = up[k - 1]
        BY <2>5, <4>1
      <4> HIDE DEF more
      <4> QED BY <2>6, <3>3, <4>1, <4>2
    <3> QED BY <3>1, <3>2, <3>3
  <2>8. WalksUp(more, f, n)
    BY <2>7 DEF WalksUp
  <2> QED BY <2>1, <2>8
<1>3. WalksUp(Walk(f), f, MaxWalk)
  <2>1. Walk(f) = CHOOSE up : WalksUp(up, f, MaxWalk)
    BY DEF Walk, WalksUp
  <2> QED BY <1>2, <2>1, ReportSizes
<1>4. ASSUME NEW up, WalksUp(up, f, MaxWalk) PROVE up \in [1 .. MaxWalk -> 0 .. DirCount]
  <2>1. \A k \in 1 .. MaxWalk :
           up[k] = IF k = 1 THEN files[f].parent ELSE IF up[k - 1] = 0 THEN 0 ELSE dirs[up[k - 1]].parent
    BY <1>4 DEF WalksUp
  <2> DEFINE T == {k \in 1 .. MaxWalk : up[k] \notin 0 .. DirCount}
  <2>2. T = {}
    <3> SUFFICES ASSUME T # {} PROVE FALSE
      OBVIOUS
    <3>1. PICK k \in T : \A j \in T : k <= j
      <4>1. T \in SUBSET Nat
        OBVIOUS
      <4> HIDE DEF T
      <4> QED BY <4>1, LeastOf
    <3>2. k \in 1 .. MaxWalk /\ up[k] \notin 0 .. DirCount
      OBVIOUS
    <3>3. k # 1
      BY <1>1, <2>1, <3>2
    <3>4. k - 1 \in 1 .. MaxWalk /\ k - 1 \notin T
      BY <3>1, <3>2, <3>3, ReportSizes
    <3>5. up[k - 1] \in 0 .. DirCount
      BY <3>4
    <3> QED BY <1>1, <2>1, <3>2, <3>3, <3>5, ReportSizes
  <2>3. up = [k \in 1 .. MaxWalk |-> up[k]]
    BY <1>4, <2>1 DEF WalksUp
  <2>4. \A k \in 1 .. MaxWalk : up[k] \in 0 .. DirCount
    BY <2>2
  <2> QED BY <2>3, <2>4
<1> QED BY <1>3, <1>4

\* A file belongs to a built-in type or to none.
LEMMA CategoryTypes ==
  ASSUME TablesTyped, NEW f \in ReportFile
  PROVE  CategoryOf(f) \in BuiltIn \cup {"DEF"} /\ TypeOf(f) \in FileType
<1> DEFINE walk == Walk(f)
           typed == {k \in 1 .. MaxWalk : walk[k] # 0 /\ dirs[walk[k]].type # "DEF"}
<1>1. walk \in [1 .. MaxWalk -> 0 .. DirCount]
  BY WalkTypes
<1> HIDE DEF walk
<1>2. CategoryOf(f) = IF typed = {} THEN "DEF" ELSE dirs[walk[Max(typed)]].type
  BY DEF CategoryOf, walk
<1>3. ASSUME typed # {} PROVE dirs[walk[Max(typed)]].type \in BuiltIn \cup {"DEF"}
  <2>1. Max(typed) \in typed
    <3>1. MaxWalk \in Int /\ \A k \in typed : k \in Int /\ k <= MaxWalk
      BY ReportSizes
    <3> HIDE DEF typed
    <3> QED BY <1>3, <3>1, LargestOf
  <2>2. walk[Max(typed)] \in 0 .. DirCount /\ walk[Max(typed)] # 0
    BY <1>1, <2>1
  <2>3. walk[Max(typed)] \in Dir
    BY <2>2, ReportSizes DEF Dir
  <2> HIDE DEF typed
  <2> QED BY <2>3 DEF TablesTyped
<1>4. files[f].object \in StoredObject
  BY DEF TablesTyped
<1> HIDE DEF typed
<1> QED BY <1>2, <1>3, <1>4 DEF TypeOf, FileType

\* An object that is no orphan is counted under one of its files.
LEMMA MainFileIs ==
  ASSUME TablesTyped, NEW o \in StoredObject, ~IsOrphan(o)
  PROVE  /\ MainCategory(o) \in BuiltIn \cup {"DEF"}
         /\ MainCell(o) \in (BuiltIn \cup {"DEF"}) \X FileType
<1>1. /\ MainFiles(o) \subseteq ReportFile /\ MainFiles(o) # {}
      /\ LET known == IF \E f \in MainFiles(o) : TypeOf(f) # "unknown"
                       THEN {f \in MainFiles(o) : TypeOf(f) # "unknown"} ELSE MainFiles(o)
         IN known \subseteq ReportFile /\ known # {}
  <2> DEFINE seen == IF \E f \in Refs(o) : files[f].state = "visible"
                     THEN {f \in Refs(o) : files[f].state = "visible"} ELSE Refs(o)
             main == IF \E f \in seen : CategoryOf(f) # "DEF"
                     THEN {f \in seen : CategoryOf(f) # "DEF"} ELSE seen
  <2>1. Refs(o) \subseteq ReportFile /\ Refs(o) # {}
    BY DEF Refs, IsOrphan
  <2>2. MainFiles(o) = main
    BY DEF MainFiles, Preferred
  <2>3. seen \subseteq ReportFile /\ seen # {}
    BY <2>1
  <2>4. main \subseteq ReportFile /\ main # {}
    <3> HIDE DEF seen
    <3> QED BY <2>3
  <2> HIDE DEF main, seen
  <2> QED BY <2>2, <2>4
<1>2. \A S \in SUBSET ReportFile : S # {} => Min(S) \in ReportFile
  <2> SUFFICES ASSUME NEW S \in SUBSET ReportFile, S # {} PROVE Min(S) \in ReportFile
    OBVIOUS
  <2>1. S \in SUBSET Nat
    BY ReportSizes DEF ReportFile
  <2> QED BY <2>1, LeastOf
<1>3. MainCategory(o) = CategoryOf(Min(MainFiles(o)))
  BY DEF MainCategory
<1>4. PICK f \in ReportFile : MainCell(o) = <<CategoryOf(f), TypeOf(f)>>
  <2> DEFINE known == IF \E f \in MainFiles(o) : TypeOf(f) # "unknown"
                       THEN {f \in MainFiles(o) : TypeOf(f) # "unknown"} ELSE MainFiles(o)
  <2>1. MainCell(o) = <<CategoryOf(Min(known)), TypeOf(Min(known))>>
    BY DEF MainCell, Preferred
  <2>2. known \in SUBSET ReportFile /\ known # {}
    BY <1>1
  <2> HIDE DEF known
  <2> QED BY <1>2, <2>1, <2>2
<1>5. Min(MainFiles(o)) \in ReportFile
  BY <1>1, <1>2
<1> QED BY <1>3, <1>4, <1>5, CategoryTypes

\* What the sums of a row are.
Bytes == [o \in StoredObject |-> bytes[o]]
FileBytes == [f \in ReportFile |-> bytes[files[f].object]]
Ones == [f \in ReportFile |-> 1]

\* A row of a report is made of amounts.
LEMMA RowIs ==
  ASSUME TablesTyped, NEW objs \in SUBSET StoredObject, NEW refs \in SUBSET ReportFile
  PROVE  ReportRow(objs, refs) =
           [physical   |-> Amount(Bytes, objs),
            visible    |-> Amount(Bytes, {o \in objs : IsVisible(o)}),
            recycle    |-> Amount(Bytes, {o \in objs : IsRecycled(o)}),
            orphan     |-> Amount(Bytes, {o \in objs : IsOrphan(o)}),
            references |-> Amount(Ones, refs),
            referenced |-> Amount(FileBytes, refs)]
<1>1. ASSUME NEW S \in SUBSET StoredObject
      PROVE  MapThenSumSet(LAMBDA o : bytes[o], S) = Amount(Bytes, S)
  <2>1. IsFiniteSet(S) /\ \A x \in S : Bytes[x] = bytes[x] /\ Bytes[x] \in Nat
    BY ReportSizes, FS_Subset DEF TablesTyped, Bytes
  <2>2. \A g : SumsUp(g, Bytes, S) <=>
          g = [s \in SUBSET S |->
                 IF s = {} THEN 0 ELSE bytes[CHOOSE x \in s : TRUE] + g[s \ {CHOOSE x \in s : TRUE}]]
    <3> SUFFICES ASSUME NEW g
                 PROVE  [s \in SUBSET S |-> IF s = {} THEN 0 ELSE Bytes[CHOOSE x \in s : TRUE]
                                                                   + g[s \ {CHOOSE x \in s : TRUE}]]
                          = [s \in SUBSET S |-> IF s = {} THEN 0 ELSE bytes[CHOOSE x \in s : TRUE]
                                                                   + g[s \ {CHOOSE x \in s : TRUE}]]
      BY DEF SumsUp
    <3>1. \A s \in SUBSET S : s # {} => Bytes[CHOOSE x \in s : TRUE] = bytes[CHOOSE x \in s : TRUE]
      BY <2>1
    <3> QED BY <3>1
  <2> DEFINE solves(g) == g = [s \in SUBSET S |->
                                 IF s = {} THEN 0 ELSE bytes[CHOOSE x \in s : TRUE]
                                                       + g[s \ {CHOOSE x \in s : TRUE}]]
  <2>3. MapThenSumSet(LAMBDA o : bytes[o], S) = (CHOOSE g : solves(g))[S]
    BY DEF MapThenSumSet, MapThenFoldSet
  <2>4. \A g : SumsUp(g, Bytes, S) <=> solves(g)
    BY <2>2
  <2>5. (CHOOSE g : SumsUp(g, Bytes, S)) = (CHOOSE g : solves(g))
    <3> HIDE DEF solves
    <3> QED BY <2>4
  <2> HIDE DEF solves
  <2> QED BY <2>1, <2>3, <2>5, SumIs
<1>2. MapThenSumSet(LAMBDA f : bytes[files[f].object], refs) = Amount(FileBytes, refs)
  <2>1. IsFiniteSet(refs) /\ \A x \in refs : FileBytes[x] = bytes[files[x].object] /\ FileBytes[x] \in Nat
    <3>1. IsFiniteSet(refs)
      BY FilesFinite, FS_Subset
    <3>2. \A x \in refs : files[x].object \in StoredObject
      BY DEF TablesTyped
    <3> QED BY <3>1, <3>2, ReportSizes DEF TablesTyped, FileBytes
  <2>2. \A g : SumsUp(g, FileBytes, refs) <=>
          g = [s \in SUBSET refs |->
                 IF s = {} THEN 0 ELSE bytes[files[CHOOSE x \in s : TRUE].object]
                                       + g[s \ {CHOOSE x \in s : TRUE}]]
    <3> SUFFICES ASSUME NEW g
                 PROVE  [s \in SUBSET refs |-> IF s = {} THEN 0 ELSE FileBytes[CHOOSE x \in s : TRUE]
                                                                   + g[s \ {CHOOSE x \in s : TRUE}]]
                          = [s \in SUBSET refs |->
                               IF s = {} THEN 0 ELSE bytes[files[CHOOSE x \in s : TRUE].object]
                                                     + g[s \ {CHOOSE x \in s : TRUE}]]
      BY DEF SumsUp
    <3>1. \A s \in SUBSET refs : s # {} => FileBytes[CHOOSE x \in s : TRUE]
                                             = bytes[files[CHOOSE x \in s : TRUE].object]
      BY <2>1
    <3> QED BY <3>1
  <2> DEFINE solves(g) == g = [s \in SUBSET refs |->
                                 IF s = {} THEN 0 ELSE bytes[files[CHOOSE x \in s : TRUE].object]
                                                       + g[s \ {CHOOSE x \in s : TRUE}]]
  <2>3. MapThenSumSet(LAMBDA f : bytes[files[f].object], refs) = (CHOOSE g : solves(g))[refs]
    BY DEF MapThenSumSet, MapThenFoldSet
  <2>4. \A g : SumsUp(g, FileBytes, refs) <=> solves(g)
    BY <2>2
  <2>5. (CHOOSE g : SumsUp(g, FileBytes, refs)) = (CHOOSE g : solves(g))
    <3> HIDE DEF solves
    <3> QED BY <2>4
  <2> HIDE DEF solves
  <2> QED BY <2>1, <2>3, <2>5, SumIs
<1>3. Cardinality(refs) = Amount(Ones, refs)
  <2>1. IsFiniteSet(refs)
    BY FilesFinite, FS_Subset
  <2>2. Amount([x \in refs |-> 1], refs) = Amount(Ones, refs)
    BY AmountSame DEF Ones
  <2> QED BY <2>1, <2>2, AmountOfOnes
<1> DEFINE visible == {o \in objs : IsVisible(o)}
           recycled == {o \in objs : IsRecycled(o)}
           orphans == {o \in objs : IsOrphan(o)}
<1>4. ReportRow(objs, refs) =
        [physical   |-> MapThenSumSet(LAMBDA o : bytes[o], objs),
         visible    |-> MapThenSumSet(LAMBDA o : bytes[o], visible),
         recycle    |-> MapThenSumSet(LAMBDA o : bytes[o], recycled),
         orphan     |-> MapThenSumSet(LAMBDA o : bytes[o], orphans),
         references |-> Cardinality(refs),
         referenced |-> MapThenSumSet(LAMBDA f : bytes[files[f].object], refs)]
  BY DEF ReportRow
<1>5. visible \in SUBSET StoredObject /\ recycled \in SUBSET StoredObject /\ orphans \in SUBSET StoredObject
  OBVIOUS
<1> HIDE DEF visible, recycled, orphans
<1>6. /\ MapThenSumSet(LAMBDA o : bytes[o], objs) = Amount(Bytes, objs)
      /\ MapThenSumSet(LAMBDA o : bytes[o], visible) = Amount(Bytes, visible)
      /\ MapThenSumSet(LAMBDA o : bytes[o], recycled) = Amount(Bytes, recycled)
      /\ MapThenSumSet(LAMBDA o : bytes[o], orphans) = Amount(Bytes, orphans)
  BY <1>1, <1>5
<1>7. ReportRow(objs, refs) =
        [physical   |-> Amount(Bytes, objs),
         visible    |-> Amount(Bytes, visible),
         recycle    |-> Amount(Bytes, recycled),
         orphan     |-> Amount(Bytes, orphans),
         references |-> Amount(Ones, refs),
         referenced |-> Amount(FileBytes, refs)]
  BY <1>2, <1>3, <1>4, <1>6
<1> QED BY <1>7 DEF visible, recycled, orphans

-----------------------------------------------------------------------------
(* The rows of a report. *)

\* The cells of a report are finitely many.
LEMMA CellsFinite == IsFiniteSet(Category \X {"all"}) /\ IsFiniteSet(Category \X FileType)
<1>1. IsFiniteSet({"DEF"}) /\ IsFiniteSet({"UNCLASSIFIED"}) /\ IsFiniteSet({"all"})
  BY FS_Singleton
<1>2. Category = (BuiltIn \cup {"DEF"}) \cup {"UNCLASSIFIED"}
  BY DEF Category
<1>3. IsFiniteSet(Category)
  <2>1. IsFiniteSet(BuiltIn \cup {"DEF"})
    BY <1>1, ReportSizes, FS_Union
  <2> QED BY <1>1, <1>2, <2>1, FS_Union
<1>4. IsFiniteSet(FileType)
  <2> DEFINE byContent == [o \in StoredObject |-> ContentType[o]]
             byName == [f \in ReportFile |-> ExtType[f]]
             A == {byContent[o] : o \in StoredObject}
             B == {byName[f] : f \in ReportFile}
  <2>1. FileType = A \cup B
    BY DEF FileType
  <2>2. byContent \in Surjection(StoredObject, A) /\ byName \in Surjection(ReportFile, B)
    BY DEF Surjection
  <2> HIDE DEF A, B, byContent, byName
  <2>3. IsFiniteSet(A) /\ IsFiniteSet(B)
    BY <2>2, ReportSizes, FilesFinite, FS_Surjection
  <2> QED BY <2>1, <2>3, FS_Union
<1> QED BY <1>1, <1>3, <1>4, FS_Product

\* The sum of a column over some cells.
Column(rows, x, C) == MapThenSumSet(LAMBDA c : rows[c][x], C)

\* The sum of a column over some cells, each of which has the members of its
\* group.
LEMMA ColumnSum ==
  ASSUME NEW S, IsFiniteSet(S), NEW w, \A y \in S : w[y] \in Nat,
         NEW C, IsFiniteSet(C), NEW cell, \A y \in S : cell[y] \in C,
         NEW rows, NEW x, \A c \in C : rows[c][x] = Amount(w, Group(S, cell, c))
  PROVE  Column(rows, x, C) = Amount(w, S)
<1> DEFINE v == [c \in C |-> rows[c][x]]
<1>1. \A c \in C : v[c] = Amount(w, Group(S, cell, c))
  OBVIOUS
<1>2. \A c \in C : v[c] = rows[c][x]
  OBVIOUS
<1> HIDE DEF v
<1>3. (\A c \in C : v[c] \in Nat) /\ Amount(v, C) = Amount(w, S)
  BY <1>1, Grouped
<1>4. \A g : SumsUp(g, v, C) <=>
        g = [s \in SUBSET C |->
               IF s = {} THEN 0 ELSE rows[CHOOSE c \in s : TRUE][x] + g[s \ {CHOOSE c \in s : TRUE}]]
  <2> SUFFICES ASSUME NEW g
               PROVE  [s \in SUBSET C |-> IF s = {} THEN 0 ELSE v[CHOOSE c \in s : TRUE]
                                                             + g[s \ {CHOOSE c \in s : TRUE}]]
                        = [s \in SUBSET C |-> IF s = {} THEN 0 ELSE rows[CHOOSE c \in s : TRUE][x]
                                                             + g[s \ {CHOOSE c \in s : TRUE}]]
    BY DEF SumsUp
  <2>1. \A s \in SUBSET C : s # {} => v[CHOOSE c \in s : TRUE] = rows[CHOOSE c \in s : TRUE][x]
    BY <1>2
  <2> QED BY <2>1
<1> DEFINE solves(g) == g = [s \in SUBSET C |->
                               IF s = {} THEN 0 ELSE rows[CHOOSE c \in s : TRUE][x]
                                                     + g[s \ {CHOOSE c \in s : TRUE}]]
<1>5. Column(rows, x, C) = (CHOOSE g : solves(g))[C]
  BY DEF Column, MapThenSumSet, MapThenFoldSet
<1>6. \A g : SumsUp(g, v, C) <=> solves(g)
  BY <1>4
<1>7. (CHOOSE g : SumsUp(g, v, C)) = (CHOOSE g : solves(g))
  <2> HIDE DEF solves
  <2> QED BY <1>6
<1> HIDE DEF solves
<1> QED BY <1>3, <1>5, <1>7, SumIs

\* What a report says of the library, and what adds up to it.
Splits(lib) == lib.visible + lib.recycle + lib.orphan = lib.physical

RowsAddUp(rows, lib) ==
  /\ \A x \in UNION {DOMAIN rows[c] : c \in DOMAIN rows} : Column(rows, x, DOMAIN rows) = lib[x]
  /\ Column(rows, "physical", {c \in DOMAIN rows : c[1] = "UNCLASSIFIED"}) = lib.orphan

\* The row of the library.
LibraryAmounts ==
  [physical   |-> Amount(Bytes, Objects),
   visible    |-> Amount(Bytes, {o \in Objects : IsVisible(o)}),
   recycle    |-> Amount(Bytes, {o \in Objects : IsRecycled(o)}),
   orphan     |-> Amount(Bytes, {o \in Objects : IsOrphan(o)}),
   references |-> Amount(Ones, AllRefs),
   referenced |-> Amount(FileBytes, AllRefs)]

\* So is the row of the library.
LEMMA LibraryIs ==
  ASSUME TablesTyped
  PROVE  /\ Objects \in SUBSET StoredObject /\ AllRefs \in SUBSET ReportFile
         /\ LibraryRow = LibraryAmounts
         /\ \A S \in SUBSET Objects : IsFiniteSet(S) /\ \A o \in S : Bytes[o] \in Nat
         /\ IsFiniteSet(AllRefs) /\ \A f \in AllRefs : Ones[f] \in Nat /\ FileBytes[f] \in Nat
<1>1. Objects \in SUBSET StoredObject /\ AllRefs \in SUBSET ReportFile
  BY DEF Objects, AllRefs, Refs
<1>2. \A S \in SUBSET Objects : IsFiniteSet(S) /\ \A o \in S : Bytes[o] \in Nat
  <2>1. \A o \in StoredObject : Bytes[o] \in Nat
    BY ReportSizes DEF Bytes, TablesTyped
  <2> QED BY <1>1, <2>1, ReportSizes, FS_Subset
<1>3. IsFiniteSet(AllRefs) /\ \A f \in AllRefs : Ones[f] \in Nat /\ FileBytes[f] \in Nat
  <2>1. \A f \in ReportFile : files[f].object \in StoredObject
    BY DEF TablesTyped
  <2>2. \A f \in ReportFile : Ones[f] \in Nat /\ FileBytes[f] \in Nat
    BY <2>1, ReportSizes DEF Ones, FileBytes, TablesTyped
  <2> QED BY <1>1, <2>2, FilesFinite, FS_Subset
<1>4. LibraryRow = ReportRow(Objects, AllRefs)
  BY DEF LibraryRow
<1> QED BY <1>1, <1>2, <1>3, <1>4, RowIs DEF LibraryAmounts

\* Every object is visible, recycled or an orphan.
LEMMA LibrarySplits == TablesTyped => Splits(LibraryRow)
<1> SUFFICES ASSUME TablesTyped PROVE Splits(LibraryRow)
  OBVIOUS
<1> DEFINE seen == {o \in Objects : IsVisible(o)}
           bin == {o \in Objects : IsRecycled(o)}
           lost == {o \in Objects : IsOrphan(o)}
<1>1. Objects = (seen \cup bin) \cup lost /\ seen \cap bin = {} /\ (seen \cup bin) \cap lost = {}
  <2>1. \A o \in Objects : IsVisible(o) \/ IsRecycled(o) \/ IsOrphan(o)
    <3>1. \A f \in ReportFile : files[f].state \in {"visible", "recycled", "purged"}
      BY DEF TablesTyped
    <3>2. \A o \in Objects : \A f \in Refs(o) : f \in RefsIn(o, "visible") \/ f \in RefsIn(o, "recycled")
      BY <3>1 DEF Refs, RefsIn
    <3> QED BY <3>2 DEF IsVisible, IsRecycled, IsOrphan
  <2>2. \A o : IsVisible(o) \/ IsRecycled(o) => ~IsOrphan(o)
    BY DEF IsVisible, IsRecycled, IsOrphan, RefsIn
  <2>3. \A o : ~(IsVisible(o) /\ IsRecycled(o))
    BY DEF IsRecycled
  <2> QED BY <2>1, <2>2, <2>3
<1>2. seen \in SUBSET Objects /\ bin \in SUBSET Objects /\ lost \in SUBSET Objects
      /\ seen \cup bin \in SUBSET Objects
  OBVIOUS
<1>3. /\ LibraryRow.physical = Amount(Bytes, Objects) /\ LibraryRow.visible = Amount(Bytes, seen)
      /\ LibraryRow.recycle = Amount(Bytes, bin) /\ LibraryRow.orphan = Amount(Bytes, lost)
  BY LibraryIs DEF LibraryAmounts
<1> HIDE DEF seen, bin, lost
<1>4. \A S \in SUBSET Objects : IsFiniteSet(S) /\ \A o \in S : Bytes[o] \in Nat
  BY LibraryIs
<1>5. Amount(Bytes, (seen \cup bin) \cup lost) = Amount(Bytes, seen \cup bin) + Amount(Bytes, lost)
  BY <1>1, <1>2, <1>4, AmountOfUnion
<1>6. Amount(Bytes, seen \cup bin) = Amount(Bytes, seen) + Amount(Bytes, bin)
  BY <1>1, <1>2, <1>4, AmountOfUnion
<1>7. Amount(Bytes, seen) \in Nat /\ Amount(Bytes, bin) \in Nat /\ Amount(Bytes, lost) \in Nat
  BY <1>2, <1>4, UnitsFinite
<1> QED BY <1>1, <1>3, <1>5, <1>6, <1>7 DEF Splits

\* A report by cells that the objects and the references fall into; what is
\* unclassified are the orphans.
Tabled(rows, C, X, main, kind) ==
  /\ IsFiniteSet(C)
  /\ \A o \in Objects : main[o] \in C /\ (main[o][1] = "UNCLASSIFIED" <=> IsOrphan(o))
  /\ \A f \in AllRefs : kind[f] \in C
  /\ X \subseteq {"physical", "visible", "recycle", "orphan", "references", "referenced"}
  /\ "physical" \in X
  /\ DOMAIN rows = C
  /\ \A c \in C : /\ DOMAIN rows[c] = X
                 /\ \A x \in X : rows[c][x] = ReportRow(Group(Objects, main, c),
                                                       Group(AllRefs, kind, c))[x]

\* Such a report adds up.
LEMMA CellsAddUp ==
  ASSUME TablesTyped, NEW rows, NEW C, NEW X, NEW main, NEW kind, Tabled(rows, C, X, main, kind)
  PROVE  RowsAddUp(rows, LibraryRow)
<1> USE DEF Tabled
<1> DEFINE objs(c) == {o \in Objects : main[o] = c}
           refs(c) == {f \in AllRefs : kind[f] = c}
<1>1. ASSUME NEW c \in C
      PROVE  /\ ReportRow(objs(c), refs(c))["physical"] = Amount(Bytes, objs(c))
             /\ ReportRow(objs(c), refs(c))["visible"] = Amount(Bytes, {o \in objs(c) : IsVisible(o)})
             /\ ReportRow(objs(c), refs(c))["recycle"] = Amount(Bytes, {o \in objs(c) : IsRecycled(o)})
             /\ ReportRow(objs(c), refs(c))["orphan"] = Amount(Bytes, {o \in objs(c) : IsOrphan(o)})
             /\ ReportRow(objs(c), refs(c))["references"] = Amount(Ones, refs(c))
             /\ ReportRow(objs(c), refs(c))["referenced"] = Amount(FileBytes, refs(c))
  <2> DEFINE row == [physical   |-> Amount(Bytes, objs(c)),
                     visible    |-> Amount(Bytes, {o \in objs(c) : IsVisible(o)}),
                     recycle    |-> Amount(Bytes, {o \in objs(c) : IsRecycled(o)}),
                     orphan     |-> Amount(Bytes, {o \in objs(c) : IsOrphan(o)}),
                     references |-> Amount(Ones, refs(c)),
                     referenced |-> Amount(FileBytes, refs(c))]
  <2>1. ReportRow(objs(c), refs(c)) = row
    <3>1. objs(c) \in SUBSET StoredObject /\ refs(c) \in SUBSET ReportFile
      BY LibraryIs
    <3> HIDE DEF objs, refs
    <3> QED BY <3>1, RowIs
  <2> HIDE DEF objs, refs
  <2>2. /\ row["physical"] = Amount(Bytes, objs(c))
        /\ row["visible"] = Amount(Bytes, {o \in objs(c) : IsVisible(o)})
        /\ row["recycle"] = Amount(Bytes, {o \in objs(c) : IsRecycled(o)})
        /\ row["orphan"] = Amount(Bytes, {o \in objs(c) : IsOrphan(o)})
        /\ row["references"] = Amount(Ones, refs(c))
        /\ row["referenced"] = Amount(FileBytes, refs(c))
    OBVIOUS
  <2> HIDE DEF row
  <2> QED BY <2>1, <2>2
<1>2. \A S \in SUBSET Objects : IsFiniteSet(S) /\ \A o \in S : Bytes[o] \in Nat /\ main[o] \in C
  BY LibraryIs
<1>3. IsFiniteSet(AllRefs) /\ \A f \in AllRefs : Ones[f] \in Nat /\ FileBytes[f] \in Nat
  BY LibraryIs
<1>4. ASSUME NEW x \in X, NEW S \in SUBSET Objects,
             \A c \in C : rows[c][x] = Amount(Bytes, {o \in S : main[o] = c})
      PROVE  Column(rows, x, C) = Amount(Bytes, S)
  <2>1. IsFiniteSet(S) /\ (\A o \in S : Bytes[o] \in Nat) /\ (\A o \in S : main[o] \in C)
    BY <1>2
  <2>2. IsFiniteSet(C)
    OBVIOUS
  <2> DEFINE w == Bytes
  <2> HIDE DEF w
  <2>3. (\A o \in S : w[o] \in Nat) /\ \A c \in C : rows[c][x] = Amount(w, Group(S, main, c))
    BY <1>4, <2>1 DEF w, Group
  <2>4. Column(rows, x, C) = Amount(w, S)
    BY ONLY <2>1, <2>2, <2>3, ColumnSum
  <2> QED BY <2>4 DEF w
<1>5. ASSUME NEW x \in X, NEW w, \A f \in AllRefs : w[f] \in Nat,
             \A c \in C : rows[c][x] = Amount(w, refs(c))
      PROVE  Column(rows, x, C) = Amount(w, AllRefs)
  <2>1. \A c \in C : rows[c][x] = Amount(w, Group(AllRefs, kind, c))
    BY <1>5 DEF Group
  <2> QED BY <1>3, <1>5, <2>1, ColumnSum
<1>6. \A x \in X : Column(rows, x, C) = LibraryRow[x]
  <2> SUFFICES ASSUME NEW x \in X PROVE Column(rows, x, C) = LibraryRow[x]
    OBVIOUS
  <2>1. \A c \in C : rows[c][x] = ReportRow(objs(c), refs(c))[x]
    BY DEF Group
  <2>2. CASE x = "physical"
    <3>1. \A c \in C : rows[c][x] = Amount(Bytes, objs(c))
      <4> HIDE DEF objs, refs
      <4> QED BY <1>1, <2>1, <2>2
    <3>2. Column(rows, x, C) = Amount(Bytes, Objects)
      BY <1>4, <3>1
    <3> QED BY <2>2, <3>2, LibraryIs DEF LibraryAmounts
  <2>3. ASSUME NEW P, P \subseteq Objects, \A c \in C : rows[c][x] = Amount(Bytes, {o \in objs(c) : o \in P})
        PROVE  Column(rows, x, C) = Amount(Bytes, P)
    <3>1. \A c \in C : {o \in objs(c) : o \in P} = {o \in P : main[o] = c}
      BY <2>3
    <3>2. \A c \in C : rows[c][x] = Amount(Bytes, {o \in P : main[o] = c})
      BY <2>3, <3>1
    <3> QED BY <1>4, <2>3, <3>2
  <2>4. CASE x = "visible"
    <3> DEFINE P == {o \in Objects : IsVisible(o)}
    <3>1. \A c \in C : rows[c][x] = Amount(Bytes, {o \in objs(c) : IsVisible(o)})
      <4> HIDE DEF objs, refs
      <4> QED BY <1>1, <2>1, <2>4
    <3>2. \A c \in C : {o \in objs(c) : IsVisible(o)} = {o \in objs(c) : o \in P}
      OBVIOUS
    <3>3. P \subseteq Objects /\ LibraryRow[x] = Amount(Bytes, P)
      BY <2>4, LibraryIs DEF LibraryAmounts
    <3> HIDE DEF P, objs
    <3> QED BY <2>3, <3>1, <3>2, <3>3
  <2>5. CASE x = "recycle"
    <3> DEFINE P == {o \in Objects : IsRecycled(o)}
    <3>1. \A c \in C : rows[c][x] = Amount(Bytes, {o \in objs(c) : IsRecycled(o)})
      <4> HIDE DEF objs, refs
      <4> QED BY <1>1, <2>1, <2>5
    <3>2. \A c \in C : {o \in objs(c) : IsRecycled(o)} = {o \in objs(c) : o \in P}
      OBVIOUS
    <3>3. P \subseteq Objects /\ LibraryRow[x] = Amount(Bytes, P)
      BY <2>5, LibraryIs DEF LibraryAmounts
    <3> HIDE DEF P, objs
    <3> QED BY <2>3, <3>1, <3>2, <3>3
  <2>6. CASE x = "orphan"
    <3> DEFINE P == {o \in Objects : IsOrphan(o)}
    <3>1. \A c \in C : rows[c][x] = Amount(Bytes, {o \in objs(c) : IsOrphan(o)})
      <4> HIDE DEF objs, refs
      <4> QED BY <1>1, <2>1, <2>6
    <3>2. \A c \in C : {o \in objs(c) : IsOrphan(o)} = {o \in objs(c) : o \in P}
      OBVIOUS
    <3>3. P \subseteq Objects /\ LibraryRow[x] = Amount(Bytes, P)
      BY <2>6, LibraryIs DEF LibraryAmounts
    <3> HIDE DEF P, objs
    <3> QED BY <2>3, <3>1, <3>2, <3>3
  <2>7. CASE x = "references"
    <3>1. \A c \in C : rows[c][x] = Amount(Ones, refs(c))
      <4> HIDE DEF objs, refs
      <4> QED BY <1>1, <2>1, <2>7
    <3>2. Column(rows, x, C) = Amount(Ones, AllRefs)
      BY <1>3, <1>5, <3>1
    <3> QED BY <2>7, <3>2, LibraryIs DEF LibraryAmounts
  <2>8. CASE x = "referenced"
    <3>1. \A c \in C : rows[c][x] = Amount(FileBytes, refs(c))
      <4> HIDE DEF objs, refs
      <4> QED BY <1>1, <2>1, <2>8
    <3>2. Column(rows, x, C) = Amount(FileBytes, AllRefs)
      BY <1>3, <1>5, <3>1
    <3> QED BY <2>8, <3>2, LibraryIs DEF LibraryAmounts
  <2> QED BY <2>2, <2>4, <2>5, <2>6, <2>7, <2>8
<1> DEFINE unclassified == {c \in C : c[1] = "UNCLASSIFIED"}
           lost == {o \in Objects : IsOrphan(o)}
<1>7. Column(rows, "physical", unclassified) = LibraryRow.orphan
  <2>1. IsFiniteSet(unclassified) /\ \A o \in lost : main[o] \in unclassified
    BY FS_Subset
  <2>2. \A c \in unclassified : rows[c]["physical"] = Amount(Bytes, {o \in lost : main[o] = c})
    <3> SUFFICES ASSUME NEW c \in unclassified
                 PROVE  rows[c]["physical"] = Amount(Bytes, {o \in lost : main[o] = c})
      OBVIOUS
    <3>1. objs(c) = {o \in lost : main[o] = c}
      OBVIOUS
    <3>2. rows[c]["physical"] = ReportRow(objs(c), refs(c))["physical"]
      BY DEF Group
    <3>3. ReportRow(objs(c), refs(c))["physical"] = Amount(Bytes, objs(c))
      <4>1. c \in C
        OBVIOUS
      <4> HIDE DEF objs, refs, unclassified
      <4> QED BY <1>1, <4>1
    <3> QED BY <3>1, <3>2, <3>3
  <2>3. LibraryRow.orphan = Amount(Bytes, lost)
    BY LibraryIs DEF LibraryAmounts
  <2>4. lost \in SUBSET Objects
    OBVIOUS
  <2>5. IsFiniteSet(lost) /\ \A o \in lost : Bytes[o] \in Nat
    BY <1>2, <2>4
  <2>6. \A c \in unclassified : rows[c]["physical"] = Amount(Bytes, Group(lost, main, c))
    BY <2>2 DEF Group
  <2> HIDE DEF lost, unclassified
  <2>7. Column(rows, "physical", unclassified) = Amount(Bytes, lost)
    BY ONLY <2>1, <2>5, <2>6, ColumnSum
  <2> QED BY <2>3, <2>7
<1>8. UNION {DOMAIN rows[c] : c \in DOMAIN rows} \subseteq X
  OBVIOUS
<1>9. {c \in DOMAIN rows : c[1] = "UNCLASSIFIED"} = unclassified
  OBVIOUS
<1> HIDE DEF unclassified
<1> QED BY <1>6, <1>7, <1>8, <1>9 DEF RowsAddUp

\* By collection.
LEMMA CategoriesAddUp == TablesTyped => RowsAddUp(CategoryRows, LibraryRow)
<1> SUFFICES ASSUME TablesTyped PROVE RowsAddUp(CategoryRows, LibraryRow)
  OBVIOUS
<1> DEFINE C == Category \X {"all"}
           main == [o \in Objects |-> <<MainCategory(o), "all">>]
           kind == [f \in AllRefs |-> <<CategoryOf(f), "all">>]
           X == {"physical", "visible", "recycle", "orphan", "references", "referenced"}
           rows == CategoryRows
<1>1. \A o \in Objects : main[o] \in C /\ (main[o][1] = "UNCLASSIFIED" <=> IsOrphan(o))
  <2>1. \A o \in Objects : MainCategory(o) \in Category /\ (MainCategory(o) = "UNCLASSIFIED" <=> IsOrphan(o))
    <3> SUFFICES ASSUME NEW o \in Objects
                 PROVE  MainCategory(o) \in Category /\ (MainCategory(o) = "UNCLASSIFIED" <=> IsOrphan(o))
      OBVIOUS
    <3>1. CASE IsOrphan(o)
      BY <3>1 DEF MainCategory, Category
    <3>2. CASE ~IsOrphan(o)
      <4>1. MainCategory(o) \in BuiltIn \cup {"DEF"}
        BY <3>2, LibraryIs, MainFileIs
      <4> QED BY <3>2, <4>1, ReportSizes DEF Category
    <3> QED BY <3>1, <3>2
  <2> QED BY <2>1
<1>2. \A f \in AllRefs : kind[f] \in C
  BY LibraryIs, CategoryTypes DEF Category
<1>3. DOMAIN rows = C
  BY DEF CategoryRows
<1>4. \A c \in C : /\ DOMAIN rows[c] = X
                  /\ \A x \in X : rows[c][x] = ReportRow(Group(Objects, main, c),
                                                        Group(AllRefs, kind, c))[x]
  <2> SUFFICES ASSUME NEW c \in C
               PROVE  /\ DOMAIN rows[c] = X
                      /\ rows[c] = ReportRow(Group(Objects, main, c), Group(AllRefs, kind, c))
    OBVIOUS
  <2>1. rows[c] = ReportRow({o \in Objects : MainCategory(o) = c[1]}, {f \in AllRefs : CategoryOf(f) = c[1]})
    BY DEF CategoryRows
  <2>2. {o \in Objects : MainCategory(o) = c[1]} = Group(Objects, main, c)
    BY DEF Group
  <2>3. {f \in AllRefs : CategoryOf(f) = c[1]} = Group(AllRefs, kind, c)
    BY DEF Group
  <2>4. DOMAIN rows[c] = X
    BY <2>1 DEF ReportRow
  <2> QED BY <2>1, <2>2, <2>3, <2>4
<1>5. IsFiniteSet(C)
  BY CellsFinite
<1>6. "physical" \in X /\ X \subseteq {"physical", "visible", "recycle", "orphan", "references", "referenced"}
  OBVIOUS
<1> HIDE DEF C, main, kind, rows, X
<1>7. RowsAddUp(rows, LibraryRow)
  <2>1. Tabled(rows, C, X, main, kind)
    BY <1>1, <1>2, <1>3, <1>4, <1>5, <1>6 DEF Tabled
  <2> QED BY <2>1, CellsAddUp
<1> QED BY <1>7 DEF rows

\* By collection and kind of file.
LEMMA MatrixAddsUp == TablesTyped => RowsAddUp(MatrixRows, LibraryRow)
<1> SUFFICES ASSUME TablesTyped PROVE RowsAddUp(MatrixRows, LibraryRow)
  OBVIOUS
<1> DEFINE C == Category \X FileType
           main == [o \in Objects |-> MainCell(o)]
           kind == [f \in AllRefs |-> <<CategoryOf(f), TypeOf(f)>>]
           X == {"physical", "references", "referenced"}
           rows == MatrixRows
<1>1. \A o \in Objects : main[o] \in C /\ (main[o][1] = "UNCLASSIFIED" <=> IsOrphan(o))
  <2>1. \A o \in Objects : MainCell(o) \in C /\ (MainCell(o)[1] = "UNCLASSIFIED" <=> IsOrphan(o))
    <3> SUFFICES ASSUME NEW o \in Objects
                 PROVE  MainCell(o) \in C /\ (MainCell(o)[1] = "UNCLASSIFIED" <=> IsOrphan(o))
      OBVIOUS
    <3>1. o \in StoredObject
      BY LibraryIs
    <3>2. CASE IsOrphan(o)
      <4>1. MainCell(o) = <<"UNCLASSIFIED", ContentType[o]>>
        BY <3>2 DEF MainCell
      <4> QED BY <3>1, <3>2, <4>1 DEF Category, FileType
    <3>3. CASE ~IsOrphan(o)
      <4>1. MainCell(o) \in (BuiltIn \cup {"DEF"}) \X FileType
        BY <3>1, <3>3, MainFileIs
      <4> QED BY <3>3, <4>1, ReportSizes DEF Category
    <3> QED BY <3>2, <3>3
  <2> QED BY <2>1
<1>2. \A f \in AllRefs : kind[f] \in C
  BY LibraryIs, CategoryTypes DEF Category
<1>3. DOMAIN rows = C
  BY DEF MatrixRows
<1>4. \A c \in C : /\ DOMAIN rows[c] = X
                  /\ \A x \in X : rows[c][x] = ReportRow(Group(Objects, main, c),
                                                        Group(AllRefs, kind, c))[x]
  <2> SUFFICES ASSUME NEW c \in C
               PROVE  /\ DOMAIN rows[c] = X
                      /\ \A x \in X : rows[c][x] = ReportRow(Group(Objects, main, c),
                                                            Group(AllRefs, kind, c))[x]
    OBVIOUS
  <2>1. rows[c] = [x \in X |-> ReportRow({o \in Objects : MainCell(o) = c},
                                         {f \in AllRefs : <<CategoryOf(f), TypeOf(f)>> = c})[x]]
    BY DEF MatrixRows
  <2>2. {o \in Objects : MainCell(o) = c} = Group(Objects, main, c)
    BY DEF Group
  <2>3. {f \in AllRefs : <<CategoryOf(f), TypeOf(f)>> = c} = Group(AllRefs, kind, c)
    BY DEF Group
  <2>4. rows[c] = [x \in X |-> ReportRow(Group(Objects, main, c), Group(AllRefs, kind, c))[x]]
    BY <2>1, <2>2, <2>3
  <2> HIDE DEF X, rows, main, kind
  <2> QED BY <2>4
<1>5. IsFiniteSet(C)
  BY CellsFinite
<1>6. "physical" \in X /\ X \subseteq {"physical", "visible", "recycle", "orphan", "references", "referenced"}
  OBVIOUS
<1> HIDE DEF C, main, kind, rows, X
<1>7. RowsAddUp(rows, LibraryRow)
  <2>1. Tabled(rows, C, X, main, kind)
    BY <1>1, <1>2, <1>3, <1>4, <1>5, <1>6 DEF Tabled
  <2> QED BY <2>1, CellsAddUp
<1> QED BY <1>7 DEF rows

-----------------------------------------------------------------------------
(* Reports. *)

\* What was read of the library splits, and while nothing has changed it is
\* what the second statement finds, or what its rows added up to.
ReportInv ==
  /\ ReportTypeOK
  /\ IF report.step = "none" THEN report = NoReport ELSE Splits(report.library)
  /\ report.step = "library" /\ ~changed => report.library = LibraryAmounts
  /\ report.step = "done" /\ ~changed /\ DOMAIN report.rows # {} => RowsAddUp(report.rows, report.library)

\* The tables have their types.
LEMMA ReportTables == ReportTypeOK => TablesTyped
BY DEF ReportTypeOK, TablesTyped

\* The invariant holds at the start.
LEMMA ReportInvInit == ReportStart => ReportInv
<1> SUFFICES ASSUME ReportStart PROVE ReportInv
  OBVIOUS
<1>1. dirs \in [Dir -> [parent : 0 .. DirCount, type : BuiltIn \cup {"DEF"}]]
  BY DEF ReportStart
<1>2. files \in [ReportFile -> [parent : 0 .. DirCount, state : {"visible", "recycled", "purged"},
                               object : StoredObject]]
  <2>1. Dir \subseteq 0 .. DirCount
    BY ReportSizes DEF Dir
  <2>2. files \in [ReportFile -> [parent : Dir, state : {"visible", "recycled"}, object : StoredObject]]
    BY DEF ReportStart
  <2> QED BY <2>1, <2>2
<1>3. bytes \in [StoredObject -> 0 .. MaxBytes] /\ reportSteps \in 0 .. MaxReportSteps
  BY ReportSizes DEF ReportStart
<1>4. report = NoReport /\ report.step = "none" /\ changed \in BOOLEAN
  BY DEF ReportStart, NoReport
<1> QED BY <1>1, <1>2, <1>3, <1>4 DEF ReportInv, ReportTypeOK

\* Every step keeps it.
LEMMA ReportInvNext == ReportInv /\ [ReportNext]_reportVars => ReportInv'
<1> SUFFICES ASSUME ReportInv, [ReportNext]_reportVars PROVE ReportInv'
  OBVIOUS
<1>1. ReportTypeOK /\ TablesTyped
  BY ReportTables DEF ReportInv
\* A change of the tables is noticed.
<1>2. ASSUME Changes, TablesTyped' PROVE ReportInv'
  <2>1. reportSteps' \in 0 .. MaxReportSteps
    BY <1>1, <1>2, ReportSizes DEF Changes, ReportTypeOK
  <2>2. changed' = TRUE /\ report' = report
    BY <1>2 DEF Changes
  <2>3. ReportTypeOK'
    BY <1>1, <1>2, <2>1, <2>2 DEF ReportTypeOK, TablesTyped
  <2> QED BY <2>2, <2>3 DEF ReportInv
<1>3. ASSUME NEW f \in ReportFile, NEW s \in {"visible", "recycled"}, ReportedState(f, s) PROVE ReportInv'
  <2>1. TablesTyped'
    BY <1>1, <1>3 DEF ReportedState, TablesTyped
  <2> QED BY <1>2, <1>3, <2>1 DEF ReportedState
<1>4. ASSUME NEW f \in ReportFile, ReportedPurge(f) PROVE ReportInv'
  <2>1. TablesTyped'
    BY <1>1, <1>4 DEF ReportedPurge, TablesTyped
  <2> QED BY <1>2, <1>4, <2>1 DEF ReportedPurge
<1>5. ASSUME NEW d \in Dir, ReportedDir(d) PROVE ReportInv'
  <2>1. TablesTyped'
    BY <1>1, <1>5 DEF ReportedDir, TablesTyped
  <2> QED BY <1>2, <1>5, <2>1 DEF ReportedDir
<1>6. ASSUME NEW o \in StoredObject, ReportedObject(o) PROVE ReportInv'
  <2>1. TablesTyped'
    BY <1>1, <1>6 DEF ReportedObject, TablesTyped
  <2> QED BY <1>2, <1>6, <2>1 DEF ReportedObject
<1>7. CASE ReadLibraries
  <2>1. report' = [step |-> "library", library |-> LibraryRow] /\ UNCHANGED <<dirs, files, bytes, reportSteps>>
        /\ changed' = FALSE
    BY <1>7 DEF ReadLibraries
  <2>2. report'.step = "library" /\ report'.library = LibraryRow
    BY <2>1
  <2>3. LibraryAmounts' = LibraryRow
    <3>1. LibraryAmounts' = LibraryAmounts
      BY <2>1 DEF LibraryAmounts, Bytes, Ones, FileBytes, Objects, AllRefs, Refs, RefsIn,
                  IsVisible, IsRecycled, IsOrphan
    <3> QED BY <1>1, <3>1, LibraryIs
  <2>4. ReportTypeOK'
    BY <1>1, <2>1, <2>2 DEF ReportTypeOK
  <2> QED BY <1>1, <2>1, <2>2, <2>3, <2>4, LibrarySplits DEF ReportInv
\* A second statement that reads the rows of an unchanged library.
<1>8. ASSUME NEW rows, ReadRest(rows), DOMAIN rows # {} => RowsAddUp(rows, LibraryAmounts) PROVE ReportInv'
  <2>1. /\ report' = [step |-> "done", library |-> report.library, rows |-> rows]
        /\ UNCHANGED <<dirs, files, bytes, changed, reportSteps>>
        /\ report.step = "library"
    BY <1>8 DEF ReadRest
  <2>2. report'.step = "done" /\ report'.library = report.library /\ report'.rows = rows
    BY <2>1
  <2>3. ReportTypeOK'
    BY <1>1, <2>1, <2>2 DEF ReportTypeOK
  <2> QED BY <1>8, <2>1, <2>2, <2>3 DEF ReportInv
<1>9. CASE ReadCategories
  BY <1>1, <1>8, <1>9, CategoriesAddUp, LibraryIs DEF ReadCategories
<1>10. CASE ReadMatrix
  BY <1>1, <1>8, <1>10, MatrixAddsUp, LibraryIs DEF ReadMatrix
<1>11. CASE ReadFails
  <2>1. DOMAIN [k \in {} |-> LibraryRow] = {}
    OBVIOUS
  <2> QED BY <1>8, <1>11, <2>1 DEF ReadFails
<1>12. CASE UNCHANGED reportVars
  <2>1. UNCHANGED <<dirs, files, bytes, report, changed, reportSteps>>
    BY <1>12 DEF reportVars
  <2>2. LibraryAmounts' = LibraryAmounts
    BY <2>1 DEF LibraryAmounts, Bytes, Ones, FileBytes, Objects, AllRefs, Refs, RefsIn,
                IsVisible, IsRecycled, IsOrphan
  <2> QED BY <2>1, <2>2 DEF ReportInv, ReportTypeOK
<1> QED BY <1>3, <1>4, <1>5, <1>6, <1>7, <1>9, <1>10, <1>11, <1>12 DEF ReportNext

\* The tables and the report have their types.
THEOREM ReportTypes == ReportSpec => []ReportTypeOK
<1>1. ReportInv => ReportTypeOK
  BY DEF ReportInv
<1> QED BY <1>1, ReportInvInit, ReportInvNext, PTL DEF ReportSpec

\* The parts of a report add up to the library, for every number of files,
\* directories and objects, unless the tables changed between its statements.
THEOREM ReportsAddUp == ReportSpec => []ReportAddsUp
<1>1. ReportInv => ReportAddsUp
  <2> SUFFICES ASSUME ReportInv, report # NoReport PROVE ReportAddsUp
    BY DEF ReportAddsUp
  <2>1. report.step # "none" /\ Splits(report.library)
    BY DEF ReportInv
  <2>2. report.step = "done" /\ ~changed /\ DOMAIN report.rows # {} => RowsAddUp(report.rows, report.library)
    BY DEF ReportInv
  <2> QED BY <2>1, <2>2 DEF ReportAddsUp, Splits, RowsAddUp, Column
<1> QED BY <1>1, ReportInvInit, ReportInvNext, PTL DEF ReportSpec
-----------------------------------------------------------------------------
(* The order of names.                                                     *)

\* The end of a run of digits, and its first digit that counts.
LEMMA RunEndIs ==
  ASSUME NEW s \in Seq(Characters), NEW i \in Nat, i <= Len(s)
  PROVE  /\ RunEnd(s, i) \in i .. Len(s) + 1
         /\ RunEnd(s, i) = Len(s) + 1 \/ ~Digit(s[RunEnd(s, i)])
         /\ \A j \in i .. Len(s) : j < RunEnd(s, i) => Digit(s[j])
<1> DEFINE ends == {j \in i .. Len(s) + 1 : j = Len(s) + 1 \/ ~Digit(s[j])}
<1>1. ends \in SUBSET Nat /\ Len(s) + 1 \in ends
  OBVIOUS
<1>2. RunEnd(s, i) \in ends /\ \A j \in ends : RunEnd(s, i) <= j
  <2>1. RunEnd(s, i) = Min(ends)
    BY DEF RunEnd
  <2> HIDE DEF ends
  <2> QED BY <1>1, <2>1, LeastOf
<1>3. \A j \in i .. Len(s) : j < RunEnd(s, i) => j \notin ends
  BY <1>2
<1> QED BY <1>2, <1>3

LEMMA SignificantIs ==
  ASSUME NEW s \in Seq(Characters), NEW i \in 1 .. Len(s)
  PROVE  /\ Significant(s, i) \in i .. RunEnd(s, i)
         /\ Significant(s, i) = RunEnd(s, i) \/ s[Significant(s, i)] # 0
         /\ \A j \in i .. RunEnd(s, i) : j < Significant(s, i) => s[j] = 0
<1> DEFINE e == RunEnd(s, i)
           starts == {j \in i .. e : j = e \/ s[j] # 0}
<1>1. e \in i .. Len(s) + 1
  BY RunEndIs
<1>2. Significant(s, i) = Min(starts)
  BY DEF Significant
<1> HIDE DEF e
<1>3. starts \in SUBSET Nat /\ e \in starts
  BY <1>1
<1>4. Significant(s, i) \in starts /\ \A j \in starts : Significant(s, i) <= j
  <2> HIDE DEF starts
  <2> QED BY <1>2, <1>3, LeastOf
<1>5. Significant(s, i) \in i .. e /\ (Significant(s, i) = e \/ s[Significant(s, i)] # 0)
  BY <1>4
<1>6. \A j \in i .. e : j < Significant(s, i) => s[j] = 0
  BY <1>4, <1>5, <1>1
<1> QED BY <1>5, <1>6 DEF e

-----------------------------------------------------------------------------
\* What CompareFrom asks a solution f for at the positions i and j.
Compared(l, r, f, i, j) ==
  IF i > Len(l) \/ j > Len(r) THEN Sign(Len(l) - Len(r))
  ELSE IF Digit(l[i]) /\ Digit(r[j])
    THEN IF CompareRuns(l, r, i, j) # 0 THEN CompareRuns(l, r, i, j)
         ELSE f[RunEnd(l, i)][RunEnd(r, j)]
  ELSE IF LowerCase(l[i]) # LowerCase(r[j]) THEN Sign(LowerCase(l[i]) - LowerCase(r[j]))
  ELSE f[i + 1][j + 1]

Solution(l, r, f) == f = [i \in Nat |-> [j \in Nat |-> Compared(l, r, f, i, j)]]

\* Two functions agree after a position.
AgreeAfter(f, g, i) == \A a, b \in Nat : a > i => f[a][b] = g[a][b]

\* It looks only at later positions of the first name.
LEMMA ComparedLater ==
  ASSUME NEW l \in Seq(Characters), NEW r \in Seq(Characters), NEW f, NEW g, NEW i \in Nat, NEW j \in Nat,
         AgreeAfter(f, g, i)
  PROVE  Compared(l, r, f, i, j) = Compared(l, r, g, i, j)
<1>1. CASE i > Len(l) \/ j > Len(r)
  BY <1>1 DEF Compared
<1>2. CASE ~(i > Len(l) \/ j > Len(r))
  <2>1. i <= Len(l) /\ j <= Len(r)
    BY <1>2
  <2>2. Digit(l[i]) => RunEnd(l, i) \in Nat /\ RunEnd(l, i) > i
    <3> DEFINE e == RunEnd(l, i)
    <3>1. e \in i .. Len(l) + 1 /\ (e = Len(l) + 1 \/ ~Digit(l[e]))
      BY <2>1, RunEndIs
    <3> HIDE DEF e
    <3>2. Digit(l[i]) => e # i
      BY <2>1, <3>1
    <3>3. e \in Nat /\ (e # i => e > i)
      BY <3>1
    <3> QED BY <3>2, <3>3 DEF e
  <2>3. RunEnd(r, j) \in Nat
    BY <2>1, RunEndIs
  <2>4. Digit(l[i]) => f[RunEnd(l, i)][RunEnd(r, j)] = g[RunEnd(l, i)][RunEnd(r, j)]
    BY <2>2, <2>3 DEF AgreeAfter
  <2>5. f[i + 1][j + 1] = g[i + 1][j + 1]
    BY DEF AgreeAfter
  <2> QED BY <2>4, <2>5 DEF Compared
<1> QED BY <1>1, <1>2

LEMMA SolutionAt ==
  ASSUME NEW l, NEW r, NEW f, Solution(l, r, f)
  PROVE  \A i, j \in Nat : f[i][j] = Compared(l, r, f, i, j)
BY DEF Solution

\* So there is a solution from any position on, and CompareFrom is one.
LEMMA ComparedFrom ==
  ASSUME NEW l \in Seq(Characters), NEW r \in Seq(Characters)
  PROVE  \A i, j \in Nat : CompareFrom(l, r)[i][j] = Compared(l, r, CompareFrom(l, r), i, j)
<1> DEFINE Solves(f, n) == \A i, j \in Nat : i >= n => f[i][j] = Compared(l, r, f, i, j)
           N == {n \in Nat : \E f : Solves(f, n)}
<1>1. Len(l) + 1 \in N
  <2> DEFINE f == [i \in Nat |-> [j \in Nat |-> Sign(Len(l) - Len(r))]]
  <2>1. \A i, j \in Nat : f[i][j] = Sign(Len(l) - Len(r))
    OBVIOUS
  <2> HIDE DEF f
  <2>2. \A i, j \in Nat : i >= Len(l) + 1 => Compared(l, r, f, i, j) = Sign(Len(l) - Len(r))
    BY DEF Compared
  <2>3. ASSUME NEW i \in Nat, NEW j \in Nat, i >= Len(l) + 1
        PROVE  f[i][j] = Compared(l, r, f, i, j)
    <3>1. f[i][j] = Sign(Len(l) - Len(r))
      BY <2>1
    <3>2. Compared(l, r, f, i, j) = Sign(Len(l) - Len(r))
      BY <2>2, <2>3
    <3> QED BY <3>1, <3>2
  <2>4. Solves(f, Len(l) + 1)
    BY <2>3
  <2> HIDE DEF Solves
  <2>5. Len(l) + 1 \in Nat
    OBVIOUS
  <2> QED BY <2>4, <2>5
<1>2. ASSUME NEW n \in Nat, n + 1 \in N PROVE n \in N
  <2>1. PICK f : Solves(f, n + 1)
    BY <1>2
  <2> DEFINE g == [i \in Nat |-> [j \in Nat |-> IF i >= n + 1 THEN f[i][j] ELSE Compared(l, r, f, i, j)]]
  <2>2. \A i, j \in Nat : g[i][j] = IF i >= n + 1 THEN f[i][j] ELSE Compared(l, r, f, i, j)
    OBVIOUS
  <2> HIDE DEF g
  <2>3. ASSUME NEW i \in Nat, NEW j \in Nat, i >= n PROVE g[i][j] = Compared(l, r, g, i, j)
    <3>1. AgreeAfter(f, g, i)
      BY <2>2, <2>3 DEF AgreeAfter
    <3>2. Compared(l, r, f, i, j) = Compared(l, r, g, i, j)
      BY <3>1, ComparedLater
    <3>3. g[i][j] = Compared(l, r, f, i, j)
      BY <2>1, <2>2
    <3> QED BY <3>2, <3>3
  <2>4. Solves(g, n)
    BY <2>3
  <2> QED BY <2>4
<1>3. 0 \in N
  <2>1. N \in SUBSET Nat /\ N # {}
    BY <1>1
  <2> HIDE DEF N
  <2>2. PICK m \in N : \A n \in N : m <= n
    BY <2>1, LeastOf
  <2>3. m # 0 => m - 1 \in Nat /\ (m - 1) + 1 = m
    BY <2>1
  <2>4. m = 0
    <3> SUFFICES ASSUME m # 0 PROVE FALSE
      OBVIOUS
    <3> DEFINE k == m - 1
    <3>1. k \in Nat /\ k + 1 \in N /\ ~(m <= k)
      BY <2>1, <2>3
    <3> HIDE DEF k
    <3>2. k \in N
      BY <1>2, <3>1
    <3> QED BY <2>2, <3>1, <3>2
  <2> QED BY <2>4
<1>4. PICK f : Solves(f, 0)
  BY <1>3
<1> DEFINE g == [i \in Nat |-> [j \in Nat |-> Compared(l, r, f, i, j)]]
<1>5. \A i, j \in Nat : g[i][j] = f[i][j]
  BY <1>4
<1>6. \A i, j \in Nat : Compared(l, r, g, i, j) = Compared(l, r, f, i, j)
  <2> HIDE DEF g
  <2> SUFFICES ASSUME NEW i \in Nat, NEW j \in Nat
               PROVE  Compared(l, r, g, i, j) = Compared(l, r, f, i, j)
    OBVIOUS
  <2>1. AgreeAfter(g, f, i)
    BY <1>5 DEF AgreeAfter
  <2> QED BY <2>1, ComparedLater
<1>7. g = [i \in Nat |-> [j \in Nat |-> Compared(l, r, g, i, j)]]
  <2> DEFINE h == [i \in Nat |-> [j \in Nat |-> Compared(l, r, g, i, j)]]
  <2>1. \A i \in Nat : g[i] = h[i]
    <3> SUFFICES ASSUME NEW i \in Nat PROVE g[i] = h[i]
      OBVIOUS
    <3>1. \A j \in Nat : Compared(l, r, f, i, j) = Compared(l, r, g, i, j)
      BY <1>6
    <3>2. [j \in Nat |-> Compared(l, r, f, i, j)] = [j \in Nat |-> Compared(l, r, g, i, j)]
      <4> HIDE DEF g
      <4> QED BY <3>1
    <3> QED BY <3>2
  <2> QED BY <2>1
<1>8. \E h : Solution(l, r, h)
  <2> HIDE DEF g
  <2> QED BY <1>7 DEF Solution
<1>9. Solution(l, r, CompareFrom(l, r))
  BY <1>8, Zenon DEF CompareFrom, Solution, Compared
<1> QED BY <1>9, SolutionAt

-----------------------------------------------------------------------------
\* What a run of digits is compared by: the number of its significant digits, these
\* digits, and its length.
RunKey(s, i) ==
  [size |-> RunEnd(s, i) - Significant(s, i),
   digit |-> [k \in 0 .. RunEnd(s, i) - Significant(s, i) - 1 |-> s[Significant(s, i) + k]],
   length |-> RunEnd(s, i) - i]

IsKey(x) ==
  /\ x.size \in Nat /\ x.length \in Nat
  /\ x.digit \in [0 .. x.size - 1 -> Int]

\* Keys of the same size differ first at k.
DifferAt(x, y, k) ==
  /\ k \in 0 .. x.size - 1
  /\ \A m \in 0 .. x.size - 1 : m < k => x.digit[m] = y.digit[m]
  /\ x.digit[k] # y.digit[k]

KeyBefore(x, y) ==
  \/ x.size < y.size
  \/ x.size = y.size /\ \E k \in 0 .. x.size - 1 : DifferAt(x, y, k) /\ x.digit[k] < y.digit[k]
  \/ x.size = y.size /\ x.digit = y.digit /\ x.length < y.length

KeySame(x, y) == x.size = y.size /\ x.digit = y.digit /\ x.length = y.length

LEMMA FirstDifference ==
  ASSUME NEW x, NEW y, IsKey(x), IsKey(y), x.size = y.size, x.digit # y.digit
  PROVE  \E k \in 0 .. x.size - 1 :
           /\ DifferAt(x, y, k)
           /\ k = Min({m \in 0 .. x.size - 1 : x.digit[m] # y.digit[m]})
<1> DEFINE S == {m \in 0 .. x.size - 1 : x.digit[m] # y.digit[m]}
<1>1. S \in SUBSET Nat
  OBVIOUS
<1>2. S # {}
  BY DEF IsKey
<1>3. Min(S) \in S /\ \A m \in S : Min(S) <= m
  <2> HIDE DEF S
  <2> QED BY <1>1, <1>2, LeastOf
<1> DEFINE k == Min(S)
<1>4. k \in S /\ \A m \in S : k <= m
  BY <1>3
<1> HIDE DEF k
<1>5. k \in 0 .. x.size - 1 /\ x.digit[k] # y.digit[k]
  BY <1>4
<1>6. \A m \in 0 .. x.size - 1 : m < k => x.digit[m] = y.digit[m]
  BY <1>4, <1>5
<1>7. DifferAt(x, y, k)
  BY <1>5, <1>6 DEF DifferAt
<1> QED BY <1>5, <1>7 DEF k

\* Where two keys differ first is one place, and the same for both.
LEMMA DifferOnce ==
  ASSUME NEW x, NEW y, IsKey(x), IsKey(y), x.size = y.size, NEW k, DifferAt(x, y, k)
  PROVE  /\ DifferAt(y, x, k) /\ x.digit # y.digit
         /\ \A m : DifferAt(x, y, m) \/ DifferAt(y, x, m) => m = k
BY DEF DifferAt, IsKey

LEMMA KeysTotal ==
  ASSUME NEW x, NEW y, IsKey(x), IsKey(y)
  PROVE  /\ KeyBefore(x, y) \/ KeyBefore(y, x) \/ KeySame(x, y)
         /\ ~(KeyBefore(x, y) /\ KeyBefore(y, x))
         /\ ~(KeyBefore(x, y) /\ KeySame(x, y))
<1>1. x.size \in Nat /\ y.size \in Nat /\ x.length \in Nat /\ y.length \in Nat
  BY DEF IsKey
<1>2. CASE x.size # y.size
  BY <1>1, <1>2 DEF KeyBefore, KeySame
<1>3. CASE x.size = y.size /\ x.digit = y.digit
  BY <1>1, <1>3 DEF KeyBefore, KeySame, DifferAt
<1>4. CASE x.size = y.size /\ x.digit # y.digit
  <2>1. PICK k \in 0 .. x.size - 1 : DifferAt(x, y, k)
    BY <1>4, FirstDifference
  <2>2. x.digit[k] \in Int /\ y.digit[k] \in Int /\ x.digit[k] # y.digit[k]
    BY <1>4, <2>1 DEF IsKey, DifferAt
  <2>3. DifferAt(y, x, k) /\ \A m : DifferAt(x, y, m) \/ DifferAt(y, x, m) => m = k
    BY <1>4, <2>1, DifferOnce
  <2>4. /\ KeyBefore(x, y) <=> x.digit[k] < y.digit[k]
        /\ KeyBefore(y, x) <=> y.digit[k] < x.digit[k]
    BY <1>1, <1>4, <2>1, <2>3 DEF KeyBefore
  <2> QED BY <1>4, <2>2, <2>4 DEF KeySame
<1> QED BY <1>2, <1>3, <1>4

LEMMA KeysTransitive ==
  ASSUME NEW x, NEW y, NEW z, IsKey(x), IsKey(y), IsKey(z)
  PROVE  /\ KeyBefore(x, y) /\ KeyBefore(y, z) => KeyBefore(x, z)
         /\ KeyBefore(x, y) /\ KeySame(y, z) => KeyBefore(x, z)
         /\ KeySame(x, y) /\ KeyBefore(y, z) => KeyBefore(x, z)
         /\ KeySame(x, y) /\ KeySame(y, z) => KeySame(x, z)
<1>1. /\ x.size \in Nat /\ y.size \in Nat /\ z.size \in Nat
      /\ x.length \in Nat /\ y.length \in Nat /\ z.length \in Nat
  BY DEF IsKey
<1>2. ASSUME KeyBefore(x, y), KeyBefore(y, z) PROVE KeyBefore(x, z)
  <2>1. CASE x.size # y.size \/ y.size # z.size
    BY <1>1, <1>2, <2>1 DEF KeyBefore
  <2>2. CASE x.size = y.size /\ y.size = z.size
    <3>1. CASE x.digit = y.digit /\ y.digit = z.digit
      BY <1>1, <1>2, <2>2, <3>1 DEF KeyBefore, DifferAt
    <3>2. CASE x.digit = y.digit /\ y.digit # z.digit
      BY <1>1, <1>2, <2>2, <3>2 DEF KeyBefore, DifferAt
    <3>3. CASE x.digit # y.digit /\ y.digit = z.digit
      BY <1>1, <1>2, <2>2, <3>3 DEF KeyBefore, DifferAt
    <3>4. CASE x.digit # y.digit /\ y.digit # z.digit
      <4>1. PICK k \in 0 .. x.size - 1 : DifferAt(x, y, k) /\ x.digit[k] < y.digit[k]
        BY <1>2, <1>1, <2>2, <3>4 DEF KeyBefore
      <4>2. PICK n \in 0 .. x.size - 1 : DifferAt(y, z, n) /\ y.digit[n] < z.digit[n]
        BY <1>2, <1>1, <2>2, <3>4 DEF KeyBefore
      <4>3. \A m \in 0 .. x.size - 1 : x.digit[m] \in Int /\ y.digit[m] \in Int /\ z.digit[m] \in Int
        BY <2>2 DEF IsKey
      <4> DEFINE j == IF k < n THEN k ELSE n
      <4>4. j \in 0 .. x.size - 1 /\ x.digit[j] < z.digit[j]
        BY <1>1, <2>2, <4>1, <4>2, <4>3 DEF DifferAt
      <4>5. \A m \in 0 .. x.size - 1 : m < j => x.digit[m] = z.digit[m]
        BY <1>1, <2>2, <4>1, <4>2 DEF DifferAt
      <4> HIDE DEF j
      <4>6. DifferAt(x, z, j)
        BY <4>3, <4>4, <4>5 DEF DifferAt
      <4> QED BY <2>2, <4>4, <4>6 DEF KeyBefore
    <3> QED BY <3>1, <3>2, <3>3, <3>4
  <2> QED BY <2>1, <2>2
<1>3. ASSUME KeyBefore(x, y), KeySame(y, z) PROVE KeyBefore(x, z)
  BY <1>1, <1>3 DEF KeyBefore, KeySame, DifferAt
<1>4. ASSUME KeySame(x, y), KeyBefore(y, z) PROVE KeyBefore(x, z)
  BY <1>1, <1>4 DEF KeyBefore, KeySame, DifferAt
<1>5. KeySame(x, y) /\ KeySame(y, z) => KeySame(x, z)
  BY DEF KeySame
<1> QED BY <1>2, <1>3, <1>4, <1>5

LEMMA RunKeyIs ==
  ASSUME NEW s \in Seq(Characters), NEW i \in 1 .. Len(s)
  PROVE  /\ IsKey(RunKey(s, i))
         /\ RunKey(s, i).size = RunEnd(s, i) - Significant(s, i)
         /\ RunKey(s, i).length = RunEnd(s, i) - i
         /\ \A k \in 0 .. RunKey(s, i).size - 1 : RunKey(s, i).digit[k] = s[Significant(s, i) + k]
<1> DEFINE e == RunEnd(s, i)
           z == Significant(s, i)
<1>1. e \in i .. Len(s) + 1 /\ z \in i .. e
  BY RunEndIs, SignificantIs
<1> DEFINE digit == [k \in 0 .. e - z - 1 |-> s[z + k]]
<1>2. RunKey(s, i) = [size |-> e - z, digit |-> digit, length |-> e - i]
  BY DEF RunKey
<1> HIDE DEF e, z
<1>3. digit \in [0 .. e - z - 1 -> Int] /\ \A k \in 0 .. e - z - 1 : digit[k] = s[z + k]
  <2>1. \A k \in 0 .. e - z - 1 : z + k \in 1 .. Len(s)
    BY <1>1
  <2>2. \A k \in 1 .. Len(s) : s[k] \in Int
    <3>1. \A k \in 1 .. Len(s) : s[k] \in Characters
      OBVIOUS
    <3> QED BY <3>1, CharactersAssumption
  <2> QED BY <2>1, <2>2
<1>4. e - z \in Nat /\ e - i \in Nat
  BY <1>1
<1> HIDE DEF digit
<1>5. RunKey(s, i).size = e - z /\ RunKey(s, i).digit = digit /\ RunKey(s, i).length = e - i
  BY <1>2
<1> QED BY <1>3, <1>4, <1>5 DEF IsKey, e, z

\* CompareRuns compares the keys.
LEMMA RunsCompared ==
  ASSUME NEW l \in Seq(Characters), NEW r \in Seq(Characters), NEW i \in 1 .. Len(l), NEW j \in 1 .. Len(r)
  PROVE  LET x == RunKey(l, i)
             y == RunKey(r, j)
         IN /\ KeyBefore(x, y) => CompareRuns(l, r, i, j) = -1
            /\ KeyBefore(y, x) => CompareRuns(l, r, i, j) = 1
            /\ KeySame(x, y) => CompareRuns(l, r, i, j) = 0
<1> DEFINE x == RunKey(l, i)
           y == RunKey(r, j)
<1>1. /\ IsKey(x) /\ x.size = RunEnd(l, i) - Significant(l, i) /\ x.length = RunEnd(l, i) - i
      /\ \A k \in 0 .. x.size - 1 : x.digit[k] = l[Significant(l, i) + k]
  BY RunKeyIs
<1>2. /\ IsKey(y) /\ y.size = RunEnd(r, j) - Significant(r, j) /\ y.length = RunEnd(r, j) - j
      /\ \A k \in 0 .. y.size - 1 : y.digit[k] = r[Significant(r, j) + k]
  BY RunKeyIs
<1> HIDE DEF x, y
<1>3. CASE x.size # y.size
  <2>1. CompareRuns(l, r, i, j) = Sign(x.size - y.size)
    BY <1>1, <1>2, <1>3 DEF CompareRuns
  <2>2. x.size \in Nat /\ y.size \in Nat
    BY <1>1, <1>2 DEF IsKey
  <2> QED BY <1>3, <2>1, <2>2 DEF KeyBefore, KeySame, Sign, x, y
<1>4. CASE x.size = y.size /\ x.digit # y.digit
  <2>1. PICK k \in 0 .. x.size - 1 :
          DifferAt(x, y, k) /\ k = Min({m \in 0 .. x.size - 1 : x.digit[m] # y.digit[m]})
    <3>1. IsKey(x) /\ IsKey(y) /\ x.size = y.size /\ x.digit # y.digit
      BY <1>1, <1>2, <1>4
    <3> QED BY <3>1, FirstDifference, Zenon
  <2> DEFINE differ == {m \in 0 .. x.size - 1 : l[Significant(l, i) + m] # r[Significant(r, j) + m]}
  <2>2. differ = {m \in 0 .. x.size - 1 : x.digit[m] # y.digit[m]}
    BY <1>1, <1>2, <1>4
  <2>3. k \in differ /\ k = Min(differ)
    BY <2>1, <2>2 DEF DifferAt
  <2>4. CompareRuns(l, r, i, j) = Sign(l[Significant(l, i) + k] - r[Significant(r, j) + k])
    BY <1>1, <1>2, <1>4, <2>3 DEF CompareRuns
  <2>5. CompareRuns(l, r, i, j) = Sign(x.digit[k] - y.digit[k])
    BY <1>1, <1>2, <1>4, <2>1, <2>4
  <2>6. x.digit[k] \in Int /\ y.digit[k] \in Int
    BY <1>1, <1>2, <1>4, <2>1 DEF IsKey
  <2>7. \A m : DifferAt(x, y, m) \/ DifferAt(y, x, m) => m = k
    BY <1>1, <1>2, <1>4, <2>1, DifferOnce
  <2>8. ASSUME KeyBefore(x, y) PROVE x.digit[k] < y.digit[k]
    <3>1. PICK n \in 0 .. x.size - 1 : DifferAt(x, y, n) /\ x.digit[n] < y.digit[n]
      BY <1>1, <1>2, <1>4, <2>8 DEF KeyBefore, IsKey
    <3> QED BY <2>7, <3>1
  <2>9. ASSUME KeyBefore(y, x) PROVE y.digit[k] < x.digit[k]
    <3>1. PICK n \in 0 .. x.size - 1 : DifferAt(y, x, n) /\ y.digit[n] < x.digit[n]
      BY <1>1, <1>2, <1>4, <2>9 DEF KeyBefore, IsKey
    <3> QED BY <2>7, <3>1
  <2>10. ~KeySame(x, y)
    BY <1>4 DEF KeySame
  <2>11. /\ KeyBefore(x, y) => CompareRuns(l, r, i, j) = -1
         /\ KeyBefore(y, x) => CompareRuns(l, r, i, j) = 1
         /\ KeySame(x, y) => CompareRuns(l, r, i, j) = 0
    BY <2>5, <2>6, <2>8, <2>9, <2>10 DEF Sign
  <2> QED BY <2>11 DEF x, y
<1>5. CASE x.size = y.size /\ x.digit = y.digit
  <2>1. {m \in 0 .. x.size - 1 : l[Significant(l, i) + m] # r[Significant(r, j) + m]} = {}
    BY <1>1, <1>2, <1>5
  <2>2. CompareRuns(l, r, i, j) = Sign(x.length - y.length)
    BY <1>1, <1>2, <1>5, <2>1 DEF CompareRuns
  <2>3. x.length \in Nat /\ y.length \in Nat /\ x.size \in Nat
    BY <1>1, <1>2 DEF IsKey
  <2> QED BY <1>5, <2>2, <2>3 DEF KeyBefore, KeySame, DifferAt, Sign, x, y
<1> QED BY <1>3, <1>4, <1>5

-----------------------------------------------------------------------------
\* Both names at the same position, which is where the comparison always is: the
\* one before the other there, or the same, and where it goes on from there.
TokenBefore(l, r, i) ==
  IF Digit(l[i]) /\ Digit(r[i]) THEN KeyBefore(RunKey(l, i), RunKey(r, i))
  ELSE LowerCase(l[i]) < LowerCase(r[i])

TokenSame(l, r, i) ==
  IF Digit(l[i]) /\ Digit(r[i]) THEN KeySame(RunKey(l, i), RunKey(r, i))
  ELSE LowerCase(l[i]) = LowerCase(r[i])

NextToken(s, i) == IF Digit(s[i]) THEN RunEnd(s, i) ELSE i + 1
Compare(l, r, i) == CompareFrom(l, r)[i][i]

LEMMA LowerCases ==
  ASSUME NEW c \in Characters
  PROVE  /\ c \in Int /\ LowerCase(c) \in Int
         /\ Digit(c) <=> LowerCase(c) \in DigitChars
         /\ Digit(c) => LowerCase(c) = c
BY CharactersAssumption DEF LowerCase, Digit

LEMMA TokensTotal ==
  ASSUME NEW l \in Seq(Characters), NEW r \in Seq(Characters), NEW i \in 1 .. Len(l), i \in 1 .. Len(r)
  PROVE  /\ TokenBefore(l, r, i) \/ TokenBefore(r, l, i) \/ TokenSame(l, r, i)
         /\ TokenSame(l, r, i) => TokenSame(r, l, i)
<1>1. l[i] \in Characters /\ r[i] \in Characters
  OBVIOUS
<1>2. CASE Digit(l[i]) /\ Digit(r[i])
  <2>1. IsKey(RunKey(l, i)) /\ IsKey(RunKey(r, i))
    BY RunKeyIs
  <2>2. KeySame(RunKey(l, i), RunKey(r, i)) => KeySame(RunKey(r, i), RunKey(l, i))
    BY DEF KeySame
  <2>3. \/ KeyBefore(RunKey(l, i), RunKey(r, i)) \/ KeyBefore(RunKey(r, i), RunKey(l, i))
        \/ KeySame(RunKey(l, i), RunKey(r, i))
    BY <2>1, KeysTotal
  <2> QED BY <1>2, <2>2, <2>3, Zenon DEF TokenBefore, TokenSame
<1>3. CASE ~(Digit(l[i]) /\ Digit(r[i]))
  <2>1. LowerCase(l[i]) \in Int /\ LowerCase(r[i]) \in Int
    BY <1>1, LowerCases
  <2> QED BY <1>3, <2>1 DEF TokenBefore, TokenSame
<1> QED BY <1>2, <1>3

\* Three names at a position where a character is not between two of their digits.
LEMMA NotBetween ==
  ASSUME NEW a \in Seq(Characters), NEW b \in Seq(Characters), NEW c \in Seq(Characters),
         DigitsTogether({a, b, c}), NEW i, i \in 1 .. Len(a), i \in 1 .. Len(b), i \in 1 .. Len(c),
         Digit(a[i]), Digit(b[i]), ~Digit(c[i])
  PROVE  ~(a[i] < LowerCase(c[i]) /\ LowerCase(c[i]) < b[i])
<1> DEFINE chars == UNION {{s[k] : k \in DOMAIN s} : s \in {a, b, c}}
<1>1. i \in DOMAIN a /\ i \in DOMAIN b /\ i \in DOMAIN c
  OBVIOUS
<1>2. a[i] \in chars /\ b[i] \in chars /\ c[i] \in chars
  BY <1>1
<1>3. \A z \in chars \ DigitChars, d, e \in chars \cap DigitChars :
        ~(d < LowerCase(z) /\ LowerCase(z) < e)
  BY DEF DigitsTogether
<1> HIDE DEF chars
<1> QED BY <1>2, <1>3 DEF Digit

LEMMA TokensTransitive ==
  ASSUME NEW a \in Seq(Characters), NEW b \in Seq(Characters), NEW c \in Seq(Characters),
         DigitsTogether({a, b, c}),
         NEW i \in 1 .. Len(a), i \in 1 .. Len(b), i \in 1 .. Len(c),
         TokenBefore(a, b, i) \/ TokenSame(a, b, i), TokenBefore(b, c, i) \/ TokenSame(b, c, i)
  PROVE  /\ TokenBefore(a, c, i) \/ TokenSame(a, c, i)
         /\ TokenBefore(a, b, i) \/ TokenBefore(b, c, i) => TokenBefore(a, c, i)
<1>1. /\ LowerCase(a[i]) \in Int /\ (Digit(a[i]) <=> LowerCase(a[i]) \in DigitChars)
      /\ Digit(a[i]) => LowerCase(a[i]) = a[i]
      /\ LowerCase(b[i]) \in Int /\ (Digit(b[i]) <=> LowerCase(b[i]) \in DigitChars)
      /\ Digit(b[i]) => LowerCase(b[i]) = b[i]
      /\ LowerCase(c[i]) \in Int /\ (Digit(c[i]) <=> LowerCase(c[i]) \in DigitChars)
      /\ Digit(c[i]) => LowerCase(c[i]) = c[i]
  <2>1. a[i] \in Characters /\ b[i] \in Characters /\ c[i] \in Characters
    OBVIOUS
  <2> QED BY <2>1, LowerCases
<1>2. CASE Digit(a[i]) /\ Digit(b[i]) /\ Digit(c[i])
  <2> DEFINE x == RunKey(a, i)
             y == RunKey(b, i)
             z == RunKey(c, i)
  <2>1. IsKey(x) /\ IsKey(y) /\ IsKey(z)
    BY RunKeyIs
  <2>2. /\ TokenBefore(a, b, i) <=> KeyBefore(x, y)
        /\ TokenSame(a, b, i) <=> KeySame(x, y)
        /\ TokenBefore(b, c, i) <=> KeyBefore(y, z)
        /\ TokenSame(b, c, i) <=> KeySame(y, z)
        /\ TokenBefore(a, c, i) <=> KeyBefore(x, z)
        /\ TokenSame(a, c, i) <=> KeySame(x, z)
    BY <1>2, Zenon DEF TokenBefore, TokenSame
  <2> HIDE DEF x, y, z
  <2> QED BY <2>1, <2>2, KeysTransitive
<1>3. CASE ~(Digit(a[i]) /\ Digit(b[i]) /\ Digit(c[i]))
  <2> DEFINE x == LowerCase(a[i])
             y == LowerCase(b[i])
             z == LowerCase(c[i])
  <2>1. /\ ~(Digit(a[i]) /\ Digit(b[i])) =>
             (TokenBefore(a, b, i) <=> x < y) /\ (TokenSame(a, b, i) <=> x = y)
        /\ ~(Digit(b[i]) /\ Digit(c[i])) =>
             (TokenBefore(b, c, i) <=> y < z) /\ (TokenSame(b, c, i) <=> y = z)
        /\ ~(Digit(a[i]) /\ Digit(c[i])) =>
             (TokenBefore(a, c, i) <=> x < z) /\ (TokenSame(a, c, i) <=> x = z)
    BY Zenon DEF TokenBefore, TokenSame
  <2> HIDE DEF x, y, z
  <2>2. /\ x \in Int /\ (Digit(a[i]) <=> x \in DigitChars)
        /\ y \in Int /\ (Digit(b[i]) <=> y \in DigitChars)
        /\ z \in Int /\ (Digit(c[i]) <=> z \in DigitChars)
    BY <1>1 DEF x, y, z
  <2>b. /\ Digit(a[i]) /\ Digit(b[i]) /\ ~Digit(c[i]) => ~(x < z /\ z < y) /\ ~(y < z /\ z < x)
        /\ Digit(a[i]) /\ Digit(c[i]) /\ ~Digit(b[i]) => ~(x < y /\ y < z) /\ ~(z < y /\ y < x)
        /\ Digit(b[i]) /\ Digit(c[i]) /\ ~Digit(a[i]) => ~(y < x /\ x < z) /\ ~(z < x /\ x < y)
    <3>1. {b, a, c} = {a, b, c} /\ {a, c, b} = {a, b, c} /\ {c, a, b} = {a, b, c} /\ {b, c, a} = {a, b, c} /\ {c, b, a} = {a, b, c}
      OBVIOUS
    <3>2. Digit(a[i]) /\ Digit(b[i]) /\ ~Digit(c[i]) =>
            ~(a[i] < LowerCase(c[i]) /\ LowerCase(c[i]) < b[i]) /\ ~(b[i] < LowerCase(c[i]) /\ LowerCase(c[i]) < a[i])
      BY <3>1, NotBetween
    <3>3. Digit(a[i]) /\ Digit(c[i]) /\ ~Digit(b[i]) =>
            ~(a[i] < LowerCase(b[i]) /\ LowerCase(b[i]) < c[i]) /\ ~(c[i] < LowerCase(b[i]) /\ LowerCase(b[i]) < a[i])
      BY <3>1, NotBetween
    <3>4. Digit(b[i]) /\ Digit(c[i]) /\ ~Digit(a[i]) =>
            ~(b[i] < LowerCase(a[i]) /\ LowerCase(a[i]) < c[i]) /\ ~(c[i] < LowerCase(a[i]) /\ LowerCase(a[i]) < b[i])
      BY <3>1, NotBetween
    <3> QED BY <1>1, <3>2, <3>3, <3>4 DEF x, y, z
  <2>3. CASE Digit(a[i]) /\ Digit(b[i])
    BY <1>3, <2>1, <2>2, <2>3, <2>b
  <2>4. CASE Digit(b[i]) /\ Digit(c[i])
    BY <1>3, <2>1, <2>2, <2>4, <2>b
  <2>5. CASE ~(Digit(a[i]) /\ Digit(b[i])) /\ ~(Digit(b[i]) /\ Digit(c[i]))
    BY <2>1, <2>2, <2>5, <2>b
  <2> QED BY <2>3, <2>4, <2>5
<1> QED BY <1>2, <1>3

\* What the comparison says at a position, and where it is settled later.
LEMMA ComparedHere ==
  ASSUME NEW l \in Seq(Characters), NEW r \in Seq(Characters), NEW i \in 1 .. Len(l), i \in 1 .. Len(r)
  PROVE  /\ TokenBefore(l, r, i) => Compare(l, r, i) = -1
         /\ TokenBefore(r, l, i) => Compare(l, r, i) = 1
         /\ TokenSame(l, r, i) =>
              /\ NextToken(l, i) \in i + 1 .. Len(l) + 1 /\ NextToken(r, i) = NextToken(l, i)
              /\ Compare(l, r, i) = Compare(l, r, NextToken(l, i))
<1>1. Compare(l, r, i) = Compared(l, r, CompareFrom(l, r), i, i)
  BY ComparedFrom DEF Compare
<1>2. ~(i > Len(l) \/ i > Len(r))
  OBVIOUS
<1>3. /\ LowerCase(l[i]) \in Int /\ (Digit(l[i]) <=> LowerCase(l[i]) \in DigitChars)
      /\ LowerCase(r[i]) \in Int /\ (Digit(r[i]) <=> LowerCase(r[i]) \in DigitChars)
  <2>1. l[i] \in Characters /\ r[i] \in Characters
    OBVIOUS
  <2> QED BY <2>1, LowerCases
<1>4. CASE Digit(l[i]) /\ Digit(r[i])
  <2>1. Compare(l, r, i) = IF CompareRuns(l, r, i, i) # 0 THEN CompareRuns(l, r, i, i)
                           ELSE CompareFrom(l, r)[RunEnd(l, i)][RunEnd(r, i)]
    BY <1>1, <1>2, <1>4 DEF Compared
  <2>2. /\ TokenBefore(l, r, i) => CompareRuns(l, r, i, i) = -1
        /\ TokenBefore(r, l, i) => CompareRuns(l, r, i, i) = 1
        /\ TokenSame(l, r, i) => CompareRuns(l, r, i, i) = 0
    BY <1>4, RunsCompared, Zenon DEF TokenBefore, TokenSame
  <2>3. RunEnd(l, i) \in i + 1 .. Len(l) + 1 /\ RunEnd(r, i) \in i + 1 .. Len(r) + 1
    <3>1. /\ RunEnd(l, i) \in i .. Len(l) + 1
          /\ RunEnd(l, i) = Len(l) + 1 \/ ~Digit(l[RunEnd(l, i)])
          /\ RunEnd(r, i) \in i .. Len(r) + 1
          /\ RunEnd(r, i) = Len(r) + 1 \/ ~Digit(r[RunEnd(r, i)])
      BY RunEndIs
    <3>2. RunEnd(l, i) # i /\ RunEnd(r, i) # i
      BY <1>4, <3>1
    <3> QED BY <3>1, <3>2
  <2>4. TokenSame(l, r, i) => RunEnd(l, i) = RunEnd(r, i)
    <3>1. RunKey(l, i).length = RunEnd(l, i) - i /\ RunKey(r, i).length = RunEnd(r, i) - i
      BY RunKeyIs
    <3>2. TokenSame(l, r, i) => RunKey(l, i).length = RunKey(r, i).length
      BY <1>4, Zenon DEF TokenSame, KeySame
    <3> QED BY <2>3, <3>1, <3>2
  <2>5. NextToken(l, i) = RunEnd(l, i) /\ NextToken(r, i) = RunEnd(r, i)
    BY <1>4 DEF NextToken
  <2> QED BY <2>1, <2>2, <2>3, <2>4, <2>5 DEF Compare
<1>5. CASE ~(Digit(l[i]) /\ Digit(r[i]))
  <2>1. Compare(l, r, i) = IF LowerCase(l[i]) # LowerCase(r[i])
                             THEN Sign(LowerCase(l[i]) - LowerCase(r[i]))
                           ELSE CompareFrom(l, r)[i + 1][i + 1]
    BY <1>1, <1>2, <1>5 DEF Compared
  <2>2. /\ TokenBefore(l, r, i) <=> LowerCase(l[i]) < LowerCase(r[i])
        /\ TokenBefore(r, l, i) <=> LowerCase(r[i]) < LowerCase(l[i])
        /\ TokenSame(l, r, i) <=> LowerCase(l[i]) = LowerCase(r[i])
    BY <1>5, Zenon DEF TokenBefore, TokenSame
  <2>3. TokenSame(l, r, i) => NextToken(l, i) = i + 1 /\ NextToken(r, i) = i + 1
    BY <1>3, <1>5, <2>2 DEF NextToken
  <2>4. LowerCase(l[i]) \in Int /\ LowerCase(r[i]) \in Int
    BY <1>3
  <2>5. /\ TokenBefore(l, r, i) => Compare(l, r, i) = -1
        /\ TokenBefore(r, l, i) => Compare(l, r, i) = 1
    BY <2>1, <2>2, <2>4 DEF Sign
  <2>6. TokenSame(l, r, i) => Compare(l, r, i) = Compare(l, r, i + 1)
    BY <2>1, <2>2 DEF Compare
  <2> QED BY <2>3, <2>5, <2>6
<1> QED BY <1>4, <1>5

LEMMA ComparedAtTheEnd ==
  ASSUME NEW l \in Seq(Characters), NEW r \in Seq(Characters), NEW i \in Nat, i > Len(l) \/ i > Len(r)
  PROVE  Compare(l, r, i) = Sign(Len(l) - Len(r))
BY ComparedFrom DEF Compare, Compared

-----------------------------------------------------------------------------
\* A position both names have, or the one after the last of the shorter.
Reached(l, i) == i \in 1 .. Len(l) + 1

LEMMA OneAfterTheOther ==
  ASSUME NEW l \in Seq(Characters), NEW r \in Seq(Characters), NEW i, Reached(l, i), Reached(r, i),
         ~(i <= Len(l) /\ i <= Len(r))
  PROVE  /\ i > Len(l) => Compare(l, r, i) = IF i > Len(r) THEN 0 ELSE -1
         /\ i <= Len(l) => Compare(l, r, i) = 1
<1>1. i \in Nat /\ (i > Len(l) \/ i > Len(r)) /\ i <= Len(l) + 1 /\ i <= Len(r) + 1
  BY DEF Reached
<1>2. Compare(l, r, i) = Sign(Len(l) - Len(r))
  BY <1>1, ComparedAtTheEnd
<1> QED BY <1>1, <1>2 DEF Sign

\* A set of positions that has, with none later in it, no position is empty.
LEMMA NoLastPosition ==
  ASSUME NEW T \in SUBSET Nat, NEW n \in Nat, \A i \in T : i <= n,
         \A i \in T : \E j \in T : j > i
  PROVE  T = {}
<1> SUFFICES ASSUME T # {} PROVE FALSE
  OBVIOUS
<1>1. n \in Int /\ \A x \in T : x \in Int /\ x <= n
  OBVIOUS
<1>2. Max(T) \in T /\ \A x \in T : x <= Max(T)
  BY <1>1, LargestOf, Zenon
<1>3. PICK j \in T : j > Max(T)
  BY <1>2
<1>4. j \in Nat /\ Max(T) \in Nat
  BY <1>2, <1>3
<1> QED BY <1>2, <1>3, <1>4

\* Two names compare one way or the other, or as the same.
LEMMA ComparedBothWays ==
  ASSUME NEW l \in Seq(Characters), NEW r \in Seq(Characters)
  PROVE  \A i : Reached(l, i) /\ Reached(r, i) =>
           Compare(l, r, i) \in {-1, 0, 1} /\ Compare(r, l, i) = -Compare(l, r, i)
<1> DEFINE Right(i) == Compare(l, r, i) \in {-1, 0, 1} /\ Compare(r, l, i) = -Compare(l, r, i)
           T == {i \in 1 .. Len(l) + 1 : Reached(r, i) /\ ~Right(i)}
<1>1. ASSUME NEW i \in T PROVE \E j \in T : j > i
  <2>1. i \in 1 .. Len(l) + 1 /\ Reached(l, i) /\ Reached(r, i) /\ ~Right(i)
    BY DEF Reached
  <2>2. CASE i <= Len(l) /\ i <= Len(r)
    <3>1. i \in 1 .. Len(l) /\ i \in 1 .. Len(r)
      BY <2>1, <2>2
    <3>2. ~TokenBefore(l, r, i) /\ ~TokenBefore(r, l, i)
      <4>1. TokenBefore(l, r, i) => Compare(l, r, i) = -1 /\ Compare(r, l, i) = 1
        BY <3>1, ComparedHere
      <4>2. TokenBefore(r, l, i) => Compare(l, r, i) = 1 /\ Compare(r, l, i) = -1
        BY <3>1, ComparedHere
      <4> QED BY <2>1, <4>1, <4>2
    <3>3. TokenSame(l, r, i) /\ TokenSame(r, l, i)
      BY <3>1, <3>2, TokensTotal
    <3> DEFINE n == NextToken(l, i)
    <3>4. /\ n \in i + 1 .. Len(l) + 1 /\ NextToken(r, i) = n
          /\ Compare(l, r, i) = Compare(l, r, n)
      BY <3>1, <3>3, ComparedHere
    <3>5. NextToken(r, i) \in i + 1 .. Len(r) + 1 /\ Compare(r, l, i) = Compare(r, l, NextToken(r, i))
      BY <3>1, <3>3, ComparedHere
    <3> HIDE DEF n
    <3>6. n \in 1 .. Len(l) + 1 /\ Reached(r, n) /\ ~Right(n) /\ n > i
      BY <2>1, <3>4, <3>5 DEF Reached
    <3> QED BY <3>6
  <2>3. CASE ~(i <= Len(l) /\ i <= Len(r))
    <3>1. /\ i > Len(l) => Compare(l, r, i) = IF i > Len(r) THEN 0 ELSE -1
          /\ i <= Len(l) => Compare(l, r, i) = 1
          /\ i > Len(r) => Compare(r, l, i) = IF i > Len(l) THEN 0 ELSE -1
          /\ i <= Len(r) => Compare(r, l, i) = 1
      BY <2>1, <2>3, OneAfterTheOther
    <3> QED BY <2>1, <2>3, <3>1
  <2> QED BY <2>2, <2>3
<1>2. T \in SUBSET Nat /\ Len(l) + 1 \in Nat /\ \A i \in T : i <= Len(l) + 1
  OBVIOUS
<1> HIDE DEF T
<1>3. T = {}
  BY <1>1, <1>2, NoLastPosition
<1> QED BY <1>3 DEF T, Reached

\* And transitively.
LEMMA ComparedInARow ==
  ASSUME NEW a \in Seq(Characters), NEW b \in Seq(Characters), NEW c \in Seq(Characters),
         DigitsTogether({a, b, c})
  PROVE  \A i : Reached(a, i) /\ Reached(b, i) /\ Reached(c, i)
                /\ Compare(a, b, i) <= 0 /\ Compare(b, c, i) <= 0 => Compare(a, c, i) <= 0
<1> DEFINE T == {i \in 1 .. Len(a) + 1 :
                   /\ Reached(b, i) /\ Reached(c, i)
                   /\ Compare(a, b, i) <= 0 /\ Compare(b, c, i) <= 0 /\ ~(Compare(a, c, i) <= 0)}
<1>1. ASSUME NEW i \in T PROVE \E j \in T : j > i
  <2>1. /\ i \in 1 .. Len(a) + 1 /\ Reached(a, i) /\ Reached(b, i) /\ Reached(c, i)
        /\ Compare(a, b, i) <= 0 /\ Compare(b, c, i) <= 0 /\ ~(Compare(a, c, i) <= 0)
    BY DEF Reached
  <2>2. i <= Len(a)
    <3>1. i > Len(a) => Compare(a, c, i) = IF i > Len(c) THEN 0 ELSE -1
      BY <2>1, OneAfterTheOther
    <3> QED BY <2>1, <3>1
  <2>3. i <= Len(b)
    <3>1. ~(i <= Len(b)) => Compare(a, b, i) = 1
      BY <2>1, <2>2, OneAfterTheOther
    <3> QED BY <2>1, <3>1
  <2>4. i <= Len(c)
    <3>1. ~(i <= Len(c)) => Compare(b, c, i) = 1
      BY <2>1, <2>3, OneAfterTheOther
    <3> QED BY <2>1, <3>1
  <2>5. i \in 1 .. Len(a) /\ i \in 1 .. Len(b) /\ i \in 1 .. Len(c)
    BY <2>1, <2>2, <2>3, <2>4
  <2>6. /\ TokenBefore(a, b, i) \/ TokenSame(a, b, i)
        /\ TokenBefore(b, c, i) \/ TokenSame(b, c, i)
    <3>1. TokenBefore(b, a, i) => Compare(a, b, i) = 1
      BY <2>5, ComparedHere
    <3>2. TokenBefore(c, b, i) => Compare(b, c, i) = 1
      BY <2>5, ComparedHere
    <3>3. ~TokenBefore(b, a, i) /\ ~TokenBefore(c, b, i)
      BY <2>1, <3>1, <3>2
    <3> QED BY <2>5, <3>3, TokensTotal
  <2>7. ~TokenBefore(a, c, i)
    <3>1. TokenBefore(a, c, i) => Compare(a, c, i) = -1
      BY <2>5, ComparedHere
    <3> QED BY <2>1, <3>1
  <2>8. TokenSame(a, b, i) /\ TokenSame(b, c, i) /\ TokenSame(a, c, i)
    BY <2>5, <2>6, <2>7, TokensTransitive
  <2> DEFINE n == NextToken(a, i)
  <2>9. /\ n \in i + 1 .. Len(a) + 1 /\ NextToken(b, i) = n
        /\ Compare(a, b, i) = Compare(a, b, n)
    BY <2>5, <2>8, ComparedHere
  <2>10. /\ NextToken(b, i) \in i + 1 .. Len(b) + 1 /\ NextToken(c, i) = NextToken(b, i)
         /\ Compare(b, c, i) = Compare(b, c, NextToken(b, i))
    BY <2>5, <2>8, ComparedHere
  <2>11. Compare(a, c, i) = Compare(a, c, n)
    BY <2>5, <2>8, ComparedHere
  <2>12. TokenSame(c, a, i)
    BY <2>5, <2>8, TokensTotal
  <2>13. NextToken(c, i) \in i + 1 .. Len(c) + 1
    BY <2>5, <2>12, ComparedHere
  <2> HIDE DEF n
  <2>14. n \in 1 .. Len(a) + 1 /\ Reached(b, n) /\ Reached(c, n) /\ n > i
    BY <2>1, <2>9, <2>10, <2>13 DEF Reached
  <2>15. Compare(a, b, n) <= 0 /\ Compare(b, c, n) <= 0 /\ ~(Compare(a, c, n) <= 0)
    BY <2>1, <2>9, <2>10, <2>11
  <2> QED BY <2>14, <2>15
<1>2. T \in SUBSET Nat /\ Len(a) + 1 \in Nat /\ \A i \in T : i <= Len(a) + 1
  OBVIOUS
<1> HIDE DEF T
<1>3. T = {}
  BY <1>1, <1>2, NoLastPosition
<1> QED BY <1>3 DEF T, Reached

-----------------------------------------------------------------------------
\* What comes behind a name that does not end in a digit does not change how
\* its own tokens compare.
LEMMA RunInPrefix ==
  ASSUME NEW p \in Seq(Characters), NEW x \in Seq(Characters), NEW i \in 1 .. Len(p), ~Digit(p[Len(p)]), Digit(p[i])
  PROVE  /\ RunEnd(p \o x, i) = RunEnd(p, i) /\ RunEnd(p, i) <= Len(p)
         /\ RunKey(p \o x, i) = RunKey(p, i)
<1> DEFINE s == p \o x
           e == RunEnd(p, i)
           f == RunEnd(s, i)
           z == Significant(p, i)
           y == Significant(s, i)
<1>1. s \in Seq(Characters) /\ Len(s) >= Len(p) /\ i \in 1 .. Len(s) /\ \A j \in 1 .. Len(p) : s[j] = p[j]
  OBVIOUS
<1>2. /\ e \in i .. Len(p) + 1
      /\ e = Len(p) + 1 \/ ~Digit(p[e])
      /\ \A j \in i .. Len(p) : j < e => Digit(p[j])
  BY RunEndIs
<1>3. /\ f \in i .. Len(s) + 1
      /\ f = Len(s) + 1 \/ ~Digit(s[f])
      /\ \A j \in i .. Len(s) : j < f => Digit(s[j])
  <2> HIDE DEF s
  <2> QED BY <1>1, RunEndIs
<1>4. /\ z \in i .. e
      /\ z = e \/ p[z] # 0
      /\ \A j \in i .. e : j < z => p[j] = 0
  BY SignificantIs
<1>5. /\ y \in i .. f
      /\ y = f \/ s[y] # 0
      /\ \A j \in i .. f : j < y => s[j] = 0
  <2> HIDE DEF s
  <2> QED BY <1>1, SignificantIs
<1> HIDE DEF s, e, f, z, y
<1>6. e <= Len(p)
  BY <1>2
<1>7. f = e
  <2>1. ~Digit(p[e]) /\ s[e] = p[e]
    BY <1>1, <1>2, <1>6
  <2>2. ~(e < f)
    BY <1>1, <1>2, <1>3, <1>6, <2>1
  <2>3. f <= Len(p) /\ f \in Nat
    BY <1>2, <1>3, <1>6, <2>2
  <2>4. ~Digit(p[f])
    BY <1>1, <1>3, <2>3
  <2>5. ~(f < e)
    <3>1. f \in i .. Len(p)
      BY <1>3, <2>3
    <3> QED BY <1>2, <2>4, <3>1
  <2>6. e \in Nat
    BY <1>2
  <2> QED BY <2>2, <2>3, <2>5, <2>6
<1>8. y = z
  <2>1. e \in Nat /\ y \in i .. e /\ z \in i .. e
    BY <1>2, <1>4, <1>5, <1>7
  <2>2. ASSUME y < z PROVE FALSE
    <3>1. y \in 1 .. Len(p) /\ y # e
      BY <1>6, <2>1, <2>2
    <3>2. p[y] = 0 /\ s[y] # 0
      BY <1>4, <1>5, <1>7, <2>1, <2>2, <3>1
    <3> QED BY <1>1, <3>1, <3>2
  <2>3. ASSUME z < y PROVE FALSE
    <3>1. z \in 1 .. Len(p) /\ z # e
      BY <1>6, <2>1, <2>3
    <3>2. s[z] = 0 /\ p[z] # 0
      BY <1>4, <1>5, <1>7, <2>1, <2>3, <3>1
    <3> QED BY <1>1, <3>1, <3>2
  <2> QED BY <2>1, <2>2, <2>3
<1>9. ASSUME NEW k \in 0 .. e - z - 1 PROVE s[z + k] = p[z + k]
  <2> DEFINE n == z + k
  <2>1. n \in 1 .. Len(p)
    BY <1>2, <1>4, <1>6
  <2> HIDE DEF n
  <2>2. s[n] = p[n]
    BY <1>1, <2>1
  <2> QED BY <2>2 DEF n
<1>10. RunKey(s, i) = [size |-> e - z, digit |-> [k \in 0 .. e - z - 1 |-> s[z + k]], length |-> e - i]
  BY <1>7, <1>8 DEF RunKey, e, f, z, y
<1>11. RunKey(p, i) = [size |-> e - z, digit |-> [k \in 0 .. e - z - 1 |-> p[z + k]], length |-> e - i]
  BY DEF RunKey, e, z
<1>12. [k \in 0 .. e - z - 1 |-> s[z + k]] = [k \in 0 .. e - z - 1 |-> p[z + k]]
  BY <1>9
<1>13. RunKey(s, i) = RunKey(p, i)
  BY <1>10, <1>11, <1>12
<1> QED BY <1>6, <1>7, <1>13 DEF e, f, s

\* So names that only differ behind it compare as what follows it does.
LEMMA ComparedBehind ==
  ASSUME NEW p \in Seq(Characters), NEW x \in Seq(Characters), NEW y \in Seq(Characters),
         p = <<>> \/ ~Digit(p[Len(p)])
  PROVE  Compare(p \o x, p \o y, 1) = Compare(p \o x, p \o y, Len(p) + 1)
<1> DEFINE l == p \o x
           r == p \o y
           T == {i \in 1 .. Len(p) : Compare(l, r, i) # Compare(l, r, Len(p) + 1)}
<1>1. /\ l \in Seq(Characters) /\ Len(l) >= Len(p) /\ \A j \in 1 .. Len(p) : l[j] = p[j]
      /\ r \in Seq(Characters) /\ Len(r) >= Len(p) /\ \A j \in 1 .. Len(p) : r[j] = p[j]
  OBVIOUS
<1>2. ASSUME NEW i \in 1 .. Len(p)
      PROVE  /\ NextToken(l, i) \in i + 1 .. Len(p) + 1
             /\ Compare(l, r, i) = Compare(l, r, NextToken(l, i))
  <2>1. l[i] = p[i] /\ r[i] = p[i] /\ i \in 1 .. Len(l) /\ i \in 1 .. Len(r)
    BY <1>1
  <2>2. CASE Digit(p[i])
    <3>1. ~Digit(p[Len(p)])
      OBVIOUS
    <3>2. /\ RunEnd(l, i) = RunEnd(p, i) /\ RunEnd(p, i) <= Len(p)
          /\ RunKey(l, i) = RunKey(p, i) /\ RunKey(r, i) = RunKey(p, i)
      BY <2>2, <3>1, RunInPrefix
    <3> HIDE DEF l, r
    <3>3. KeySame(RunKey(l, i), RunKey(r, i))
      BY <3>2 DEF KeySame
    <3>4. TokenSame(l, r, i)
      BY <2>1, <2>2, <3>3, Zenon DEF TokenSame
    <3>5. NextToken(l, i) \in i + 1 .. Len(l) + 1 /\ Compare(l, r, i) = Compare(l, r, NextToken(l, i))
      BY <1>1, <2>1, <3>4, ComparedHere
    <3>6. NextToken(l, i) = RunEnd(l, i)
      BY <2>1, <2>2 DEF NextToken
    <3> QED BY <3>2, <3>5, <3>6
  <2>3. CASE ~Digit(p[i])
    <3> HIDE DEF l, r
    <3>1. TokenSame(l, r, i)
      BY <2>1, <2>3, Zenon DEF TokenSame
    <3>2. Compare(l, r, i) = Compare(l, r, NextToken(l, i))
      BY <1>1, <2>1, <3>1, ComparedHere
    <3>3. NextToken(l, i) = i + 1
      BY <2>1, <2>3 DEF NextToken
    <3> QED BY <3>2, <3>3
  <2> QED BY <2>2, <2>3
<1> HIDE DEF l, r
<1>3. ASSUME NEW i \in T PROVE \E j \in T : j > i
  <2> DEFINE n == NextToken(l, i)
  <2>1. i \in 1 .. Len(p) /\ Compare(l, r, i) # Compare(l, r, Len(p) + 1)
    OBVIOUS
  <2>2. n \in i + 1 .. Len(p) + 1 /\ Compare(l, r, i) = Compare(l, r, n)
    BY <1>2, <2>1
  <2> HIDE DEF n
  <2>3. n \in 1 .. Len(p) /\ n > i
    BY <2>1, <2>2
  <2> QED BY <2>1, <2>2, <2>3
<1>4. T \in SUBSET Nat /\ Len(p) \in Nat /\ \A i \in T : i <= Len(p)
  OBVIOUS
<1>5. T = {}
  <2> HIDE DEF T
  <2> QED BY <1>3, <1>4, NoLastPosition
<1>6. Compare(l, r, 1) = Compare(l, r, Len(p) + 1)
  <2>1. CASE Len(p) = 0
    BY <2>1
  <2>2. CASE Len(p) # 0
    <3>1. 1 \in 1 .. Len(p)
      BY <2>2
    <3> QED BY <1>5, <3>1
  <2> QED BY <2>1, <2>2
<1> QED BY <1>6 DEF l, r

\* A number of one or of two digits at the end of a name.
Number(k) == IF k < 10 THEN <<k>> ELSE <<k \div 10, k % 10>>

LEMMA NumberIs ==
  ASSUME NEW k \in 1 .. 11
  PROVE  /\ Number(k) \in Seq(Characters)
         /\ Len(Number(k)) = IF k < 10 THEN 1 ELSE 2
         /\ \A j \in 1 .. Len(Number(k)) : Digit(Number(k)[j])
         /\ Number(k)[1] = IF k < 10 THEN k ELSE 1
         /\ k >= 10 => Number(k)[2] = k - 10
<1>0. \A d \in 0 .. 9 : d \in Characters /\ Digit(d)
  BY CharactersAssumption DEF Digit
<1>1. CASE k < 10
  <2>1. Number(k) = <<k>> /\ k \in 0 .. 9
    BY <1>1 DEF Number
  <2> QED BY <1>0, <1>1, <2>1
<1>2. CASE k = 10
  <2> DEFINE t == <<1, 0>>
  <2>1. t \in Seq(Characters) /\ Len(t) = 2 /\ t[1] = 1 /\ t[2] = 0
    BY <1>0
  <2>2. Number(k) = t
    BY <1>2 DEF Number
  <2> HIDE DEF t
  <2>3. \A j \in 1 .. Len(t) : Digit(t[j])
    BY <1>0, <2>1
  <2> QED BY <1>2, <2>1, <2>2, <2>3
<1>3. CASE k = 11
  <2> DEFINE t == <<1, 1>>
  <2>1. t \in Seq(Characters) /\ Len(t) = 2 /\ t[1] = 1 /\ t[2] = 1
    BY <1>0
  <2>2. Number(k) = t
    BY <1>3 DEF Number
  <2> HIDE DEF t
  <2>3. \A j \in 1 .. Len(t) : Digit(t[j])
    BY <1>0, <2>1
  <2> QED BY <1>3, <2>1, <2>2, <2>3
<1> QED BY <1>1, <1>2, <1>3

\* The key of the number is all of it.
LEMMA NumberKey ==
  ASSUME NEW p \in Seq(Characters), NEW k \in 1 .. 11
  PROVE  LET s == p \o Number(k)
             m == Len(p) + 1
         IN /\ s \in Seq(Characters) /\ m \in 1 .. Len(s) /\ Digit(s[m])
            /\ RunKey(s, m).size = Len(Number(k))
            /\ \A j \in 0 .. Len(Number(k)) - 1 : RunKey(s, m).digit[j] = Number(k)[j + 1]
<1> DEFINE x == Number(k)
           s == p \o x
           m == Len(p) + 1
           e == RunEnd(s, m)
           z == Significant(s, m)
<1>1. /\ x \in Seq(Characters) /\ Len(x) = IF k < 10 THEN 1 ELSE 2
      /\ \A j \in 1 .. Len(x) : Digit(x[j])
      /\ x[1] = IF k < 10 THEN k ELSE 1
  BY NumberIs
<1> HIDE DEF x
<1>2. /\ s \in Seq(Characters) /\ Len(s) = Len(p) + Len(x) /\ m \in 1 .. Len(s)
      /\ \A j \in 1 .. Len(x) : s[Len(p) + j] = x[j]
  <2>1. Len(p) \in Nat /\ Len(x) \in 1 .. 2
    BY <1>1
  <2>2. s \in Seq(Characters) /\ Len(s) = Len(p) + Len(x)
    BY <1>1, ConcatProperties
  <2>3. \A j \in 1 .. Len(s) : s[j] = IF j <= Len(p) THEN p[j] ELSE x[j - Len(p)]
    BY <1>1, ConcatProperties
  <2> HIDE DEF s
  <2>4. ASSUME NEW j \in 1 .. Len(x) PROVE s[Len(p) + j] = x[j]
    <3> DEFINE n == Len(p) + j
    <3>1. n \in 1 .. Len(s) /\ ~(n <= Len(p)) /\ n - Len(p) = j
      BY <2>1, <2>2
    <3> HIDE DEF n
    <3>2. s[n] = x[n - Len(p)]
      BY <2>3, <3>1
    <3> QED BY <3>1, <3>2 DEF n
  <2>5. m \in 1 .. Len(p) + Len(x)
    <3>1. Len(p) \in Nat /\ (Len(x) = 1 \/ Len(x) = 2)
      BY <1>1
    <3>2. \A u \in Nat, v \in {1, 2} : u + 1 \in 1 .. u + v
      OBVIOUS
    <3> QED BY <3>1, <3>2
  <2> QED BY <2>2, <2>4, <2>5
<1> HIDE DEF s
<1>3. s[m] = x[1] /\ Digit(s[m]) /\ s[m] # 0
  <2>1. 1 \in 1 .. Len(x)
    BY <1>1
  <2> QED BY <1>1, <1>2, <2>1
<1> HIDE DEF m
<1>4. e \in m .. Len(s) + 1 /\ (e = Len(s) + 1 \/ ~Digit(s[e]))
  <2>1. m \in Nat /\ m <= Len(s)
    BY <1>2
  <2> QED BY <1>2, <2>1, RunEndIs
<1>5. z \in m .. e /\ (z = e \/ s[z] # 0) /\ \A j \in m .. e : j < z => s[j] = 0
  BY <1>2, SignificantIs
<1>6. /\ IsKey(RunKey(s, m)) /\ RunKey(s, m).size = e - z
      /\ \A j \in 0 .. RunKey(s, m).size - 1 : RunKey(s, m).digit[j] = s[z + j]
  BY <1>2, RunKeyIs
<1> HIDE DEF e, z
<1>7. e = Len(s) + 1
  <2> SUFFICES ASSUME e # Len(s) + 1 PROVE FALSE
    OBVIOUS
  <2> DEFINE j == e - Len(p)
  <2>1. j \in 1 .. Len(x) /\ e = Len(p) + j
    BY <1>1, <1>2, <1>4 DEF m
  <2> HIDE DEF j
  <2> QED BY <1>1, <1>2, <1>4, <2>1
<1>8. z = m
  <2>1. m < z => s[m] = 0
    BY <1>2, <1>4, <1>5
  <2> QED BY <1>2, <1>3, <1>4, <1>5, <2>1
<1>9. e - z = Len(x)
  BY <1>1, <1>2, <1>7, <1>8 DEF m
<1>10. \A j \in 0 .. Len(x) - 1 : s[z + j] = x[j + 1]
  BY <1>1, <1>2, <1>8 DEF m
<1> QED BY <1>2, <1>3, <1>6, <1>9, <1>10 DEF m, s, x

LEMMA ComparedTo ==
  ASSUME NEW l \in Seq(Characters), NEW r \in Seq(Characters)
  PROVE  NaturalCompare(l, r) = Compare(l, r, 1) /\ NaturalCompare(l, r) \in {-1, 0, 1}
<1>1. Reached(l, 1) /\ Reached(r, 1)
  BY DEF Reached
<1> QED BY <1>1, ComparedBothWays DEF NaturalCompare, Compare

\* The comparison of names is a total order, for all names with no character between
\* their digits, in which numbers are in their order: what NamesInNaturalOrder says.
THEOREM NaturalOrderOfNames ==
  ASSUME NEW Names \in SUBSET Seq(Characters)
  PROVE  NamesInNaturalOrder(Names)
<1>1. \A l, r \in Names : NaturalCompare(l, r) = Compare(l, r, 1)
  BY DEF NaturalCompare, Compare
<1>2. \A l \in Seq(Characters) : Reached(l, 1)
  BY DEF Reached
<1>3. ASSUME NEW a \in Names, NEW b \in Names
      PROVE  NaturalCompare(a, b) = -NaturalCompare(b, a)
  <2>1. a \in Seq(Characters) /\ b \in Seq(Characters)
    OBVIOUS
  <2>2. Compare(b, a, 1) \in {-1, 0, 1} /\ Compare(a, b, 1) = -Compare(b, a, 1)
    BY <1>2, <2>1, ComparedBothWays
  <2> QED BY <1>1, <2>2
<1>4. ASSUME NEW a \in Names, NEW b \in Names, NEW c \in Names, DigitsTogether({a, b, c}),
             NaturalCompare(a, b) <= 0, NaturalCompare(b, c) <= 0
      PROVE  NaturalCompare(a, c) <= 0
  <2>1. a \in Seq(Characters) /\ b \in Seq(Characters) /\ c \in Seq(Characters)
    OBVIOUS
  <2> QED BY <1>1, <1>2, <1>4, <2>1, ComparedInARow
<1>5. ASSUME NEW p \in Names, NEW i \in 1 .. 11, NEW j \in 1 .. 11, i < j,
             p = <<>> \/ ~Digit(p[Len(p)])
      PROVE  NaturalCompare(p \o Number(i), p \o Number(j)) < 0
  <2> DEFINE l == p \o Number(i)
             r == p \o Number(j)
             m == Len(p) + 1
             x == RunKey(l, m)
             y == RunKey(r, m)
  <2>1. p \in Seq(Characters) /\ Number(i) \in Seq(Characters) /\ Number(j) \in Seq(Characters)
    BY NumberIs
  <2>2. Compare(l, r, 1) = Compare(l, r, m)
    BY <1>5, <2>1, ComparedBehind
  <2>3. /\ l \in Seq(Characters) /\ m \in 1 .. Len(l) /\ Digit(l[m])
        /\ x.size = Len(Number(i))
        /\ \A k \in 0 .. Len(Number(i)) - 1 : x.digit[k] = Number(i)[k + 1]
    BY <2>1, NumberKey
  <2>4. /\ r \in Seq(Characters) /\ m \in 1 .. Len(r) /\ Digit(r[m])
        /\ y.size = Len(Number(j))
        /\ \A k \in 0 .. Len(Number(j)) - 1 : y.digit[k] = Number(j)[k + 1]
    BY <2>1, NumberKey
  <2>5. /\ Len(Number(i)) = IF i < 10 THEN 1 ELSE 2
        /\ Number(i)[1] = IF i < 10 THEN i ELSE 1
        /\ i >= 10 => Number(i)[2] = i - 10
        /\ Len(Number(j)) = IF j < 10 THEN 1 ELSE 2
        /\ Number(j)[1] = IF j < 10 THEN j ELSE 1
        /\ j >= 10 => Number(j)[2] = j - 10
    BY NumberIs
  <2> HIDE DEF x, y
  <2>6. KeyBefore(x, y)
    <3>1. CASE i < 10 /\ j >= 10
      BY <2>3, <2>4, <2>5, <3>1 DEF KeyBefore
    <3>2. CASE j < 10
      <4>1. x.size = 1 /\ y.size = 1 /\ x.digit[0] = i /\ y.digit[0] = j
        BY <1>5, <2>3, <2>4, <2>5, <3>2
      <4>2. DifferAt(x, y, 0)
        BY <1>5, <4>1 DEF DifferAt
      <4>3. 0 \in 0 .. x.size - 1
        BY <4>1
      <4> QED BY <1>5, <4>1, <4>2, <4>3 DEF KeyBefore
    <3>3. CASE i >= 10
      <4>1. i = 10 /\ j = 11
        BY <1>5, <3>3
      <4>2. /\ x.size = 2 /\ y.size = 2
            /\ x.digit[0] = 1 /\ y.digit[0] = 1 /\ x.digit[1] = 0 /\ y.digit[1] = 1
        BY <2>3, <2>4, <2>5, <4>1
      <4>3. DifferAt(x, y, 1)
        BY <4>2 DEF DifferAt
      <4>4. 1 \in 0 .. x.size - 1
        BY <4>2
      <4> QED BY <4>2, <4>3, <4>4 DEF KeyBefore
    <3> QED BY <3>1, <3>2, <3>3
  <2> HIDE DEF l, r, m
  <2>7. TokenBefore(l, r, m)
    BY <2>3, <2>4, <2>6, Zenon DEF TokenBefore, x, y
  <2>8. Compare(l, r, m) = -1
    BY <2>3, <2>4, <2>7, ComparedHere
  <2>9. NaturalCompare(l, r) = Compare(l, r, 1)
    BY DEF NaturalCompare, Compare
  <2> QED BY <2>2, <2>8, <2>9 DEF l, r
<1>6. \A p \in Names, i, j \in 1 .. 11 :
        i < j /\ (p = <<>> \/ ~Digit(p[Len(p)])) =>
          NaturalCompare(p \o (IF i < 10 THEN <<i>> ELSE <<i \div 10, i % 10>>),
                         p \o (IF j < 10 THEN <<j>> ELSE <<j \div 10, j % 10>>)) < 0
  BY <1>5, Zenon DEF Number
<1> QED BY <1>3, <1>4, <1>6, Zenon DEF NamesInNaturalOrder

\* NameBefore is a strict total order of nodes with no character between the digits
\* of their names.
LEMMA NamesOrdered ==
  ASSUME NEW a \in Sibling, NEW b \in Sibling, NEW c \in Sibling
  PROVE  /\ ~NameBefore(a, a)
         /\ a # b => NameBefore(a, b) \/ NameBefore(b, a)
         /\ ~(NameBefore(a, b) /\ NameBefore(b, a))
         /\ DigitsTogether({SiblingNames[a], SiblingNames[b], SiblingNames[c]}) /\ NameBefore(a, b) /\ NameBefore(b, c) => NameBefore(a, c)
<1> DEFINE name(n) == SiblingNames[n]
           cmp(m, n) == NaturalCompare(name(m), name(n))
<1>1. a \in Nat /\ b \in Nat /\ c \in Nat
  BY StepsAre DEF Sibling
<1>2. name(a) \in Seq(Characters) /\ name(b) \in Seq(Characters) /\ name(c) \in Seq(Characters)
  BY SiblingNamesAssumption
<1>3. /\ NameBefore(a, a) <=> cmp(a, a) < 0 \/ (cmp(a, a) = 0 /\ a < a)
      /\ NameBefore(a, b) <=> cmp(a, b) < 0 \/ (cmp(a, b) = 0 /\ a < b)
      /\ NameBefore(b, a) <=> cmp(b, a) < 0 \/ (cmp(b, a) = 0 /\ b < a)
      /\ NameBefore(b, c) <=> cmp(b, c) < 0 \/ (cmp(b, c) = 0 /\ b < c)
      /\ NameBefore(a, c) <=> cmp(a, c) < 0 \/ (cmp(a, c) = 0 /\ a < c)
  BY DEF NameBefore
<1> DEFINE Names == Seq(Characters)
<1>4. NamesInNaturalOrder(Names)
  BY NaturalOrderOfNames
<1> HIDE DEF Names
<1>5. /\ \A l, r \in Names : NaturalCompare(l, r) = -NaturalCompare(r, l)
      /\ \A l, m, r \in Names :
           DigitsTogether({l, m, r}) /\ NaturalCompare(l, m) <= 0 /\ NaturalCompare(m, r) <= 0 => NaturalCompare(l, r) <= 0
  BY <1>4, Zenon DEF NamesInNaturalOrder
<1>6. name(a) \in Names /\ name(b) \in Names /\ name(c) \in Names
  BY <1>2 DEF Names
<1>7. /\ cmp(a, a) \in Int /\ cmp(a, b) \in Int /\ cmp(b, c) \in Int /\ cmp(a, c) \in Int
      /\ cmp(b, a) \in Int /\ cmp(c, b) \in Int /\ cmp(c, a) \in Int
  BY <1>2, ComparedTo
<1>8. /\ cmp(a, a) = -cmp(a, a) /\ cmp(a, b) = -cmp(b, a) /\ cmp(b, c) = -cmp(c, b)
      /\ cmp(a, c) = -cmp(c, a)
  BY <1>5, <1>6
<1>9. ASSUME DigitsTogether({name(a), name(b), name(c)})
      PROVE  /\ cmp(a, b) <= 0 /\ cmp(b, c) <= 0 => cmp(a, c) <= 0
             /\ cmp(c, a) <= 0 /\ cmp(a, b) <= 0 => cmp(c, b) <= 0
             /\ cmp(b, c) <= 0 /\ cmp(c, a) <= 0 => cmp(b, a) <= 0
  <2>1. {name(c), name(a), name(b)} = {name(a), name(b), name(c)} /\ {name(b), name(c), name(a)} = {name(a), name(b), name(c)}
    OBVIOUS
  <2> QED BY <1>5, <1>6, <1>9, <2>1
<1> HIDE DEF cmp
<1>10. ~NameBefore(a, a)
  BY <1>1, <1>3, <1>7, <1>8
<1>11. a # b => NameBefore(a, b) \/ NameBefore(b, a)
  BY <1>1, <1>3, <1>7, <1>8
<1>13. ~(NameBefore(a, b) /\ NameBefore(b, a))
  BY <1>1, <1>3, <1>7, <1>8
<1>12. ASSUME DigitsTogether({name(a), name(b), name(c)}), NameBefore(a, b), NameBefore(b, c) PROVE NameBefore(a, c)
  <2>1. cmp(a, b) <= 0 /\ cmp(b, c) <= 0 /\ cmp(a, c) <= 0
    BY <1>3, <1>7, <1>9, <1>12
  <2>2. CASE cmp(a, c) = 0
    <3>1. cmp(a, b) = 0 /\ cmp(b, c) = 0
      BY <1>7, <1>8, <1>9, <1>12, <2>1, <2>2
    <3> QED BY <1>1, <1>3, <1>12, <2>2, <3>1
  <2> QED BY <1>3, <1>7, <2>1, <2>2
<1> QED BY <1>10, <1>11, <1>12, <1>13

-----------------------------------------------------------------------------
(* The transactions that arrange siblings.  What is true of one is stated  *)
(* of its record, of the places and of the numbers.                        *)
Orders == [Sibling -> Int32]
Places == [Sibling -> {"unborn", "here", "away", "deleted"}]

\* The numbers that a transaction sees, and the listing by some numbers.
NumbersSeen(j, so) == [n \in Sibling |-> IF n \in j.done THEN j.plan[n] ELSE so[n]]
Precedes(so, a, b) == so[a] < so[b] \/ (so[a] = so[b] /\ a < b)

KnownOthers(j) == j.known \ {j.node}

\* The nodes a move knows are in the order of the listing in what it sees, once it
\* has written all it renumbers, and in the numbers it writes before.
KeepsOrder(j, so) == \A a, b \in KnownOthers(j) : Precedes(so, a, b) <=> Precedes(NumbersSeen(j, so), a, b)
PlansOrder(j, so) == \A a, b \in j.known : Precedes(so, a, b) => j.plan[a] < j.plan[b]

\* The number it found is that of its target, and the one it writes is where it was
\* asked to be.
TargetSeen(j, so) == ~ToTheEnd(j) /\ (j.before \in j.known => j.value = NumbersSeen(j, so)[j.before])
InPlace(j, so) ==
  /\ ToTheEnd(j) => \A m \in KnownOthers(j) : NumbersSeen(j, so)[m] < j.value
  /\ j.before \in KnownOthers(j) =>
       /\ j.value < NumbersSeen(j, so)[j.before]
       /\ \A m \in KnownOthers(j) : NumbersSeen(j, so)[m] < j.value \/ NumbersSeen(j, so)[j.before] <= NumbersSeen(j, so)[m]

MoveIsSound(j, pl, so) ==
  /\ j.node \in Sibling
  /\ \A m \in j.known : pl[m] = "here"
  /\ j.step # "idle"
  /\ j.step \in {"read", "left", "list"} => j.done = {}
  /\ j.step = "rows" => j.known \subseteq j.todo \cup j.done /\ PlansOrder(j, so)
  /\ j.step \in {"reread", "leftAgain", "shift", "write", "commit"} => KeepsOrder(j, so)
  /\ j.step \in {"left", "leftAgain", "shift"} => TargetSeen(j, so)
  /\ j.step \in {"write", "commit"} => InPlace(j, so)
  /\ j.step = "commit" => j.node \in j.done /\ j.plan[j.node] = j.value

\* A sort has planned the order of the names for all nodes it listed.
InNames(S, plan) ==
  DigitsTogether({SiblingNames[n] : n \in S}) => \A a, b \in S : NameBefore(a, b) => plan[a] < plan[b]

SortIsSound(j) ==
  /\ j.node = 0 /\ j.step \in {"rows", "commit"}
  /\ j.step = "commit" => j.todo = {}
  /\ InNames(j.todo \cup j.done, j.plan)

JobSound(j, pl, so) ==
  /\ j.kind = "none" => j = NoJob
  /\ j.kind = "move" => MoveIsSound(j, pl, so)
  /\ j.kind = "sort" => SortIsSound(j)

OrderInv ==
  /\ OrderTypeOK
  /\ \A c \in Arranger : JobSound(job[c], place, sortOrder)
  /\ \A c, d \in Arranger : job[c].kind = "move" /\ job[d].kind = "move" => c = d

LEMMA Numbers ==
  /\ \A k \in Int32 : k \in Int /\ -(MaxOrder + 1) <= k /\ k <= MaxOrder
  /\ \A k \in Int : -(MaxOrder + 1) <= k /\ k <= MaxOrder => k \in Int32
  /\ 0 \in Int32
  /\ \A n \in Sibling : n \in Nat /\ n # 0
BY StepsAre DEF Int32, Sibling

LEMMA NoJobIsSound ==
  /\ NoJob \in Job
  /\ \A pl, so : JobSound(NoJob, pl, so)
  /\ NoJob.kind = "none" /\ NoJob.step = "idle"
<1>1. NoJob \in Job
  BY Numbers, StepsAre DEF NoJob, Job
<1> QED BY <1>1 DEF NoJob, JobSound

LEMMA NumbersSeenIs ==
  ASSUME NEW j \in Job, NEW so \in Orders
  PROVE  /\ NumbersSeen(j, so) \in Orders
         /\ \A n \in Sibling : NumbersSeen(j, so)[n] = IF n \in j.done THEN j.plan[n] ELSE so[n]
<1>1. j.plan \in [Sibling -> Int32]
  BY DEF Job
<1> QED BY <1>1 DEF NumbersSeen, Orders

\* k is j without the nodes of S, and the others that a move knows are left alone.
KnowsLess(k, j, S) ==
  /\ k \in Job /\ k.kind = j.kind /\ k.step = j.step /\ k.node = j.node /\ k.before = j.before
  /\ k.value = j.value /\ k.plan = j.plan /\ k.todo = j.todo /\ k.done = j.done
  /\ k.known = j.known \ S
Untouched(j, S, pl, so, pl2, so2) ==
  j.kind = "move" => \A m \in j.known \ S : pl2[m] = pl[m] /\ so2[m] = so[m]

\* Who touches no node that a transaction knows leaves it sound.
LEMMA Undisturbed ==
  ASSUME NEW j \in Job, NEW pl \in Places, NEW so \in Orders, NEW pl2 \in Places, NEW so2 \in Orders,
         JobSound(j, pl, so), NEW S, NEW k, KnowsLess(k, j, S), Untouched(j, S, pl, so, pl2, so2)
  PROVE  JobSound(k, pl2, so2)
<1>1. /\ k \in Job /\ k.kind = j.kind /\ k.step = j.step /\ k.node = j.node /\ k.before = j.before
      /\ k.value = j.value /\ k.plan = j.plan /\ k.todo = j.todo /\ k.done = j.done
      /\ k.known = j.known \ S
  BY DEF KnowsLess
<1>2. CASE j.kind = "none"
  <2>1. j = NoJob
    BY <1>2 DEF JobSound
  <2>2. k = NoJob
    BY <1>1, <2>1 DEF NoJob, Job
  <2> QED BY <2>2, NoJobIsSound
<1>3. CASE j.kind = "sort"
  BY <1>1, <1>3 DEF JobSound, SortIsSound
<1>4. CASE j.kind = "move"
  <2>0. MoveIsSound(j, pl, so) /\ j.known \subseteq Sibling
    BY <1>4 DEF JobSound, Job
  <2>1. /\ ToTheEnd(k) <=> ToTheEnd(j)
        /\ KnownOthers(k) \subseteq KnownOthers(j) /\ KnownOthers(k) \subseteq k.known /\ k.known \subseteq Sibling
    BY <1>1, <2>0 DEF ToTheEnd, KnownOthers
  <2>2. \A m \in k.known : NumbersSeen(k, so2)[m] = NumbersSeen(j, so)[m] /\ so2[m] = so[m] /\ pl2[m] = "here"
    BY <1>1, <1>4, <2>0, <2>1 DEF NumbersSeen, MoveIsSound, Untouched
  <2>3. KeepsOrder(j, so) => KeepsOrder(k, so2)
    BY <2>1, <2>2 DEF KeepsOrder, Precedes
  <2>4. PlansOrder(j, so) => PlansOrder(k, so2)
    BY <1>1, <2>1, <2>2 DEF PlansOrder, Precedes
  <2>5. TargetSeen(j, so) => TargetSeen(k, so2)
    BY <1>1, <2>1, <2>2 DEF TargetSeen
  <2>6. InPlace(j, so) => InPlace(k, so2)
    BY <1>1, <2>1, <2>2 DEF InPlace
  <2>7. MoveIsSound(k, pl2, so2)
    BY <1>1, <2>0, <2>2, <2>3, <2>4, <2>5, <2>6 DEF MoveIsSound
  <2> QED BY <1>1, <1>4, <2>7 DEF JobSound
<1>5. j.kind \in {"none", "move", "sort"}
  BY DEF Job
<1> QED BY <1>2, <1>3, <1>4, <1>5

-----------------------------------------------------------------------------
(* Every statement of a transaction leaves it sound.                       *)

\* What is common to the lemmas about the statements of a move.
LEMMA MoveIs ==
  ASSUME OrderInv, NEW c \in Arranger,
         job[c].step \in {"read", "left", "list", "reread", "leftAgain", "shift", "write"}
  PROVE  /\ job[c] \in Job /\ job[c].kind = "move" /\ MoveIsSound(job[c], place, sortOrder)
         /\ sortOrder \in Orders /\ place \in Places
         /\ SeenBy(job[c]) = NumbersSeen(job[c], sortOrder) /\ SeenBy(job[c]) \in Orders
         /\ \A m \in job[c].known : m \in Here
<1>1. job[c] \in Job /\ sortOrder \in Orders /\ place \in Places /\ JobSound(job[c], place, sortOrder)
  BY DEF OrderInv, OrderTypeOK, Orders, Places
<1>2. job[c].kind = "move"
  BY <1>1, NoJobIsSound DEF JobSound, SortIsSound, Job
<1>3. SeenBy(job[c]) = NumbersSeen(job[c], sortOrder)
  BY DEF SeenBy, NumbersSeen
<1>4. job[c].known \subseteq Sibling
  BY <1>1 DEF Job
<1> QED BY <1>1, <1>2, <1>3, <1>4, NumbersSeenIs DEF JobSound, MoveIsSound, Here

LEMMA TargetReadSound ==
  ASSUME OrderInv, NEW c \in Arranger, TargetRead(c)
  PROVE  \E next \in Job : /\ Statement(c, next) /\ JobSound(next, place, sortOrder)
                           /\ next.kind = job[c].kind
<1> DEFINE j == job[c]
           next(number) == [j EXCEPT !.step = IF @ = "read" THEN "left" ELSE "leftAgain", !.value = number]
<1>1. j.step \in {"read", "reread"} /\ ~ToTheEnd(j)
  BY DEF TargetRead
<1>2. /\ j \in Job /\ j.kind = "move" /\ MoveIsSound(j, place, sortOrder)
      /\ SeenBy(j) = NumbersSeen(j, sortOrder) /\ SeenBy(j) \in Orders
      /\ \A m \in j.known : m \in Here
  BY <1>1, MoveIs
<1>3. \E number \in Int32 :
        /\ Statement(c, next(number))
        /\ j.before \in Here => number = SeenBy(j)[j.before]
  <2>1. CASE j.before \in Here /\ Statement(c, next(SeenBy(j)[j.before]))
    <3>1. SeenBy(j)[j.before] \in Int32
      BY <1>2, <2>1 DEF Orders, Here
    <3> QED BY <2>1, <3>1
  <2>2. CASE place[j.before] = "away" /\ \E number \in Int32 : Statement(c, next(number))
    BY <2>2 DEF Here
  <2> QED BY <2>1, <2>2 DEF TargetRead
<1>4. PICK number \in Int32 :
        /\ Statement(c, next(number))
        /\ j.before \in Here => number = SeenBy(j)[j.before]
  BY <1>3
<1> DEFINE k == next(number)
<1>5. number \in -(MaxOrder + 1) .. MaxOrder + MoveStep
  BY Numbers, StepsAre
<1> HIDE DEF j
<1>6. /\ k \in Job /\ k.kind = j.kind /\ k.node = j.node /\ k.before = j.before /\ k.value = number
      /\ k.step = (IF j.step = "read" THEN "left" ELSE "leftAgain")
      /\ k.plan = j.plan /\ k.todo = j.todo /\ k.done = j.done /\ k.known = j.known
  BY <1>2, <1>5 DEF Job
<1> HIDE DEF k, next
<1>7. ToTheEnd(k) = ToTheEnd(j) /\ KnownOthers(k) = KnownOthers(j) /\ NumbersSeen(k, sortOrder) = NumbersSeen(j, sortOrder)
  BY <1>6 DEF ToTheEnd, KnownOthers, NumbersSeen
<1>8. TargetSeen(k, sortOrder)
  BY <1>1, <1>2, <1>4, <1>6, <1>7 DEF TargetSeen
<1>9. KeepsOrder(j, sortOrder) => KeepsOrder(k, sortOrder)
  BY <1>7 DEF KeepsOrder
<1>10. MoveIsSound(k, place, sortOrder)
  BY <1>1, <1>2, <1>6, <1>8, <1>9 DEF MoveIsSound
<1>11. JobSound(k, place, sortOrder)
  BY <1>2, <1>6, <1>10 DEF JobSound
<1> QED BY <1>4, <1>6, <1>11 DEF k, j

\* The largest number below that of the target, which is 0 only when there is none.
LEMMA LeftIs ==
  ASSUME NEW so \in Orders, NEW t, NEW right \in Int
  PROVE  /\ LeftOf(so, t, right) \in Int32
         /\ (t \in Here => so[t] >= right) =>
              \A m \in Here : so[m] < right => so[m] <= LeftOf(so, t, right)
<1> DEFINE below == {m \in Here : so[m] < right}
           left == MaxSortOrder(so, below)
<1>1. below \in SUBSET Sibling
  BY DEF Here
<1>2. left \in Int32 /\ \A m \in below : so[m] <= left
  <2> HIDE DEF below
  <2> QED BY <1>1, MaxSortOrderIs DEF Orders
<1>3. t \notin below => LeftOf(so, t, right) = left
  BY DEF LeftOf
<1>4. LeftOf(so, t, right) \in {0, left}
  BY DEF LeftOf
<1>5. (t \in Here => so[t] >= right) => t \notin below
  BY Numbers DEF Orders, Here
<1>6. \A m \in Here : so[m] < right => m \in below
  OBVIOUS
<1> HIDE DEF below, left
<1>7. LeftOf(so, t, right) \in Int32
  BY <1>2, <1>4, Numbers
<1> QED BY <1>2, <1>3, <1>5, <1>6, <1>7

LEMMA LeftReadSound ==
  ASSUME OrderInv, NEW c \in Arranger, LeftRead(c)
  PROVE  \E next \in Job : /\ Statement(c, next) /\ JobSound(next, place, sortOrder)
                           /\ next.kind = job[c].kind
<1> DEFINE j == job[c]
           left == LeftOf(SeenBy(j), j.before, j.value)
           mid == Midpoint(left, j.value)
<1>1. j.step \in {"left", "leftAgain"}
  BY DEF LeftRead
<1>2. /\ j \in Job /\ j.kind = "move" /\ MoveIsSound(j, place, sortOrder)
      /\ SeenBy(j) = NumbersSeen(j, sortOrder) /\ SeenBy(j) \in Orders
      /\ \A m \in j.known : m \in Here
  BY <1>1, MoveIs
<1>3. j.value \in Int /\ -(MaxOrder + 1) <= j.value /\ j.value <= MaxOrder + MoveStep
  BY <1>2, StepsAre DEF Job
<1>4. /\ left \in Int32
      /\ (j.before \in Here => SeenBy(j)[j.before] >= j.value) =>
           \A m \in Here : SeenBy(j)[m] < j.value => SeenBy(j)[m] <= left
  BY <1>2, <1>3, LeftIs
<1>5. /\ j.step = "left" => KeepsOrder(j, sortOrder)
      /\ j.step = "leftAgain" => KeepsOrder(j, sortOrder)
  <2>1. j.done = {} => \A m \in KnownOthers(j) : NumbersSeen(j, sortOrder)[m] = sortOrder[m]
    BY <1>2 DEF NumbersSeen, KnownOthers, Job
  <2>2. j.done = {} => KeepsOrder(j, sortOrder)
    BY <2>1 DEF KeepsOrder, Precedes
  <2> QED BY <1>2, <2>2 DEF MoveIsSound
<1>6. ASSUME NEW step \in {"list", "shift"}, j.step = "left" => step = "list", j.step = "leftAgain" => step = "shift",
             Statement(c, [j EXCEPT !.step = step])
      PROVE  \E next \in Job : /\ Statement(c, next) /\ JobSound(next, place, sortOrder)
                               /\ next.kind = j.kind
  <2> DEFINE k == [j EXCEPT !.step = step]
  <2> HIDE DEF j
  <2>1. /\ k \in Job /\ k.kind = j.kind /\ k.node = j.node /\ k.before = j.before /\ k.value = j.value
        /\ k.step = step
        /\ k.plan = j.plan /\ k.todo = j.todo /\ k.done = j.done /\ k.known = j.known
    BY <1>2 DEF Job
  <2> HIDE DEF k
  <2>2. ToTheEnd(k) = ToTheEnd(j) /\ KnownOthers(k) = KnownOthers(j) /\ NumbersSeen(k, sortOrder) = NumbersSeen(j, sortOrder)
    BY <2>1 DEF ToTheEnd, KnownOthers, NumbersSeen
  <2>3. TargetSeen(k, sortOrder)
    BY <1>1, <1>2, <2>1, <2>2 DEF TargetSeen, MoveIsSound
  <2>4. KeepsOrder(k, sortOrder)
    BY <1>1, <1>5, <2>2 DEF KeepsOrder
  <2>5. MoveIsSound(k, place, sortOrder)
    BY <1>1, <1>2, <1>6, <2>1, <2>3, <2>4 DEF MoveIsSound
  <2> QED BY <1>2, <1>6, <2>1, <2>5 DEF JobSound, k
<1>7. ASSUME Statement(c, [j EXCEPT !.step = "write", !.value = Midpoint(left, @)]), j.value - left > 1
      PROVE  \E next \in Job : /\ Statement(c, next) /\ JobSound(next, place, sortOrder)
                               /\ next.kind = j.kind
  <2> DEFINE k == [j EXCEPT !.step = "write", !.value = mid]
  <2>1. mid \in Int /\ left < mid /\ mid < j.value
    <3> HIDE DEF left, j
    <3>1. left \in Int /\ 1 <= (j.value - left) \div 2 /\ (j.value - left) \div 2 < j.value - left
          /\ (j.value - left) \div 2 \in Int
      BY <1>3, <1>4, <1>7, Numbers
    <3> QED BY <1>3, <3>1 DEF Midpoint
  <2>2. Statement(c, k)
    BY <1>7
  <2>3. mid \in -(MaxOrder + 1) .. MaxOrder + MoveStep
    <3> HIDE DEF mid, left, j
    <3> QED BY <1>3, <1>4, <2>1, Numbers, StepsAre
  <2> HIDE DEF j, mid
  <2>4. /\ k \in Job /\ k.kind = j.kind /\ k.node = j.node /\ k.before = j.before /\ k.value = mid
        /\ k.step = "write"
        /\ k.plan = j.plan /\ k.todo = j.todo /\ k.done = j.done /\ k.known = j.known
    BY <1>2, <2>3 DEF Job
  <2> HIDE DEF k, left
  <2>5. ToTheEnd(k) = ToTheEnd(j) /\ KnownOthers(k) = KnownOthers(j) /\ NumbersSeen(k, sortOrder) = NumbersSeen(j, sortOrder)
    BY <2>4 DEF ToTheEnd, KnownOthers, NumbersSeen
  <2>6. KeepsOrder(k, sortOrder)
    BY <1>1, <1>5, <2>5 DEF KeepsOrder
  <2>7. TargetSeen(j, sortOrder)
    BY <1>1, <1>2 DEF MoveIsSound
  <2>8. InPlace(k, sortOrder)
    <3>1. ~ToTheEnd(k)
      BY <2>5, <2>7 DEF TargetSeen
    <3>2. ASSUME j.before \in KnownOthers(j)
          PROVE  /\ mid < SeenBy(j)[j.before]
                 /\ \A m \in KnownOthers(j) : SeenBy(j)[m] < mid \/ SeenBy(j)[j.before] <= SeenBy(j)[m]
      <4>1. j.before \in j.known /\ j.before \in Here
        BY <1>2, <3>2 DEF KnownOthers
      <4>2. j.value = SeenBy(j)[j.before]
        BY <1>2, <2>7, <4>1 DEF TargetSeen
      <4>3. \A m \in Here : SeenBy(j)[m] < j.value => SeenBy(j)[m] <= left
        BY <1>3, <1>4, <4>2
      <4>4. \A m \in KnownOthers(j) : m \in Here /\ SeenBy(j)[m] \in Int /\ left \in Int
        BY <1>2, <1>4, Numbers DEF KnownOthers, Here, Orders
      <4> QED BY <1>3, <2>1, <4>2, <4>3, <4>4
    <3> QED BY <1>2, <2>4, <2>5, <3>1, <3>2 DEF InPlace
  <2>9. MoveIsSound(k, place, sortOrder)
    BY <1>1, <1>2, <2>4, <2>6, <2>8 DEF MoveIsSound
  <2> QED BY <1>2, <2>2, <2>4, <2>9 DEF JobSound
<1>8. \/ j.step = "left" /\ Statement(c, [j EXCEPT !.step = "list"])
      \/ j.step = "leftAgain" /\ Statement(c, [j EXCEPT !.step = "shift"])
      \/ /\ Statement(c, [j EXCEPT !.step = "write", !.value = Midpoint(left, @)])
         /\ j.value - left > MinGap \/ j.value - left > 1
  BY DEF LeftRead
<1>9. j.value - left > MinGap => j.value - left > 1
  <2> HIDE DEF left, j
  <2> QED BY <1>3, <1>4, Numbers, StepsAre
<1> HIDE DEF left
<1>10. CASE j.step = "left" /\ Statement(c, [j EXCEPT !.step = "list"])
  BY <1>6, <1>10
<1>11. CASE j.step = "leftAgain" /\ Statement(c, [j EXCEPT !.step = "shift"])
  BY <1>6, <1>11
<1>12. CASE Statement(c, [j EXCEPT !.step = "write", !.value = Midpoint(left, @)]) /\ j.value - left > 1
  BY <1>7, <1>12
<1> QED BY <1>8, <1>9, <1>10, <1>11, <1>12

LEMMA MaxOrderReadSound ==
  ASSUME OrderInv, NEW c \in Arranger, MaxOrderRead(c)
  PROVE  \E next \in Job : /\ Statement(c, next) /\ JobSound(next, place, sortOrder)
                           /\ next.kind = job[c].kind
<1> DEFINE j == job[c]
           max == MaxSortOrder(SeenBy(j), Here)
           number == Max({0, max}) + MoveStep
<1>1. j.step \in {"read", "reread"} /\ ToTheEnd(j)
  BY DEF MaxOrderRead
<1>2. /\ j \in Job /\ j.kind = "move" /\ MoveIsSound(j, place, sortOrder)
      /\ SeenBy(j) = NumbersSeen(j, sortOrder) /\ SeenBy(j) \in Orders
      /\ \A m \in j.known : m \in Here
  BY <1>1, MoveIs
<1>3. max \in Int32 /\ \A m \in Here : SeenBy(j)[m] <= max
  BY <1>2, MaxSortOrderIs DEF Orders, Here
<1>4. /\ number \in -(MaxOrder + 1) .. MaxOrder + MoveStep
      /\ \A m \in Here : SeenBy(j)[m] < number
  <2>1. Max({0, max}) = IF max > 0 THEN max ELSE 0
    BY <1>3, Numbers, MaxOfTwo
  <2>2. \A m \in Here : SeenBy(j)[m] \in Int
    BY <1>2, Numbers DEF Here, Orders
  <2> HIDE DEF max, j
  <2> QED BY <1>3, <2>1, <2>2, Numbers, StepsAre
<1>5. \/ j.step = "read" /\ Statement(c, [j EXCEPT !.step = "list"])
      \/ Statement(c, [j EXCEPT !.step = "write", !.value = number])
  BY DEF MaxOrderRead
<1> HIDE DEF max, number
<1>6. CASE j.step = "read" /\ Statement(c, [j EXCEPT !.step = "list"])
  <2> DEFINE k == [j EXCEPT !.step = "list"]
  <2> HIDE DEF j
  <2>1. /\ k \in Job /\ k.kind = j.kind /\ k.node = j.node /\ k.step = "list"
        /\ k.done = j.done /\ k.known = j.known
    BY <1>2 DEF Job
  <2> HIDE DEF k
  <2>2. MoveIsSound(k, place, sortOrder)
    BY <1>2, <1>6, <2>1 DEF MoveIsSound
  <2> QED BY <1>2, <1>6, <2>1, <2>2 DEF JobSound, k, j
<1>7. CASE Statement(c, [j EXCEPT !.step = "write", !.value = number])
  <2> DEFINE k == [j EXCEPT !.step = "write", !.value = number]
  <2> HIDE DEF j
  <2>1. /\ k \in Job /\ k.kind = j.kind /\ k.node = j.node /\ k.before = j.before /\ k.value = number
        /\ k.step = "write"
        /\ k.plan = j.plan /\ k.todo = j.todo /\ k.done = j.done /\ k.known = j.known
    BY <1>2, <1>4 DEF Job
  <2> HIDE DEF k
  <2>2. ToTheEnd(k) = ToTheEnd(j) /\ KnownOthers(k) = KnownOthers(j) /\ NumbersSeen(k, sortOrder) = NumbersSeen(j, sortOrder)
    BY <2>1 DEF ToTheEnd, KnownOthers, NumbersSeen
  <2>3. KeepsOrder(k, sortOrder)
    <3>1. j.done = {} => \A m \in KnownOthers(j) : NumbersSeen(j, sortOrder)[m] = sortOrder[m]
      BY <1>2 DEF NumbersSeen, KnownOthers, Job
    <3>2. j.done = {} => KeepsOrder(j, sortOrder)
      BY <3>1 DEF KeepsOrder, Precedes
    <3> QED BY <1>1, <1>2, <2>2, <3>2 DEF KeepsOrder, MoveIsSound
  <2>4. \A m \in KnownOthers(j) : m # j.node /\ m \in Here
    BY <1>2 DEF KnownOthers
  <2>5. j.before \notin KnownOthers(j)
    BY <1>1, <2>4, Numbers DEF ToTheEnd, Here
  <2>6. InPlace(k, sortOrder)
    BY <1>1, <1>2, <1>4, <2>1, <2>2, <2>4, <2>5 DEF InPlace
  <2>7. MoveIsSound(k, place, sortOrder)
    BY <1>2, <2>1, <2>3, <2>6 DEF MoveIsSound
  <2> QED BY <1>2, <1>7, <2>1, <2>7 DEF JobSound, k, j
<1> QED BY <1>5, <1>6, <1>7

LEMMA ListSiblingsSound ==
  ASSUME OrderInv, NEW c \in Arranger, ListSiblings(c)
  PROVE  \E next \in Job : /\ Statement(c, next) /\ JobSound(next, place, sortOrder)
                           /\ next.kind = job[c].kind
<1> DEFINE j == job[c]
           k == [j EXCEPT !.step = IF Here = {} THEN "reread" ELSE "rows", !.plan = Reindexed, !.todo = Here]
<1>1. j.step = "list" /\ Statement(c, k)
  BY DEF ListSiblings
<1>2. /\ j \in Job /\ j.kind = "move" /\ MoveIsSound(j, place, sortOrder) /\ sortOrder \in Orders
      /\ \A m \in j.known : m \in Here
  BY <1>1, MoveIs
<1>3. Reindexed \in Orders /\ \A m, n \in Here : Before(m, n) => Reindexed[m] + MoveStep <= Reindexed[n]
  BY <1>2, ReindexedIs DEF Orders
<1> HIDE DEF j
<1>4. /\ k \in Job /\ k.kind = j.kind /\ k.node = j.node /\ k.before = j.before /\ k.value = j.value
      /\ k.step = (IF Here = {} THEN "reread" ELSE "rows")
      /\ k.plan = Reindexed /\ k.todo = Here /\ k.done = j.done /\ k.known = j.known
  <2>1. Here \in SUBSET Sibling
    BY DEF Here
  <2> QED BY <1>2, <1>3, <2>1 DEF Job, Orders
<1> HIDE DEF k
<1>5. PlansOrder(k, sortOrder)
  <2>1. ASSUME NEW a \in k.known, NEW b \in k.known, Precedes(sortOrder, a, b)
        PROVE  k.plan[a] < k.plan[b]
    <3>1. a \in Here /\ b \in Here /\ Before(a, b)
      BY <1>2, <1>4, <2>1 DEF Precedes, Before
    <3>2. Reindexed[a] + MoveStep <= Reindexed[b]
      BY <1>3, <3>1
    <3>3. Reindexed[a] \in Int /\ Reindexed[b] \in Int
      BY <1>3, <3>1, Numbers DEF Orders, Here
    <3> QED BY <1>4, <3>2, <3>3, StepsAre
  <2> QED BY <2>1 DEF PlansOrder
<1>6. Here = {} => KeepsOrder(k, sortOrder)
  BY <1>2, <1>4 DEF KeepsOrder, KnownOthers
<1>7. MoveIsSound(k, place, sortOrder)
  BY <1>2, <1>4, <1>5, <1>6 DEF MoveIsSound
<1> QED BY <1>1, <1>2, <1>4, <1>7 DEF JobSound, j

\* Rows are planned different numbers: those that a move knows, in their order.
LEMMA PlannedOrder ==
  ASSUME NEW j \in Job, NEW so \in Orders, PlansOrder(j, so), j.known \subseteq j.done
  PROVE  KeepsOrder(j, so)
<1>1. KnownOthers(j) \subseteq j.known /\ j.known \subseteq Sibling
  BY DEF KnownOthers, Job
<1>2. \A a \in j.known : NumbersSeen(j, so)[a] = j.plan[a] /\ j.plan[a] \in Int /\ so[a] \in Int /\ a \in Nat
  BY <1>1, NumbersSeenIs, Numbers DEF Job, Orders
<1>3. ASSUME NEW a \in KnownOthers(j), NEW b \in KnownOthers(j)
      PROVE  Precedes(so, a, b) <=> Precedes(NumbersSeen(j, so), a, b)
  <2>1. a \in j.known /\ b \in j.known
    BY <1>1
  <2>2. Precedes(so, a, b) \/ Precedes(so, b, a) \/ a = b
    BY <1>2, <2>1 DEF Precedes
  <2>3. (Precedes(so, a, b) => j.plan[a] < j.plan[b]) /\ (Precedes(so, b, a) => j.plan[b] < j.plan[a])
    BY <2>1 DEF PlansOrder
  <2>4. ~(Precedes(so, a, b) /\ Precedes(so, b, a)) /\ ~Precedes(so, a, a)
    BY <1>2, <2>1 DEF Precedes
  <2> QED BY <1>2, <2>1, <2>2, <2>3, <2>4 DEF Precedes
<1> QED BY <1>3 DEF KeepsOrder

\* A transaction that writes rows moves or sorts; the last row ends the renumbering.
LEMMA RowWriteSound ==
  ASSUME OrderInv, NEW c \in Arranger, RowWrite(c)
  PROVE  \E next \in Job : /\ Statement(c, next) /\ JobSound(next, place, sortOrder)
                           /\ next.kind = job[c].kind \/ next.kind = "none"
<1> DEFINE j == job[c]
           after(row) == IF j.todo # {row} THEN "rows" ELSE IF j.kind = "sort" THEN "commit" ELSE "reread"
           next(row) == [j EXCEPT !.step = after(row), !.todo = @ \ {row}, !.done = @ \cup {row}]
<1>1. j \in Job /\ sortOrder \in Orders /\ JobSound(j, place, sortOrder)
  BY DEF OrderInv, OrderTypeOK, Orders
<1>2. PICK row \in j.todo : /\ j.step = "rows"
                           /\ Statement(c, IF place[row] = "deleted" THEN NoJob ELSE next(row))
  BY DEF RowWrite
<1>3. CASE Statement(c, NoJob)
  BY <1>3, NoJobIsSound
<1>4. CASE Statement(c, next(row))
  <2> DEFINE k == next(row)
  <2> HIDE DEF j
  <2>1. /\ k \in Job /\ k.kind = j.kind /\ k.node = j.node /\ k.before = j.before /\ k.value = j.value
        /\ k.step = after(row) /\ k.plan = j.plan /\ k.known = j.known
        /\ k.todo = j.todo \ {row} /\ k.done = j.done \cup {row}
    BY <1>1, <1>2 DEF Job
  <2>2. k.todo \cup k.done = j.todo \cup j.done
    BY <1>2, <2>1
  <2>3. k.step # "rows" => k.todo = {} /\ j.todo \cup j.done = k.done
    BY <1>2, <2>1
  <2>4. /\ k.step \in {"rows", "commit", "reread"}
        /\ k.step = "commit" => k.kind = "sort"
        /\ k.step = "reread" => k.kind # "sort"
    BY <2>1
  <2> HIDE DEF k, next, after
  <2>5. CASE j.kind = "move"
    <3>1. MoveIsSound(j, place, sortOrder) /\ j.known \subseteq j.todo \cup j.done /\ PlansOrder(j, sortOrder)
      BY <1>1, <1>2, <2>5 DEF JobSound, MoveIsSound
    <3>2. k.known \subseteq k.todo \cup k.done /\ PlansOrder(k, sortOrder)
      BY <2>1, <2>2, <3>1 DEF PlansOrder
    <3>3. k.step = "reread" => KeepsOrder(k, sortOrder)
      BY <1>1, <2>1, <2>3, <3>2, PlannedOrder
    <3>4. k.step \in {"rows", "reread"}
      BY <2>1, <2>4, <2>5
    <3>5. MoveIsSound(k, place, sortOrder)
      BY <2>1, <3>1, <3>2, <3>3, <3>4 DEF MoveIsSound
    <3> QED BY <1>4, <2>1, <2>5, <3>5 DEF JobSound, k, j
  <2>6. CASE j.kind = "sort"
    <3>1. SortIsSound(k)
      <4>1. SortIsSound(j)
        BY <1>1, <2>6 DEF JobSound
      <4>2. k.node = 0 /\ k.step \in {"rows", "commit"} /\ (k.step = "commit" => k.todo = {})
        BY <2>1, <2>3, <2>4, <2>6, <4>1 DEF SortIsSound
      <4> QED BY <2>1, <2>2, <4>1, <4>2 DEF SortIsSound
    <3>2. JobSound(k, place, sortOrder)
      BY <2>1, <2>6, <3>1 DEF JobSound
    <3> QED BY <1>4, <2>1, <3>2 DEF k, j
  <2>7. j.kind # "none"
    BY <1>1, <1>2, NoJobIsSound DEF JobSound
  <2> QED BY <1>1, <2>5, <2>6, <2>7 DEF Job
<1> QED BY <1>2, <1>3, <1>4

\* The shift keeps what is in front of the target and moves the rest up by one.
LEMMA ShiftSound ==
  ASSUME OrderInv, NEW c \in Arranger, Shift(c)
  PROVE  \E next \in Job : /\ Statement(c, next) /\ JobSound(next, place, sortOrder)
                           /\ next.kind = job[c].kind \/ next.kind = "none"
<1> DEFINE j == job[c]
           right == {m \in Here : SeenBy(j)[m] >= j.value}
           shifted == [m \in Sibling |-> IF m \in right THEN SeenBy(j)[m] + 1 ELSE j.plan[m]]
           k == [j EXCEPT !.step = "write", !.done = @ \cup right, !.plan = shifted]
<1>1. j.step = "shift"
  BY DEF Shift
<1>2. /\ j \in Job /\ j.kind = "move" /\ MoveIsSound(j, place, sortOrder) /\ sortOrder \in Orders
      /\ SeenBy(j) = NumbersSeen(j, sortOrder) /\ SeenBy(j) \in Orders
      /\ \A m \in j.known : m \in Here
  BY <1>1, MoveIs
<1>3. j.value \in Int /\ j.plan \in Orders /\ j.known \subseteq Sibling /\ j.done \subseteq Sibling
  BY <1>2, StepsAre DEF Job, Orders
<1>4. CASE Statement(c, NoJob)
  BY <1>4, NoJobIsSound
<1>5. CASE (\A m \in right : SeenBy(j)[m] # MaxOrder) /\ Statement(c, k)
  <2>0. right \subseteq Here /\ Here \subseteq Sibling
    BY DEF Here
  <2>1. \A m \in Here : SeenBy(j)[m] \in Int /\ (m \in right <=> SeenBy(j)[m] >= j.value)
    BY <1>2, <2>0, Numbers DEF Orders
  <2>2. shifted \in Orders
    <3>1. \A m \in right : SeenBy(j)[m] + 1 \in Int32
      <4> HIDE DEF right
      <4>1. ASSUME NEW m \in right PROVE SeenBy(j)[m] + 1 \in Int32
        <5>1. SeenBy(j)[m] \in Int32 /\ SeenBy(j)[m] # MaxOrder
          BY <1>2, <1>5, <2>0 DEF Orders
        <5> HIDE DEF j
        <5> QED BY <5>1, Numbers, StepsAre
      <4> QED BY <4>1
    <3> HIDE DEF j, right
    <3> QED BY <1>3, <3>1 DEF Orders
  <2> HIDE DEF j, right, shifted
  <2>3. /\ k \in Job /\ k.kind = j.kind /\ k.node = j.node /\ k.before = j.before /\ k.value = j.value
        /\ k.step = "write"
        /\ k.plan = shifted /\ k.todo = j.todo /\ k.done = j.done \cup right /\ k.known = j.known
    BY <1>2, <1>3, <2>0, <2>2 DEF Job, Orders
  <2> HIDE DEF k
  <2>4. ToTheEnd(k) = ToTheEnd(j) /\ KnownOthers(k) = KnownOthers(j) /\ KnownOthers(j) \subseteq Here
    BY <1>2, <2>3 DEF ToTheEnd, KnownOthers
  <2>5. \A m \in Here : NumbersSeen(k, sortOrder)[m] = IF m \in right THEN SeenBy(j)[m] + 1 ELSE SeenBy(j)[m]
    <3>1. ASSUME NEW m \in Here
          PROVE  NumbersSeen(k, sortOrder)[m] = IF m \in right THEN SeenBy(j)[m] + 1 ELSE SeenBy(j)[m]
      <4>1. m \in Sibling /\ shifted[m] = IF m \in right THEN SeenBy(j)[m] + 1 ELSE j.plan[m]
        BY <2>0 DEF shifted
      <4> QED BY <1>2, <2>3, <4>1 DEF NumbersSeen
    <3> QED BY <3>1
  <2>6. \A m \in Here : /\ SeenBy(j)[m] \in Int /\ NumbersSeen(k, sortOrder)[m] \in Int
                        /\ SeenBy(j)[m] < j.value => NumbersSeen(k, sortOrder)[m] = SeenBy(j)[m]
                        /\ SeenBy(j)[m] >= j.value => NumbersSeen(k, sortOrder)[m] = SeenBy(j)[m] + 1
    BY <1>3, <2>1, <2>5
  <2>7. KeepsOrder(k, sortOrder)
    <3>1. ASSUME NEW a \in KnownOthers(j), NEW b \in KnownOthers(j)
          PROVE  Precedes(SeenBy(j), a, b) <=> Precedes(NumbersSeen(k, sortOrder), a, b)
      BY <1>3, <2>4, <2>6 DEF Precedes
    <3>2. KeepsOrder(j, sortOrder)
      BY <1>1, <1>2 DEF MoveIsSound
    <3> QED BY <1>2, <2>4, <3>1, <3>2 DEF KeepsOrder
  <2>8. InPlace(k, sortOrder)
    <3>1. ~ToTheEnd(j) /\ (j.before \in j.known => j.value = SeenBy(j)[j.before])
      BY <1>1, <1>2 DEF MoveIsSound, TargetSeen
    <3>2. ASSUME j.before \in KnownOthers(j)
          PROVE  /\ j.value < NumbersSeen(k, sortOrder)[j.before]
                 /\ \A m \in KnownOthers(j) :
                      NumbersSeen(k, sortOrder)[m] < j.value \/ NumbersSeen(k, sortOrder)[j.before] <= NumbersSeen(k, sortOrder)[m]
      <4>1. j.before \in Here /\ j.value = SeenBy(j)[j.before]
        BY <2>4, <3>1, <3>2 DEF KnownOthers
      <4>2. NumbersSeen(k, sortOrder)[j.before] = j.value + 1
        BY <1>3, <2>6, <4>1
      <4> QED BY <1>3, <2>4, <2>6, <4>2
    <3> QED BY <2>3, <2>4, <3>1, <3>2 DEF InPlace
  <2>9. MoveIsSound(k, place, sortOrder)
    BY <1>2, <2>3, <2>7, <2>8 DEF MoveIsSound
  <2> QED BY <1>2, <1>5, <2>3, <2>9 DEF JobSound, j
<1>6. \/ Statement(c, NoJob)
      \/ (\A m \in right : SeenBy(j)[m] # MaxOrder) /\ Statement(c, k)
  BY DEF Shift
<1> QED BY <1>4, <1>5, <1>6

LEMMA NodeWriteSound ==
  ASSUME OrderInv, NEW c \in Arranger, NodeWrite(c)
  PROVE  \E next \in Job : /\ Statement(c, next) /\ JobSound(next, place, sortOrder)
                           /\ next.kind = job[c].kind \/ next.kind = "none"
<1> DEFINE j == job[c]
           k == [j EXCEPT !.step = "commit", !.plan[j.node] = j.value, !.done = @ \cup {j.node}]
<1>1. j.step = "write"
  BY DEF NodeWrite
<1>2. /\ j \in Job /\ j.kind = "move" /\ MoveIsSound(j, place, sortOrder) /\ sortOrder \in Orders
      /\ \A m \in j.known : m \in Here
  BY <1>1, MoveIs
<1>3. Statement(c, NoJob) \/ (~(j.value > MaxOrder) /\ Statement(c, k))
  BY DEF NodeWrite
<1>4. CASE Statement(c, NoJob)
  BY <1>4, NoJobIsSound
<1>5. CASE ~(j.value > MaxOrder) /\ Statement(c, k)
  <2> HIDE DEF j
  <2>1. j.value \in Int32 /\ j.node \in Sibling
    BY <1>2, <1>5, Numbers, StepsAre DEF Job, MoveIsSound
  <2>2. /\ k \in Job /\ k.kind = j.kind /\ k.node = j.node /\ k.before = j.before /\ k.value = j.value
        /\ k.step = "commit"
        /\ k.plan = [j.plan EXCEPT ![j.node] = j.value]
        /\ k.todo = j.todo /\ k.done = j.done \cup {j.node} /\ k.known = j.known
    BY <1>2, <2>1 DEF Job
  <2> HIDE DEF k
  <2>3. ToTheEnd(k) = ToTheEnd(j) /\ KnownOthers(k) = KnownOthers(j) /\ k.plan[j.node] = j.value
    BY <1>2, <2>1, <2>2 DEF ToTheEnd, KnownOthers, Job
  <2>4. \A m \in KnownOthers(j) : NumbersSeen(k, sortOrder)[m] = NumbersSeen(j, sortOrder)[m]
    BY <1>2, <2>2 DEF NumbersSeen, KnownOthers, Job
  <2>5. KeepsOrder(k, sortOrder)
    BY <1>1, <1>2, <2>3, <2>4 DEF MoveIsSound, KeepsOrder, Precedes
  <2>6. InPlace(k, sortOrder)
    BY <1>1, <1>2, <2>2, <2>3, <2>4 DEF MoveIsSound, InPlace
  <2>7. MoveIsSound(k, place, sortOrder)
    BY <1>2, <2>2, <2>3, <2>5, <2>6 DEF MoveIsSound
  <2> QED BY <1>2, <1>5, <2>2, <2>7 DEF JobSound, j
<1> QED BY <1>3, <1>4, <1>5

\* A sort plans the order of the names of all nodes it lists.
LEMMA SortPlansAre ==
  ASSUME NEW S \in SUBSET Sibling, NEW plan \in SortPlans(S)
  PROVE  plan \in Orders /\ InNames(S, plan)
<1>1. /\ plan \in [Sibling -> {0} \cup {MoveStep * i : i \in 1 .. Cardinality(S)}]
      /\ (\A a, b, d \in S : NameBefore(a, b) /\ NameBefore(b, d) => NameBefore(a, d)) =>
           InNameOrder(S, plan)
  BY DEF SortPlans
<1>2. \A i \in 1 .. Cardinality(S) : MoveStep * i \in Int32
  <2>1. Cardinality(S) \in Nat /\ Cardinality(S) <= SiblingCount
    BY SiblingsFinite
  <2>2. ASSUME NEW i \in 1 .. Cardinality(S)
        PROVE  MoveStep * i \in Int32
    <3>1. i \in Nat /\ i <= SiblingCount
      BY <2>1, StepsAre
    <3>2. MoveStep * i \in Nat /\ MoveStep * i <= SiblingCount * MoveStep
      BY <3>1, StepsAre, Multiples
    <3> QED BY <3>2, StepsAre, Numbers
  <2> QED BY <2>2
<1>3. plan \in Orders
  BY <1>1, <1>2, Numbers DEF Orders
<1>4. ASSUME DigitsTogether({SiblingNames[n] : n \in S})
      PROVE  \A a, b, d \in S : NameBefore(a, b) /\ NameBefore(b, d) => NameBefore(a, d)
  <2>1. ASSUME NEW a \in S, NEW b \in S, NEW d \in S, NameBefore(a, b), NameBefore(b, d)
        PROVE  NameBefore(a, d)
    <3>1. DigitsTogether({SiblingNames[a], SiblingNames[b], SiblingNames[d]})
      BY <1>4 DEF DigitsTogether
    <3> QED BY <2>1, <3>1, NamesOrdered
  <2> QED BY <2>1
<1>5. DigitsTogether({SiblingNames[n] : n \in S}) => InNameOrder(S, plan)
  BY <1>1, <1>4
<1> QED BY <1>3, <1>5 DEF InNames, InNameOrder

-----------------------------------------------------------------------------
(* OrderInv is an invariant.                                               *)

LEMMA OrderTypesAre ==
  ASSUME OrderInv
  PROVE  /\ place \in Places /\ sortOrder \in Orders /\ orderSteps \in 0 .. MaxOrderSteps
         /\ \A c \in Arranger : job[c] \in Job /\ JobSound(job[c], place, sortOrder)
BY DEF OrderInv, OrderTypeOK, Orders, Places

\* A step of one transaction, which begins a move only when no other is under way.
LEMMA JobKeeps ==
  ASSUME OrderInv, NEW c \in Arranger, NEW next \in Job,
         job' = [job EXCEPT ![c] = next], UNCHANGED <<place, sortOrder, maxRead>>,
         orderSteps' \in 0 .. MaxOrderSteps,
         JobSound(next, place, sortOrder),
         next.kind = "move" => \A d \in Arranger \ {c} : job[d].kind # "move"
  PROVE  OrderInv'
<1>1. OrderTypeOK'
  BY DEF OrderInv, OrderTypeOK
<1>2. \A d \in Arranger : job'[d] = IF d = c THEN next ELSE job[d]
  BY DEF OrderInv, OrderTypeOK
<1>3. \A d \in Arranger : JobSound(job'[d], place', sortOrder')
  BY <1>2 DEF OrderInv
<1>4. \A d, e \in Arranger : job'[d].kind = "move" /\ job'[e].kind = "move" => d = e
  BY <1>2 DEF OrderInv
<1> QED BY <1>1, <1>3, <1>4 DEF OrderInv

LEMMA StatementKeeps ==
  ASSUME OrderInv, NEW c \in Arranger, NEW next \in Job, Statement(c, next),
         JobSound(next, place, sortOrder), next.kind = job[c].kind \/ next.kind = "none"
  PROVE  OrderInv'
<1>1. next.kind = "move" => \A d \in Arranger \ {c} : job[d].kind # "move"
  BY DEF OrderInv
<1> QED BY <1>1, JobKeeps, OrderTypesAre DEF Statement

\* A step that ends the transactions of C and changes no other, but for what moves
\* know of the nodes of S.
Ends(C, S) ==
  /\ job' = [d \in Arranger |-> job'[d]]
  /\ \A d \in Arranger : job'[d] = IF d \in C THEN NoJob ELSE [job[d] EXCEPT !.known = @ \ S]
Leaves(C, S) ==
  /\ place' \in Places /\ sortOrder' \in Orders
  /\ maxRead' \in Int32 \cup {NoCreation} /\ orderSteps' \in 0 .. MaxOrderSteps
  /\ \A d \in Arranger \ C : Untouched(job[d], S, place, sortOrder, place', sortOrder')

LEMMA NodesKeep ==
  ASSUME OrderInv, NEW C, NEW S, Ends(C, S), Leaves(C, S)
  PROVE  OrderInv'
<1>1. ASSUME NEW d \in Arranger
      PROVE  /\ job'[d] \in Job /\ JobSound(job'[d], place', sortOrder')
             /\ job'[d].kind = "move" => job[d].kind = "move"
  <2>1. CASE d \in C
    BY <2>1, NoJobIsSound DEF Ends
  <2>2. CASE d \notin C
    <3> DEFINE j == job[d]
               k == [j EXCEPT !.known = @ \ S]
    <3>1. job'[d] = k
      BY <2>2 DEF Ends
    <3>2. Untouched(j, S, place, sortOrder, place', sortOrder') /\ place' \in Places /\ sortOrder' \in Orders
      BY <2>2 DEF Leaves
    <3>3. j \in Job /\ JobSound(j, place, sortOrder) /\ place \in Places /\ sortOrder \in Orders
      BY OrderTypesAre
    <3> HIDE DEF j
    <3>4. KnowsLess(k, j, S) /\ k \in Job /\ k.kind = j.kind
      BY <3>3 DEF Job, KnowsLess
    <3> HIDE DEF k
    <3>5. JobSound(k, place', sortOrder')
      BY <3>2, <3>3, <3>4, Undisturbed
    <3> QED BY <3>1, <3>4, <3>5 DEF j
  <2> QED BY <2>1, <2>2
<1>2. OrderTypeOK'
  BY <1>1 DEF OrderTypeOK, Orders, Places, Ends, Leaves
<1> QED BY <1>1, <1>2 DEF OrderInv

\* No move forgets a node.
LEMMA AllStayKnown ==
  ASSUME OrderInv
  PROVE  /\ job = [d \in Arranger |-> job[d]]
         /\ \A d \in Arranger : job[d] = [job[d] EXCEPT !.known = @ \ {}]
<1>1. ASSUME NEW d \in Arranger PROVE [job[d] EXCEPT !.known = @ \ {}] = job[d]
  <2>1. job[d] \in Job /\ job[d].known \ {} = job[d].known
    BY OrderTypesAre
  <2> QED BY <2>1 DEF Job
<1> QED BY <1>1 DEF OrderInv, OrderTypeOK

LEMMA NoLongerKnownIs ==
  ASSUME NEW S
  PROVE  /\ NoLongerKnown(S) = [d \in Arranger |-> NoLongerKnown(S)[d]]
         /\ \A d \in Arranger : NoLongerKnown(S)[d] = [job[d] EXCEPT !.known = @ \ S]
BY DEF NoLongerKnown

LEMMA KnownAreHere ==
  ASSUME OrderInv, NEW d \in Arranger, job[d].kind = "move"
  PROVE  \A m \in job[d].known : m \in Sibling /\ place[m] = "here"
BY OrderTypesAre DEF JobSound, MoveIsSound, Job

LEMMA CommitRowsKeeps ==
  ASSUME OrderInv, NEW c \in Arranger, CommitRows(c)
  PROVE  OrderInv'
<1> DEFINE j == job[c]
           S == IF j.kind = "sort" THEN j.done ELSE {}
<1>1. /\ j.step = "commit" /\ j \in Job /\ JobSound(j, place, sortOrder)
      /\ place \in Places /\ sortOrder \in Orders /\ j.plan \in Orders
  BY OrderTypesAre DEF CommitRows, Job, Orders
<1>2. place' \in Places /\ sortOrder' \in Orders
  BY <1>1 DEF CommitRows, Places, Orders
<1>3. Ends({c}, S)
  <2>1. CASE j.kind = "sort"
    <3>1. S = j.done /\ job' = [NoLongerKnown(j.done) EXCEPT ![c] = NoJob]
      BY <2>1 DEF CommitRows
    <3> HIDE DEF S, j
    <3> QED BY <3>1, NoLongerKnownIs DEF Ends
  <2>2. CASE j.kind # "sort"
    <3>1. S = {} /\ job' = [job EXCEPT ![c] = NoJob]
      BY <2>2 DEF CommitRows
    <3> HIDE DEF S, j
    <3> QED BY <3>1, AllStayKnown DEF Ends
  <2> QED BY <2>1, <2>2
<1>4. ASSUME NEW d \in Arranger \ {c}, job[d].kind = "move"
      PROVE  \A m \in job[d].known \ S : place'[m] = place[m] /\ sortOrder'[m] = sortOrder[m]
  <2>1. j.kind = "sort"
    <3>1. j.kind # "move"
      BY <1>4 DEF OrderInv
    <3>2. j.kind # "none"
      BY <1>1, NoJobIsSound DEF JobSound
    <3> QED BY <1>1, <3>1, <3>2 DEF Job
  <2>2. j.node = 0 /\ S = j.done
    BY <1>1, <2>1 DEF JobSound, SortIsSound
  <2>3. \A m \in job[d].known : m \in Sibling /\ m # 0
    BY <1>4, KnownAreHere, Numbers
  <2> QED BY <2>2, <2>3 DEF CommitRows
<1>5. maxRead' \in Int32 \cup {NoCreation} /\ orderSteps' \in 0 .. MaxOrderSteps
  BY DEF CommitRows, OrderInv, OrderTypeOK
<1>6. Leaves({c}, S)
  BY <1>2, <1>4, <1>5 DEF Leaves, Untouched
<1> QED BY <1>3, <1>6, NodesKeep

LEMMA MoveStartsKeeps ==
  ASSUME OrderInv, NEW c \in Arranger, NEW n \in Sibling, NEW t \in 0 .. SiblingCount, MoveStarts(c, n, t)
  PROVE  OrderInv'
<1> DEFINE next == [NoJob EXCEPT !.kind = "move", !.step = "read", !.node = n, !.before = t, !.known = Here]
<1>1. job' = [job EXCEPT ![c] = next] /\ UNCHANGED <<place, sortOrder, maxRead>> /\ ~MoveUnderWay
  BY DEF MoveStarts
<1>2. /\ next \in Job /\ next.kind = "move" /\ next.step = "read" /\ next.node = n
      /\ next.known = Here /\ next.done = {}
  <2>1. n \in 0 .. SiblingCount /\ Here \in SUBSET Sibling
    BY DEF Here, Sibling
  <2> QED BY <2>1, NoJobIsSound DEF NoJob, Job
<1> HIDE DEF next
<1>3. JobSound(next, place, sortOrder)
  BY <1>2 DEF JobSound, MoveIsSound, Here
<1>4. orderSteps' \in 0 .. MaxOrderSteps
  BY OrderTypesAre, StepsAre DEF MoveStarts, OrderStep
<1> QED BY <1>1, <1>2, <1>3, <1>4, JobKeeps DEF MoveUnderWay

LEMMA SortStartsKeeps ==
  ASSUME OrderInv, NEW c \in Arranger, SortStarts(c)
  PROVE  OrderInv'
<1>1. PICK plan \in SortPlans(Here) :
        job' = [job EXCEPT ![c] = [NoJob EXCEPT !.kind = "sort", !.step = "rows", !.plan = plan, !.todo = Here]]
  BY DEF SortStarts
<1> DEFINE next == [NoJob EXCEPT !.kind = "sort", !.step = "rows", !.plan = plan, !.todo = Here]
<1>2. Here \in SUBSET Sibling /\ plan \in Orders /\ InNames(Here, plan)
  BY <1>1, SortPlansAre DEF Here
<1>3. /\ next \in Job /\ next.kind = "sort" /\ next.step = "rows" /\ next.node = 0
      /\ next.plan = plan /\ next.todo = Here /\ next.done = {}
  BY <1>2, NoJobIsSound DEF NoJob, Job, Orders
<1>4. job' = [job EXCEPT ![c] = next]
  BY <1>1
<1> HIDE DEF next
<1>5. JobSound(next, place, sortOrder)
  <2>1. next.todo \cup next.done = Here
    BY <1>3
  <2> QED BY <1>2, <1>3, <2>1 DEF JobSound, SortIsSound
<1>6. orderSteps' \in 0 .. MaxOrderSteps /\ UNCHANGED <<place, sortOrder, maxRead>>
  BY OrderTypesAre, StepsAre DEF SortStarts, OrderStep
<1> QED BY <1>3, <1>4, <1>5, <1>6, JobKeeps

LEMMA LeaveKeeps ==
  ASSUME OrderInv, NEW n \in Sibling, MoveAway(n) \/ DeleteSibling(n)
  PROVE  OrderInv'
<1>1. /\ place' \in Places /\ sortOrder' \in Orders
      /\ \A m \in Sibling \ {n} : place'[m] = place[m] /\ sortOrder'[m] = sortOrder[m]
  BY OrderTypesAre, Numbers DEF MoveAway, DeleteSibling, Places, Orders
<1>2. job' = NoLongerKnown({n}) /\ maxRead' = maxRead /\ orderSteps' \in 0 .. MaxOrderSteps
  BY OrderTypesAre, StepsAre DEF MoveAway, DeleteSibling, OrderStep
<1>3. maxRead' \in Int32 \cup {NoCreation}
  BY <1>2 DEF OrderInv, OrderTypeOK
<1>4. Ends({}, {n})
  BY <1>2, NoLongerKnownIs DEF Ends
<1>5. Leaves({}, {n})
  BY <1>1, <1>2, <1>3, KnownAreHere DEF Leaves, Untouched
<1> QED BY <1>4, <1>5, NodesKeep

\* Creations and restores change no node that is here.
LEMMA ArriveKeeps ==
  ASSUME OrderInv, CreateReadsMax \/ CreateInserts \/ \E n \in Sibling : RestoreSibling(n)
  PROVE  OrderInv'
<1>1. /\ place' \in Places /\ sortOrder' \in Orders /\ maxRead' \in Int32 \cup {NoCreation}
      /\ \A m \in Here : place'[m] = place[m] /\ sortOrder'[m] = sortOrder[m]
  <2>1. CASE CreateReadsMax
    <3>1. MaxSortOrder(sortOrder, Here) \in Int32
      BY OrderTypesAre, MaxSortOrderIs DEF Orders, Here
    <3> QED BY <2>1, <3>1, OrderTypesAre DEF CreateReadsMax
  <2>2. CASE CreateInserts
    <3>1. CASE UNCHANGED <<place, sortOrder>>
      BY <2>2, <3>1, OrderTypesAre DEF CreateInserts
    <3>2. CASE ~UNCHANGED <<place, sortOrder>>
      <4>1. PICK n \in Sibling :
              /\ place[n] = "unborn" /\ place' = [place EXCEPT ![n] = "here"]
              /\ sortOrder' = [sortOrder EXCEPT ![n] = Wrapped(maxRead + CreateStep)]
        BY <2>2, <3>2 DEF CreateInserts
      <4>2. maxRead # NoCreation /\ maxRead' = NoCreation
        BY <2>2 DEF CreateInserts
      <4>3. Wrapped(maxRead + CreateStep) \in Int32
        BY <4>2, WrappedType DEF OrderInv, OrderTypeOK
      <4> QED BY <4>1, <4>2, <4>3, OrderTypesAre DEF Places, Orders, Here
    <3> QED BY <3>1, <3>2
  <2>3. CASE \E n \in Sibling : RestoreSibling(n)
    BY <2>3, OrderTypesAre DEF RestoreSibling, Places, Here, OrderInv, OrderTypeOK
  <2> QED BY <2>1, <2>2, <2>3
<1>2. job' = job /\ orderSteps' \in 0 .. MaxOrderSteps
  BY OrderTypesAre, StepsAre DEF CreateReadsMax, CreateInserts, RestoreSibling, OrderStep
<1>3. Ends({}, {})
  BY <1>2, AllStayKnown DEF Ends
<1>4. Leaves({}, {})
  BY <1>1, <1>2, KnownAreHere DEF Leaves, Untouched, Here
<1> QED BY <1>3, <1>4, NodesKeep

LEMMA OrderInvInit == OrderStart => OrderInv
<1> SUFFICES ASSUME OrderStart PROVE OrderInv
  OBVIOUS
<1>1. place \in Places
  BY DEF OrderStart, Places
<1>2. sortOrder \in Orders
  <2>1. PICK first \in {1, MaxOrder - CreateStep} :
          sortOrder = [n \in Sibling |->
                        CASE n = 1 -> first [] n = 2 -> first + CreateStep [] n = 3 -> 0
                          [] OTHER -> MoveStep - 1]
    BY DEF OrderStart
  <2>2. /\ first \in Int32 /\ first + CreateStep \in Int32 /\ 0 \in Int32 /\ MoveStep - 1 \in Int32
    BY StepsAre DEF Int32
  <2> QED BY <2>1, <2>2 DEF Orders
<1>3. \A c \in Arranger : job[c] = NoJob
  BY DEF OrderStart
<1>4. OrderTypeOK
  BY <1>1, <1>2, NoJobIsSound, StepsAre DEF OrderStart, OrderTypeOK, Places, Orders
<1> QED BY <1>3, <1>4, NoJobIsSound DEF OrderInv

LEMMA OrderInvNext == OrderInv /\ [OrderNext]_orderVars => OrderInv'
<1> SUFFICES ASSUME OrderInv, [OrderNext]_orderVars PROVE OrderInv'
  OBVIOUS
<1>1. ASSUME NEW c \in Arranger, Arrange(c) PROVE OrderInv'
  <2>1. ASSUME NEW n \in Sibling, NEW t \in 0 .. SiblingCount, MoveStarts(c, n, t) PROVE OrderInv'
    BY <2>1, MoveStartsKeeps
  <2>2. CASE TargetRead(c)
    BY <2>2, TargetReadSound, StatementKeeps
  <2>3. CASE LeftRead(c)
    BY <2>3, LeftReadSound, StatementKeeps
  <2>4. CASE MaxOrderRead(c)
    BY <2>4, MaxOrderReadSound, StatementKeeps
  <2>5. CASE ListSiblings(c)
    BY <2>5, ListSiblingsSound, StatementKeeps
  <2>6. CASE RowWrite(c)
    BY <2>6, RowWriteSound, StatementKeeps
  <2>7. CASE Shift(c)
    BY <2>7, ShiftSound, StatementKeeps
  <2>8. CASE NodeWrite(c)
    BY <2>8, NodeWriteSound, StatementKeeps
  <2>9. CASE SortStarts(c)
    BY <2>9, SortStartsKeeps
  <2>10. CASE CommitRows(c)
    BY <2>10, CommitRowsKeeps
  <2>11. CASE RollBack(c)
    BY <2>11, NoJobIsSound, StatementKeeps DEF RollBack
  <2> QED BY <1>1, <2>1, <2>2, <2>3, <2>4, <2>5, <2>6, <2>7, <2>8, <2>9, <2>10, <2>11 DEF Arrange
<1>2. CASE \E n \in Sibling : MoveAway(n) \/ DeleteSibling(n)
  BY <1>2, LeaveKeeps
<1>3. CASE CreateReadsMax \/ CreateInserts \/ \E n \in Sibling : RestoreSibling(n)
  BY <1>3, ArriveKeeps
<1>4. CASE UNCHANGED orderVars
  <2>1. place' = place /\ sortOrder' = sortOrder /\ maxRead' = maxRead /\ job' = job /\ orderSteps' = orderSteps
    BY <1>4 DEF orderVars
  <2> QED BY <2>1 DEF OrderInv, OrderTypeOK
<1> QED BY <1>1, <1>2, <1>3, <1>4 DEF OrderNext

LEMMA OrderInvariant == OrderSpec => []OrderInv
BY OrderInvInit, OrderInvNext, PTL DEF OrderSpec

\* The numbers stay int32 and transactions write only rows of the directory, in every
\* behaviour of any number of transactions.
THEOREM OrderTypes == OrderSpec => []OrderTypeOK
<1>1. OrderInv => OrderTypeOK
  BY DEF OrderInv
<1> QED BY <1>1, OrderInvariant, PTL

\* What a commit leaves of the rows.
LEMMA Committed ==
  ASSUME OrderInv, NEW c \in Arranger, CommitRows(c)
  PROVE  \A m \in Sibling : m = job[c].node \/ place[m] = "here" =>
           sortOrder'[m] = NumbersSeen(job[c], sortOrder)[m]
BY DEF CommitRows, NumbersSeen

\* Whatever sorts, restores, creations, deletions and other moves commit between the
\* statements of a move, it leaves the nodes it knows in their order and its node
\* where it was asked to be.
THEOREM MovesArePlaced == OrderSpec => MovesPlaceAsAsked
<1>1. ASSUME OrderInv, NEW c \in Arranger, NEW n \in Sibling, NEW t \in 0 .. SiblingCount,
             CommitRows(c), job[c].kind = "move", job[c].node = n, job[c].before = t
      PROVE  LET others == job[c].known \ {n}
             IN /\ OrderKept(others)
                /\ t \in {0, n} => \A m \in others : Before(m, n)'
                /\ t \in others =>
                     /\ Before(n, t)'
                     /\ \A m \in others :
                          (Before(n, m) /\ Before(m, t))' => sortOrder'[m] = sortOrder'[t]
  <2> DEFINE j == job[c]
             others == j.known \ {n}
             seen == NumbersSeen(j, sortOrder)
  <2>1. /\ j \in Job /\ MoveIsSound(j, place, sortOrder) /\ j.step = "commit"
        /\ sortOrder \in Orders /\ seen \in Orders
    BY <1>1, OrderTypesAre, NumbersSeenIs DEF JobSound, CommitRows
  <2>2. KeepsOrder(j, sortOrder) /\ InPlace(j, sortOrder) /\ n \in j.done /\ j.plan[n] = j.value
    BY <1>1, <2>1 DEF MoveIsSound
  <2>3. KnownOthers(j) = others /\ \A m \in others : m \in Sibling /\ place[m] = "here"
    BY <1>1, KnownAreHere DEF KnownOthers
  <2>4. /\ \A m \in others : sortOrder'[m] = seen[m]
        /\ sortOrder'[n] = j.value
    <3>1. sortOrder'[n] = seen[n]
      BY <1>1, Committed
    <3>2. seen[n] = j.value
      BY <2>2 DEF NumbersSeen
    <3> QED BY <1>1, <2>3, <3>1, <3>2, Committed
  <2>5. \A a, b \in others : Precedes(sortOrder, a, b) <=> Precedes(seen, a, b)
    BY <2>2, <2>3 DEF KeepsOrder
  <2>6. OrderKept(others)
    BY <2>4, <2>5 DEF OrderKept, Before, Precedes
  <2>7. t \in {0, n} => \A m \in others : seen[m] < j.value
    BY <1>1, <2>2, <2>3 DEF InPlace, ToTheEnd
  <2>8. t \in others => /\ j.value < seen[t]
                        /\ \A m \in others : seen[m] < j.value \/ seen[t] <= seen[m]
    BY <1>1, <2>2, <2>3 DEF InPlace
  <2>9. j.value \in Int /\ \A m \in others : seen[m] \in Int
    BY <2>1, <2>3, Numbers, StepsAre DEF Job, Orders
  <2> HIDE DEF j, others, seen
  <2>10. t \in {0, n} => \A m \in others : Before(m, n)'
    BY <2>4, <2>7 DEF Before
  <2>11. t \in others => Before(n, t)'
    BY <2>4, <2>8 DEF Before
  <2>12. ASSUME t \in others, NEW m \in others, (Before(n, m) /\ Before(m, t))'
         PROVE  sortOrder'[m] = sortOrder'[t]
    BY <2>4, <2>8, <2>9, <2>12 DEF Before
  <2> QED BY <2>6, <2>10, <2>11, <2>12 DEF j, others
<1>2. OrderInv /\ [OrderNext]_orderVars =>
        [\A c \in Arranger, n \in Sibling, t \in 0 .. SiblingCount :
           CommitRows(c) /\ job[c].kind = "move" /\ job[c].node = n /\ job[c].before = t =>
             LET others == job[c].known \ {n}
             IN /\ OrderKept(others)
                /\ t \in {0, n} => \A m \in others : Before(m, n)'
                /\ t \in others =>
                     /\ Before(n, t)'
                     /\ \A m \in others :
                          (Before(n, m) /\ Before(m, t))' => sortOrder'[m] = sortOrder'[t]]_orderVars
  BY <1>1
<1> QED BY <1>2, OrderInvariant, PTL DEF OrderSpec, MovesPlaceAsAsked

\* A sort by names leaves what it listed in the order of the names, whatever commits
\* between its statements.
THEOREM SortIsByName == OrderSpec => SortsByName
<1>1. ASSUME OrderInv, NEW c \in Arranger, CommitRows(c), job[c].kind = "sort",
             NEW a \in job[c].done \cap Here, NEW b \in job[c].done \cap Here,
             DigitsTogether({SiblingNames[n] : n \in job[c].done})
      PROVE  NameBefore(a, b) <=> Before(a, b)'
  <2> DEFINE j == job[c]
  <2>1. j \in Job /\ SortIsSound(j) /\ j.step = "commit"
    BY <1>1, OrderTypesAre DEF JobSound, CommitRows
  <2>2. j.todo \cup j.done = j.done
    BY <2>1 DEF SortIsSound
  <2>3. \A m, n \in j.done : NameBefore(m, n) => j.plan[m] < j.plan[n]
    BY <1>1, <2>1, <2>2 DEF SortIsSound, InNames
  <2>4. /\ sortOrder'[a] = j.plan[a] /\ sortOrder'[b] = j.plan[b]
        /\ a \in Sibling /\ b \in Sibling
    BY <1>1, Committed DEF NumbersSeen, Here
  <2>5. j.plan[a] \in Int /\ j.plan[b] \in Int /\ a \in Nat /\ b \in Nat
    BY <2>1, <2>4, Numbers DEF Job
  <2>6. ~NameBefore(a, a) /\ (a # b => NameBefore(a, b) \/ NameBefore(b, a))
    BY <2>4, NamesOrdered
  <2> HIDE DEF j
  <2>7. a \in j.done /\ b \in j.done
    BY <1>1 DEF j
  <2>8. /\ NameBefore(a, b) => j.plan[a] < j.plan[b]
        /\ NameBefore(b, a) => j.plan[b] < j.plan[a]
    BY <2>3, <2>7
  <2>9. Before(a, b)' <=> j.plan[a] < j.plan[b] \/ (j.plan[a] = j.plan[b] /\ a < b)
    BY <2>4 DEF Before
  <2>10. CASE a = b
    BY <2>5, <2>6, <2>9, <2>10
  <2>11. CASE a # b
    BY <2>5, <2>6, <2>8, <2>9, <2>11
  <2> QED BY <2>10, <2>11
<1>2. OrderInv /\ [OrderNext]_orderVars =>
        [\A c \in Arranger : CommitRows(c) /\ job[c].kind = "sort" =>
           \A a, b \in job[c].done \cap Here :
             DigitsTogether({SiblingNames[n] : n \in job[c].done}) =>
               (NameBefore(a, b) <=> Before(a, b)')]_orderVars
  BY <1>1
<1> QED BY <1>2, OrderInvariant, PTL DEF OrderSpec, SortsByName
===============================================================================
