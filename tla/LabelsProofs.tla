---------------------------- MODULE LabelsProofs -----------------------------
(***************************************************************************)
(* Proofs about Labels, for labels of any length.  Recursion over a label  *)
(* is met with the least-number principle: the set of lengths or positions *)
(* at which a claim fails would have a least (or a last) member.           *)
(***************************************************************************)
EXTENDS Labels, WellFoundedInduction, FiniteSetTheorems, SequenceTheorems, TLAPS

\* The characters of a label: any strings, those of the confusables among them.
Letter == STRING \union {"r", "n", "m", "v", "w", "0", "o", "1", "l", "5", "s", "2", "z"}

LEMMA WordsHaveLetters == ASSUME NEW s \in Seq(STRING) PROVE s \in Seq(Letter)
<1> DEFINE S == STRING
<1>1. S \subseteq Letter
  BY DEF Letter
<1>2. s \in Seq(S)
  OBVIOUS
<1> HIDE DEF S
<1>3. \A i \in 1 .. Len(s) : s[i] \in Letter
  BY <1>1, <1>2
<1>4. s = [i \in 1 .. Len(s) |-> s[i]] /\ Len(s) \in Nat
  BY <1>2
<1> QED
  BY <1>3, <1>4

-----------------------------------------------------------------------------
(***************************************************************************)
(* Least elements.                                                         *)
(***************************************************************************)

LessThan == {p \in Nat \X Nat : p[1] < p[2]}

LEMMA LessIsWellFounded == IsWellFoundedOn(LessThan, Nat)
  BY NatLessThanWellFounded DEF OpToRel, LessThan

LEMMA LeastNatural ==
    ASSUME NEW S \in SUBSET Nat, S # {}
    PROVE  \E x \in S : \A y \in S : x <= y
<1>1. PICK x \in S : \A y \in S : <<y, x>> \notin LessThan
  BY LessIsWellFounded, WFMin
<1>2. \A y \in S : ~(y < x)
  BY <1>1 DEF LessThan
<1> QED
  BY <1>2

IsLeast(d, S) == d \in S /\ \A x \in S : d <= x

LEMMA LeastIs ==
    ASSUME NEW S \in SUBSET Int, NEW d, IsLeast(d, S)
    PROVE  Least(S) = d
<1>1. \E x \in S : \A y \in S : x <= y
  BY DEF IsLeast
<1>2. Least(S) \in S /\ \A y \in S : Least(S) <= y
  BY <1>1 DEF Least
<1>3. PICK e \in Int : e = Least(S)
  BY <1>2
<1>4. d \in Int /\ d <= e /\ e <= d
  BY <1>2, <1>3 DEF IsLeast
<1> QED
  BY <1>3, <1>4

LEMMA LeastExists ==
    ASSUME NEW S \in SUBSET Int, S # {}, NEW b \in Nat, \A x \in S : x + b >= 0
    PROVE  IsLeast(Least(S), S)
<1> DEFINE T == {x + b : x \in S}
<1>1. T \in SUBSET Nat /\ T # {}
  <2>1. \A x \in S : x + b \in Nat
    OBVIOUS
  <2> QED
    BY <2>1
<1>2. PICK m \in T : \A y \in T : m <= y
  BY <1>1, LeastNatural
<1>3. PICK d \in S : m = d + b
  OBVIOUS
<1>4. ASSUME NEW x \in S PROVE d <= x
  <2>1. x + b \in T
    OBVIOUS
  <2>2. d \in Int /\ x \in Int /\ d + b <= x + b
    BY <1>2, <1>3, <2>1
  <2> QED
    BY <2>2
<1>5. IsLeast(d, S)
  BY <1>4 DEF IsLeast
<1> QED
  BY <1>5, LeastIs

-----------------------------------------------------------------------------
(***************************************************************************)
(* The distance, as a function of the lengths of two prefixes.             *)
(***************************************************************************)

Alignments(i, j) == UNION {Alignment(kept, j) : kept \in SUBSET (1 .. i)}

Unequal(s, t, m) == {k \in DOMAIN m : s[k] # t[m[k]]}

PriceAt(s, t, i, j, m) ==
    i + j - 2 * Cardinality(DOMAIN m) + Cardinality(Unequal(s, t, m))

Prices(s, t, i, j) == {PriceAt(s, t, i, j, m) : m \in Alignments(i, j)}

D(s, t, i, j) == Least(Prices(s, t, i, j))

Cost(s, t, i, j) == IF s[i] = t[j] THEN 0 ELSE 1

LEMMA AlignmentFacts ==
    ASSUME NEW i \in Nat, NEW j \in Nat, NEW m \in Alignments(i, j)
    PROVE  /\ DOMAIN m \subseteq 1 .. i /\ m \in [DOMAIN m -> 1 .. j]
           /\ \A k, l \in DOMAIN m : k < l => m[k] < m[l]
           /\ IsFiniteSet(DOMAIN m) /\ Cardinality(DOMAIN m) \in 0 .. i
<1>1. PICK kept \in SUBSET (1 .. i) : m \in Alignment(kept, j)
  BY DEF Alignments
<1>2. DOMAIN m = kept /\ m \in [kept -> 1 .. j]
  BY <1>1 DEF Alignment
<1>3. IsFiniteSet(1 .. i) /\ Cardinality(1 .. i) = i
  BY FS_Interval
<1>4. IsFiniteSet(kept) /\ Cardinality(kept) <= i /\ Cardinality(kept) \in Nat
  BY <1>3, FS_Subset, FS_CardinalityType
<1> QED
  BY <1>1, <1>2, <1>4 DEF Alignment

LEMMA IsAlignment ==
    ASSUME NEW i \in Nat, NEW j \in Nat, NEW kept \in SUBSET (1 .. i),
           NEW m \in [kept -> 1 .. j],
           \A k, l \in kept : k < l => m[k] < m[l]
    PROVE  m \in Alignments(i, j)
BY DEF Alignments, Alignment

LEMMA UnequalFacts ==
    ASSUME NEW s, NEW t, NEW i \in Nat, NEW j \in Nat, NEW m \in Alignments(i, j)
    PROVE  /\ IsFiniteSet(Unequal(s, t, m))
           /\ Cardinality(Unequal(s, t, m)) \in Nat
<1>1. IsFiniteSet(DOMAIN m)
  BY AlignmentFacts
<1>2. Unequal(s, t, m) \subseteq DOMAIN m
  BY DEF Unequal
<1> QED
  BY <1>1, <1>2, FS_Subset, FS_CardinalityType

LEMMA PriceFacts ==
    ASSUME NEW s, NEW t, NEW i \in Nat, NEW j \in Nat, NEW m \in Alignments(i, j)
    PROVE  /\ PriceAt(s, t, i, j, m) \in Int
           /\ PriceAt(s, t, i, j, m) + i >= 0
BY AlignmentFacts, UnequalFacts DEF PriceAt

LEMMA NothingAligned ==
    ASSUME NEW s, NEW t, NEW i \in Nat, NEW j \in Nat, NEW m, DOMAIN m = {}
    PROVE  PriceAt(s, t, i, j, m) = i + j
<1>1. Unequal(s, t, m) = {} /\ Cardinality({}) = 0
  BY FS_EmptySet DEF Unequal
<1> QED
  BY <1>1 DEF PriceAt

LEMMA DIsLeast ==
    ASSUME NEW s, NEW t, NEW i \in Nat, NEW j \in Nat
    PROVE  /\ Prices(s, t, i, j) \in SUBSET Int
           /\ IsLeast(D(s, t, i, j), Prices(s, t, i, j))
           /\ D(s, t, i, j) \in Int
<1> DEFINE none == [k \in {} |-> 1]
<1>1. none \in [{} -> 1 .. j] /\ {} \in SUBSET (1 .. i)
  OBVIOUS
<1> HIDE DEF none
<1>2. none \in Alignments(i, j)
  BY <1>1, IsAlignment
<1>3. Prices(s, t, i, j) # {} /\ Prices(s, t, i, j) \in SUBSET Int
  BY <1>2, PriceFacts DEF Prices
<1>4. \A x \in Prices(s, t, i, j) : x + i >= 0
  BY PriceFacts DEF Prices
<1>5. IsLeast(D(s, t, i, j), Prices(s, t, i, j))
  BY <1>3, <1>4, LeastExists DEF D
<1> QED
  BY <1>3, <1>5 DEF IsLeast

LEMMA Monotone ==
    ASSUME NEW i \in Nat, NEW j \in Nat, NEW h \in 0 .. i, NEW k \in 0 .. j,
           NEW m \in Alignments(h, k)
    PROVE  m \in Alignments(i, j)
<1>1. PICK kept : kept = DOMAIN m
  OBVIOUS
<1>2. /\ kept \subseteq 1 .. h /\ m \in [kept -> 1 .. k]
      /\ \A x, y \in kept : x < y => m[x] < m[y]
  BY <1>1, AlignmentFacts
<1>3. kept \in SUBSET (1 .. i) /\ m \in [kept -> 1 .. j]
  BY <1>2
<1> QED
  BY <1>2, <1>3, IsAlignment

LEMMA NothingConsumed ==
    ASSUME NEW s, NEW t, NEW i \in Nat, NEW j \in Nat, i = 0 \/ j = 0
    PROVE  D(s, t, i, j) = i + j
<1>1. ASSUME NEW m \in Alignments(i, j) PROVE DOMAIN m = {}
  <2>1. PICK kept : kept = DOMAIN m
    OBVIOUS
  <2>2. kept \subseteq 1 .. i /\ m \in [kept -> 1 .. j]
    BY <2>1, AlignmentFacts
  <2>3. kept = {}
    BY <2>2
  <2> QED
    BY <2>1, <2>3
<1>2. \A x \in Prices(s, t, i, j) : x = i + j
  BY <1>1, NothingAligned DEF Prices
<1> QED
  BY <1>2, DIsLeast DEF IsLeast

\* n is m without the character x and its partner y.
Without(n, m, x, y) ==
    /\ x \in DOMAIN m /\ m[x] = y
    /\ DOMAIN n = DOMAIN m \ {x}
    /\ \A k \in DOMAIN n : n[k] = m[k]

LEMMA OneMore ==
    ASSUME NEW s, NEW t, NEW i \in Nat, NEW j \in Nat, NEW m \in Alignments(i, j),
           NEW n, NEW x, NEW y, Without(n, m, x, y)
    PROVE  /\ Cardinality(DOMAIN m) = Cardinality(DOMAIN n) + 1
           /\ Cardinality(Unequal(s, t, m)) =
                  Cardinality(Unequal(s, t, n)) + Cost(s, t, x, y)
           /\ Cardinality(DOMAIN n) \in Nat /\ Cardinality(Unequal(s, t, n)) \in Nat
<1>1. IsFiniteSet(DOMAIN m) /\ IsFiniteSet(Unequal(s, t, m))
  BY AlignmentFacts, UnequalFacts
<1>2. /\ Cardinality(DOMAIN n) = Cardinality(DOMAIN m) - 1
      /\ IsFiniteSet(DOMAIN n)
  BY <1>1, FS_RemoveElement DEF Without
<1>3. Cardinality(DOMAIN m) \in Nat /\ Cardinality(DOMAIN n) \in Nat
  BY <1>1, <1>2, FS_CardinalityType
<1>4. Unequal(s, t, n) = Unequal(s, t, m) \ {x}
  BY DEF Unequal, Without
<1>5. IsFiniteSet(Unequal(s, t, n))
  BY <1>1, <1>4, FS_Subset
<1>6. Cardinality(Unequal(s, t, n)) \in Nat /\ Cardinality(Unequal(s, t, m)) \in Nat
  BY <1>1, <1>5, FS_CardinalityType
<1>7. CASE s[x] = t[y]
  <2>1. Unequal(s, t, n) = Unequal(s, t, m)
    BY <1>4, <1>7 DEF Unequal, Without
  <2> QED
    BY <1>2, <1>3, <1>6, <1>7, <2>1 DEF Cost
<1>8. CASE s[x] # t[y]
  <2>1. x \in Unequal(s, t, m)
    BY <1>8 DEF Unequal, Without
  <2>2. Cardinality(Unequal(s, t, n)) = Cardinality(Unequal(s, t, m)) - 1
    <3>1. PICK U : U = Unequal(s, t, m)
      OBVIOUS
    <3>2. Cardinality(U \ {x}) = Cardinality(U) - 1
      BY <1>1, <2>1, <3>1, FS_RemoveElement
    <3> QED
      BY <1>4, <3>1, <3>2
  <2>3. /\ Cardinality(DOMAIN m) = Cardinality(DOMAIN n) + 1
        /\ Cardinality(Unequal(s, t, m)) = Cardinality(Unequal(s, t, n)) + 1
    BY <1>2, <1>3, <1>6, <2>2
  <2> QED
    BY <1>3, <1>6, <1>8, <2>3 DEF Cost
<1> QED
  BY <1>7, <1>8

LEMMA PriceOfOneMore ==
    ASSUME NEW s, NEW t, NEW i \in Nat \ {0}, NEW j \in Nat \ {0}, NEW m, NEW n,
           Cardinality(DOMAIN m) = Cardinality(DOMAIN n) + 1,
           Cardinality(Unequal(s, t, m)) = Cardinality(Unequal(s, t, n)) + Cost(s, t, i, j),
           Cardinality(DOMAIN n) \in Nat, Cardinality(Unequal(s, t, n)) \in Nat
    PROVE  PriceAt(s, t, i, j, m) = PriceAt(s, t, i - 1, j - 1, n) + Cost(s, t, i, j)
<1>1. PICK c \in Nat, u \in Nat : c = Cardinality(DOMAIN n) /\ u = Cardinality(Unequal(s, t, n))
  OBVIOUS
<1>2. PICK x \in {0, 1} : x = Cost(s, t, i, j)
  BY DEF Cost
<1>3. /\ PriceAt(s, t, i, j, m) = i + j - 2 * (c + 1) + (u + x)
      /\ PriceAt(s, t, i - 1, j - 1, n) = (i - 1) + (j - 1) - 2 * c + u
  BY <1>1, <1>2 DEF PriceAt
<1> QED
  BY <1>2, <1>3

\* Partnering the last two characters.
LEMMA Extended ==
    ASSUME NEW s, NEW t, NEW i \in Nat \ {0}, NEW j \in Nat \ {0},
           NEW n \in Alignments(i - 1, j - 1)
    PROVE  PriceAt(s, t, i - 1, j - 1, n) + Cost(s, t, i, j) \in Prices(s, t, i, j)
<1> DEFINE kept == DOMAIN n \union {i}
           m == [k \in kept |-> IF k = i THEN j ELSE n[k]]
<1>1. i - 1 \in Nat /\ j - 1 \in Nat
  OBVIOUS
<1>2. /\ DOMAIN n \subseteq 1 .. (i - 1) /\ n \in [DOMAIN n -> 1 .. (j - 1)]
      /\ \A k, l \in DOMAIN n : k < l => n[k] < n[l]
  BY <1>1, AlignmentFacts
<1>3. kept \in SUBSET (1 .. i)
  BY <1>2
<1>4. \A k \in DOMAIN n : k # i /\ n[k] \in 1 .. (j - 1)
  BY <1>2
<1>5. m \in [kept -> 1 .. j]
  BY <1>4
<1>6. ASSUME NEW k \in kept, NEW l \in kept, k < l PROVE m[k] < m[l]
  <2>1. k \in DOMAIN n
    BY <1>2, <1>6
  <2> QED
    BY <1>2, <1>4, <1>6, <2>1
<1>7. DOMAIN m = kept /\ m[i] = j /\ \A k \in DOMAIN n : n[k] = m[k]
  BY <1>4
<1>8. DOMAIN n = DOMAIN m \ {i} /\ i \in DOMAIN m
  BY <1>4
<1>9. Without(n, m, i, j)
  BY <1>7, <1>8 DEF Without
<1> HIDE DEF m, kept
<1>10. m \in Alignments(i, j)
  BY <1>3, <1>5, <1>6, IsAlignment
<1>11. /\ Cardinality(DOMAIN m) = Cardinality(DOMAIN n) + 1
       /\ Cardinality(Unequal(s, t, m)) = Cardinality(Unequal(s, t, n)) + Cost(s, t, i, j)
       /\ Cardinality(DOMAIN n) \in Nat /\ Cardinality(Unequal(s, t, n)) \in Nat
  BY <1>10, <1>9, OneMore
<1>12. PriceAt(s, t, i, j, m) = PriceAt(s, t, i - 1, j - 1, n) + Cost(s, t, i, j)
  BY <1>11, PriceOfOneMore
<1> QED
  BY <1>10, <1>12 DEF Prices

\* An alignment that partners the last two characters, without them.
LEMMA Shortened ==
    ASSUME NEW s, NEW t, NEW i \in Nat \ {0}, NEW j \in Nat \ {0},
           NEW m \in Alignments(i, j), i \in DOMAIN m, m[i] = j
    PROVE  \E n \in Alignments(i - 1, j - 1) :
               PriceAt(s, t, i, j, m) = PriceAt(s, t, i - 1, j - 1, n) + Cost(s, t, i, j)
<1> DEFINE kept == DOMAIN m \ {i}
           n == [k \in kept |-> m[k]]
<1>1. i - 1 \in Nat /\ j - 1 \in Nat
  OBVIOUS
<1>2. /\ DOMAIN m \subseteq 1 .. i /\ m \in [DOMAIN m -> 1 .. j]
      /\ \A k, l \in DOMAIN m : k < l => m[k] < m[l]
  BY AlignmentFacts
<1>3. kept \in SUBSET (1 .. (i - 1))
  BY <1>2
<1>4. \A k \in kept : m[k] \in 1 .. (j - 1)
  <2> SUFFICES ASSUME NEW k \in kept PROVE m[k] \in 1 .. (j - 1)
    OBVIOUS
  <2>1. k < i /\ m[k] \in 1 .. j
    BY <1>2
  <2>2. m[k] < m[i]
    BY <1>2, <2>1
  <2> QED
    BY <2>1, <2>2
<1>5. n \in [kept -> 1 .. (j - 1)]
  BY <1>4
<1>6. \A k, l \in kept : k < l => n[k] < n[l]
  BY <1>2
<1>7. DOMAIN n = DOMAIN m \ {i} /\ \A k \in DOMAIN n : n[k] = m[k]
  OBVIOUS
<1>8. Without(n, m, i, j)
  BY <1>7 DEF Without
<1>9. i \in Nat /\ j \in Nat /\ m \in Alignments(i, j)
  OBVIOUS
<1> HIDE DEF n, kept
<1>10. n \in Alignments(i - 1, j - 1)
  BY <1>1, <1>3, <1>5, <1>6, IsAlignment
<1>11. /\ Cardinality(DOMAIN m) = Cardinality(DOMAIN n) + 1
       /\ Cardinality(Unequal(s, t, m)) = Cardinality(Unequal(s, t, n)) + Cost(s, t, i, j)
       /\ Cardinality(DOMAIN n) \in Nat /\ Cardinality(Unequal(s, t, n)) \in Nat
  BY ONLY <1>8, <1>9, OneMore
<1> QED
  BY <1>10, <1>11, PriceOfOneMore

\* Further characters, without a partner, only add to the price.
LEMMA Dropped ==
    ASSUME NEW s, NEW t, NEW i \in Nat, NEW j \in Nat, NEW h \in 0 .. i, NEW k \in 0 .. j,
           NEW m \in Alignments(h, k)
    PROVE  /\ PriceAt(s, t, i, j, m) = PriceAt(s, t, h, k, m) + (i - h) + (j - k)
           /\ PriceAt(s, t, i, j, m) \in Prices(s, t, i, j)
<1>1. Cardinality(DOMAIN m) \in Nat /\ Cardinality(Unequal(s, t, m)) \in Nat
  BY AlignmentFacts, UnequalFacts
<1>2. PICK c \in Nat, u \in Nat : c = Cardinality(DOMAIN m) /\ u = Cardinality(Unequal(s, t, m))
  BY <1>1
<1>3. /\ PriceAt(s, t, i, j, m) = i + j - 2 * c + u
      /\ PriceAt(s, t, h, k, m) = h + k - 2 * c + u
  BY <1>2 DEF PriceAt
<1>4. m \in Alignments(i, j)
  BY Monotone
<1> QED
  BY <1>3, <1>4 DEF Prices

LEMMA OneDropped ==
    ASSUME NEW s, NEW t, NEW i \in Nat \ {0}, NEW j \in Nat \ {0}
    PROVE  /\ \A m \in Alignments(i - 1, j) :
                  /\ PriceAt(s, t, i, j, m) = PriceAt(s, t, i - 1, j, m) + 1
                  /\ PriceAt(s, t, i, j, m) \in Prices(s, t, i, j)
           /\ \A m \in Alignments(i, j - 1) :
                  /\ PriceAt(s, t, i, j, m) = PriceAt(s, t, i, j - 1, m) + 1
                  /\ PriceAt(s, t, i, j, m) \in Prices(s, t, i, j)
<1>1. PICK h \in 0 .. i : h = i - 1
  OBVIOUS
<1>2. PICK k \in 0 .. j : k = j - 1
  OBVIOUS
<1>3. ASSUME NEW m \in Alignments(h, j)
      PROVE  /\ PriceAt(s, t, i, j, m) = PriceAt(s, t, h, j, m) + 1
             /\ PriceAt(s, t, i, j, m) \in Prices(s, t, i, j)
  <2>1. PICK l \in 0 .. j : l = j
    OBVIOUS
  <2>2. PICK p \in Int : p = PriceAt(s, t, h, l, m)
    BY <2>1, PriceFacts
  <2>3. m \in Alignments(h, l)
    BY <2>1
  <2>4. /\ PriceAt(s, t, i, j, m) = PriceAt(s, t, h, l, m) + (i - h) + (j - l)
        /\ PriceAt(s, t, i, j, m) \in Prices(s, t, i, j)
    BY ONLY i \in Nat, j \in Nat, h \in 0 .. i, l \in 0 .. j, <2>3, Dropped, Zenon
  <2> QED
    BY <1>1, <2>1, <2>2, <2>4
<1>4. ASSUME NEW m \in Alignments(i, k)
      PROVE  /\ PriceAt(s, t, i, j, m) = PriceAt(s, t, i, k, m) + 1
             /\ PriceAt(s, t, i, j, m) \in Prices(s, t, i, j)
  <2>1. PICK l \in 0 .. i : l = i
    OBVIOUS
  <2>2. PICK p \in Int : p = PriceAt(s, t, l, k, m)
    BY <2>1, PriceFacts
  <2>3. m \in Alignments(l, k)
    BY <2>1
  <2>4. /\ PriceAt(s, t, i, j, m) = PriceAt(s, t, l, k, m) + (i - l) + (j - k)
        /\ PriceAt(s, t, i, j, m) \in Prices(s, t, i, j)
    BY ONLY i \in Nat, j \in Nat, l \in 0 .. i, k \in 0 .. j, <2>3, Dropped, Zenon
  <2> QED
    BY <1>2, <2>1, <2>2, <2>4
<1> QED
  BY <1>1, <1>2, <1>3, <1>4

\* The recurrence of the table, from what the entries mean.
LEMMA Recurrence ==
    ASSUME NEW s, NEW t, NEW i \in Nat \ {0}, NEW j \in Nat \ {0}
    PROVE  D(s, t, i, j) = Least({D(s, t, i - 1, j) + 1, D(s, t, i, j - 1) + 1,
                                  D(s, t, i - 1, j - 1) + Cost(s, t, i, j)})
<1>1. i - 1 \in 0 .. i /\ j - 1 \in 0 .. j /\ i \in 0 .. i /\ j \in 0 .. j
      /\ i - 1 \in Nat /\ j - 1 \in Nat /\ i \in Nat /\ j \in Nat
  OBVIOUS
<1>2. PICK e \in Int : e = D(s, t, i, j)
  BY <1>1, DIsLeast
<1>3. PICK up \in Int : up = D(s, t, i - 1, j)
  BY <1>1, DIsLeast
<1>4. PICK left \in Int : left = D(s, t, i, j - 1)
  BY <1>1, DIsLeast
<1>5. PICK diagonal \in Int : diagonal = D(s, t, i - 1, j - 1)
  BY <1>1, DIsLeast
<1>6. PICK cost \in {0, 1} : cost = Cost(s, t, i, j)
  BY DEF Cost
<1>7. /\ IsLeast(e, Prices(s, t, i, j)) /\ IsLeast(up, Prices(s, t, i - 1, j))
      /\ IsLeast(left, Prices(s, t, i, j - 1))
      /\ IsLeast(diagonal, Prices(s, t, i - 1, j - 1))
  BY <1>1, <1>2, <1>3, <1>4, <1>5, DIsLeast
<1>8. /\ \A m \in Alignments(i - 1, j) :
             /\ PriceAt(s, t, i, j, m) = PriceAt(s, t, i - 1, j, m) + 1
             /\ PriceAt(s, t, i, j, m) \in Prices(s, t, i, j)
      /\ \A m \in Alignments(i, j - 1) :
             /\ PriceAt(s, t, i, j, m) = PriceAt(s, t, i, j - 1, m) + 1
             /\ PriceAt(s, t, i, j, m) \in Prices(s, t, i, j)
  BY OneDropped, Zenon
<1>9. e <= up + 1
  <2>1. PICK m \in Alignments(i - 1, j) : up = PriceAt(s, t, i - 1, j, m)
    BY <1>7 DEF IsLeast, Prices
  <2>2. PriceAt(s, t, i, j, m) = up + 1 /\ PriceAt(s, t, i, j, m) \in Prices(s, t, i, j)
    BY <2>1, <1>8
  <2>3. up + 1 \in Prices(s, t, i, j)
    BY <2>2
  <2> QED
    BY <1>7, <2>3 DEF IsLeast
<1>10. e <= left + 1
  <2>1. PICK m \in Alignments(i, j - 1) : left = PriceAt(s, t, i, j - 1, m)
    BY <1>7 DEF IsLeast, Prices
  <2>2. PriceAt(s, t, i, j, m) = left + 1 /\ PriceAt(s, t, i, j, m) \in Prices(s, t, i, j)
    BY <2>1, <1>8
  <2>3. left + 1 \in Prices(s, t, i, j)
    BY <2>2
  <2> QED
    BY <1>7, <2>3 DEF IsLeast
<1>11. e <= diagonal + cost
  <2>1. PICK m \in Alignments(i - 1, j - 1) : diagonal = PriceAt(s, t, i - 1, j - 1, m)
    BY <1>7 DEF IsLeast, Prices
  <2>2. diagonal + cost \in Prices(s, t, i, j)
    BY <1>6, <2>1, Extended
  <2> QED
    BY <1>7, <2>2 DEF IsLeast
<1>12. e \in {up + 1, left + 1, diagonal + cost}
  <2>1. PICK m \in Alignments(i, j) : e = PriceAt(s, t, i, j, m)
    BY <1>7 DEF IsLeast, Prices
  <2>2. /\ DOMAIN m \subseteq 1 .. i /\ m \in [DOMAIN m -> 1 .. j]
        /\ \A k, l \in DOMAIN m : k < l => m[k] < m[l]
    BY <1>1, AlignmentFacts
  <2>3. CASE i \notin DOMAIN m
    <3>1. DOMAIN m \in SUBSET (1 .. (i - 1))
      BY <2>2, <2>3
    <3>2. m \in Alignments(i - 1, j)
      BY <1>1, <2>2, <3>1, IsAlignment
    <3>3. PICK p \in Int : p = PriceAt(s, t, i - 1, j, m)
      BY <1>1, <3>2, PriceFacts
    <3>4. e = p + 1
      BY <2>1, <3>2, <3>3, <1>8
    <3>5. up <= p
      BY <1>7, <3>2, <3>3 DEF IsLeast, Prices
    <3> QED
      BY <1>9, <3>4, <3>5
  <2>4. CASE \A k \in DOMAIN m : m[k] # j
    <3>1. \A k \in DOMAIN m : m[k] \in 1 .. (j - 1)
      BY <2>2, <2>4
    <3>2. m \in [DOMAIN m -> 1 .. (j - 1)]
      BY <2>2, <3>1
    <3>3. m \in Alignments(i, j - 1)
      BY <1>1, <2>2, <3>2, IsAlignment
    <3>4. PICK p \in Int : p = PriceAt(s, t, i, j - 1, m)
      BY <1>1, <3>3, PriceFacts
    <3>5. e = p + 1
      BY <2>1, <3>3, <3>4, <1>8
    <3>6. left <= p
      BY <1>7, <3>3, <3>4 DEF IsLeast, Prices
    <3> QED
      BY <1>10, <3>5, <3>6
  <2>5. CASE i \in DOMAIN m /\ \E k \in DOMAIN m : m[k] = j
    <3>1. PICK k \in DOMAIN m : m[k] = j
      BY <2>5
    <3>2. m[i] = j
      <4>1. k \in 1 .. i /\ m[i] \in 1 .. j
        BY <2>2, <2>5
      <4>2. k < i => j < m[i]
        BY <2>2, <2>5, <3>1
      <4> QED
        BY <3>1, <4>1, <4>2
    <3>3. PICK n \in Alignments(i - 1, j - 1) : e = PriceAt(s, t, i - 1, j - 1, n) + cost
      BY <1>6, <2>1, <2>5, <3>2, Shortened
    <3>4. PICK p \in Int : p = PriceAt(s, t, i - 1, j - 1, n)
      BY <1>1, PriceFacts
    <3>5. diagonal <= p
      BY <1>7, <3>4 DEF IsLeast, Prices
    <3> QED
      BY <1>6, <1>11, <3>3, <3>4, <3>5
  <2> QED
    BY <2>3, <2>4, <2>5
<1>13. IsLeast(e, {up + 1, left + 1, diagonal + cost})
  BY <1>9, <1>10, <1>11, <1>12 DEF IsLeast
<1>14. {up + 1, left + 1, diagonal + cost} \in SUBSET Int
  BY <1>6
<1> QED
  BY <1>2, <1>3, <1>4, <1>5, <1>6, <1>13, <1>14, LeastIs

LEMMA Prefix ==
    ASSUME NEW C, NEW s \in Seq(C), NEW i \in 0 .. Len(s)
    PROVE  /\ SubSeq(s, 1, i) \in Seq(C) /\ Len(SubSeq(s, 1, i)) = i
           /\ \A k \in 1 .. i : SubSeq(s, 1, i)[k] = s[k]
<1>1. SubSeq(s, 1, i) \in Seq(C)
  OBVIOUS
<1>2. Len(SubSeq(s, 1, i)) = i
  OBVIOUS
<1>3. ASSUME NEW k \in 1 .. i PROVE SubSeq(s, 1, i)[k] = s[k]
  OBVIOUS
<1> QED
  BY <1>1, <1>2, <1>3

LEMMA DistanceIsD ==
    ASSUME NEW s \in Seq(Letter), NEW t \in Seq(Letter),
           NEW i \in 0 .. Len(s), NEW j \in 0 .. Len(t)
    PROVE  Distance(SubSeq(s, 1, i), SubSeq(t, 1, j)) = D(s, t, i, j)
<1>1. PICK a \in Seq(Letter), b \in Seq(Letter) : a = SubSeq(s, 1, i) /\ b = SubSeq(t, 1, j)
  BY Prefix
<1>2. /\ Len(a) = i /\ Len(b) = j
      /\ \A k \in 1 .. i : a[k] = s[k]
      /\ \A k \in 1 .. j : b[k] = t[k]
  BY <1>1, Prefix
<1>3. ASSUME NEW m \in Alignments(i, j)
      PROVE  Price(a, b, m) = PriceAt(s, t, i, j, m)
  <2>1. PICK kept : kept = DOMAIN m
    OBVIOUS
  <2>2. kept \subseteq 1 .. i /\ \A k \in kept : m[k] \in 1 .. j
    BY <2>1, AlignmentFacts
  <2>3. \A k \in kept : a[k] = s[k] /\ b[m[k]] = t[m[k]]
    BY <1>2, <2>2
  <2>4. {k \in kept : a[k] # b[m[k]]} = {k \in kept : s[k] # t[m[k]]}
    BY <2>3
  <2> QED
    BY <1>2, <2>1, <2>4 DEF Price, PriceAt, Unequal
<1>4. UNION {{Price(a, b, partner) : partner \in Alignment(kept, Len(b))} :
             kept \in SUBSET (1 .. Len(a))} = Prices(s, t, i, j)
  <2>1. ASSUME NEW kept \in SUBSET (1 .. i), NEW m \in Alignment(kept, j)
        PROVE  Price(a, b, m) \in Prices(s, t, i, j)
    <3>1. m \in Alignments(i, j)
      BY <2>1 DEF Alignments
    <3> QED
      BY <1>3, <3>1 DEF Prices
  <2>2. ASSUME NEW x \in Prices(s, t, i, j)
        PROVE  \E kept \in SUBSET (1 .. i) : \E m \in Alignment(kept, j) : x = Price(a, b, m)
    <3>1. PICK m \in Alignments(i, j) : x = PriceAt(s, t, i, j, m)
      BY DEF Prices
    <3>2. PICK kept \in SUBSET (1 .. i) : m \in Alignment(kept, j)
      BY DEF Alignments
    <3> QED
      BY <1>3, <3>1, <3>2
  <2> DEFINE U == UNION {{Price(a, b, partner) : partner \in Alignment(kept, j)} :
                         kept \in SUBSET (1 .. i)}
  <2>3. ASSUME NEW x
        PROVE  x \in U <=> \E kept \in SUBSET (1 .. i) : \E m \in Alignment(kept, j) :
                               x = Price(a, b, m)
    <3> DEFINE At(kept) == {Price(a, b, partner) : partner \in Alignment(kept, j)}
    <3>1. \A kept : x \in At(kept) <=> \E m \in Alignment(kept, j) : x = Price(a, b, m)
      OBVIOUS
    <3>2. U = UNION {At(kept) : kept \in SUBSET (1 .. i)}
      OBVIOUS
    <3> HIDE DEF At, U
    <3>3. x \in U <=> \E kept \in SUBSET (1 .. i) : x \in At(kept)
      BY <3>2
    <3> QED
      BY <3>1, <3>3
  <2> HIDE DEF U
  <2>4. ASSUME NEW x PROVE x \in U <=> x \in Prices(s, t, i, j)
    <3>1. CASE x \in U
      <4>1. PICK kept \in SUBSET (1 .. i) : \E m \in Alignment(kept, j) : x = Price(a, b, m)
        BY <2>3, <3>1
      <4> QED
        BY <2>1, <3>1, <4>1
    <3>2. CASE x \notin U
      BY <2>2, <2>3, <3>2
    <3> QED
      BY <3>1, <3>2
  <2>5. U = Prices(s, t, i, j)
    BY ONLY <2>4, Zenon
  <2> QED
    BY <1>2, <2>5 DEF U
<1>5. Distance(a, b) = D(s, t, i, j)
  BY <1>4 DEF Distance, D
<1> QED
  BY <1>1, <1>5

-----------------------------------------------------------------------------
(***************************************************************************)
(* The rows.                                                               *)
(***************************************************************************)

Row(s, t, i) == [j \in 0 .. Len(t) |-> D(s, t, i, j)]

LEMMA NextRowIs ==
    ASSUME NEW s, NEW t, words[1] = s, words[2] = t, Len(t) \in Nat,
           NEW i \in Nat \ {0}, row = Row(s, t, i - 1)
    PROVE  NextRow(i) = Row(s, t, i)
<1> DEFINE Body(g) ==
        [j \in 0 .. Len(t) |->
            IF j = 0 THEN i
            ELSE Least({row[j] + 1, g[j - 1] + 1, row[j - 1] + Cost(s, t, i, j)})]
<1>1. NextRow(i) = CHOOSE g : g = Body(g)
  BY DEF NextRow, Cost
<1>2. Row(s, t, i) = Body(Row(s, t, i))
  <2>1. D(s, t, i, 0) = i
    BY NothingConsumed
  <2>2. ASSUME NEW j \in 1 .. Len(t)
        PROVE  D(s, t, i, j) = Least({row[j] + 1, Row(s, t, i)[j - 1] + 1, row[j - 1] + Cost(s, t, i, j)})
    <3>1. /\ row[j] = D(s, t, i - 1, j) /\ row[j - 1] = D(s, t, i - 1, j - 1)
          /\ Row(s, t, i)[j - 1] = D(s, t, i, j - 1)
      BY DEF Row
    <3>2. j \in Nat \ {0}
      OBVIOUS
    <3>3. D(s, t, i, j) = Least({D(s, t, i - 1, j) + 1, D(s, t, i, j - 1) + 1,
                                 D(s, t, i - 1, j - 1) + Cost(s, t, i, j)})
      BY <3>2, Recurrence
    <3> QED
      BY <3>1, <3>3
  <2>3. ASSUME NEW j \in 0 .. Len(t) PROVE Row(s, t, i)[j] = Body(Row(s, t, i))[j]
    <3>1. Row(s, t, i)[j] = D(s, t, i, j)
      BY DEF Row
    <3>2. CASE j = 0
      BY <2>1, <3>1, <3>2
    <3>3. CASE j # 0
      BY <2>2, <3>1, <3>3
    <3> QED
      BY <3>2, <3>3
  <2> HIDE DEF Body
  <2>4. Row(s, t, i) \in [0 .. Len(t) -> Int]
    BY DIsLeast DEF Row
  <2> QED
    BY <2>3, <2>4 DEF Row, Body
<1>3. ASSUME NEW g, g = Body(g) PROVE g = Row(s, t, i)
  <2> DEFINE Wrong == {j \in 0 .. Len(t) : g[j] # Row(s, t, i)[j]}
  <2>1. CASE Wrong = {}
    <3>1. g = [j \in 0 .. Len(t) |-> g[j]]
      BY <1>3
    <3> QED
      BY <2>1, <3>1 DEF Row
  <2>2. CASE Wrong # {}
    <3>1. Wrong \in SUBSET Nat
      OBVIOUS
    <3>2. PICK j \in Wrong : \A k \in Wrong : j <= k
      BY ONLY <2>2, <3>1, LeastNatural, Zenon
    <3>3. CASE j = 0
      BY <1>2, <1>3, <3>2, <3>3
    <3>4. CASE j # 0
      <4>1. j - 1 \in 0 .. Len(t) /\ j - 1 \notin Wrong
        BY <3>2, <3>4
      <4>2. g[j - 1] = Row(s, t, i)[j - 1]
        BY <4>1
      <4>3. g[j] = Body(g)[j] /\ Row(s, t, i)[j] = Body(Row(s, t, i))[j]
        BY <1>2, <1>3
      <4>4. Body(g)[j] = Body(Row(s, t, i))[j]
        BY <3>4, <4>2
      <4> QED
        BY <3>2, <4>3, <4>4
    <3> QED
      BY <3>3, <3>4
  <2> QED
    BY <2>1, <2>2
<1> HIDE DEF Body
<1> QED
  BY <1>1, <1>2, <1>3

-----------------------------------------------------------------------------
(***************************************************************************)
(* Reading a label in one pass, from every position on: something is read  *)
(* there, and then the rest some characters on.                            *)
(***************************************************************************)

Joined(a, b) == a \o b

\* How far each of n positions moves on, never past the end.
Steps(n) == {step \in [1 .. n -> Nat \ {0}] : \A i \in 1 .. n : i + step[i] <= n + 1}

Pass(n, out, step, F) ==
    /\ F[n + 1] = <<>>
    /\ \A i \in 1 .. n : F[i] = Joined(out[i], F[i + step[i]])

\* Going backwards from the end of a label.
LEMMA Backwards ==
    ASSUME NEW n \in Nat, NEW S \in SUBSET (1 .. n + 1), n + 1 \in S,
           \A k \in 1 .. n : (k + 1 .. n + 1) \subseteq S => k \in S
    PROVE  S = 1 .. n + 1
<1> DEFINE Missing == {h \in 0 .. n : n + 1 - h \notin S}
<1>1. SUFFICES ASSUME Missing # {} PROVE FALSE
  <2>1. ASSUME NEW k \in 1 .. n + 1, Missing = {} PROVE k \in S
    <3>1. n + 1 - k \in 0 .. n /\ n + 1 - (n + 1 - k) = k
      OBVIOUS
    <3> QED
      BY <2>1, <3>1
  <2> QED
    BY <2>1
<1>2. Missing \in SUBSET Nat
  OBVIOUS
<1>3. PICK h \in Missing : \A x \in Missing : h <= x
  BY ONLY <1>1, <1>2, LeastNatural, Zenon
<1>4. PICK k \in 1 .. n + 1 : k = n + 1 - h
  OBVIOUS
<1>5. k \notin S /\ h \in 0 .. n
  BY <1>4
<1>6. ASSUME NEW l \in k + 1 .. n + 1 PROVE l \in S
  <2>1. PICK x \in 0 .. n : x = n + 1 - l
    BY <1>4
  <2>2. x < h /\ n + 1 - x = l
    BY <1>4, <1>5, <2>1
  <2>3. x \notin Missing
    BY <1>3, <1>5, <2>2
  <2> QED
    BY <2>1, <2>2, <2>3
<1>7. k \in 1 .. n
  BY <1>5
<1> QED
  BY <1>5, <1>6, <1>7

LEMMA PassExists ==
    ASSUME NEW n \in Nat, NEW out \in [1 .. n -> Seq(Letter)], NEW step \in Steps(n)
    PROVE  \E F \in [1 .. n + 1 -> Seq(Letter)] : Pass(n, out, step, F)
<1> step \in [1 .. n -> Nat \ {0}] /\ \A i \in 1 .. n : i + step[i] <= n + 1
  BY DEF Steps
<1> DEFINE Good(F, k) ==
              /\ F[n + 1] = <<>>
              /\ \A i \in k .. n : F[i] = Joined(out[i], F[i + step[i]])
           S == {k \in 1 .. n + 1 : \E F \in [1 .. n + 1 -> Seq(Letter)] : Good(F, k)}
<1>1. n + 1 \in S
  <2> DEFINE F == [i \in 1 .. n + 1 |-> <<>>]
  <2>1. F \in [1 .. n + 1 -> Seq(Letter)]
    OBVIOUS
  <2>2. Good(F, n + 1)
    <3>1. F[n + 1] = <<>> /\ n + 1 .. n = {}
      OBVIOUS
    <3> QED
      BY ONLY <3>1, Zenon
  <2> HIDE DEF F, Good
  <2> QED
    BY <2>1, <2>2
<1>2. ASSUME NEW k \in 1 .. n, (k + 1 .. n + 1) \subseteq S PROVE k \in S
  <2>1. PICK F \in [1 .. n + 1 -> Seq(Letter)] : Good(F, k + 1)
    <3> HIDE DEF Good
    <3>1. k + 1 \in k + 1 .. n + 1
      OBVIOUS
    <3>2. k + 1 \in S
      BY ONLY <1>2, <3>1, Zenon
    <3> QED
      BY <3>2
  <2>2. PICK l \in 1 .. n + 1 : l = k + step[k] /\ l # k
    OBVIOUS
  <2>3. PICK x \in Seq(Letter) : x = Joined(out[k], F[l])
    <3>1. out[k] \in Seq(Letter) /\ F[l] \in Seq(Letter)
      OBVIOUS
    <3> QED
      BY <3>1, ConcatProperties DEF Joined
  <2> DEFINE G == [F EXCEPT ![k] = x]
  <2>4. G \in [1 .. n + 1 -> Seq(Letter)] /\ G[k] = x
        /\ \A i \in 1 .. n + 1 : i # k => G[i] = F[i]
    OBVIOUS
  <2> HIDE DEF G
  <2>5. ASSUME NEW i \in k .. n
        PROVE  G[i] = Joined(out[i], G[i + step[i]])
    <3>1. CASE i = k
      BY <2>2, <2>3, <2>4, <3>1
    <3>2. CASE i # k
      <4>1. i \in k + 1 .. n /\ G[i] = F[i]
        BY <2>4, <3>2
      <4>2. PICK j \in 1 .. n + 1 : j = i + step[i] /\ j # k
        BY <4>1
      <4>3. G[j] = F[j]
        BY <2>4, <4>2
      <4>4. F[i] = Joined(out[i], F[j])
        BY <2>1, <4>1, <4>2
      <4> QED
        BY <4>1, <4>2, <4>3, <4>4
    <3> QED
      BY <3>1, <3>2
  <2>6. G[n + 1] = <<>>
    BY <2>1, <2>4
  <2>7. Good(G, k)
    BY <2>5, <2>6
  <2> HIDE DEF Good
  <2> QED
    BY <2>4, <2>7
<1>3. 1 \in S
  <2>1. S \in SUBSET (1 .. n + 1)
    OBVIOUS
  <2> HIDE DEF S
  <2>2. S = 1 .. n + 1
    BY <1>1, <1>2, <2>1, Backwards
  <2> QED
    BY <2>2
<1>4. PICK F \in [1 .. n + 1 -> Seq(Letter)] : Good(F, 1)
  <2> HIDE DEF Good
  <2> QED
    BY <1>3
<1> QED
  BY <1>4 DEF Pass

LEMMA PassIsUnique ==
    ASSUME NEW n \in Nat, NEW out, NEW step \in Steps(n),
           NEW F, NEW G, Pass(n, out, step, F), Pass(n, out, step, G)
    PROVE  \A i \in 1 .. n + 1 : F[i] = G[i]
<1> step \in [1 .. n -> Nat \ {0}] /\ \A i \in 1 .. n : i + step[i] <= n + 1
  BY DEF Steps
<1> DEFINE S == {k \in 1 .. n + 1 : F[k] = G[k]}
<1>1. /\ F[n + 1] = <<>> /\ G[n + 1] = <<>>
      /\ \A i \in 1 .. n : F[i] = Joined(out[i], F[i + step[i]])
      /\ \A i \in 1 .. n : G[i] = Joined(out[i], G[i + step[i]])
  BY DEF Pass
<1>2. n + 1 \in S
  BY <1>1
<1>3. ASSUME NEW k \in 1 .. n, (k + 1 .. n + 1) \subseteq S PROVE k \in S
  <2>1. PICK l \in k + 1 .. n + 1 : l = k + step[k]
    <3>1. step[k] \in Nat \ {0} /\ k + step[k] <= n + 1
      OBVIOUS
    <3> QED
      BY <3>1
  <2>2. F[l] = G[l]
    BY <1>3
  <2>3. F[k] = Joined(out[k], F[l]) /\ G[k] = Joined(out[k], G[l])
    BY <1>1, <2>1
  <2> QED
    BY <2>2, <2>3
<1>4. S = 1 .. n + 1
  <2>1. S \in SUBSET (1 .. n + 1)
    OBVIOUS
  <2> HIDE DEF S
  <2> QED
    BY <1>2, <1>3, <2>1, Backwards
<1> QED
  BY <1>4

-----------------------------------------------------------------------------
(***************************************************************************)
(* Reading a label in one pass with some of the confusables.               *)
(***************************************************************************)

LEMMA ConfusableCases ==
    \A c \in Confusables :
       \/ /\ c = <<<<"r", "n">>, <<"m">>>>
          /\ Len(c[1]) = 2 /\ c[1][1] = "r" /\ c[1][2] = "n" /\ c[2][1] = "m"
       \/ /\ c = <<<<"v", "v">>, <<"w">>>>
          /\ Len(c[1]) = 2 /\ c[1][1] = "v" /\ c[1][2] = "v" /\ c[2][1] = "w"
       \/ /\ c = <<<<"0">>, <<"o">>>>
          /\ Len(c[1]) = 1 /\ c[1][1] = "0" /\ c[2][1] = "o"
       \/ /\ c = <<<<"1">>, <<"l">>>>
          /\ Len(c[1]) = 1 /\ c[1][1] = "1" /\ c[2][1] = "l"
       \/ /\ c = <<<<"5">>, <<"s">>>>
          /\ Len(c[1]) = 1 /\ c[1][1] = "5" /\ c[2][1] = "s"
       \/ /\ c = <<<<"2">>, <<"z">>>>
          /\ Len(c[1]) = 1 /\ c[1][1] = "2" /\ c[2][1] = "z"
BY DEF Confusables

\* The confusables share no character that would make their order matter.
LEMMA ConfusableFacts ==
    /\ \A c \in Confusables :
          /\ c[1] \in Seq(Letter) /\ Len(c[1]) \in {1, 2}
          /\ c[2] \in Seq(Letter) /\ Len(c[2]) = 1
    /\ \A c, d \in Confusables :
          /\ c[1][1] = d[1][1] => c = d
          /\ c[1][1] # d[2][1]
          /\ Len(c[1]) = 2 => c[1][2] # d[2][1]
          /\ Len(c[1]) = 2 /\ c[1][2] = d[1][1] => c = d
<1>1. ASSUME NEW c \in Confusables
      PROVE  /\ c[1] \in Seq(Letter) /\ Len(c[1]) \in {1, 2}
             /\ c[2] \in Seq(Letter) /\ Len(c[2]) = 1
  <2>1. ASSUME NEW a \in Letter PROVE <<a>> \in Seq(Letter)
    OBVIOUS
  <2>2. ASSUME NEW a \in Letter, NEW b \in Letter PROVE <<a, b>> \in Seq(Letter)
    OBVIOUS
  <2>3. /\ "r" \in Letter /\ "n" \in Letter /\ "m" \in Letter /\ "v" \in Letter
        /\ "w" \in Letter /\ "0" \in Letter /\ "o" \in Letter /\ "1" \in Letter
        /\ "l" \in Letter /\ "5" \in Letter /\ "s" \in Letter /\ "2" \in Letter
        /\ "z" \in Letter
    BY DEF Letter
  <2>4. /\ <<"r", "n">> \in Seq(Letter) /\ <<"v", "v">> \in Seq(Letter)
        /\ <<"0">> \in Seq(Letter) /\ <<"1">> \in Seq(Letter)
        /\ <<"5">> \in Seq(Letter) /\ <<"2">> \in Seq(Letter)
    BY <2>1, <2>2, <2>3, Zenon
  <2>5. /\ <<"m">> \in Seq(Letter) /\ <<"w">> \in Seq(Letter) /\ <<"o">> \in Seq(Letter)
        /\ <<"l">> \in Seq(Letter) /\ <<"s">> \in Seq(Letter) /\ <<"z">> \in Seq(Letter)
    BY <2>1, <2>3, Zenon
  <2>6. /\ c[1] \in {<<"r", "n">>, <<"v", "v">>, <<"0">>, <<"1">>, <<"5">>, <<"2">>}
        /\ c[2] \in {<<"m">>, <<"w">>, <<"o">>, <<"l">>, <<"s">>, <<"z">>}
    BY DEF Confusables
  <2>7. c[1] \in Seq(Letter) /\ c[2] \in Seq(Letter)
    BY ONLY <2>4, <2>5, <2>6, Zenon
  <2>8. Len(c[1]) \in {1, 2} /\ Len(c[2]) = 1
    BY DEF Confusables
  <2> QED
    BY <2>7, <2>8
<1>2. ASSUME NEW c \in Confusables, NEW d \in Confusables
      PROVE  /\ c[1][1] = d[1][1] => c = d
             /\ c[1][1] # d[2][1]
             /\ Len(c[1]) = 2 => c[1][2] # d[2][1]
             /\ Len(c[1]) = 2 /\ c[1][2] = d[1][1] => c = d
  <2>1. /\ c[1][1] = d[1][1] => c = d
        /\ Len(c[1]) = 2 /\ c[1][2] = d[1][1] => c = d
    BY ConfusableCases
  <2>2. /\ c[1][1] # d[2][1]
        /\ Len(c[1]) = 2 => c[1][2] # d[2][1]
    BY ConfusableCases
  <2> QED
    BY <2>1, <2>2
<1> QED
  BY <1>1, <1>2

LEMMA OccursIff ==
    ASSUME NEW s \in Seq(Letter), NEW i \in 1 .. Len(s), NEW c \in Confusables
    PROVE  Occurs(c[1], s, i) <=>
               /\ s[i] = c[1][1]
               /\ Len(c[1]) = 2 => i + 1 <= Len(s) /\ s[i + 1] = c[1][2]
<1>1. PICK old \in Seq(Letter) : old = c[1] /\ Len(old) \in {1, 2}
  BY ConfusableFacts
<1>2. CASE Len(old) = 1
  <2>1. i + Len(old) - 1 = i
    BY <1>2
  <2>2. SubSeq(s, i, i) \in Seq(Letter) /\ Len(SubSeq(s, i, i)) = 1 /\ SubSeq(s, i, i)[1] = s[i]
    OBVIOUS
  <2>3. SubSeq(s, i, i) = old <=> s[i] = old[1]
    BY <1>2, <2>2, SeqEqual
  <2> QED
    BY <1>1, <1>2, <2>1, <2>3 DEF Occurs
<1>3. CASE Len(old) = 2
  <2>1. i + Len(old) - 1 = i + 1
    BY <1>3
  <2>2. CASE i + 1 <= Len(s)
    <3>1. SubSeq(s, i, i + 1) \in Seq(Letter) /\ Len(SubSeq(s, i, i + 1)) = 2
      BY <2>2
    <3>2. SubSeq(s, i, i + 1)[1] = s[i]
      BY <2>2
    <3>3. SubSeq(s, i, i + 1)[2] = s[i + 1]
      BY <2>2
    <3>4. /\ SubSeq(s, i, i + 1) \in Seq(Letter) /\ Len(SubSeq(s, i, i + 1)) = 2
          /\ SubSeq(s, i, i + 1)[1] = s[i] /\ SubSeq(s, i, i + 1)[2] = s[i + 1]
      BY <3>1, <3>2, <3>3
    <3>5. SubSeq(s, i, i + 1) = old <=> s[i] = old[1] /\ s[i + 1] = old[2]
      <4>1. PICK part \in Seq(Letter) : part = SubSeq(s, i, i + 1)
        BY <3>4
      <4>2. /\ Len(part) = 2 /\ Len(old) = 2 /\ part[1] = s[i] /\ part[2] = s[i + 1]
            /\ \A k \in 1 .. 2 : k = 1 \/ k = 2
        BY <1>3, <3>4, <4>1
      <4>3. part = old <=> part[1] = old[1] /\ part[2] = old[2]
        BY ONLY <4>2, part \in Seq(Letter), old \in Seq(Letter), SeqEqual
      <4> QED
        BY <4>1, <4>2, <4>3
    <3> QED
      BY <1>1, <1>3, <2>1, <2>2, <3>5 DEF Occurs
  <2>3. CASE ~(i + 1 <= Len(s))
    BY <1>1, <1>3, <2>1, <2>3 DEF Occurs
  <2> QED
    BY <2>2, <2>3
<1> QED
  BY <1>1, <1>2, <1>3

LEMMA OccursFirst ==
    ASSUME NEW s \in Seq(Letter), Len(s) >= 1, NEW c \in Confusables
    PROVE  Occurs(c[1], s, 1) <=>
               /\ s[1] = c[1][1]
               /\ Len(c[1]) = 2 => 2 <= Len(s) /\ s[2] = c[1][2]
<1>1. PICK i \in 1 .. Len(s) : i = 1 /\ i + 1 = 2
  OBVIOUS
<1>2. Occurs(c[1], s, i) <=>
          /\ s[i] = c[1][1]
          /\ Len(c[1]) = 2 => i + 1 <= Len(s) /\ s[i + 1] = c[1][2]
  BY OccursIff
<1> QED
  BY ONLY <1>1, <1>2

Here(C, s, i) == {c \in C : Occurs(c[1], s, i)}

Chosen(S) == CHOOSE c \in S : TRUE

Out(C, s) ==
    [i \in 1 .. Len(s) |->
        IF Here(C, s, i) = {} THEN <<s[i]>> ELSE Chosen(Here(C, s, i))[2]]

Step(C, s) ==
    [i \in 1 .. Len(s) |->
        IF Here(C, s, i) = {} THEN 1 ELSE Len(Chosen(Here(C, s, i))[1])]

ReadFrom(C, s) ==
    CHOOSE F \in [1 .. Len(s) + 1 -> Seq(Letter)] : Pass(Len(s), Out(C, s), Step(C, s), F)

Read(C, s) == ReadFrom(C, s)[1]

LEMMA OneHere ==
    ASSUME NEW s \in Seq(Letter), NEW i \in 1 .. Len(s),
           NEW c \in Confusables, NEW d \in Confusables,
           Occurs(c[1], s, i), Occurs(d[1], s, i)
    PROVE  c = d
<1>1. s[i] = c[1][1] /\ s[i] = d[1][1]
  BY OccursIff
<1> QED
  BY <1>1, ConfusableFacts

LEMMA SomethingHere ==
    ASSUME NEW C \in SUBSET Confusables, NEW s \in Seq(Letter), NEW i \in 1 .. Len(s),
           NEW c \in C, Occurs(c[1], s, i)
    PROVE  Out(C, s)[i] = c[2] /\ Step(C, s)[i] = Len(c[1])
<1>1. c \in Here(C, s, i) /\ \A d \in Here(C, s, i) : d = c
  BY OneHere DEF Here
<1>2. Chosen(Here(C, s, i)) = c
  BY <1>1 DEF Chosen
<1> QED
  BY <1>1, <1>2 DEF Out, Step

LEMMA NothingHere ==
    ASSUME NEW C \in SUBSET Confusables, NEW s \in Seq(Letter), NEW i \in 1 .. Len(s),
           \A c \in C : ~Occurs(c[1], s, i)
    PROVE  Out(C, s)[i] = <<s[i]>> /\ Step(C, s)[i] = 1
<1>1. Here(C, s, i) = {}
  BY DEF Here
<1> QED
  BY <1>1 DEF Out, Step

LEMMA OutAndStep ==
    ASSUME NEW C \in SUBSET Confusables, NEW s \in Seq(Letter)
    PROVE  /\ Out(C, s) \in [1 .. Len(s) -> Seq(Letter)]
           /\ Step(C, s) \in Steps(Len(s))
<1>1. ASSUME NEW i \in 1 .. Len(s)
      PROVE  /\ Out(C, s)[i] \in Seq(Letter) /\ Step(C, s)[i] \in Nat \ {0}
             /\ i + Step(C, s)[i] <= Len(s) + 1
  <2>1. CASE \E c \in C : Occurs(c[1], s, i)
    <3>1. PICK c \in C : Occurs(c[1], s, i)
      BY <2>1
    <3>2. c \in Confusables /\ c[2] \in Seq(Letter) /\ Len(c[1]) \in {1, 2}
      BY ConfusableFacts
    <3>3. i + Len(c[1]) <= Len(s) + 1
      BY <3>1, <3>2 DEF Occurs
    <3>4. Out(C, s)[i] = c[2] /\ Step(C, s)[i] = Len(c[1])
      BY ONLY C \in SUBSET Confusables, s \in Seq(Letter), i \in 1 .. Len(s), c \in C,
              <3>1, SomethingHere
    <3>5. PICK l \in {1, 2} : l = Len(c[1])
      BY <3>2
    <3>6. i + l <= Len(s) + 1
      BY <3>3, <3>5
    <3>7. l \in Nat \ {0}
      OBVIOUS
    <3> QED
      BY <3>2, <3>4, <3>5, <3>6, <3>7
  <2>2. CASE \A c \in C : ~Occurs(c[1], s, i)
    <3>1. Out(C, s)[i] = <<s[i]>> /\ Step(C, s)[i] = 1
      BY <2>2, NothingHere
    <3>2. s[i] \in Letter
      OBVIOUS
    <3> QED
      BY <3>1, <3>2
  <2> QED
    BY <2>1, <2>2
<1>2. /\ Out(C, s) = [i \in 1 .. Len(s) |-> Out(C, s)[i]]
      /\ Step(C, s) = [i \in 1 .. Len(s) |-> Step(C, s)[i]]
  BY DEF Out, Step
<1> QED
  BY <1>1, <1>2 DEF Steps

LEMMA ReadFromIs ==
    ASSUME NEW C \in SUBSET Confusables, NEW s \in Seq(Letter)
    PROVE  /\ ReadFrom(C, s) \in [1 .. Len(s) + 1 -> Seq(Letter)]
           /\ Pass(Len(s), Out(C, s), Step(C, s), ReadFrom(C, s))
<1>1. Len(s) \in Nat
  OBVIOUS
<1>2. \E F \in [1 .. Len(s) + 1 -> Seq(Letter)] : Pass(Len(s), Out(C, s), Step(C, s), F)
  BY <1>1, OutAndStep, PassExists
<1> QED
  BY <1>2 DEF ReadFrom

LEMMA OnlyReadFrom ==
    ASSUME NEW C \in SUBSET Confusables, NEW s \in Seq(Letter),
           NEW F, Pass(Len(s), Out(C, s), Step(C, s), F)
    PROVE  \A i \in 1 .. Len(s) + 1 : F[i] = ReadFrom(C, s)[i]
<1>1. Len(s) \in Nat
  OBVIOUS
<1>2. Step(C, s) \in Steps(Len(s))
  BY OutAndStep
<1>3. Pass(Len(s), Out(C, s), Step(C, s), ReadFrom(C, s))
  BY ReadFromIs
<1>4. PICK n \in Nat, G \in {ReadFrom(C, s)} : n = Len(s) /\ G = ReadFrom(C, s)
  BY <1>1
<1>5. PICK out : out = Out(C, s)
  OBVIOUS
<1>6. PICK step : step = Step(C, s)
  OBVIOUS
<1>7. step \in Steps(n) /\ Pass(n, out, step, F) /\ Pass(n, out, step, G)
  BY <1>3, <1>2, <1>4, <1>5, <1>6
<1>8. \A i \in 1 .. n + 1 : F[i] = G[i]
  BY ONLY n \in Nat, <1>7, PassIsUnique
<1> QED
  BY <1>4, <1>8

\* A character in front of a label moves what is read after it by one place.
LEMMA Shifted ==
    ASSUME NEW C \in SUBSET Confusables, NEW x \in Letter, NEW v \in Seq(Letter),
           NEW u \in Seq(Letter), u = Joined(<<x>>, v)
    PROVE  \A i \in 1 .. Len(v) + 1 : ReadFrom(C, u)[i + 1] = ReadFrom(C, v)[i]
<1>1. /\ Len(u) = Len(v) + 1 /\ u[1] = x
      /\ \A i \in 1 .. Len(v) : u[i + 1] = v[i]
  BY DEF Joined
<1>2. PICK n \in Nat : n = Len(v)
  OBVIOUS
<1>3. ASSUME NEW i \in 1 .. n, NEW c \in Confusables
      PROVE  Occurs(c[1], u, i + 1) <=> Occurs(c[1], v, i)
  <2>1. i + 1 \in 1 .. Len(u) /\ i \in 1 .. Len(v) /\ u[i + 1] = v[i]
    BY <1>1, <1>2
  <2>2. i + 1 <= Len(v) => u[i + 2] = v[i + 1]
    <3>1. i + 1 <= n => i + 1 \in 1 .. n /\ i + 1 + 1 = i + 2
      OBVIOUS
    <3> QED
      BY <1>1, <1>2, <3>1
  <2>3. i + 1 + 1 = i + 2 /\ (i + 2 <= n + 1 <=> i + 1 <= n)
    OBVIOUS
  <2>4. Occurs(c[1], u, i + 1) <=>
            u[i + 1] = c[1][1] /\ (Len(c[1]) = 2 => i + 2 <= Len(u) /\ u[i + 1 + 1] = c[1][2])
    BY <2>1, OccursIff
  <2>5. Occurs(c[1], v, i) <=>
            v[i] = c[1][1] /\ (Len(c[1]) = 2 => i + 1 <= Len(v) /\ v[i + 1] = c[1][2])
    BY <2>1, OccursIff
  <2> QED
    BY <1>1, <1>2, <2>1, <2>2, <2>3, <2>4, <2>5
<1>4. ASSUME NEW i \in 1 .. n
      PROVE  Out(C, u)[i + 1] = Out(C, v)[i] /\ Step(C, u)[i + 1] = Step(C, v)[i]
  <2>1. Here(C, u, i + 1) = Here(C, v, i)
    BY <1>3 DEF Here
  <2>2. i + 1 \in 1 .. Len(u) /\ i \in 1 .. Len(v) /\ u[i + 1] = v[i]
    BY <1>1, <1>2
  <2>3. /\ Out(C, u)[i + 1] = IF Here(C, u, i + 1) = {} THEN <<u[i + 1]>>
                              ELSE Chosen(Here(C, u, i + 1))[2]
        /\ Step(C, u)[i + 1] = IF Here(C, u, i + 1) = {} THEN 1
                               ELSE Len(Chosen(Here(C, u, i + 1))[1])
    BY <2>2 DEF Out, Step
  <2>4. /\ Out(C, v)[i] = IF Here(C, v, i) = {} THEN <<v[i]>> ELSE Chosen(Here(C, v, i))[2]
        /\ Step(C, v)[i] = IF Here(C, v, i) = {} THEN 1 ELSE Len(Chosen(Here(C, v, i))[1])
    BY <2>2 DEF Out, Step
  <2> QED
    BY ONLY <2>1, <2>2, <2>3, <2>4
<1> DEFINE F == [i \in 1 .. n + 1 |-> ReadFrom(C, u)[i + 1]]
<1>5. /\ ReadFrom(C, u)[n + 2] = <<>>
      /\ \A i \in 1 .. n : ReadFrom(C, u)[i + 1] =
             Joined(Out(C, u)[i + 1], ReadFrom(C, u)[i + 1 + Step(C, u)[i + 1]])
  <2>1. Pass(Len(u), Out(C, u), Step(C, u), ReadFrom(C, u))
    BY ReadFromIs
  <2>2. Len(u) = n + 1 /\ n + 1 + 1 = n + 2 /\ \A i \in 1 .. n : i + 1 \in 1 .. n + 1
    BY <1>1, <1>2
  <2> QED
    BY <2>1, <2>2 DEF Pass
<1>6. Step(C, v) \in Steps(n)
  BY <1>2, OutAndStep
<1>7. ASSUME NEW i \in 1 .. n
      PROVE  F[i] = Joined(Out(C, v)[i], F[i + Step(C, v)[i]])
  <2>1. PICK d \in Nat \ {0} : d = Step(C, v)[i] /\ i + d <= n + 1
    BY <1>6 DEF Steps
  <2>2. i + d \in 1 .. n + 1 /\ i + d + 1 = i + 1 + d /\ i \in 1 .. n + 1
    BY <2>1
  <2>3. F[i + d] = ReadFrom(C, u)[i + 1 + d] /\ F[i] = ReadFrom(C, u)[i + 1]
    BY <2>2
  <2> HIDE DEF F
  <2> QED
    BY <1>4, <1>5, <2>1, <2>3
<1>8. F[n + 1] = <<>>
  <2>1. n + 1 \in 1 .. n + 1 /\ n + 1 + 1 = n + 2
    OBVIOUS
  <2> QED
    BY <1>5, <2>1
<1>9. Pass(Len(v), Out(C, v), Step(C, v), F)
  <2> HIDE DEF F
  <2> QED
    BY <1>2, <1>7, <1>8 DEF Pass
<1>10. \A i \in 1 .. Len(v) + 1 : F[i] = ReadFrom(C, v)[i]
  <2> HIDE DEF F
  <2> QED
    BY <1>9, OnlyReadFrom
<1> QED
  BY <1>2, <1>10

\* What one confusable makes of a label, by its first characters.
LEMMA ReadNothing ==
    ASSUME NEW C \in SUBSET Confusables
    PROVE  Read(C, <<>>) = <<>>
<1>1. <<>> \in Seq(Letter) /\ Len(<<>>) + 1 = 1
  OBVIOUS
<1> QED
  BY <1>1, ReadFromIs DEF Read, Pass

LEMMA ReadFirst ==
    ASSUME NEW C \in SUBSET Confusables, NEW u \in Seq(Letter), Len(u) >= 1
    PROVE  Read(C, u) = Joined(Out(C, u)[1], ReadFrom(C, u)[1 + Step(C, u)[1]])
<1>1. 1 \in 1 .. Len(u)
  OBVIOUS
<1> QED
  BY <1>1, ReadFromIs DEF Read, Pass

LEMMA ReadOther ==
    ASSUME NEW C \in SUBSET Confusables, NEW x \in Letter, NEW v \in Seq(Letter),
           NEW u \in Seq(Letter), u = Joined(<<x>>, v),
           \A c \in C : ~Occurs(c[1], u, 1)
    PROVE  Read(C, u) = Joined(<<x>>, Read(C, v))
<1>1. Len(u) >= 1 /\ u[1] = x /\ 1 \in 1 .. Len(u) /\ 1 \in 1 .. Len(v) + 1
  BY DEF Joined
<1>2. Out(C, u)[1] = <<x>> /\ Step(C, u)[1] = 1
  BY <1>1, NothingHere
<1>3. ReadFrom(C, u)[1 + 1] = ReadFrom(C, v)[1]
  BY <1>1, Shifted
<1> QED
  BY <1>1, <1>2, <1>3, ReadFirst DEF Read

LEMMA ReadOne ==
    ASSUME NEW C \in SUBSET Confusables, NEW x \in Letter, NEW v \in Seq(Letter),
           NEW u \in Seq(Letter), u = Joined(<<x>>, v),
           NEW c \in C, Occurs(c[1], u, 1), Len(c[1]) = 1
    PROVE  Read(C, u) = Joined(c[2], Read(C, v))
<1>1. Len(u) >= 1 /\ 1 \in 1 .. Len(u) /\ 1 \in 1 .. Len(v) + 1
  BY DEF Joined
<1>2. Out(C, u)[1] = c[2] /\ Step(C, u)[1] = 1
  BY ONLY C \in SUBSET Confusables, u \in Seq(Letter), <1>1, c \in C, Occurs(c[1], u, 1),
          Len(c[1]) = 1, SomethingHere
<1>3. ReadFrom(C, u)[1 + 1] = ReadFrom(C, v)[1]
  BY <1>1, Shifted
<1> QED
  BY <1>1, <1>2, <1>3, ReadFirst DEF Read

\* u is the character x in front of v.
Starts(u, x, v) ==
    x \in Letter /\ v \in Seq(Letter) /\ u \in Seq(Letter) /\ u = Joined(<<x>>, v)

LEMMA ReadTwo ==
    ASSUME NEW C \in SUBSET Confusables, NEW c \in C,
           NEW x, NEW y, NEW u, NEW v, NEW w, Starts(u, x, v), Starts(v, y, w),
           Occurs(c[1], u, 1), Len(c[1]) = 2
    PROVE  Read(C, u) = Joined(c[2], Read(C, w))
<1> /\ x \in Letter /\ y \in Letter /\ u = Joined(<<x>>, v) /\ v = Joined(<<y>>, w)
    /\ u \in Seq(Letter) /\ v \in Seq(Letter) /\ w \in Seq(Letter)
  BY DEF Starts
<1>1. /\ Len(u) >= 1 /\ 1 \in 1 .. Len(u) /\ 2 \in 1 .. Len(v) + 1
      /\ 1 \in 1 .. Len(w) + 1
  BY DEF Joined
<1>2. Out(C, u)[1] = c[2] /\ Step(C, u)[1] = 2
  <2>1. 1 \in 1 .. Len(u)
    BY <1>1
  <2>2. Out(C, u)[1] = c[2] /\ Step(C, u)[1] = Len(c[1])
    BY ONLY C \in SUBSET Confusables, u \in Seq(Letter), <2>1, c \in C, Occurs(c[1], u, 1),
            SomethingHere
  <2> QED
    BY <2>2
<1>3. ReadFrom(C, u)[2 + 1] = ReadFrom(C, v)[2]
  <2>1. \A i \in 1 .. Len(v) + 1 : ReadFrom(C, u)[i + 1] = ReadFrom(C, v)[i]
    BY Shifted
  <2> QED
    BY <1>1, <2>1
<1>4. ReadFrom(C, v)[1 + 1] = ReadFrom(C, w)[1]
  BY <1>1, Shifted
<1> QED
  BY <1>1, <1>2, <1>3, <1>4, ReadFirst DEF Read

\* What is read from a position of a label on.
LEMMA ReadFromHere ==
    ASSUME NEW C \in SUBSET Confusables, NEW s \in Seq(Letter), NEW i \in 1 .. Len(s),
           NEW c \in C, Occurs(c[1], s, i)
    PROVE  /\ ReadFrom(C, s)[i] = Joined(c[2], ReadFrom(C, s)[i + Len(c[1])])
           /\ i + Len(c[1]) \in i + 1 .. Len(s) + 1
<1>1. Out(C, s)[i] = c[2] /\ Step(C, s)[i] = Len(c[1])
  BY ONLY C \in SUBSET Confusables, s \in Seq(Letter), i \in 1 .. Len(s), c \in C,
          Occurs(c[1], s, i), SomethingHere
<1>2. Pass(Len(s), Out(C, s), Step(C, s), ReadFrom(C, s))
  BY ReadFromIs
<1>3. Len(c[1]) \in {1, 2}
  BY ConfusableFacts
<1>4. i + Len(c[1]) - 1 <= Len(s)
  BY DEF Occurs
<1>5. ReadFrom(C, s)[i] = Joined(Out(C, s)[i], ReadFrom(C, s)[i + Step(C, s)[i]])
  BY <1>2 DEF Pass
<1>6. PICK l \in {1, 2} : l = Len(c[1])
  BY <1>3
<1>7. i + l \in i + 1 .. Len(s) + 1
  <2>1. PICK m \in Nat : m = Len(s)
    OBVIOUS
  <2>2. i \in Nat /\ i + l - 1 <= m
    BY <1>4, <1>6, <2>1
  <2>3. i + l \in i + 1 .. m + 1
    BY <2>2
  <2> QED
    BY <2>1, <2>3
<1> QED
  BY ONLY <1>1, <1>5, <1>6, <1>7

LEMMA ReadFromThrough ==
    ASSUME NEW C \in SUBSET Confusables, NEW s \in Seq(Letter), NEW i \in 1 .. Len(s),
           \A c \in C : ~Occurs(c[1], s, i)
    PROVE  ReadFrom(C, s)[i] = Joined(<<s[i]>>, ReadFrom(C, s)[i + 1])
<1>1. Out(C, s)[i] = <<s[i]>> /\ Step(C, s)[i] = 1
  BY NothingHere
<1>2. Pass(Len(s), Out(C, s), Step(C, s), ReadFrom(C, s))
  BY ReadFromIs
<1> QED
  BY <1>1, <1>2 DEF Pass

LEMMA ReadFromType ==
    ASSUME NEW C \in SUBSET Confusables, NEW s \in Seq(Letter)
    PROVE  /\ \A i \in 1 .. Len(s) + 1 : ReadFrom(C, s)[i] \in Seq(Letter)
           /\ ReadFrom(C, s)[Len(s) + 1] = <<>>
           /\ Read(C, s) \in Seq(Letter)
<1>1. 1 \in 1 .. Len(s) + 1
  OBVIOUS
<1> QED
  BY <1>1, ReadFromIs DEF Pass, Read

\* The first character read from a position on is the one there, or one that
\* a confusable is read as.
LEMMA FirstRead ==
    ASSUME NEW C \in SUBSET Confusables, NEW s \in Seq(Letter), NEW i \in 1 .. Len(s)
    PROVE  /\ ReadFrom(C, s)[i] # <<>>
           /\ \/ ReadFrom(C, s)[i][1] = s[i]
              \/ \E d \in C : ReadFrom(C, s)[i][1] = d[2][1]
<1>1. CASE \E d \in C : Occurs(d[1], s, i)
  <2>1. PICK d \in C : Occurs(d[1], s, i)
    BY <1>1
  <2>2. PICK k \in 1 .. Len(s) + 1 : k = i + Len(d[1]) /\ ReadFrom(C, s)[i] = Joined(d[2], ReadFrom(C, s)[k])
    BY <2>1, ReadFromHere
  <2>3. PICK f \in Seq(Letter) : f = ReadFrom(C, s)[k]
    BY ReadFromType
  <2>4. PICK new \in Seq(Letter) : new = d[2] /\ Len(new) = 1
    BY ConfusableFacts
  <2>5. Joined(new, f)[1] = new[1] /\ Joined(new, f) # <<>>
    BY <2>4 DEF Joined
  <2> QED
    BY <2>2, <2>3, <2>4, <2>5
<1>2. CASE \A d \in C : ~Occurs(d[1], s, i)
  <2>1. ReadFrom(C, s)[i] = Joined(<<s[i]>>, ReadFrom(C, s)[i + 1])
    BY <1>2, ReadFromThrough
  <2>2. PICK f \in Seq(Letter) : f = ReadFrom(C, s)[i + 1]
    BY ReadFromType
  <2>3. PICK x \in Letter : x = s[i]
    OBVIOUS
  <2>4. Joined(<<x>>, f)[1] = x /\ Joined(<<x>>, f) # <<>>
    BY DEF Joined
  <2> QED
    BY <2>1, <2>2, <2>3, <2>4
<1> QED
  BY <1>1, <1>2

\* Folding one more confusable after others is reading them all at once.
LEMMA Fused ==
    ASSUME NEW C \in SUBSET Confusables, NEW c \in Confusables, c \notin C,
           NEW s \in Seq(Letter)
    PROVE  Read({c}, Read(C, s)) = Read(C \union {c}, s)
<1> DEFINE F == ReadFrom(C, s)
           B == C \union {c}
           H == ReadFrom(B, s)
           n == Len(s)
           S == {k \in 1 .. n + 1 : Read({c}, F[k]) = H[k]}
<1>1. /\ n \in Nat /\ B \in SUBSET Confusables /\ {c} \in SUBSET Confusables
      /\ c \in {c} /\ c \in B /\ \A d \in C : d \in B
  OBVIOUS
<1>2. \A k \in 1 .. n + 1 : F[k] \in Seq(Letter)
  BY ReadFromType
<1>3. n + 1 \in S
  <2>1. F[n + 1] = <<>> /\ H[n + 1] = <<>>
    BY <1>1, ReadFromType
  <2>2. Read({c}, <<>>) = <<>>
    BY <1>1, ReadNothing
  <2> QED
    BY <1>1, <2>1, <2>2
<1>4. ASSUME NEW k \in 1 .. n, (k + 1 .. n + 1) \subseteq S PROVE k \in S
  <2> HIDE DEF F, B, H
  <2>1. PICK u \in Seq(Letter) : u = F[k]
    BY <1>2
  <2>2. \A l \in k + 1 .. n + 1 : Read({c}, F[l]) = H[l] /\ F[l] \in Seq(Letter)
    BY <1>2, <1>4
  <2>3. SUFFICES Read({c}, u) = H[k]
    BY <2>1
  <2>4. CASE \E d \in C : Occurs(d[1], s, k)
    <3>1. PICK d \in C : Occurs(d[1], s, k)
      BY <2>4
    <3>2. PICK l \in k + 1 .. n + 1 : l = k + Len(d[1]) /\ F[k] = Joined(d[2], F[l])
      BY ONLY C \in SUBSET Confusables, s \in Seq(Letter), k \in 1 .. n, d \in C, <3>1,
              ReadFromHere DEF F, n
    <3>3. H[k] = Joined(d[2], H[l])
      <4>1. d \in B
        BY <1>1
      <4> QED
        BY ONLY <1>1, s \in Seq(Letter), k \in 1 .. n, <4>1, <3>1,
                <3>2, ReadFromHere DEF H, n
    <3>4. PICK new \in Seq(Letter) : new = d[2] /\ Len(new) = 1
      BY ConfusableFacts
    <3>5. PICK x \in Letter : x = new[1] /\ new = <<x>>
      BY <3>4
    <3>6. PICK v \in Seq(Letter) : v = F[l]
      BY <2>2
    <3>7. u = Joined(<<x>>, v)
      BY <2>1, <3>2, <3>4, <3>5, <3>6
    <3>8. ~Occurs(c[1], u, 1)
      <4>1. 1 \in 1 .. Len(u) /\ u[1] = x
        BY <3>7 DEF Joined
      <4>2. c[1][1] # x
        BY <3>4, <3>5, ConfusableFacts
      <4>3. Occurs(c[1], u, 1) => u[1] = c[1][1]
        BY <4>1, OccursIff
      <4> QED
        BY ONLY <4>1, <4>2, <4>3
    <3>9. Read({c}, u) = Joined(<<x>>, Read({c}, v))
      BY <1>1, <3>7, <3>8, ReadOther
    <3> QED
      BY <2>2, <3>3, <3>4, <3>5, <3>6, <3>9
  <2>5. CASE \A d \in C : ~Occurs(d[1], s, k)
    <3>1. F[k] = Joined(<<s[k]>>, F[k + 1])
      BY <2>5, ReadFromThrough DEF F
    <3>2. PICK x \in Letter, v \in Seq(Letter) : x = s[k] /\ v = F[k + 1]
      BY <1>2
    <3>3. u = Joined(<<x>>, v)
      BY <2>1, <3>1, <3>2
    <3>4. Read({c}, v) = H[k + 1]
      <4>1. k + 1 \in k + 1 .. n + 1
        OBVIOUS
      <4> QED
        BY <2>2, <3>2, <4>1
    <3>5. Len(u) >= 1 /\ Len(u) = Len(v) + 1 /\ u[1] = x
          /\ (Len(v) >= 1 => u[2] = v[1])
      BY <3>3 DEF Joined
    <3>6. CASE Occurs(c[1], s, k)
      <4>1. /\ s[k] = c[1][1]
            /\ Len(c[1]) = 2 => k + 1 <= n /\ s[k + 1] = c[1][2]
        BY <3>6, OccursIff
      <4>2. H[k] = Joined(c[2], H[k + Len(c[1])])
        BY <1>1, <3>6, ReadFromHere DEF H
      <4>3. CASE Len(c[1]) = 1
        <5>1. Occurs(c[1], u, 1)
          <6>1. u[1] = c[1][1] /\ ~(Len(c[1]) = 2)
            BY <3>2, <3>5, <4>1, <4>3
          <6>2. Len(u) >= 1
            BY <3>5
          <6>3. Occurs(c[1], u, 1) <=>
                    /\ u[1] = c[1][1]
                    /\ Len(c[1]) = 2 => 2 <= Len(u) /\ u[2] = c[1][2]
            BY ONLY u \in Seq(Letter), c \in Confusables, <6>2, OccursFirst
          <6> QED
            BY ONLY <6>1, <6>3, Zenon
        <5>2. Read({c}, u) = Joined(c[2], Read({c}, v))
          <6>1. PICK E \in SUBSET Confusables : E = {c} /\ c \in E
            BY <1>1
          <6>2. Read(E, u) = Joined(c[2], Read(E, v))
            BY ONLY x \in Letter, v \in Seq(Letter), u \in Seq(Letter), <3>3, <4>3, <5>1,
                    <6>1, ReadOne
          <6> QED
            BY <6>1, <6>2
        <5> QED
          BY <3>4, <4>2, <4>3, <5>2
      <4>4. CASE Len(c[1]) = 2
        <5>1. k + 1 \in 1 .. n /\ s[k + 1] = c[1][2]
          BY <4>1, <4>4
        <5>2. \A d \in C : ~Occurs(d[1], s, k + 1)
          BY <4>4, <5>1, OccursIff, ConfusableFacts
        <5>3. F[k + 1] = Joined(<<s[k + 1]>>, F[k + 1 + 1])
          BY <5>1, <5>2, ReadFromThrough DEF F
        <5>4. k + 1 + 1 = k + 2 /\ k + 2 \in k + 1 .. n + 1
          BY <5>1
        <5>5. PICK y \in Letter : y = s[k + 1]
          BY <5>1
        <5>6. PICK w \in Seq(Letter) : w = F[k + 2]
          BY <2>2, <5>4
        <5>7. v = Joined(<<y>>, w)
          BY <3>2, <5>3, <5>4, <5>5, <5>6
        <5>8. Len(v) >= 1 /\ v[1] = y
          BY <5>7 DEF Joined
        <5>9. Occurs(c[1], u, 1)
          <6>1. 2 <= Len(u) /\ u[2] = c[1][2] /\ u[1] = c[1][1]
            BY <3>2, <3>5, <4>1, <5>1, <5>5, <5>8
          <6>2. Len(u) >= 1
            BY <3>5
          <6>3. Occurs(c[1], u, 1) <=>
                    /\ u[1] = c[1][1]
                    /\ Len(c[1]) = 2 => 2 <= Len(u) /\ u[2] = c[1][2]
            BY ONLY u \in Seq(Letter), c \in Confusables, <6>2, OccursFirst
          <6> QED
            BY ONLY <6>1, <6>3, Zenon
        <5>10. Read({c}, u) = Joined(c[2], Read({c}, w))
          <6>1. PICK E \in SUBSET Confusables : E = {c} /\ c \in E
            BY <1>1
          <6>2. Read(E, u) = Joined(c[2], Read(E, w))
            <7>1. Starts(u, x, v) /\ Starts(v, y, w)
              BY <3>3, <5>7 DEF Starts
            <7>2. c \in E
              BY <6>1
            <7> QED
              BY ONLY E \in SUBSET Confusables, <4>4, <5>9, <7>1, <7>2, ReadTwo
          <6> QED
            BY <6>1, <6>2
        <5> QED
          BY <2>2, <4>2, <4>4, <5>4, <5>10, <5>6
      <4> QED
        BY <4>3, <4>4, ConfusableFacts
    <3>7. CASE ~Occurs(c[1], s, k)
      <4>1. \A d \in B : ~Occurs(d[1], s, k)
        BY <2>5, <3>7 DEF B
      <4>2. H[k] = Joined(<<s[k]>>, H[k + 1])
        BY <1>1, <4>1, ReadFromThrough DEF H
      <4>3. ~Occurs(c[1], u, 1)
        <5> SUFFICES ASSUME Occurs(c[1], u, 1) PROVE FALSE
          OBVIOUS
        <5>1. x = c[1][1] /\ (Len(c[1]) = 2 => 2 <= Len(u) /\ u[2] = c[1][2])
          BY <3>5, OccursFirst
        <5>2. Len(c[1]) = 2
          BY <3>2, <3>7, <5>1, OccursIff
        <5>3. Len(v) >= 1 /\ v[1] = c[1][2]
          BY <3>5, <5>1, <5>2
        <5>4. k + 1 \in 1 .. n
          <6>1. F[n + 1] = <<>>
            BY ReadFromType DEF F
          <6>2. k # n
            BY <3>2, <5>3, <6>1
          <6> QED
            BY <6>2
        <5>5. v[1] = s[k + 1] \/ \E d \in C : v[1] = d[2][1]
          BY <3>2, <5>4, FirstRead DEF F
        <5>6. \A d \in C : c[1][2] # d[2][1]
          BY <5>2, ConfusableFacts
        <5>7. s[k + 1] = c[1][2]
          BY <5>3, <5>5, <5>6
        <5>8. s[k] = c[1][1] /\ k + 1 <= n
          BY <3>2, <5>1, <5>4
        <5> QED
          BY ONLY s \in Seq(Letter), k \in 1 .. n, c \in Confusables, <3>7, <5>7, <5>8,
                  OccursIff DEF n
      <4>4. Read({c}, u) = Joined(<<x>>, Read({c}, v))
        BY <1>1, <3>3, <4>3, ReadOther
      <4> QED
        BY <3>2, <3>4, <4>2, <4>4
    <3> QED
      BY <3>6, <3>7
  <2> QED
    BY <2>4, <2>5
<1>5. S = 1 .. n + 1
  <2>1. S \in SUBSET (1 .. n + 1)
    OBVIOUS
  <2> HIDE DEF S, n
  <2>2. PICK m \in Nat, T \in {S} : m = n /\ T = S
    BY <1>1
  <2>3. /\ T \in SUBSET (1 .. m + 1) /\ m + 1 \in T
        /\ \A k \in 1 .. m : (k + 1 .. m + 1) \subseteq T => k \in T
    BY ONLY <1>3, <1>4, <2>1, <2>2
  <2>4. T = 1 .. m + 1
    BY <2>3, Backwards
  <2> QED
    BY ONLY <2>2, <2>4, Zenon
<1>6. 1 \in S
  <2>1. 1 \in 1 .. n + 1
    BY <1>1
  <2> HIDE DEF S
  <2> QED
    BY <1>5, <2>1
<1> QED
  BY <1>6 DEF Read

LEMMA ReadWithNone ==
    ASSUME NEW s \in Seq(Letter)
    PROVE  Read({}, s) = s
<1> DEFINE n == Len(s)
           F == [i \in 1 .. n + 1 |-> SubSeq(s, i, n)]
<1>1. n \in Nat /\ 1 \in 1 .. n + 1 /\ {} \in SUBSET Confusables
  OBVIOUS
<1>2. F[n + 1] = <<>>
  <2>1. SubSeq(s, n + 1, n) = <<>>
    BY SubSeqProperties
  <2> QED
    BY <1>1, <2>1
<1>3. ASSUME NEW i \in 1 .. n
      PROVE  F[i] = Joined(Out({}, s)[i], F[i + Step({}, s)[i]])
  <2>1. Out({}, s)[i] = <<s[i]>> /\ Step({}, s)[i] = 1
    BY <1>1, NothingHere
  <2>2. F[i] = SubSeq(s, i, n) /\ F[i + 1] = SubSeq(s, i + 1, n)
    OBVIOUS
  <2>3. SubSeq(s, i, n) = Joined(<<s[i]>>, SubSeq(s, i + 1, n))
    BY DEF Joined
  <2> QED
    BY <2>1, <2>2, <2>3
<1>4. Pass(n, Out({}, s), Step({}, s), F)
  <2> HIDE DEF F, n
  <2> QED
    BY <1>2, <1>3 DEF Pass
<1>5. F[1] = ReadFrom({}, s)[1]
  <2> HIDE DEF F
  <2> QED
    BY <1>1, <1>4, OnlyReadFrom
<1>6. F[1] = s
  BY <1>1, SubSeqFull
<1> QED
  BY <1>5, <1>6 DEF Read

PassBody(C, s, f) ==
    [i \in 1 .. Len(s) + 1 |->
        IF i > Len(s) THEN <<>> ELSE Joined(Out(C, s)[i], f[i + Step(C, s)[i]])]

LEMMA PassBodyIsRead ==
    ASSUME NEW C \in SUBSET Confusables, NEW s \in Seq(Letter)
    PROVE  /\ \E f : f = PassBody(C, s, f)
           /\ \A f : f = PassBody(C, s, f) => f[1] = Read(C, s)
<1>1. Len(s) \in Nat /\ 1 \in 1 .. Len(s) + 1
  OBVIOUS
<1>2. PICK F \in [1 .. Len(s) + 1 -> Seq(Letter)] :
          F = ReadFrom(C, s) /\ Pass(Len(s), Out(C, s), Step(C, s), F)
  BY ReadFromIs
<1>3. F = PassBody(C, s, F)
  <2>1. ASSUME NEW i \in 1 .. Len(s) + 1
        PROVE  F[i] = IF i > Len(s) THEN <<>> ELSE Joined(Out(C, s)[i], F[i + Step(C, s)[i]])
    <3>1. F[Len(s) + 1] = <<>> /\ \A k \in 1 .. Len(s) : F[k] = Joined(Out(C, s)[k], F[k + Step(C, s)[k]])
      BY <1>2 DEF Pass
    <3>2. i = Len(s) + 1 \/ i \in 1 .. Len(s)
      BY <1>1
    <3> QED
      BY <1>1, <3>1, <3>2
  <2> QED
    BY <2>1 DEF PassBody
<1>4. ASSUME NEW f, f = PassBody(C, s, f) PROVE f[1] = Read(C, s)
  <2>1. ASSUME NEW i \in 1 .. Len(s) + 1
        PROVE  f[i] = IF i > Len(s) THEN <<>> ELSE Joined(Out(C, s)[i], f[i + Step(C, s)[i]])
    BY <1>4 DEF PassBody
  <2>2. f[Len(s) + 1] = <<>>
    BY <1>1, <2>1
  <2>3. \A i \in 1 .. Len(s) : f[i] = Joined(Out(C, s)[i], f[i + Step(C, s)[i]])
    BY <1>1, <2>1
  <2>4. Pass(Len(s), Out(C, s), Step(C, s), f)
    BY <2>2, <2>3 DEF Pass
  <2>5. \A i \in 1 .. Len(s) + 1 : f[i] = ReadFrom(C, s)[i]
    BY <2>4, OnlyReadFrom
  <2> QED
    BY <1>1, <2>5 DEF Read
<1> QED
  BY <1>3, <1>4

\* strings.ReplaceAll is reading with one confusable.
LEMMA ReplacedIsRead ==
    ASSUME NEW c \in Confusables, NEW s \in Seq(Letter)
    PROVE  Replaced(s, c[1], c[2]) = Read({c}, s)
<1> DEFINE Body(f) ==
        [i \in 1 .. Len(s) + 1 |->
            IF i > Len(s) THEN <<>>
            ELSE IF Occurs(c[1], s, i) THEN c[2] \o f[i + Len(c[1])]
            ELSE <<s[i]>> \o f[i + 1]]
<1>1. Replaced(s, c[1], c[2]) = (CHOOSE f : f = Body(f))[1]
  BY DEF Replaced
<1>2. PICK C \in SUBSET Confusables : C = {c} /\ c \in C /\ \A d \in C : d = c
  <2>1. {c} \in SUBSET Confusables /\ c \in {c} /\ \A d \in {c} : d = c
    OBVIOUS
  <2> QED
    BY <2>1, Zenon
<1>3. ASSUME NEW f PROVE Body(f) = PassBody(C, s, f)
  <2>1. ASSUME NEW i \in 1 .. Len(s) + 1
        PROVE  (IF i > Len(s) THEN <<>>
                ELSE IF Occurs(c[1], s, i) THEN c[2] \o f[i + Len(c[1])]
                ELSE <<s[i]>> \o f[i + 1])
               = IF i > Len(s) THEN <<>> ELSE Joined(Out(C, s)[i], f[i + Step(C, s)[i]])
    <3>1. i > Len(s) \/ i \in 1 .. Len(s)
      OBVIOUS
    <3>2. CASE i \in 1 .. Len(s) /\ Occurs(c[1], s, i)
      <4>1. Out(C, s)[i] = c[2] /\ Step(C, s)[i] = Len(c[1])
        BY <1>2, <3>2, SomethingHere
      <4> QED
        BY <3>2, <4>1 DEF Joined
    <3>3. CASE i \in 1 .. Len(s) /\ ~Occurs(c[1], s, i)
      <4>1. Out(C, s)[i] = <<s[i]>> /\ Step(C, s)[i] = 1
        BY <1>2, <3>3, NothingHere
      <4> QED
        BY <3>3, <4>1 DEF Joined
    <3> QED
      BY <3>1, <3>2, <3>3
  <2> QED
    BY <2>1 DEF PassBody
<1> HIDE DEF Body
<1>4. \E f : f = Body(f)
  BY <1>3, PassBodyIsRead
<1>5. PICK g : g = (CHOOSE f : f = Body(f)) /\ g = Body(g)
  BY <1>4
<1>6. g = PassBody(C, s, g)
  BY <1>3, <1>5
<1> QED
  BY <1>1, <1>2, <1>5, <1>6, PassBodyIsRead

LEMMA AsReadIsRead ==
    ASSUME NEW s \in Seq(Letter)
    PROVE  AsRead(s) = Read(Confusables, s)
<1> DEFINE Body(f) ==
        [i \in 1 .. Len(s) + 1 |->
            IF i > Len(s) THEN <<>>
            ELSE LET here == {c \in Confusables : Occurs(c[1], s, i)}
                 IN  IF here = {} THEN <<s[i]>> \o f[i + 1]
                     ELSE LET c == CHOOSE c \in here : TRUE IN c[2] \o f[i + Len(c[1])]]
<1>1. AsRead(s) = (CHOOSE f : f = Body(f))[1]
  BY DEF AsRead
<1>2. ASSUME NEW f PROVE Body(f) = PassBody(Confusables, s, f)
  <2> DEFINE H(i) == Here(Confusables, s, i)
  <2>1. Body(f) = [i \in 1 .. Len(s) + 1 |->
            IF i > Len(s) THEN <<>>
            ELSE IF H(i) = {} THEN <<s[i]>> \o f[i + 1]
                 ELSE Chosen(H(i))[2] \o f[i + Len(Chosen(H(i))[1])]]
    BY DEF Here, Chosen
  <2>2. ASSUME NEW i \in 1 .. Len(s)
        PROVE  (IF H(i) = {} THEN <<s[i]>> \o f[i + 1]
                ELSE Chosen(H(i))[2] \o f[i + Len(Chosen(H(i))[1])])
               = Joined(Out(Confusables, s)[i], f[i + Step(Confusables, s)[i]])
    BY DEF Out, Step, Joined
  <2>3. ASSUME NEW i \in 1 .. Len(s) + 1
        PROVE  (IF i > Len(s) THEN <<>>
                ELSE IF H(i) = {} THEN <<s[i]>> \o f[i + 1]
                     ELSE Chosen(H(i))[2] \o f[i + Len(Chosen(H(i))[1])])
               = IF i > Len(s) THEN <<>>
                 ELSE Joined(Out(Confusables, s)[i], f[i + Step(Confusables, s)[i]])
    <3>1. i > Len(s) \/ (i \in 1 .. Len(s) /\ ~(i > Len(s)))
      OBVIOUS
    <3> HIDE DEF H
    <3> QED
      BY <2>2, <3>1, Zenon
  <2> HIDE DEF Body, H
  <2> QED
    BY <2>1, <2>3 DEF PassBody
<1> HIDE DEF Body
<1>3. \E f : f = Body(f)
  BY <1>2, PassBodyIsRead
<1>4. PICK g : g = (CHOOSE f : f = Body(f)) /\ g = Body(g)
  BY <1>3
<1>5. g = PassBody(Confusables, s, g)
  BY <1>2, <1>4
<1> QED
  BY <1>1, <1>4, <1>5, PassBodyIsRead

-----------------------------------------------------------------------------
(***************************************************************************)
(* The distance has no side, and neither has containment.                  *)
(***************************************************************************)

LEMMA Symmetric ==
    ASSUME NEW s, NEW t, NEW i \in Nat, NEW j \in Nat
    PROVE  D(s, t, i, j) = D(t, s, j, i)
<1> DEFINE Wrong == {n \in Nat : \E k, l \in Nat : k + l = n /\ D(s, t, k, l) # D(t, s, l, k)}
<1> SUFFICES ASSUME D(s, t, i, j) # D(t, s, j, i) PROVE FALSE
  OBVIOUS
<1>1. Wrong # {}
  <2>1. i + j \in Nat
    OBVIOUS
  <2>2. i + j \in Wrong
    BY <2>1
  <2> QED
    BY <2>2
<1>2. PICK n \in Wrong : \A m \in Wrong : n <= m
  <2>1. Wrong \in SUBSET Nat
    OBVIOUS
  <2> HIDE DEF Wrong
  <2> QED
    BY ONLY <1>1, <2>1, LeastNatural
<1>3. PICK k \in Nat, l \in Nat : k + l = n /\ D(s, t, k, l) # D(t, s, l, k)
  OBVIOUS
<1>4. CASE k = 0 \/ l = 0
  <2>1. D(s, t, k, l) = k + l /\ D(t, s, l, k) = l + k
    BY <1>4, NothingConsumed
  <2> QED
    BY <1>3, <2>1
<1>5. CASE k # 0 /\ l # 0
  <2>1. ASSUME NEW a \in Nat, NEW b \in Nat, a + b < n PROVE D(s, t, a, b) = D(t, s, b, a)
    <3> SUFFICES ASSUME D(s, t, a, b) # D(t, s, b, a) PROVE FALSE
      OBVIOUS
    <3>1. a + b \in Nat /\ n \in Nat
      BY <1>3
    <3>2. a + b \in Wrong
      BY <3>1
    <3> HIDE DEF Wrong
    <3> QED
      BY <1>2, <2>1, <3>1, <3>2
  <2> HIDE DEF Wrong
  <2>2. /\ k - 1 \in Nat /\ l - 1 \in Nat /\ k \in Nat \ {0} /\ l \in Nat \ {0}
        /\ k - 1 + l < n /\ k + (l - 1) < n /\ k - 1 + (l - 1) < n
    BY <1>3, <1>5
  <2>3. PICK up, left, diagonal :
           /\ up = D(s, t, k - 1, l) /\ up = D(t, s, l, k - 1)
           /\ left = D(s, t, k, l - 1) /\ left = D(t, s, l - 1, k)
           /\ diagonal = D(s, t, k - 1, l - 1) /\ diagonal = D(t, s, l - 1, k - 1)
    BY <2>1, <2>2
  <2>4. Cost(s, t, k, l) = Cost(t, s, l, k)
    BY DEF Cost
  <2>5. D(s, t, k, l) = Least({up + 1, left + 1, diagonal + Cost(s, t, k, l)})
    <3>1. D(s, t, k, l) = Least({D(s, t, k - 1, l) + 1, D(s, t, k, l - 1) + 1,
                                 D(s, t, k - 1, l - 1) + Cost(s, t, k, l)})
      BY <2>2, Recurrence
    <3> QED
      BY <2>3, <3>1
  <2>6. D(t, s, l, k) = Least({left + 1, up + 1, diagonal + Cost(s, t, k, l)})
    <3>1. D(t, s, l, k) = Least({D(t, s, l - 1, k) + 1, D(t, s, l, k - 1) + 1,
                                 D(t, s, l - 1, k - 1) + Cost(t, s, l, k)})
      BY <2>2, Recurrence
    <3> QED
      BY <2>3, <2>4, <3>1
  <2>7. {up + 1, left + 1, diagonal + Cost(s, t, k, l)}
            = {left + 1, up + 1, diagonal + Cost(s, t, k, l)}
    OBVIOUS
  <2> QED
    BY <1>3, <2>5, <2>6, <2>7
<1> QED
  BY <1>4, <1>5

LEMMA DistanceOfWords ==
    ASSUME NEW s \in Seq(Letter), NEW t \in Seq(Letter)
    PROVE  /\ Distance(s, t) = D(s, t, Len(s), Len(t))
           /\ Distance(t, s) = D(s, t, Len(s), Len(t))
<1>1. /\ Len(s) \in Nat /\ Len(t) \in Nat
      /\ Len(s) \in 0 .. Len(s) /\ Len(t) \in 0 .. Len(t)
      /\ SubSeq(s, 1, Len(s)) = s /\ SubSeq(t, 1, Len(t)) = t
  BY SubSeqFull
<1>2. Distance(s, t) = D(s, t, Len(s), Len(t)) /\ Distance(t, s) = D(t, s, Len(t), Len(s))
  <2>1. /\ Distance(SubSeq(s, 1, Len(s)), SubSeq(t, 1, Len(t))) = D(s, t, Len(s), Len(t))
        /\ Distance(SubSeq(t, 1, Len(t)), SubSeq(s, 1, Len(s))) = D(t, s, Len(t), Len(s))
    BY <1>1, DistanceIsD
  <2> QED
    BY <1>1, <2>1
<1>3. D(s, t, Len(s), Len(t)) = D(t, s, Len(t), Len(s))
  BY <1>1, Symmetric
<1> QED
  BY <1>2, <1>3

LEMMA WithinIsPart ==
    ASSUME NEW s \in Seq(Letter), NEW t \in Seq(Letter), Len(s) >= 1
    PROVE  Within(s, t) <=> s \in SubSeqs(t)
<1>1. PICK m \in Nat, n \in Nat : m = Len(s) /\ n = Len(t) /\ m >= 1
  OBVIOUS
<1>2. ASSUME Within(s, t) PROVE s \in SubSeqs(t)
  <2>1. PICK i \in 1 .. n : i + m - 1 <= n /\ SubSeq(t, i, i + m - 1) = s
    BY <1>1, <1>2 DEF Within, Occurs
  <2>2. PICK h \in 0 .. n : h = i - 1 /\ h + 1 = i
    <3>1. i - 1 \in 0 .. n /\ i - 1 + 1 = i
      OBVIOUS
    <3> QED
      BY <3>1
  <2>3. PICK k \in 0 .. n : k = i + m - 1
    <3>1. i + m - 1 <= n
      BY <2>1
    <3>2. i + m - 1 \in 0 .. n
      BY <1>1, <3>1
    <3> QED
      BY <3>2
  <2>4. s = SubSeq(t, h + 1, k)
    BY <2>1, <2>2, <2>3
  <2> QED
    BY <1>1, <2>4 DEF SubSeqs
<1>3. ASSUME s \in SubSeqs(t) PROVE Within(s, t)
  <2>1. PICK h \in 0 .. n, k \in 0 .. n : s = SubSeq(t, h + 1, k)
    BY <1>1, <1>3 DEF SubSeqs
  <2>2. m = IF h + 1 <= k THEN k - h ELSE 0
    <3>1. Len(SubSeq(t, h + 1, k)) = IF h + 1 <= k THEN k - (h + 1) + 1 ELSE 0
      <4>1. h + 1 \in 1 .. Len(t) + 1 /\ k \in 0 .. Len(t)
        BY <1>1
      <4> QED
        BY <4>1, SubSeqProperties
    <3> QED
      BY <1>1, <2>1, <3>1
  <2>3. PICK i \in 1 .. n : i = h + 1 /\ i + m - 1 = k
    BY <1>1, <2>2
  <2>4. i + m - 1 <= n /\ SubSeq(t, i, i + m - 1) = s
    BY <2>1, <2>3
  <2> QED
    BY <1>1, <2>4 DEF Within, Occurs
<1> QED
  BY <1>2, <1>3

LEMMA PartOfItself ==
    ASSUME NEW s \in Seq(Letter)
    PROVE  s \in SubSeqs(s)
<1>1. PICK n \in Nat : n = Len(s)
  OBVIOUS
<1>2. 0 \in 0 .. n /\ n \in 0 .. n /\ SubSeq(s, 0 + 1, n) = s
  BY <1>1, SubSeqFull
<1> QED
  BY <1>1, <1>2 DEF SubSeqs

LEMMA WithinEitherWay ==
    ASSUME NEW s \in Seq(Letter), NEW t \in Seq(Letter), Len(s) >= 1, Len(t) >= 1
    PROVE  (\E u \in SubSeqs(t) \intersect SubSeqs(s) : u \in {t, s})
               <=> Within(s, t) \/ Within(t, s)
<1>1. s \in SubSeqs(s) /\ t \in SubSeqs(t)
  BY PartOfItself
<1>2. (Within(s, t) <=> s \in SubSeqs(t)) /\ (Within(t, s) <=> t \in SubSeqs(s))
  BY WithinIsPart
<1> QED
  BY <1>1, <1>2

-----------------------------------------------------------------------------
(***************************************************************************)
(* The comparison.                                                         *)
(***************************************************************************)

Root(k) == rootLabel(pair[k])

Rooted ==
    /\ pair \in Pairs
    /\ words \in [1 .. 2 -> Seq(Letter)]
    /\ folding \in {1, 2} /\ todo \in SUBSET Confusables
    /\ pc \in {"begin", "fold", "compare", "measure", "done"}

\* How far each label is folded: with the entries visited, as if at once.
FoldedSoFar ==
    /\ pc = "begin" => folding = 1 /\ todo = Confusables /\ words[1] = Root(1) /\ words[2] = Root(2)
    /\ pc = "fold" =>
          /\ words[folding] = Read(Confusables \ todo, Root(folding))
          /\ folding = 1 => words[2] = Root(2)
          /\ folding = 2 => words[1] = Read(Confusables, Root(1))
    /\ pc \in {"compare", "measure"} =>
          words[1] = Read(Confusables, Root(1)) /\ words[2] = Read(Confusables, Root(2))
    /\ pc \in {"fold", "compare", "measure"} => Root(1) # <<>> /\ Root(2) # <<>>

MeasuredSoFar ==
    /\ pc \in {"begin", "fold", "compare"} => at = 0
    /\ pc = "measure" =>
          /\ words[1] # words[2] /\ Shorter >= 4
          /\ at \in 0 .. Len(words[1])
          /\ row = Row(words[1], words[2], at)

IInv == Rooted /\ FoldedSoFar /\ MeasuredSoFar /\ VerdictIsMutual

LEMMA RootIsWord ==
    ASSUME NEW p \in Pairs, NEW k \in {1, 2}
    PROVE  rootLabel(p[k]) \in Seq(Letter)
<1>1. p \in Seq(Seq(Seq(STRING))) /\ Len(p) = 2 /\ Len(p[k]) >= 1
  BY LabelsAssumption DEF LabelsAssumption
<1>2. p[k] \in Seq(Seq(STRING)) /\ 1 \in 1 .. Len(p[k])
  BY <1>1
<1>3. p[k][1] \in Seq(STRING)
  BY <1>2
<1> QED
  BY <1>3, WordsHaveLetters DEF rootLabel

LEMMA TypedRoots == Rooted => Root(1) \in Seq(Letter) /\ Root(2) \in Seq(Letter)
BY RootIsWord DEF Rooted, Root

LEMMA ReadSomething ==
    ASSUME NEW C \in SUBSET Confusables, NEW s \in Seq(Letter)
    PROVE  Read(C, s) = <<>> <=> s = <<>>
<1>1. CASE s = <<>>
  BY <1>1, ReadNothing
<1>2. CASE s # <<>>
  <2>1. 1 \in 1 .. Len(s)
    BY <1>2
  <2> QED
    BY <1>2, <2>1, FirstRead DEF Read
<1> QED
  BY <1>1, <1>2

\* The verdict on two domains, as they read.
Verdict(a, b) == <<>> \notin {a, b} /\ AlikeAsRead(b, a)

LEMMA VerdictReturned ==
    ASSUME Rooted, pair' = pair,
           similar' <=> Verdict(Read(Confusables, Root(1)), Read(Confusables, Root(2)))
    PROVE  VerdictIsMutual'
<1>1. /\ AsRead(rootLabel(pair[1])) = Read(Confusables, Root(1))
      /\ AsRead(rootLabel(pair[2])) = Read(Confusables, Root(2))
  BY TypedRoots, AsReadIsRead DEF Root
<1> QED
  BY <1>1 DEF VerdictIsMutual, Verdict

LEMMA VerdictCases ==
    ASSUME NEW a \in Seq(Letter), NEW b \in Seq(Letter), a # <<>>, b # <<>>
    PROVE  /\ a = b => Verdict(a, b)
           /\ a # b /\ ~(Len(a) >= 4 /\ Len(b) >= 4) => ~Verdict(a, b)
           /\ a # b /\ Len(a) >= 4 /\ Len(b) >= 4 =>
                 (Verdict(a, b) <=>
                     \/ D(a, b, Len(a), Len(b)) <= 2
                     \/ Len(a) >= 5 /\ Len(b) >= 5 /\ (Within(a, b) \/ Within(b, a)))
<1>1. Len(a) \in Nat /\ Len(b) \in Nat
  OBVIOUS
<1>2. <<>> \notin {a, b}
  OBVIOUS
<1>3. Distance(b, a) = D(a, b, Len(a), Len(b))
  BY DistanceOfWords
<1>4. Len(a) >= 5 /\ Len(b) >= 5 =>
          ((\E u \in SubSeqs(b) \intersect SubSeqs(a) : u \in {b, a}) <=> Within(a, b) \/ Within(b, a))
  <2>1. Len(a) >= 5 /\ Len(b) >= 5 => Len(a) >= 1 /\ Len(b) >= 1
    BY <1>1
  <2> QED
    BY <2>1, WithinEitherWay
<1>5. Verdict(a, b) <=>
          \/ b = a
          \/ Len(b) >= 4 /\ Len(a) >= 4 /\ D(a, b, Len(a), Len(b)) <= 2
          \/ Len(a) >= 5 /\ Len(b) >= 5 /\ (Within(a, b) \/ Within(b, a))
  BY <1>2, <1>3, <1>4 DEF Verdict, AlikeAsRead
<1>6. (Len(a) >= 5 => Len(a) >= 4) /\ (Len(b) >= 5 => Len(b) >= 4)
  BY <1>1
<1> QED
  BY ONLY <1>5, <1>6, Zenon

LEMMA ShorterIs ==
    ASSUME words \in [1 .. 2 -> Seq(Letter)], NEW k \in Nat
    PROVE  Shorter >= k <=> Len(words[1]) >= k /\ Len(words[2]) >= k
<1>1. Len(words[1]) \in Nat /\ Len(words[2]) \in Nat
  OBVIOUS
<1> QED
  BY <1>1 DEF Shorter

LEMMA InitIsGood == Init => IInv
<1> SUFFICES ASSUME Init PROVE IInv
  OBVIOUS
<1>1. words[1] = Root(1) /\ words[2] = Root(2) /\ words = <<Root(1), Root(2)>>
  BY DEF Init, Root
<1>2. Root(1) \in Seq(Letter) /\ Root(2) \in Seq(Letter)
  BY RootIsWord DEF Init, Root
<1>3. words \in [1 .. 2 -> Seq(Letter)]
  BY <1>1, <1>2
<1> QED
  BY <1>1, <1>3 DEF Init, IInv, Rooted, FoldedSoFar, MeasuredSoFar, VerdictIsMutual

LEMMA BeginIsGood == IInv /\ Begin => IInv'
<1> SUFFICES ASSUME IInv, Begin PROVE IInv'
  OBVIOUS
<1>1. /\ pc = "begin" /\ pair' = pair /\ words' = words /\ folding' = folding /\ todo' = todo
      /\ words[1] = Root(1) /\ words[2] = Root(2) /\ folding = 1 /\ todo = Confusables
  BY DEF IInv, FoldedSoFar, Begin
<1>2. Root(1)' = Root(1) /\ Root(2)' = Root(2)
  BY <1>1 DEF Root
<1>3. Root(1) \in Seq(Letter) /\ Root(2) \in Seq(Letter)
  BY TypedRoots DEF IInv
<1>4. CASE <<>> \in {words[1], words[2]}
  <2>1. pc' = "done" /\ similar' = FALSE
    BY <1>4 DEF Begin, Return
  <2>2. Rooted'
    BY <1>1, <2>1 DEF IInv, Rooted
  <2>3. ~Verdict(Read(Confusables, Root(1)), Read(Confusables, Root(2)))
    BY <1>1, <1>3, <1>4, ReadSomething DEF Verdict
  <2>4. VerdictIsMutual'
    BY <1>1, <2>1, <2>3, VerdictReturned DEF IInv
  <2> QED
    BY <2>1, <2>2, <2>4 DEF IInv, FoldedSoFar, MeasuredSoFar
<1>5. CASE <<>> \notin {words[1], words[2]}
  <2>1. pc' = "fold"
    BY <1>5 DEF Begin
  <2>2. Rooted'
    BY <1>1, <2>1 DEF IInv, Rooted
  <2>3. Confusables \ todo = {}
    BY <1>1
  <2>4. Read({}, Root(1)) = Root(1)
    BY <1>3, ReadWithNone
  <2>5. words[1] = Read(Confusables \ todo, Root(1))
    BY <1>1, <2>3, <2>4, Zenon
  <2>6. FoldedSoFar'
    <3>1. Root(1) # <<>> /\ Root(2) # <<>>
      BY <1>1, <1>5
    <3> QED
      BY <1>1, <1>2, <2>1, <2>5, <3>1 DEF FoldedSoFar
  <2>7. MeasuredSoFar'
    BY <1>1, <1>5, <2>1 DEF IInv, MeasuredSoFar, Begin
  <2> QED
    BY <2>1, <2>2, <2>6, <2>7 DEF IInv, VerdictIsMutual
<1> QED
  BY <1>4, <1>5

LEMMA FoldIsGood == IInv /\ Fold => IInv'
<1> SUFFICES ASSUME IInv, Fold PROVE IInv'
  OBVIOUS
<1>1. /\ pc = "fold" /\ pc' = "fold" /\ pair' = pair /\ folding' = folding
  BY DEF Fold
<1>2. PICK entry \in todo :
         /\ words' = [words EXCEPT ![folding] = Replaced(@, entry[1], entry[2])]
         /\ todo' = todo \ {entry}
  BY DEF Fold
<1>3. /\ words \in [1 .. 2 -> Seq(Letter)] /\ folding \in {1, 2} /\ todo \in SUBSET Confusables
      /\ entry \in Confusables /\ folding \in 1 .. 2
  BY DEF IInv, Rooted
<1>4. Root(1)' = Root(1) /\ Root(2)' = Root(2) /\ Root(folding)' = Root(folding)
      /\ Root(folding) \in Seq(Letter)
  BY <1>1, <1>3, TypedRoots DEF Root, IInv
<1>5. PICK C \in SUBSET Confusables : C = Confusables \ todo /\ entry \notin C
  <2>1. Confusables \ todo \in SUBSET Confusables /\ entry \notin Confusables \ todo
    BY <1>3
  <2> QED
    BY <2>1, Zenon
<1>6. Confusables \ todo' = C \union {entry}
  BY <1>2, <1>3, <1>5
<1>7. words[folding] = Read(C, Root(folding))
  BY <1>1, <1>5 DEF IInv, FoldedSoFar
<1>8. words'[folding] = Read(Confusables \ todo', Root(folding))
  <2>1. words'[folding] = Replaced(words[folding], entry[1], entry[2])
    BY <1>2, <1>3
  <2>2. words[folding] \in Seq(Letter)
    BY <1>3
  <2>3. Replaced(words[folding], entry[1], entry[2]) = Read({entry}, words[folding])
    BY <1>3, <2>2, ReplacedIsRead
  <2>4. Read({entry}, Read(C, Root(folding))) = Read(C \union {entry}, Root(folding))
    BY <1>3, <1>4, <1>5, Fused
  <2> QED
    BY <1>6, <1>7, <2>1, <2>3, <2>4
<1>9. words' \in [1 .. 2 -> Seq(Letter)]
  <2>1. Confusables \ todo' \in SUBSET Confusables
    OBVIOUS
  <2>2. Read(Confusables \ todo', Root(folding)) \in Seq(Letter)
    BY <1>4, <2>1, ReadFromType
  <2>3. PICK w \in Seq(Letter) : w = Replaced(words[folding], entry[1], entry[2])
    BY <1>2, <1>3, <1>8, <2>2
  <2>4. words' = [words EXCEPT ![folding] = w]
    BY <1>2, <2>3
  <2> QED
    BY <1>3, <2>4
<1>10. Rooted'
  BY <1>1, <1>2, <1>9 DEF IInv, Rooted
<1>11. (folding = 1 => words'[2] = words[2]) /\ (folding = 2 => words'[1] = words[1])
  BY <1>2, <1>3
<1>12. FoldedSoFar'
  BY <1>1, <1>4, <1>8, <1>11 DEF IInv, FoldedSoFar
<1>13. MeasuredSoFar'
  BY <1>1 DEF IInv, MeasuredSoFar, Fold
<1> QED
  BY <1>1, <1>10, <1>12, <1>13 DEF IInv, VerdictIsMutual

LEMMA FoldedIsGood == IInv /\ Folded => IInv'
<1> SUFFICES ASSUME IInv, Folded PROVE IInv'
  OBVIOUS
<1>1. pc = "fold" /\ todo = {} /\ pair' = pair /\ words' = words
  BY DEF Folded
<1>2. Root(1)' = Root(1) /\ Root(2)' = Root(2) /\ Root(2) \in Seq(Letter)
  BY <1>1, TypedRoots DEF Root, IInv
<1>3. Confusables \ {} = Confusables /\ Confusables \ Confusables = {}
  OBVIOUS
<1>4. CASE folding = 1
  <2>1. folding' = 2 /\ todo' = Confusables /\ pc' = "fold"
    BY <1>1, <1>4 DEF Folded
  <2>2. Rooted'
    BY <1>1, <2>1 DEF IInv, Rooted
  <2>3. words[1] = Read(Confusables, Root(1)) /\ words[2] = Read({}, Root(2))
    BY <1>1, <1>2, <1>3, <1>4, ReadWithNone DEF IInv, FoldedSoFar
  <2>4. FoldedSoFar'
    BY <1>1, <1>2, <1>3, <2>1, <2>3 DEF IInv, FoldedSoFar
  <2>5. MeasuredSoFar'
    BY <1>1, <2>1 DEF IInv, MeasuredSoFar, Folded
  <2> QED
    BY <2>1, <2>2, <2>4, <2>5 DEF IInv, VerdictIsMutual
<1>5. CASE folding = 2
  <2>1. pc' = "compare" /\ folding' = folding /\ todo' = todo
    BY <1>5 DEF Folded
  <2>2. Rooted'
    BY <1>1, <2>1 DEF IInv, Rooted
  <2>3. words[1] = Read(Confusables, Root(1)) /\ words[2] = Read(Confusables, Root(2))
    BY <1>1, <1>3, <1>5 DEF IInv, FoldedSoFar
  <2>4. FoldedSoFar'
    BY <1>1, <1>2, <2>1, <2>3 DEF IInv, FoldedSoFar
  <2>5. MeasuredSoFar'
    BY <1>1, <2>1 DEF IInv, MeasuredSoFar, Folded
  <2> QED
    BY <2>1, <2>2, <2>4, <2>5 DEF IInv, VerdictIsMutual
<1> QED
  BY <1>4, <1>5 DEF IInv, Rooted

\* The labels compared: both folded, and neither of them empty.
LEMMA Compared ==
    ASSUME IInv, pc \in {"compare", "measure"}
    PROVE  /\ words[1] = Read(Confusables, Root(1)) /\ words[2] = Read(Confusables, Root(2))
           /\ words[1] \in Seq(Letter) /\ words[2] \in Seq(Letter)
           /\ words[1] # <<>> /\ words[2] # <<>>
<1>1. /\ words[1] = Read(Confusables, Root(1)) /\ words[2] = Read(Confusables, Root(2))
      /\ Root(1) # <<>> /\ Root(2) # <<>>
  BY DEF IInv, FoldedSoFar
<1>2. words \in [1 .. 2 -> Seq(Letter)] /\ Root(1) \in Seq(Letter) /\ Root(2) \in Seq(Letter)
  BY TypedRoots DEF IInv, Rooted
<1>3. Confusables \in SUBSET Confusables
  OBVIOUS
<1> QED
  BY <1>1, <1>2, <1>3, ReadSomething

LEMMA CompareIsGood == IInv /\ Compare => IInv'
<1> SUFFICES ASSUME IInv, Compare PROVE IInv'
  OBVIOUS
<1>1. /\ pc = "compare" /\ pair' = pair /\ words' = words /\ folding' = folding /\ todo' = todo
      /\ pc' \in {"done", "measure"}
  BY DEF Compare, Return
<1>2. Root(1)' = Root(1) /\ Root(2)' = Root(2)
  BY <1>1 DEF Root
<1>3. /\ words[1] = Read(Confusables, Root(1)) /\ words[2] = Read(Confusables, Root(2))
      /\ words[1] \in Seq(Letter) /\ words[2] \in Seq(Letter)
      /\ words[1] # <<>> /\ words[2] # <<>>
  BY <1>1, Compared
<1>4. Rooted'
  BY <1>1 DEF IInv, Rooted
<1>5. FoldedSoFar'
  BY <1>1, <1>2 DEF IInv, FoldedSoFar
<1>6. Shorter >= 4 <=> Len(words[1]) >= 4 /\ Len(words[2]) >= 4
  BY ShorterIs DEF IInv, Rooted
<1>7. CASE words[1] = words[2] \/ ~(Shorter >= 4)
  <2>1. pc' = "done" /\ (similar' <=> words[1] = words[2])
    <3>1. Shorter \in Nat
      BY <1>3 DEF Shorter
    <3> QED
      BY <1>7, <3>1 DEF Compare, Return
  <2>2. similar' <=> Verdict(words[1], words[2])
    BY <1>3, <1>6, <1>7, <2>1, VerdictCases
  <2>3. VerdictIsMutual'
    BY <1>1, <1>3, <2>2, VerdictReturned DEF IInv
  <2> QED
    BY <1>4, <1>5, <2>1, <2>3 DEF IInv, MeasuredSoFar
<1>8. CASE words[1] # words[2] /\ Shorter >= 4
  <2>1. pc' = "measure" /\ row' = [j \in 0 .. Len(words[2]) |-> j] /\ at' = at
    <3>1. Shorter \in Nat
      BY <1>3 DEF Shorter
    <3>2. words[1] # words[2] /\ ~(Shorter < 4)
      BY <1>8, <3>1
    <3> QED
      BY <3>2 DEF Compare
  <2>2. Shorter' = Shorter
    BY <1>1 DEF Shorter
  <2>3. at = 0
    BY <1>1 DEF IInv, MeasuredSoFar
  <2>4. row' = Row(words[1], words[2], 0)
    <3>1. \A j \in 0 .. Len(words[2]) : D(words[1], words[2], 0, j) = j
      BY NothingConsumed
    <3> QED
      BY <2>1, <3>1 DEF Row
  <2>5. MeasuredSoFar'
    BY <1>1, <1>3, <1>8, <2>1, <2>2, <2>3, <2>4 DEF MeasuredSoFar
  <2> QED
    BY <1>4, <1>5, <2>1, <2>5 DEF IInv, VerdictIsMutual
<1> QED
  BY <1>7, <1>8

LEMMA MeasureIsGood == IInv /\ Measure => IInv'
<1> SUFFICES ASSUME IInv, Measure PROVE IInv'
  OBVIOUS
<1>1. /\ pc = "measure" /\ pc' = pc /\ pair' = pair /\ words' = words /\ folding' = folding
      /\ todo' = todo /\ row' = NextRow(at + 1) /\ at' = at + 1 /\ at < Len(words[1])
  BY DEF Measure
<1>2. Root(1)' = Root(1) /\ Root(2)' = Root(2) /\ Shorter' = Shorter
  BY <1>1 DEF Root, Shorter
<1>3. words[1] \in Seq(Letter) /\ words[2] \in Seq(Letter)
  BY <1>1, Compared
<1>4. /\ words[1] # words[2] /\ Shorter >= 4
      /\ at \in 0 .. Len(words[1]) /\ row = Row(words[1], words[2], at)
  BY <1>1 DEF IInv, MeasuredSoFar
<1>5. at + 1 \in Nat \ {0} /\ at + 1 - 1 = at /\ at + 1 \in 0 .. Len(words[1])
  BY <1>1, <1>3, <1>4
<1>6. row' = Row(words[1], words[2], at + 1)
  BY <1>1, <1>3, <1>4, <1>5, NextRowIs
<1>7. Rooted' /\ FoldedSoFar'
  BY <1>1, <1>2 DEF IInv, Rooted, FoldedSoFar
<1>8. MeasuredSoFar'
  BY <1>1, <1>2, <1>4, <1>5, <1>6 DEF MeasuredSoFar
<1> QED
  BY <1>1, <1>7, <1>8 DEF IInv, VerdictIsMutual

LEMMA MeasuredIsGood == IInv /\ Measured => IInv'
<1> SUFFICES ASSUME IInv, Measured PROVE IInv'
  OBVIOUS
<1>1. /\ pc = "measure" /\ pc' = "done" /\ pair' = pair /\ words' = words /\ folding' = folding
      /\ todo' = todo /\ at = Len(words[1])
      /\ similar' = (\/ row[Len(words[2])] <= 2
                     \/ Shorter >= 5 /\ (Within(words[1], words[2]) \/ Within(words[2], words[1])))
  BY DEF Measured, Return
<1>2. /\ words[1] = Read(Confusables, Root(1)) /\ words[2] = Read(Confusables, Root(2))
      /\ words[1] \in Seq(Letter) /\ words[2] \in Seq(Letter)
      /\ words[1] # <<>> /\ words[2] # <<>>
  BY <1>1, Compared
<1>3. /\ words[1] # words[2] /\ Shorter >= 4 /\ row = Row(words[1], words[2], Len(words[1]))
  BY <1>1 DEF IInv, MeasuredSoFar
<1>4. row[Len(words[2])] = D(words[1], words[2], Len(words[1]), Len(words[2]))
  BY <1>2, <1>3 DEF Row
<1>5. /\ Shorter >= 4 <=> Len(words[1]) >= 4 /\ Len(words[2]) >= 4
      /\ Shorter >= 5 <=> Len(words[1]) >= 5 /\ Len(words[2]) >= 5
  BY ShorterIs DEF IInv, Rooted
<1>6. similar' <=> Verdict(words[1], words[2])
  BY <1>1, <1>2, <1>3, <1>4, <1>5, VerdictCases
<1>7. VerdictIsMutual'
  BY <1>1, <1>2, <1>6, VerdictReturned DEF IInv
<1>8. Rooted' /\ FoldedSoFar' /\ MeasuredSoFar'
  BY <1>1 DEF IInv, Rooted, FoldedSoFar, MeasuredSoFar
<1> QED
  BY <1>7, <1>8 DEF IInv

LEMMA Unchanged == IInv /\ UNCHANGED vars => IInv'
<1> SUFFICES ASSUME IInv, UNCHANGED vars PROVE IInv'
  OBVIOUS
<1>1. Root(1)' = Root(1) /\ Root(2)' = Root(2) /\ Shorter' = Shorter
  BY DEF vars, Root, Shorter
<1>2. Rooted' /\ FoldedSoFar' /\ MeasuredSoFar'
  BY <1>1 DEF IInv, vars, Rooted, FoldedSoFar, MeasuredSoFar
<1>3. VerdictIsMutual'
  BY DEF IInv, vars, VerdictIsMutual
<1> QED
  BY <1>2, <1>3 DEF IInv

LEMMA Invariance == Spec => []IInv
<1>1. IInv /\ [Next]_vars => IInv'
  BY BeginIsGood, FoldIsGood, FoldedIsGood, CompareIsGood, MeasureIsGood, MeasuredIsGood,
     Unchanged DEF Next, Returned
<1> QED
  BY <1>1, InitIsGood, PTL DEF Spec

-----------------------------------------------------------------------------
(* The theorems. *)

\* Whatever order the map is walked in, both labels end as they are read in one
\* pass, for labels of any length.
THEOREM FoldTheorem == Spec => []FoldIgnoresMapOrder
<1>1. IInv => FoldIgnoresMapOrder
  <2> SUFFICES ASSUME IInv, pc \in {"compare", "measure"}, NEW k \in {1, 2}
               PROVE  words[k] = AsRead(rootLabel(pair[k]))
    BY DEF FoldIgnoresMapOrder
  <2>1. words[k] = Read(Confusables, Root(k))
    BY Compared
  <2>2. Root(k) \in Seq(Letter)
    BY TypedRoots DEF IInv
  <2> QED
    BY <2>1, <2>2, AsReadIsRead DEF Root
<1> QED
  BY <1>1, Invariance, PTL

\* Every row of the table holds edit distances: the rows are the recurrence's,
\* and the recurrence is the least price of an alignment.
THEOREM RowsTheorem == Spec => []RowsAreDistances
<1>1. IInv => RowsAreDistances
  <2> SUFFICES ASSUME IInv, pc = "measure", NEW j \in 0 .. Len(words[2])
               PROVE  row[j] = Distance(SubSeq(words[1], 1, at), SubSeq(words[2], 1, j))
    BY DEF RowsAreDistances
  <2>1. words[1] \in Seq(Letter) /\ words[2] \in Seq(Letter)
    BY Compared
  <2>2. at \in 0 .. Len(words[1]) /\ row = Row(words[1], words[2], at)
    BY DEF IInv, MeasuredSoFar
  <2> QED
    BY <2>1, <2>2, DistanceIsD DEF Row
<1> QED
  BY <1>1, Invariance, PTL

\* The verdict is a symmetric relation of how the two labels read.
THEOREM VerdictTheorem == Spec => []VerdictIsMutual
<1>1. IInv => VerdictIsMutual
  BY DEF IInv
<1> QED
  BY <1>1, Invariance, PTL
=============================================================================
