---------------------------- MODULE SearchProofs ----------------------------
(***************************************************************************)
(* The invariants of the semantic index, of the search over it, of the     *)
(* chunkers and of site discovery, for every value of the constants, on    *)
(* top of the lemmas of ApiProofs about loops and finite sets.  First what *)
(* the lists of a search are: a finite set in its order, the elements of a *)
(* list at some positions, its beginning.  Then the search of the index,   *)
(* the three stages of a hybrid search (merge, fuse, collapse), and the    *)
(* tables themselves.  Then the loops over texts, URLs and sitemaps: what  *)
(* the two chunkers put into chunks, the identity of a URL, the links of a *)
(* page, and the walk over the sitemaps of a site.                         *)
(***************************************************************************)
EXTENDS ApiProofs

-----------------------------------------------------------------------------
(* Finite sets in their order.  The order is a set of pairs.                 *)

TotalOrder(S, R) ==
    /\ \A x \in S : <<x, x>> \notin R
    /\ \A x, y \in S : x # y => <<x, y>> \in R \/ <<y, x>> \in R
    /\ \A x, y, z \in S : <<x, y>> \in R /\ <<y, z>> \in R => <<x, z>> \in R

Down(S, R, x) == {y \in S : <<y, x>> \in R}

\* s lists S: each member at the place the number of those before it gives.
Sorts(s, S, R) ==
    /\ s \in [1 .. Cardinality(S) -> S]
    /\ \A n \in 1 .. Cardinality(S) : Cardinality(Down(S, R, s[n])) = n - 1

\* Two members are never at the same place, and every place is taken.
LEMMA RankFacts ==
  ASSUME NEW S, IsFiniteSet(S), NEW R, TotalOrder(S, R)
  PROVE  /\ Cardinality(S) \in Nat
         /\ \A x \in S : Cardinality(Down(S, R, x)) \in 0 .. Cardinality(S) - 1
         /\ \A x, y \in S : <<x, y>> \in R => Cardinality(Down(S, R, x)) < Cardinality(Down(S, R, y))
         /\ \A x, y \in S : Cardinality(Down(S, R, x)) = Cardinality(Down(S, R, y)) => x = y
         /\ \A n \in 1 .. Cardinality(S) : \E x \in S : Cardinality(Down(S, R, x)) = n - 1
<1>0. Cardinality(S) \in Nat
  BY FS_CardinalityType
<1>1. ASSUME NEW x \in S
      PROVE  /\ IsFiniteSet(Down(S, R, x)) /\ Cardinality(Down(S, R, x)) \in Nat
             /\ Down(S, R, x) \subseteq S /\ x \notin Down(S, R, x)
  <2>1. Down(S, R, x) \subseteq S /\ x \notin Down(S, R, x)
    BY DEF Down, TotalOrder
  <2> QED BY <2>1, FS_Subset, FS_CardinalityType
<1>2. ASSUME NEW x \in S, NEW T, IsFiniteSet(T), x \in T, Down(S, R, x) \subseteq T
      PROVE  Cardinality(Down(S, R, x)) < Cardinality(T)
  <2>1. Down(S, R, x) # T
    BY <1>1, <1>2
  <2>2. /\ Cardinality(Down(S, R, x)) <= Cardinality(T)
        /\ Cardinality(T) = Cardinality(Down(S, R, x)) => T = Down(S, R, x)
    BY <1>2, FS_Subset
  <2>3. Cardinality(T) \in Nat /\ Cardinality(Down(S, R, x)) \in Nat
    BY <1>1, <1>2, FS_CardinalityType
  <2> QED BY <2>1, <2>2, <2>3
<1>3. ASSUME NEW x \in S PROVE Cardinality(Down(S, R, x)) \in 0 .. Cardinality(S) - 1
  <2>1. Cardinality(Down(S, R, x)) < Cardinality(S)
    BY <1>1, <1>2
  <2> QED BY <1>0, <1>1, <2>1
<1>4. ASSUME NEW x \in S, NEW y \in S, <<x, y>> \in R
      PROVE  Cardinality(Down(S, R, x)) < Cardinality(Down(S, R, y))
  <2>1. x \in Down(S, R, y) /\ Down(S, R, x) \subseteq Down(S, R, y)
    BY <1>4 DEF Down, TotalOrder
  <2> QED BY <1>1, <1>2, <2>1
<1>5. ASSUME NEW x \in S, NEW y \in S, Cardinality(Down(S, R, x)) = Cardinality(Down(S, R, y))
      PROVE  x = y
  <2> SUFFICES ASSUME x # y PROVE FALSE
    OBVIOUS
  <2>1. <<x, y>> \in R \/ <<y, x>> \in R
    BY DEF TotalOrder
  <2>2. Cardinality(Down(S, R, x)) \in Nat /\ Cardinality(Down(S, R, y)) \in Nat
    BY <1>1
  <2> QED BY <1>4, <1>5, <2>1, <2>2
<1>6. ASSUME NEW n \in 1 .. Cardinality(S) PROVE \E x \in S : Cardinality(Down(S, R, x)) = n - 1
  <2> DEFINE N == Cardinality(S)
             f == [x \in S |-> Cardinality(Down(S, R, x)) + 1]
  <2>1. \A x \in S : Cardinality(Down(S, R, x)) + 1 \in 1 .. N
    BY <1>0, <1>3
  <2>2. f \in [S -> 1 .. N]
    BY <2>1
  <2>3. \A x, y \in S : f[x] = f[y] => x = y
    BY <1>1, <1>5
  <2>4. \A x \in S : f[x] = Cardinality(Down(S, R, x)) + 1
    OBVIOUS
  <2> HIDE DEF f
  <2>5. f \in Injection(S, 1 .. N)
    BY <2>2, <2>3 DEF Injection, IsInjective
  <2>6. IsFiniteSet(1 .. N) /\ Cardinality(1 .. N) = N
    BY <1>0, FS_Interval
  <2>7. f \in Surjection(S, 1 .. N)
    BY <2>5, <2>6, FS_Injection
  <2>8. PICK x \in S : f[x] = n
    BY <2>7 DEF Surjection
  <2>9. Cardinality(Down(S, R, x)) + 1 = n /\ Cardinality(Down(S, R, x)) \in Nat
    BY <1>1, <2>4, <2>8
  <2>10. Cardinality(Down(S, R, x)) = n - 1
    BY <2>9
  <2> QED BY <2>10
<1> QED BY <1>0, <1>3, <1>4, <1>5, <1>6

\* A list of S in its order.
LEMMA SortsFacts ==
  ASSUME NEW S, IsFiniteSet(S), NEW R, TotalOrder(S, R), NEW s, Sorts(s, S, R)
  PROVE  /\ \A i, j \in 1 .. Cardinality(S) : i < j <=> <<s[i], s[j]>> \in R
         /\ \A i, j \in 1 .. Cardinality(S) : s[i] = s[j] => i = j
         /\ \A x \in S : \E i \in 1 .. Cardinality(S) : s[i] = x
<1>1. /\ Cardinality(S) \in Nat
      /\ \A n \in 1 .. Cardinality(S) : s[n] \in S /\ Cardinality(Down(S, R, s[n])) = n - 1
  BY FS_CardinalityType DEF Sorts
<1>2. \A i, j \in 1 .. Cardinality(S) : s[i] = s[j] => i = j
  BY <1>1
<1>3. ASSUME NEW i \in 1 .. Cardinality(S), NEW j \in 1 .. Cardinality(S)
      PROVE  i < j <=> <<s[i], s[j]>> \in R
  <2>1. ASSUME NEW a \in 1 .. Cardinality(S), NEW b \in 1 .. Cardinality(S), <<s[a], s[b]>> \in R PROVE a < b
    <3>1. Cardinality(Down(S, R, s[a])) < Cardinality(Down(S, R, s[b]))
      BY <1>1, <2>1, RankFacts
    <3> QED BY <1>1, <3>1
  <2>2. ASSUME i < j PROVE <<s[i], s[j]>> \in R
    <3>1. s[i] # s[j]
      BY <1>1, <1>2, <2>2
    <3>2. <<s[i], s[j]>> \in R \/ <<s[j], s[i]>> \in R
      BY <1>1, <3>1 DEF TotalOrder
    <3>3. ~(j < i)
      BY <1>1, <2>2
    <3> QED BY <2>1, <3>2, <3>3
  <2> QED BY <2>1, <2>2
<1>4. ASSUME NEW x \in S PROVE \E i \in 1 .. Cardinality(S) : s[i] = x
  <2> DEFINE c == Cardinality(Down(S, R, x))
  <2>1. c \in 0 .. Cardinality(S) - 1
    BY RankFacts
  <2>2. c + 1 \in 1 .. Cardinality(S) /\ (c + 1) - 1 = c
    BY <1>1, <2>1
  <2> HIDE DEF c
  <2>3. Cardinality(Down(S, R, s[c + 1])) = c /\ s[c + 1] \in S
    BY <1>1, <2>2
  <2>4. s[c + 1] = x
    BY <2>3, RankFacts DEF c
  <2> QED BY <2>2, <2>4
<1> QED BY <1>2, <1>3, <1>4

\* An increasing list of all members is the list.
LEMMA SortsIntro ==
  ASSUME NEW S, NEW R, TotalOrder(S, R), NEW n \in Nat, NEW s \in [1 .. n -> S],
         \A i, j \in 1 .. n : i < j => <<s[i], s[j]>> \in R,
         \A x \in S : \E i \in 1 .. n : s[i] = x
  PROVE  IsFiniteSet(S) /\ Cardinality(S) = n /\ Sorts(s, S, R)
<1>0. ASSUME NEW i \in 1 .. n, NEW j \in 1 .. n, s[i] = s[j] PROVE i = j
  <2>1. ~(i < j) /\ ~(j < i)
    BY <1>0 DEF TotalOrder
  <2> QED BY <2>1
<1>1. ASSUME NEW m \in 0 .. n, NEW T, \A x : x \in T <=> \E i \in 1 .. m : x = s[i]
      PROVE  IsFiniteSet(T) /\ Cardinality(T) = m
  <2> DEFINE f == [i \in 1 .. m |-> s[i]]
  <2>0. \A i \in 1 .. m : i \in 1 .. n
    OBVIOUS
  <2>1. f \in Bijection(1 .. m, T)
    <3>1. f \in [1 .. m -> T]
      BY <1>1
    <3>2. \A i, j \in 1 .. m : f[i] = f[j] => i = j
      BY <1>0, <2>0
    <3>3. \A x \in T : \E i \in 1 .. m : f[i] = x
      BY <1>1
    <3> HIDE DEF f
    <3> QED BY <3>1, <3>2, <3>3 DEF Bijection, Injection, Surjection, IsInjective
  <2>2. IsFiniteSet(1 .. m) /\ Cardinality(1 .. m) = m
    BY FS_Interval
  <2> HIDE DEF f
  <2>3. IsFiniteSet(T) /\ Cardinality(T) = Cardinality(1 .. m)
    BY <2>1, <2>2, FS_Bijection DEF ExistsBijection
  <2> QED BY <2>2, <2>3
<1>2. IsFiniteSet(S) /\ Cardinality(S) = n
  <2>1. \A x : x \in S <=> \E i \in 1 .. n : x = s[i]
    OBVIOUS
  <2> QED BY <1>1, <2>1
<1>3. ASSUME NEW k \in 1 .. n PROVE Cardinality(Down(S, R, s[k])) = k - 1
  <2>1. k - 1 \in 0 .. n
    OBVIOUS
  <2>2. ASSUME NEW x PROVE x \in Down(S, R, s[k]) <=> \E i \in 1 .. k - 1 : x = s[i]
    <3>1. ASSUME NEW i \in 1 .. k - 1 PROVE s[i] \in Down(S, R, s[k])
      <4>1. i \in 1 .. n /\ i < k
        OBVIOUS
      <4> QED BY <4>1 DEF Down
    <3>2. ASSUME x \in Down(S, R, s[k]) PROVE \E i \in 1 .. k - 1 : x = s[i]
      <4>1. x \in S /\ <<x, s[k]>> \in R
        BY <3>2 DEF Down
      <4>2. PICK i \in 1 .. n : s[i] = x
        BY <4>1
      <4>3. ~(k < i) /\ i # k
        <5>1. ASSUME k < i PROVE FALSE
          <6>1. <<s[k], s[i]>> \in R /\ s[k] \in S /\ s[i] \in S
            BY <5>1
          <6>2. <<s[i], s[k]>> \in R
            BY <4>1, <4>2
          <6> QED BY <6>1, <6>2 DEF TotalOrder
        <5>2. i # k
          BY <4>1, <4>2 DEF TotalOrder
        <5> QED BY <5>1, <5>2
      <4> QED BY <4>2, <4>3
    <3> QED BY <3>1, <3>2
  <2> QED BY <1>1, <2>1, <2>2
<1> QED BY <1>2, <1>3 DEF Sorts

\* There is one such list, and that of a subset with all that comes before its
\* members is its beginning.
LEMMA SortsPrefix ==
  ASSUME NEW S, IsFiniteSet(S), NEW R, TotalOrder(S, R), NEW D \in SUBSET S,
         \A x \in D, y \in S : <<y, x>> \in R => y \in D,
         NEW s, Sorts(s, S, R), NEW d, Sorts(d, D, R)
  PROVE  /\ Cardinality(D) \in Nat /\ Cardinality(S) \in Nat /\ Cardinality(D) <= Cardinality(S)
         /\ \A n \in 1 .. Cardinality(D) : d[n] = s[n]
<1>1. /\ Cardinality(D) \in Nat /\ Cardinality(S) \in Nat /\ Cardinality(D) <= Cardinality(S)
  BY FS_Subset, FS_CardinalityType
<1>2. ASSUME NEW n \in 1 .. Cardinality(D) PROVE d[n] = s[n]
  <2>1. n \in 1 .. Cardinality(S)
    BY <1>1
  <2>2. d[n] \in D /\ Cardinality(Down(D, R, d[n])) = n - 1
    BY DEF Sorts
  <2>3. s[n] \in S /\ Cardinality(Down(S, R, s[n])) = n - 1
    BY <2>1 DEF Sorts
  <2>4. Down(D, R, d[n]) = Down(S, R, d[n])
    BY <2>2 DEF Down
  <2> QED BY <2>2, <2>3, <2>4, RankFacts
<1> QED BY <1>1, <1>2

-----------------------------------------------------------------------------
(* The lists of the search (InOrder, Pick, Prefix).                          *)

Increasing == {p \in Nat \X Nat : p[1] < p[2]}

LEMMA NumbersAreOrdered ==
  ASSUME NEW S \in SUBSET Nat
  PROVE  TotalOrder(S, Increasing) /\ \A a, b \in Nat : <<a, b>> \in Increasing <=> a < b
<1>1. \A a, b \in Nat : <<a, b>> \in Increasing <=> a < b
  BY DEF Increasing
<1> QED BY <1>1 DEF TotalOrder

\* The same facts in a form to instantiate.
Ordered(S, R) == IsFiniteSet(S) /\ TotalOrder(S, R)
PlacesTaken(S, R) ==
    \A n \in 1 .. Cardinality(S) : \E x \in S : Cardinality(Down(S, R, x)) = n - 1
Lists(s, S, R) ==
    /\ \A i, j \in 1 .. Cardinality(S) : i < j <=> <<s[i], s[j]>> \in R
    /\ \A i, j \in 1 .. Cardinality(S) : s[i] = s[j] => i = j
    /\ \A x \in S : \E i \in 1 .. Cardinality(S) : s[i] = x

LEMMA OrderLaws ==
  ASSUME NEW S, NEW R, Ordered(S, R)
  PROVE  PlacesTaken(S, R) /\ \A s : Sorts(s, S, R) => Lists(s, S, R)
<1>1. IsFiniteSet(S) /\ TotalOrder(S, R)
  BY DEF Ordered
<1>2. PlacesTaken(S, R)
  BY <1>1, RankFacts DEF PlacesTaken
<1>3. ASSUME NEW s, Sorts(s, S, R) PROVE Lists(s, S, R)
  BY <1>1, <1>3, SortsFacts DEF Lists
<1> QED BY <1>2, <1>3

\* What Pick makes of a list: the elements at the positions in keep, in order.
Picks(q, s, keep) ==
    \E order \in [1 .. Cardinality(keep) -> keep] :
        /\ q = [n \in 1 .. Cardinality(keep) |-> s[order[n]]]
        /\ \A i, j \in 1 .. Cardinality(keep) : i < j <=> order[i] < order[j]
        /\ \A x \in keep : \E i \in 1 .. Cardinality(keep) : order[i] = x

LEMMA PickFacts ==
  ASSUME NEW s, NEW n \in Nat, NEW keep \in SUBSET (1 .. n)
  PROVE  IsFiniteSet(keep) /\ Cardinality(keep) \in Nat /\ Picks(Pick(s, keep), s, keep)
<1> DEFINE C == Cardinality(keep)
           before(x) == {y \in keep : y < x}
           at(k) == CHOOSE x \in keep : Cardinality(before(x)) = k - 1
           o == [k \in 1 .. C |-> at(k)]
<1>1. IsFiniteSet(keep) /\ C \in Nat /\ keep \subseteq Nat
  <2>1. IsFiniteSet(1 .. n)
    BY FS_Interval
  <2>2. IsFiniteSet(keep)
    BY <2>1, FS_Subset
  <2>3. C \in Nat
    BY <2>2, FS_CardinalityType
  <2> QED BY <2>2, <2>3
<1>0. Pick(s, keep) = [k \in 1 .. C |-> s[o[k]]]
  BY DEF Pick, InOrder
<1>2. TotalOrder(keep, Increasing)
  BY <1>1, NumbersAreOrdered
<1>3. ASSUME NEW x \in keep PROVE before(x) = Down(keep, Increasing, x)
  BY <1>1, NumbersAreOrdered DEF Down
<1> HIDE DEF before
<1>11. \A k \in 1 .. C : \E x \in keep : Cardinality(before(x)) = k - 1
  <2> HIDE DEF at, o
  <2>1. \A k \in 1 .. C : \E x \in keep : Cardinality(Down(keep, Increasing, x)) = k - 1
    <3>1. PlacesTaken(keep, Increasing)
      BY <1>1, <1>2, OrderLaws DEF Ordered
    <3> QED BY <3>1 DEF PlacesTaken
  <2> QED BY <1>3, <2>1
<1>4. ASSUME NEW k \in 1 .. C
      PROVE  o[k] \in keep /\ Cardinality(Down(keep, Increasing, o[k])) = k - 1
  <2>3. at(k) \in keep /\ Cardinality(before(at(k))) = k - 1
    BY <1>11
  <2> HIDE DEF at
  <2>4. o[k] = at(k)
    OBVIOUS
  <2> QED BY <1>3, <2>3, <2>4
<1>6. o \in [1 .. C -> keep]
  BY <1>4
<1> HIDE DEF o
<1>7. Sorts(o, keep, Increasing)
  BY <1>4, <1>6 DEF Sorts
<1>8. /\ \A i, j \in 1 .. C : i < j <=> <<o[i], o[j]>> \in Increasing
      /\ \A x \in keep : \E i \in 1 .. C : o[i] = x
  BY <1>1, <1>2, <1>7, SortsFacts
<1>9. \A i, j \in 1 .. C : i < j <=> o[i] < o[j]
  <2>1. \A i \in 1 .. C : o[i] \in Nat
    BY <1>1, <1>6
  <2> QED BY <1>8, <2>1, NumbersAreOrdered
<1> QED BY <1>0, <1>1, <1>6, <1>8, <1>9 DEF Picks

\* The beginning of a list.
LEMMA BeginningOf ==
  ASSUME NEW T, NEW s \in Seq(T), NEW n \in Nat
  PROVE  /\ Prefix(s, n) \in Seq(T)
         /\ Len(Prefix(s, n)) = IF n < Len(s) THEN n ELSE Len(s)
         /\ \A i \in 1 .. Len(Prefix(s, n)) : Prefix(s, n)[i] = s[i]
         /\ Prefix(s, n) = [i \in 1 .. (IF n < Len(s) THEN n ELSE Len(s)) |-> s[i]]
<1> DEFINE m == IF n < Len(s) THEN n ELSE Len(s)
<1>1. m \in Nat /\ m <= Len(s) /\ Len(s) \in Nat
  OBVIOUS
<1>2. Prefix(s, n) = SubSeq(s, 1, m)
  BY DEF Prefix
<1> HIDE DEF m
<1>3. SubSeq(s, 1, m) = [i \in 1 .. m |-> s[i]]
  BY <1>1
<1>4. \A i \in 1 .. m : s[i] \in T
  BY <1>1
<1>5. [i \in 1 .. m |-> s[i]] \in Seq(T) /\ Len([i \in 1 .. m |-> s[i]]) = m
  BY <1>1, <1>4
<1> QED BY <1>1, <1>2, <1>3, <1>5 DEF m

-----------------------------------------------------------------------------
(* A search is exact (search() of vecindex.py).                              *)

\* What the search needs of the tables.
RowsRanked ==
    /\ IsFiniteSet(rows)
    /\ \A r \in rows : r.id \in Nat /\ r.distance \in Nat /\ r.ref \in Refs
    /\ \A a, b \in rows : a.id = b.id => a = b
    /\ {v[1] : v \in vectors} = {r.id : r \in rows}

\* The order of the hits, as a set of pairs.
Nearer == {p \in rows \X rows : Closer(p[1], p[2])}

LEMMA RowsAreOrdered ==
  ASSUME RowsRanked, NEW T \in SUBSET rows
  PROVE  /\ IsFiniteSet(T) /\ Cardinality(T) \in Nat /\ TotalOrder(T, Nearer)
         /\ \A a, b \in rows : <<a, b>> \in Nearer <=> Closer(a, b)
<1>1. \A a, b \in rows : <<a, b>> \in Nearer <=> Closer(a, b)
  BY DEF Nearer
<1>2. \A a \in rows : a.id \in Nat /\ a.distance \in Nat
  BY DEF RowsRanked
<1>3. \A a, b \in rows : a.id = b.id => a = b
  BY DEF RowsRanked
<1>4. TotalOrder(T, Nearer)
  <2>1. \A x \in T : ~Closer(x, x)
    BY <1>2 DEF Closer
  <2>2. \A x, y \in T : x # y => Closer(x, y) \/ Closer(y, x)
    BY <1>2, <1>3 DEF Closer
  <2>3. \A x, y, z \in T : Closer(x, y) /\ Closer(y, z) => Closer(x, z)
    BY <1>2 DEF Closer
  <2> QED BY <1>1, <2>1, <2>2, <2>3 DEF TotalOrder
<1>5. IsFiniteSet(T)
  BY FS_Subset DEF RowsRanked
<1>6. Cardinality(T) \in Nat
  BY <1>5, FS_CardinalityType
<1> QED BY <1>1, <1>4, <1>5, <1>6

\* The rows of a set in the order of their distance.
LEMMA ByDistance ==
  ASSUME RowsRanked, NEW T \in SUBSET rows
  PROVE  /\ InOrder(T, Closer) = [n \in 1 .. Cardinality(T) |-> InOrder(T, Closer)[n]]
         /\ Sorts(InOrder(T, Closer), T, Nearer)
<1> DEFINE C == Cardinality(T)
           before(x) == {y \in T : Closer(y, x)}
           at(k) == CHOOSE x \in T : Cardinality(before(x)) = k - 1
           o == [k \in 1 .. C |-> at(k)]
<1>0. InOrder(T, Closer) = o
  BY DEF InOrder
<1>1. IsFiniteSet(T) /\ TotalOrder(T, Nearer) /\ \A a, b \in T : <<a, b>> \in Nearer <=> Closer(a, b)
  BY RowsAreOrdered
<1>2. ASSUME NEW x \in T PROVE before(x) = Down(T, Nearer, x)
  BY <1>1 DEF Down
<1> HIDE DEF before
<1>3. \A k \in 1 .. C : \E x \in T : Cardinality(before(x)) = k - 1
  <2> HIDE DEF at, o
  <2>1. PlacesTaken(T, Nearer)
    BY <1>1, OrderLaws DEF Ordered
  <2> QED BY <1>2, <2>1 DEF PlacesTaken
<1>4. ASSUME NEW k \in 1 .. C
      PROVE  o[k] \in T /\ Cardinality(Down(T, Nearer, o[k])) = k - 1
  <2>1. at(k) \in T /\ Cardinality(before(at(k))) = k - 1
    BY <1>3
  <2> HIDE DEF at
  <2>2. o[k] = at(k)
    OBVIOUS
  <2> QED BY <1>2, <2>1, <2>2
<1>5. o = [k \in 1 .. C |-> o[k]]
  OBVIOUS
<1> HIDE DEF o
<1> QED BY <1>0, <1>4, <1>5 DEF Sorts

\* Every row has its vector and the other way round, so that the ranking is the
\* rows in their order.
LEMMA RankedIsRows ==
  ASSUME RowsRanked
  PROVE  Ranked = InOrder(rows, Closer)
<1> DEFINE joined == {r \in rows : \E v \in vectors : v[1] = r.id}
           orphan(v) == [id |-> v[1], ref |-> "gone", version |-> 0, pos |-> 0, distance |-> 0]
           lost == {v \in vectors : \A r \in rows : r.id # v[1]}
<1>1. joined = rows
  <2>1. ASSUME NEW r \in rows PROVE \E v \in vectors : v[1] = r.id
    <3>1. r.id \in {v[1] : v \in vectors}
      BY DEF RowsRanked
    <3> QED BY <3>1
  <2> QED BY <2>1
<1>2. lost = {}
  <2>1. ASSUME NEW v \in vectors PROVE \E r \in rows : r.id = v[1]
    <3>1. v[1] \in {r.id : r \in rows}
      BY DEF RowsRanked
    <3> QED BY <3>1
  <2> QED BY <2>1
<1>3. Ranked = InOrder(joined \cup {orphan(v) : v \in lost}, Closer)
  BY DEF Ranked
<1> HIDE DEF joined, lost, orphan
<1>4. joined \cup {orphan(v) : v \in lost} = rows
  BY <1>1, <1>2
<1> QED BY <1>3, <1>4

LEMMA ListIsSeq ==
  ASSUME NEW T, NEW n \in Nat, NEW q \in [1 .. n -> T]
  PROVE  q \in Seq(T) /\ Len(q) = n
OBVIOUS

\* The candidate windows grow by one row at least until they hold all.
LEMMA WindowsReachAll ==
  ASSUME NEW total \in Nat, NEW k \in Nat \ {0}, NEW filtered \in BOOLEAN
  PROVE  /\ \A n \in 0 .. total : Windows(total, k, filtered)[n] \in Nat
         /\ Windows(total, k, filtered)[total] >= total
<1> USE IndexAssumption
<1> DEFINE first == IF filtered THEN Least(total, Most(k, FirstWindow)) ELSE Least(total, k)
           IsLoop(f) == f = [n \in 0 .. total |-> IF n = 0 THEN first ELSE Least(total, 2 * f[n - 1])]
           G == [n \in Nat |-> [x \in Nat |-> Least(total, 2 * x)]]
<1>0. first \in Nat /\ first >= Least(total, 1)
  BY DEF Least, Most
<1>1. Windows(total, k, filtered) = CHOOSE f : IsLoop(f)
  BY DEF Windows
<1> HIDE DEF first
<1>2. \A x \in Nat : Least(total, 2 * x) \in Nat
  BY DEF Least
<1>3. G \in [Nat -> [Nat -> Nat]] /\ \A n, x \in Nat : G[n][x] = Least(total, 2 * x)
  BY <1>2
<1> HIDE DEF G
<1>4. \E f : Loop(f, Nat, first, G, total)
  BY <1>0, <1>3, LoopExists
<1>5. PICK f0 \in [0 .. total -> Nat] : f0[0] = first /\ \A n \in 0 .. total : n # 0 => f0[n] = G[n][f0[n - 1]]
  BY <1>4 DEF Loop
<1>6. IsLoop(f0)
  <2>1. ASSUME NEW n \in 0 .. total, n # 0 PROVE f0[n] = Least(total, 2 * f0[n - 1])
    <3>1. n \in Nat /\ n - 1 \in 0 .. total
      BY <2>1
    <3>2. f0[n - 1] \in Nat
      BY <3>1
    <3> QED BY <1>3, <1>5, <2>1, <3>1, <3>2
  <2> QED BY <1>5, <2>1
<1> DEFINE g == CHOOSE f : IsLoop(f)
<1>7. IsLoop(g)
  BY <1>6
<1> HIDE DEF g
<1>8. g[0] = first /\ \A n \in 1 .. total : g[n] = Least(total, 2 * g[n - 1])
  <2>1. 0 \in 0 .. total /\ \A n \in 1 .. total : n \in 0 .. total /\ n # 0
    OBVIOUS
  <2> QED BY <1>7, <2>1
<1> HIDE DEF IsLoop
<1> DEFINE S == {n \in Nat : n <= total => g[n] \in Nat /\ g[n] >= Least(total, n + 1)}
<1>9. 0 \in S
  BY <1>0, <1>8
<1>10. ASSUME NEW n \in S PROVE n + 1 \in S
  <2> SUFFICES ASSUME n + 1 <= total PROVE g[n + 1] \in Nat /\ g[n + 1] >= Least(total, (n + 1) + 1)
    OBVIOUS
  <2>1. n \in Nat /\ n + 1 \in 1 .. total /\ (n + 1) - 1 = n /\ g[n] \in Nat /\ g[n] >= Least(total, n + 1)
    OBVIOUS
  <2>2. g[n + 1] = Least(total, 2 * g[n])
    BY <1>8, <2>1
  <2> QED BY <2>1, <2>2 DEF Least
<1>11. S = Nat
  <2>1. S \in SUBSET Nat
    OBVIOUS
  <2> HIDE DEF S
  <2> QED BY <1>9, <1>10, <2>1, NatSetInduction
<1>12. \A n \in 0 .. total : g[n] \in Nat /\ g[n] >= Least(total, n + 1)
  BY <1>11
<1>13. g[total] >= total
  <2>1. g[total] >= Least(total, total + 1) /\ g[total] \in Nat
    BY <1>12
  <2> QED BY <2>1 DEF Least
<1> QED BY <1>1, <1>12, <1>13 DEF g

\* The matching rows of a window are the first of all matching rows.
LEMMA HitsAreNearest ==
  ASSUME RowsRanked, NEW window \in Nat, NEW k \in Nat \ {0}, NEW filtered \in BOOLEAN,
         NEW near, near = Nearest(k, filtered), NEW hits, hits = Hits(Ranked, window, k, filtered)
  PROVE  /\ Len(hits) \in Nat
         /\ Len(hits) >= k \/ window >= Cardinality(rows) => hits = near
<1> DEFINE R == Nearer
           N == Cardinality(rows)
           ranked == InOrder(rows, Closer)
           M == {r \in rows : Matches(r, filtered)}
           C == Cardinality(M)
           all == InOrder(M, Closer)
           keep == {i \in 1 .. N : i <= window /\ Matches(ranked[i], filtered)}
           c == Cardinality(keep)
           q == Pick(ranked, keep)
           D == {ranked[i] : i \in keep}
<1>1. N \in Nat /\ C \in Nat /\ M \in SUBSET rows /\ IsFiniteSet(M)
  BY RowsAreOrdered
<1>2. ranked = [n \in 1 .. N |-> ranked[n]] /\ Sorts(ranked, rows, R)
  BY ByDistance
<1>3. all = [n \in 1 .. C |-> all[n]] /\ Sorts(all, M, R)
  BY <1>1, ByDistance
<1>4. TotalOrder(rows, R) /\ IsFiniteSet(rows) /\ TotalOrder(M, R)
  BY <1>1, RowsAreOrdered
<1>5. hits = Prefix(q, k)
  <2>1. DOMAIN ranked = 1 .. N
    BY <1>2
  <2>2. {i \in DOMAIN ranked : i <= window /\ Matches(ranked[i], filtered)} = keep
    BY <2>1
  <2>3. Ranked = ranked
    BY RankedIsRows
  <2> HIDE DEF ranked, keep
  <2> QED BY <2>2, <2>3 DEF Hits
<1>6. near = Prefix(all, k)
  BY DEF Nearest
<1>7. \A i \in keep : i \in 1 .. N /\ i <= window /\ Matches(ranked[i], filtered)
  OBVIOUS
<1>8. \A i \in 1 .. N : i <= window /\ Matches(ranked[i], filtered) => i \in keep
  OBVIOUS
<1>9. keep \in SUBSET (1 .. N)
  OBVIOUS
<1>10. \A r \in rows : r \in M <=> Matches(r, filtered)
  OBVIOUS
<1>11. \A x : x \in D <=> \E i \in keep : x = ranked[i]
  OBVIOUS
<1> HIDE DEF R, ranked, M, all, keep, D
<1>12. IsFiniteSet(keep) /\ c \in Nat /\ Picks(q, ranked, keep)
  BY <1>1, <1>9, PickFacts
<1>13. PICK order \in [1 .. c -> keep] :
          /\ q = [n \in 1 .. c |-> ranked[order[n]]]
          /\ \A i, j \in 1 .. c : i < j <=> order[i] < order[j]
          /\ \A x \in keep : \E i \in 1 .. c : order[i] = x
  BY <1>12 DEF Picks
<1> HIDE DEF q, c
<1>14. /\ \A i, j \in 1 .. N : i < j <=> <<ranked[i], ranked[j]>> \in R
       /\ \A x \in rows : \E i \in 1 .. N : ranked[i] = x
       /\ \A i \in 1 .. N : ranked[i] \in rows
  <2>1. Lists(ranked, rows, R)
    BY <1>2, <1>4, OrderLaws DEF Ordered
  <2>2. Lists(ranked, rows, R) => /\ \A i, j \in 1 .. N : i < j <=> <<ranked[i], ranked[j]>> \in R
                                  /\ \A x \in rows : \E i \in 1 .. N : ranked[i] = x
    BY DEF Lists
  <2>3. \A i \in 1 .. N : ranked[i] \in rows
    BY <1>2 DEF Sorts
  <2> QED BY <2>1, <2>2, <2>3
<1> HIDE DEF N
<1>15. \A x \in D : x \in M
  BY <1>7, <1>10, <1>11, <1>14
<1>16. ASSUME NEW x \in D, NEW y \in M, <<y, x>> \in R PROVE y \in D
  <2>1. PICK i \in keep : x = ranked[i]
    BY <1>11
  <2>2. y \in rows /\ Matches(y, filtered)
    BY <1>1, <1>10
  <2>3. PICK j \in 1 .. N : ranked[j] = y
    BY <1>14, <2>2
  <2>4. j < i
    BY <1>7, <1>14, <1>16, <2>1, <2>3
  <2>5. j <= window
    BY <1>1, <1>7, <2>4
  <2> QED BY <1>8, <1>11, <2>2, <2>3, <2>5
<1>17. /\ q \in [1 .. c -> D]
       /\ \A i, j \in 1 .. c : i < j => <<q[i], q[j]>> \in R
       /\ \A x \in D : \E i \in 1 .. c : q[i] = x
  <2>1. \A i \in 1 .. c : q[i] = ranked[order[i]] /\ order[i] \in keep /\ order[i] \in 1 .. N
    BY <1>7, <1>13
  <2>2. q \in [1 .. c -> D]
    BY <1>11, <1>13, <2>1
  <2>3. \A i, j \in 1 .. c : i < j => <<q[i], q[j]>> \in R
    BY <1>13, <1>14, <2>1
  <2>4. \A x \in D : \E i \in 1 .. c : q[i] = x
    BY <1>11, <1>13, <2>1
  <2> QED BY <2>2, <2>3, <2>4
<1>18. TotalOrder(D, R) /\ D \in SUBSET M
  BY <1>4, <1>15 DEF TotalOrder
<1>19. Cardinality(D) = c /\ Sorts(q, D, R)
  BY <1>12, <1>17, <1>18, SortsIntro
<1>20. c <= C /\ \A n \in 1 .. c : q[n] = all[n]
  <2>1. /\ Cardinality(D) <= Cardinality(M) /\ \A n \in 1 .. Cardinality(D) : q[n] = all[n]
    BY <1>1, <1>3, <1>4, <1>16, <1>18, <1>19, SortsPrefix
  <2> QED BY <1>19, <2>1
<1>21. \A n \in 1 .. C : all[n] \in M
  BY <1>3 DEF Sorts
<1> HIDE DEF C
<1>22. q \in Seq(rows) /\ all \in Seq(rows) /\ Len(q) = c /\ Len(all) = C
  <2>1. \A n \in 1 .. c : q[n] \in rows
    BY <1>1, <1>15, <1>17
  <2>2. \A n \in 1 .. C : all[n] \in rows
    BY <1>1, <1>21
  <2>3. q \in [1 .. c -> rows]
    BY <1>17, <2>1
  <2>4. all \in [1 .. C -> rows]
    BY <1>3, <2>2
  <2> QED BY <1>1, <1>12, <2>3, <2>4, ListIsSeq
<1>23. /\ hits = [i \in 1 .. (IF k < c THEN k ELSE c) |-> q[i]] /\ Len(hits) = IF k < c THEN k ELSE c
       /\ near = [i \in 1 .. (IF k < C THEN k ELSE C) |-> all[i]]
  BY <1>5, <1>6, <1>22, BeginningOf
<1>24. Len(hits) \in Nat
  BY <1>12, <1>23
<1>25. ASSUME Len(hits) >= k PROVE hits = near
  <2>1. c >= k
    BY <1>12, <1>23, <1>25
  <2>2. hits = [i \in 1 .. k |-> q[i]] /\ near = [i \in 1 .. k |-> all[i]]
    BY <1>1, <1>12, <1>20, <1>23, <2>1
  <2>3. \A i \in 1 .. k : q[i] = all[i]
    BY <1>12, <1>20, <2>1
  <2> QED BY <2>2, <2>3
<1>26. ASSUME window >= N PROVE hits = near
  <2>1. \A x \in M : x \in D
    <3>1. ASSUME NEW x \in M PROVE x \in D
      <4>1. x \in rows /\ Matches(x, filtered)
        BY <1>1, <1>10
      <4>2. PICK i \in 1 .. N : ranked[i] = x
        BY <1>14, <4>1
      <4>3. i <= window
        BY <1>1, <1>26
      <4> QED BY <1>8, <1>11, <4>1, <4>2, <4>3
    <3> QED BY <3>1
  <2>2. c = C
    <3>1. M = D
      BY <1>15, <2>1
    <3> QED BY <1>19, <3>1 DEF C
  <2>3. \A i \in 1 .. C : q[i] = all[i]
    BY <1>20, <2>2
  <2>4. \A i \in 1 .. (IF k < C THEN k ELSE C) : q[i] = all[i]
    BY <1>1, <2>3
  <2> QED BY <1>23, <2>2, <2>4
<1> QED BY <1>24, <1>25, <1>26 DEF N

\* The answer is that of the first window that gives k hits, or of the last.
LEMMA SearchAnswers ==
  ASSUME RowsRanked, NEW k \in Nat \ {0}, NEW filtered \in BOOLEAN
  PROVE  Widened(k, filtered) = Nearest(k, filtered)
<1> DEFINE total == Cardinality(rows)
           windows == Windows(total, k, filtered)
           ranked == Ranked
           answers == [n \in 0 .. total |-> Hits(ranked, windows[n], k, filtered)]
           full == {n \in 0 .. total : Len(answers[n]) >= k}
           near == Nearest(k, filtered)
<1>1. total \in Nat
  BY RowsAreOrdered
<1>2. (\A n \in 0 .. total : windows[n] \in Nat) /\ windows[total] >= total
  BY <1>1, WindowsReachAll
<1>3. \A n \in 0 .. total : answers[n] = Hits(Ranked, windows[n], k, filtered)
  OBVIOUS
<1>4. Widened(k, filtered) = answers[IF full = {} THEN total ELSE CHOOSE n \in full : \A m \in full : n <= m]
  BY DEF Widened
<1> HIDE DEF windows, answers, near
<1>5. ASSUME NEW n \in 0 .. total, Len(answers[n]) >= k PROVE answers[n] = near
  <2>1. windows[n] \in Nat /\ answers[n] = Hits(Ranked, windows[n], k, filtered)
    BY <1>2, <1>3
  <2> HIDE DEF full
  <2> QED BY <1>5, <2>1, HitsAreNearest DEF near
<1>6. answers[total] = near
  <2>1. total \in 0 .. total
    BY <1>1
  <2> DEFINE w == windows[total]
  <2>2. w \in Nat /\ w >= total /\ answers[total] = Hits(Ranked, w, k, filtered)
    BY <1>2, <1>3, <2>1
  <2> HIDE DEF full, w
  <2> QED BY <2>2, HitsAreNearest DEF near
<1>7. CASE full = {}
  BY <1>4, <1>6, <1>7 DEF near
<1>8. CASE full # {}
  <2>1. full \in SUBSET Nat
    BY <1>1
  <2>2. \A n \in full : n \in 0 .. total /\ Len(answers[n]) >= k
    OBVIOUS
  <2> HIDE DEF full
  <2>3. \E n \in full : \A m \in full : n <= m
    BY <1>8, <2>1, LeastNatural
  <2> DEFINE n0 == CHOOSE n \in full : \A m \in full : n <= m
  <2>4. n0 \in full
    BY <2>3
  <2>5. Widened(k, filtered) = answers[n0]
    BY <1>4, <1>8
  <2> HIDE DEF n0
  <2> QED BY <1>5, <2>2, <2>4, <2>5 DEF near
<1> QED BY <1>7, <1>8

-----------------------------------------------------------------------------
(* The keyword sources take turns (_merge_keyword_sources).                  *)

\* A list without repetitions.
Distinct(s, T) == s \in Seq(T) /\ \A i, j \in 1 .. Len(s) : s[i] = s[j] => i = j

\* A list that begins with another.
Continues(long, short) ==
    Len(short) <= Len(long) /\ \A i \in 1 .. Len(short) : long[i] = short[i]

\* What one source adds in its turn: nothing when the list is full or all of its
\* hits are in it, otherwise its first hit that is not.
Taken(grown, out, hits, limit) ==
    \/ grown = out /\ (Len(out) >= limit \/ \A i \in 1 .. Len(hits) : hits[i] \in Listed(out))
    \/ /\ Len(out) < limit
       /\ \E i \in 1 .. Len(hits) :
            /\ grown = Append(out, hits[i]) /\ hits[i] \notin Listed(out)
            /\ \A j \in 1 .. i - 1 : hits[j] \in Listed(out)

LEMMA ListedFacts ==
  ASSUME NEW T, NEW s \in Seq(T)
  PROVE  \A x : x \in Listed(s) <=> \E i \in 1 .. Len(s) : s[i] = x
<1>1. DOMAIN s = 1 .. Len(s)
  OBVIOUS
<1> QED BY <1>1 DEF Listed, Range

LEMMA ContinuesListed ==
  ASSUME NEW T, NEW short \in Seq(T), NEW long \in Seq(T), Continues(long, short)
  PROVE  \A x \in Listed(short) : x \in Listed(long)
<1>1. ASSUME NEW x \in Listed(short) PROVE x \in Listed(long)
  <2>1. PICK i \in 1 .. Len(short) : short[i] = x
    BY ListedFacts
  <2>2. Len(short) \in Nat /\ Len(long) \in Nat
    OBVIOUS
  <2>3. i \in 1 .. Len(long) /\ long[i] = x
    BY <2>1, <2>2 DEF Continues
  <2> QED BY <2>3, ListedFacts
<1> QED BY <1>1

LEMMA TakeTurnTakes ==
  ASSUME NEW T, NEW out \in Seq(T), NEW hits \in Seq(T), NEW limit \in Nat
  PROVE  Taken(TakeTurn(out, hits, limit), out, hits, limit)
<1> DEFINE unseen == {i \in 1 .. Len(hits) : hits[i] \notin Listed(out)}
           i0 == CHOOSE i \in unseen : \A j \in unseen : i <= j
<1>1. DOMAIN hits = 1 .. Len(hits) /\ Len(out) \in Nat /\ Len(hits) \in Nat
  OBVIOUS
<1>2. TakeTurn(out, hits, limit) = IF Len(out) >= limit \/ unseen = {} THEN out ELSE Append(out, hits[i0])
  BY <1>1 DEF TakeTurn
<1>3. CASE Len(out) >= limit \/ unseen = {}
  BY <1>2, <1>3 DEF Taken
<1>4. CASE ~(Len(out) >= limit \/ unseen = {})
  <2>1. unseen \in SUBSET Nat /\ unseen # {}
    BY <1>4
  <2>2. \E i \in unseen : \A j \in unseen : i <= j
    <3> HIDE DEF unseen
    <3> QED BY <2>1, LeastNatural
  <2>3. i0 \in unseen /\ \A j \in unseen : i0 <= j
    BY <2>2
  <2>4. TakeTurn(out, hits, limit) = Append(out, hits[i0])
    BY <1>2, <1>4
  <2> HIDE DEF i0
  <2>5. i0 \in 1 .. Len(hits) /\ hits[i0] \notin Listed(out)
    BY <2>3
  <2>6. \A j \in 1 .. i0 - 1 : hits[j] \in Listed(out)
    <3>1. ASSUME NEW j \in 1 .. i0 - 1, hits[j] \notin Listed(out) PROVE FALSE
      <4>1. j \in 1 .. Len(hits) /\ j < i0
        BY <1>1, <2>5
      <4> QED BY <2>3, <2>5, <3>1, <4>1
    <3> QED BY <3>1
  <2>7. Len(out) < limit
    BY <1>1, <1>4
  <2> QED BY <2>4, <2>5, <2>6, <2>7 DEF Taken
<1> QED BY <1>3, <1>4

\* A turn keeps the list a list without repetitions, and within the limit.
LEMMA TurnKeeps ==
  ASSUME NEW T, NEW out, Distinct(out, T), NEW hits \in Seq(T), NEW limit \in Nat, NEW grown,
         Taken(grown, out, hits, limit)
  PROVE  /\ Distinct(grown, T) /\ Continues(grown, out) /\ Len(grown) <= Len(out) + 1
         /\ Len(out) <= limit => Len(grown) <= limit
<1>0. out \in Seq(T) /\ Len(out) \in Nat
  BY DEF Distinct
<1>1. CASE grown = out
  BY <1>0, <1>1 DEF Continues
<1>2. ASSUME NEW i \in 1 .. Len(hits), grown = Append(out, hits[i]), hits[i] \notin Listed(out), Len(out) < limit
      PROVE  /\ Distinct(grown, T) /\ Continues(grown, out) /\ Len(grown) <= Len(out) + 1
             /\ Len(out) <= limit => Len(grown) <= limit
  <2>1. hits[i] \in T
    OBVIOUS
  <2>2. /\ grown \in Seq(T) /\ Len(grown) = Len(out) + 1 /\ grown[Len(out) + 1] = hits[i]
        /\ \A j \in 1 .. Len(out) : grown[j] = out[j]
    BY <1>0, <1>2, <2>1
  <2>3. \A j \in 1 .. Len(out) : out[j] # hits[i]
    BY <1>0, <1>2, ListedFacts
  <2>4. ASSUME NEW a \in 1 .. Len(grown), NEW b \in 1 .. Len(grown), grown[a] = grown[b] PROVE a = b
    <3>1. a \in 1 .. Len(out) \/ a = Len(out) + 1
      BY <1>0, <2>2
    <3>2. b \in 1 .. Len(out) \/ b = Len(out) + 1
      BY <1>0, <2>2
    <3>3. CASE a \in 1 .. Len(out) /\ b \in 1 .. Len(out)
      BY <2>2, <2>4, <3>3 DEF Distinct
    <3>4. CASE a \in 1 .. Len(out) /\ b = Len(out) + 1
      BY <2>2, <2>3, <2>4, <3>4
    <3>5. CASE a = Len(out) + 1 /\ b \in 1 .. Len(out)
      BY <2>2, <2>3, <2>4, <3>5
    <3> QED BY <3>1, <3>2, <3>3, <3>4, <3>5
  <2> QED BY <1>0, <1>2, <2>2, <2>4 DEF Distinct, Continues
<1> QED BY <1>1, <1>2 DEF Taken

\* The list after n turns of both sources.  As long as it is not full, or grew in
\* every turn, the first n hits of the file index are in it.
Merging(s, n, file, limit) ==
    /\ Distinct(s, ChunkIds) /\ Len(s) <= limit /\ Len(s) <= 2 * n
    /\ Len(s) < limit \/ Len(s) = 2 * n =>
          \A i \in 1 .. n : i <= Len(file) => file[i] \in Listed(s)

LEMMA BothTurns ==
  ASSUME NEW db \in Seq(ChunkIds), NEW file \in Seq(ChunkIds), NEW limit \in Nat, NEW n \in Nat,
         NEW a, Merging(a, n, file, limit), NEW b, Taken(b, a, db, limit), NEW c, Taken(c, b, file, limit)
  PROVE  Merging(c, n + 1, file, limit) /\ Continues(c, a)
<1>1. /\ Distinct(a, ChunkIds) /\ Len(a) <= limit /\ Len(a) <= 2 * n
      /\ Len(a) < limit \/ Len(a) = 2 * n =>
          \A i \in 1 .. n : i <= Len(file) => file[i] \in Listed(a)
  BY DEF Merging
<1>2. Distinct(b, ChunkIds) /\ Continues(b, a) /\ Len(b) <= Len(a) + 1 /\ Len(b) <= limit
  BY <1>1, TurnKeeps
<1>3. Distinct(c, ChunkIds) /\ Continues(c, b) /\ Len(c) <= Len(b) + 1 /\ Len(c) <= limit
  BY <1>2, TurnKeeps
<1>4. /\ a \in Seq(ChunkIds) /\ b \in Seq(ChunkIds) /\ c \in Seq(ChunkIds)
      /\ Len(a) \in Nat /\ Len(b) \in Nat /\ Len(c) \in Nat
  BY <1>1, <1>2, <1>3 DEF Distinct
<1>5. /\ Len(a) <= Len(b) /\ Len(b) <= Len(c)
      /\ \A i \in 1 .. Len(a) : b[i] = a[i]
      /\ \A i \in 1 .. Len(b) : c[i] = b[i]
  BY <1>2, <1>3 DEF Continues
<1>6. \A x \in Listed(a) : x \in Listed(b)
  BY <1>2, <1>4, ContinuesListed
<1>7. \A x \in Listed(b) : x \in Listed(c)
  BY <1>3, <1>4, ContinuesListed
<1>8. Continues(c, a)
  BY <1>4, <1>5 DEF Continues
<1>9. Len(c) <= 2 * (n + 1)
  BY <1>1, <1>2, <1>3, <1>4
<1>10. ASSUME Len(c) < limit \/ Len(c) = 2 * (n + 1), NEW i \in 1 .. n + 1, i <= Len(file)
       PROVE  file[i] \in Listed(c)
  <2>1. Len(a) < limit \/ Len(a) = 2 * n
    BY <1>1, <1>2, <1>3, <1>4, <1>5, <1>10
  <2>2. \A j \in 1 .. n : j <= Len(file) => file[j] \in Listed(b)
    BY <1>1, <1>6, <2>1
  <2>3. ASSUME c = b, Len(b) >= limit \/ \A j \in 1 .. Len(file) : file[j] \in Listed(b)
        PROVE  file[i] \in Listed(c)
    <3>1. Len(b) < limit
      BY <1>1, <1>2, <1>4, <1>10, <2>3
    <3>2. \A j \in 1 .. Len(file) : file[j] \in Listed(b)
      BY <1>4, <2>3, <3>1
    <3>3. i \in 1 .. Len(file)
      BY <1>10
    <3> QED BY <1>7, <3>2, <3>3
  <2>4. ASSUME NEW k \in 1 .. Len(file), c = Append(b, file[k]), file[k] \notin Listed(b),
               \A j \in 1 .. k - 1 : file[j] \in Listed(b)
        PROVE  file[i] \in Listed(c)
    <3>1. ~(k \in 1 .. n)
      BY <2>2, <2>4
    <3>2. i \in 1 .. k
      BY <3>1
    <3>3. Len(c) = Len(b) + 1 /\ c[Len(b) + 1] = file[k]
      BY <1>4, <2>4
    <3>4. file[k] \in Listed(c)
      <4>1. Len(b) + 1 \in 1 .. Len(c)
        BY <1>4, <3>3
      <4> QED BY <1>4, <3>3, <4>1, ListedFacts
    <3> QED BY <1>7, <2>4, <3>2, <3>4
  <2> QED BY <2>3, <2>4 DEF Taken
<1> QED BY <1>3, <1>8, <1>9, <1>10 DEF Merging

LEMMA ContinuesOn ==
  ASSUME NEW T, NEW a \in Seq(T), NEW b \in Seq(T), NEW c \in Seq(T), Continues(c, b), Continues(b, a)
  PROVE  Continues(c, a)
<1>1. Len(a) \in Nat /\ Len(b) \in Nat /\ Len(c) \in Nat
  OBVIOUS
<1> QED BY <1>1 DEF Continues

\* The merged list has no chunk twice, is within the limit, and the i-th hit of the
\* file index is among its first 2i, if it is that long.
LEMMA MergedLists ==
  ASSUME NEW db \in Seq(ChunkIds), NEW file \in Seq(ChunkIds), NEW limit \in Nat,
         NEW m, m = MergeKeywords(db, file, limit)
  PROVE  /\ Distinct(m, ChunkIds) /\ Len(m) <= limit
         /\ \A i \in 1 .. Len(file) : 2 * i <= Len(m) => file[i] \in Listed(Prefix(m, 2 * i))
<1> DEFINE L == Len(db) + Len(file)
           T == Seq(ChunkIds)
           Both(q) == TakeTurn(TakeTurn(q, db, limit), file, limit)
           IsLoop(f) == f = [n \in 0 .. L |-> IF n = 0 THEN <<>> ELSE Both(f[n - 1])]
           G == [n \in Nat |-> [q \in T |-> Both(q)]]
<1>0. L \in Nat /\ Len(file) \in Nat /\ Len(file) <= L
  OBVIOUS
<1>1. m = (CHOOSE f : IsLoop(f))[L]
  BY DEF MergeKeywords
<1> HIDE DEF L
<1>2. \A q, hits \in T : TakeTurn(q, hits, limit) \in T
  <2>1. ASSUME NEW q \in T, NEW hits \in T PROVE TakeTurn(q, hits, limit) \in T
    <3>1. Taken(TakeTurn(q, hits, limit), q, hits, limit)
      BY TakeTurnTakes
    <3>2. \A i \in 1 .. Len(hits) : Append(q, hits[i]) \in T
      OBVIOUS
    <3> QED BY <3>1, <3>2 DEF Taken
  <2> QED BY <2>1
<1>3. \A q \in T : Both(q) \in T
  BY <1>2
<1> HIDE DEF Both
<1>4. G \in [Nat -> [T -> T]] /\ \A n \in Nat, q \in T : G[n][q] = Both(q)
  BY <1>3
<1>5. <<>> \in T
  OBVIOUS
<1> HIDE DEF G, T
<1>6. \E f : Loop(f, T, <<>>, G, L)
  BY <1>0, <1>4, <1>5, LoopExists
<1>7. PICK f0 \in [0 .. L -> T] : f0[0] = <<>> /\ \A n \in 0 .. L : n # 0 => f0[n] = G[n][f0[n - 1]]
  BY <1>6 DEF Loop
<1>8. IsLoop(f0)
  <2>1. ASSUME NEW n \in 0 .. L, n # 0 PROVE f0[n] = Both(f0[n - 1])
    <3>1. n \in Nat /\ n - 1 \in 0 .. L
      BY <1>0, <2>1
    <3>2. f0[n - 1] \in T
      BY <3>1
    <3> QED BY <1>4, <1>7, <2>1, <3>1, <3>2
  <2> QED BY <1>7, <2>1
<1> DEFINE g == CHOOSE f : IsLoop(f)
<1>9. IsLoop(g)
  BY <1>8
<1> HIDE DEF g
<1>10. g[0] = <<>> /\ \A n \in 1 .. L : g[n] = Both(g[n - 1])
  <2>1. 0 \in 0 .. L /\ \A n \in 1 .. L : n \in 0 .. L /\ n # 0
    BY <1>0
  <2> QED BY <1>9, <2>1
<1> HIDE DEF IsLoop
<1>11. ASSUME NEW n \in Nat, NEW q, Merging(q, n, file, limit)
       PROVE  Merging(Both(q), n + 1, file, limit) /\ Continues(Both(q), q)
  <2>1. q \in T
    BY <1>11 DEF Merging, Distinct, T
  <2>2. TakeTurn(q, db, limit) \in T
    BY <1>2, <2>1 DEF T
  <2>3. Taken(TakeTurn(q, db, limit), q, db, limit)
    BY <2>1, TakeTurnTakes DEF T
  <2>4. Taken(Both(q), TakeTurn(q, db, limit), file, limit)
    BY <2>2, TakeTurnTakes DEF T, Both
  <2> QED BY <1>11, <2>3, <2>4, BothTurns
<1>12. \A n \in Nat : n <= L => Merging(g[n], n, file, limit)
  <2> DEFINE S == {n \in Nat : n <= L => Merging(g[n], n, file, limit)}
  <2>1. 0 \in S
    <3>1. Merging(<<>>, 0, file, limit)
      BY DEF Merging, Distinct
    <3> QED BY <1>10, <3>1
  <2>2. ASSUME NEW n \in S PROVE n + 1 \in S
    <3> SUFFICES ASSUME n + 1 <= L PROVE Merging(g[n + 1], n + 1, file, limit)
      OBVIOUS
    <3>1. n \in Nat /\ n + 1 \in 1 .. L /\ (n + 1) - 1 = n /\ Merging(g[n], n, file, limit)
      BY <1>0
    <3>2. g[n + 1] = Both(g[n])
      BY <1>10, <3>1
    <3> QED BY <1>11, <3>1, <3>2
  <2>3. S \in SUBSET Nat
    OBVIOUS
  <2> HIDE DEF S
  <2>4. S = Nat
    BY <2>1, <2>2, <2>3, NatSetInduction
  <2> QED BY <2>4 DEF S
<1>13. ASSUME NEW n \in Nat, n + 1 <= L PROVE Continues(g[n + 1], g[n])
  <2>1. n <= L /\ n + 1 \in 1 .. L /\ (n + 1) - 1 = n
    BY <1>0, <1>13
  <2>2. g[n + 1] = Both(g[n]) /\ Merging(g[n], n, file, limit)
    BY <1>10, <1>12, <2>1
  <2> QED BY <1>11, <2>2
<1>14. \A n \in Nat : n <= L => g[n] \in Seq(ChunkIds)
  BY <1>12 DEF Merging, Distinct
<1>15. m = g[L] /\ Merging(m, L, file, limit)
  BY <1>0, <1>1, <1>12 DEF g
<1>16. ASSUME NEW i \in 1 .. Len(file) PROVE Continues(m, g[i])
  <2> DEFINE S == {j \in Nat : i + j <= L => Continues(g[i + j], g[i])}
  <2>0. i \in Nat /\ i <= L
    BY <1>0
  <2>1. 0 \in S
    BY <2>0 DEF Continues
  <2>2. ASSUME NEW j \in S PROVE j + 1 \in S
    <3> SUFFICES ASSUME i + (j + 1) <= L PROVE Continues(g[i + (j + 1)], g[i])
      OBVIOUS
    <3>1. j \in Nat /\ i + j \in Nat /\ i + j <= L /\ i + (j + 1) = (i + j) + 1 /\ Continues(g[i + j], g[i])
      BY <1>0, <2>0
    <3>2. Continues(g[(i + j) + 1], g[i + j])
      BY <1>13, <3>1
    <3>3. g[i] \in Seq(ChunkIds) /\ g[i + j] \in Seq(ChunkIds) /\ g[(i + j) + 1] \in Seq(ChunkIds)
      BY <1>14, <2>0, <3>1
    <3> QED BY <3>1, <3>2, <3>3, ContinuesOn
  <2>3. S \in SUBSET Nat
    OBVIOUS
  <2> HIDE DEF S
  <2>4. S = Nat
    BY <2>1, <2>2, <2>3, NatSetInduction
  <2>5. L - i \in S /\ i + (L - i) = L
    BY <1>0, <2>0, <2>4
  <2> QED BY <1>0, <1>15, <2>5 DEF S
<1>17. Distinct(m, ChunkIds) /\ Len(m) <= limit /\ m \in Seq(ChunkIds) /\ Len(m) \in Nat
  BY <1>15 DEF Merging, Distinct
<1>18. ASSUME NEW i \in 1 .. Len(file), 2 * i <= Len(m) PROVE file[i] \in Listed(Prefix(m, 2 * i))
  <2> DEFINE s == g[i]
  <2>0. i \in Nat /\ i <= L /\ i \in 1 .. i /\ 2 * i \in Nat
    BY <1>0
  <2>1. Merging(s, i, file, limit) /\ Continues(m, s)
    BY <1>12, <1>16, <2>0
  <2> HIDE DEF s
  <2>2. s \in Seq(ChunkIds) /\ Len(s) \in Nat /\ Len(s) <= limit /\ Len(s) <= 2 * i
    BY <2>1 DEF Merging, Distinct
  <2>3. Len(s) < limit \/ Len(s) = 2 * i
    BY <1>17, <1>18, <2>0, <2>2
  <2>4. file[i] \in Listed(s)
    BY <1>0, <2>0, <2>1, <2>3 DEF Merging
  <2>5. PICK p \in 1 .. Len(s) : s[p] = file[i]
    BY <2>2, <2>4, ListedFacts
  <2>6. m[p] = file[i] /\ p \in 1 .. 2 * i
    BY <2>0, <2>1, <2>2, <2>5 DEF Continues
  <2>7. /\ Prefix(m, 2 * i) \in Seq(ChunkIds)
        /\ Len(Prefix(m, 2 * i)) = IF 2 * i < Len(m) THEN 2 * i ELSE Len(m)
        /\ \A j \in 1 .. Len(Prefix(m, 2 * i)) : Prefix(m, 2 * i)[j] = m[j]
    BY <1>17, <2>0, BeginningOf
  <2>8. Len(Prefix(m, 2 * i)) = 2 * i
    BY <1>17, <1>18, <2>0, <2>7
  <2>9. p \in 1 .. Len(Prefix(m, 2 * i)) /\ Prefix(m, 2 * i)[p] = file[i]
    BY <2>6, <2>7, <2>8
  <2> QED BY <2>7, <2>9, ListedFacts
<1> QED BY <1>17, <1>18

-----------------------------------------------------------------------------
(* Fusion by reciprocal rank (reciprocal_rank_fusion).                       *)

\* d is a multiple of K + i for every rank i up to n.
Multiple(d, n) == d \in Nat \ {0} /\ \A i \in 1 .. n : \E e \in Nat : d = e * (RrfK + i)

LEMMA TimesNext ==
  ASSUME NEW d \in Nat, NEW n \in Nat, Multiple(d, n)
  PROVE  Multiple(d * (RrfK + (n + 1)), n + 1)
<1> USE RetrievalAssumption
<1> DEFINE q == RrfK + (n + 1)
<1>0. q \in Nat /\ q > 0 /\ d > 0
  BY DEF Multiple
<1>1. d * q \in Nat /\ d * q > 0
  BY <1>0
<1>2. ASSUME NEW i \in 1 .. n + 1 PROVE \E e \in Nat : d * q = e * (RrfK + i)
  <2>1. CASE i = n + 1
    BY <2>1
  <2>2. CASE i \in 1 .. n
    <3>1. PICK e \in Nat : d = e * (RrfK + i)
      BY <2>2 DEF Multiple
    <3> HIDE DEF q
    <3>2. e * q \in Nat
      BY <1>0
    <3>3. RrfK + i \in Nat
      OBVIOUS
    <3>4. (e * (RrfK + i)) * q = (e * q) * (RrfK + i)
      BY <1>0, <3>3
    <3> QED BY <3>1, <3>2, <3>4
  <2> QED BY <2>1, <2>2
<1> QED BY <1>1, <1>2 DEF Multiple

LEMMA DenominatorIsMultiple == Multiple(Denominator, Cardinality(ChunkIds))
<1> USE RetrievalAssumption
<1> DEFINE C == Cardinality(ChunkIds)
           IsLoop(f) == f = [n \in 0 .. C |-> IF n = 0 THEN 1 ELSE f[n - 1] * (RrfK + n)]
           G == [n \in Nat |-> [x \in Nat |-> x * (RrfK + n)]]
<1>0. C \in Nat
  BY FS_CardinalityType
<1>1. Denominator = (CHOOSE f : IsLoop(f))[C]
  BY DEF Denominator
<1> HIDE DEF C
<1>2. \A n \in Nat, x \in Nat : x * (RrfK + n) \in Nat
  OBVIOUS
<1>3. G \in [Nat -> [Nat -> Nat]] /\ \A n, x \in Nat : G[n][x] = x * (RrfK + n)
  BY <1>2
<1> HIDE DEF G
<1>4. \E f : Loop(f, Nat, 1, G, C)
  BY <1>0, <1>3, LoopExists
<1>5. PICK f0 \in [0 .. C -> Nat] : f0[0] = 1 /\ \A n \in 0 .. C : n # 0 => f0[n] = G[n][f0[n - 1]]
  BY <1>4 DEF Loop
<1>6. IsLoop(f0)
  <2>1. ASSUME NEW n \in 0 .. C, n # 0 PROVE f0[n] = f0[n - 1] * (RrfK + n)
    <3>1. n \in Nat /\ n - 1 \in 0 .. C
      BY <1>0, <2>1
    <3>2. f0[n - 1] \in Nat
      BY <3>1
    <3> QED BY <1>3, <1>5, <2>1, <3>1, <3>2
  <2> QED BY <1>5, <2>1
<1> DEFINE g == CHOOSE f : IsLoop(f)
<1>7. IsLoop(g)
  BY <1>6
<1> HIDE DEF g
<1>8. g[0] = 1 /\ \A n \in 1 .. C : g[n] = g[n - 1] * (RrfK + n)
  <2>1. 0 \in 0 .. C /\ \A n \in 1 .. C : n \in 0 .. C /\ n # 0
    BY <1>0
  <2> QED BY <1>7, <2>1
<1> HIDE DEF IsLoop
<1> DEFINE S == {n \in Nat : n <= C => Multiple(g[n], n)}
<1>9. 0 \in S
  BY <1>8 DEF Multiple
<1>10. ASSUME NEW n \in S PROVE n + 1 \in S
  <2> SUFFICES ASSUME n + 1 <= C PROVE Multiple(g[n + 1], n + 1)
    OBVIOUS
  <2>1. n \in Nat /\ n + 1 \in 1 .. C /\ (n + 1) - 1 = n /\ Multiple(g[n], n)
    BY <1>0
  <2>2. g[n + 1] = g[n] * (RrfK + (n + 1)) /\ g[n] \in Nat
    BY <1>8, <2>1 DEF Multiple
  <2> QED BY <2>1, <2>2, TimesNext
<1>11. S = Nat
  <2>1. S \in SUBSET Nat
    OBVIOUS
  <2> HIDE DEF S
  <2> QED BY <1>9, <1>10, <2>1, NatSetInduction
<1>12. Multiple(g[C], C)
  BY <1>0, <1>11
<1> QED BY <1>1, <1>12 DEF g, C

\* A smaller divisor has the larger quotient.
LEMMA QuotientsDecrease ==
  ASSUME NEW d \in Nat \ {0}, NEW p \in Nat \ {0}, NEW q \in Nat \ {0}, p < q,
         NEW e \in Nat, d = e * p, NEW f \in Nat, d = f * q
  PROVE  d \div p = e /\ d \div q = f /\ f < e
<1>1. ASSUME NEW x \in Nat \ {0}, NEW y \in Nat, d = y * x PROVE d \div x = y
  <2>1. /\ d \div x \in Int
        /\ x * (d \div x) <= d /\ d < x * (d \div x) + x
    OBVIOUS
  <2> DEFINE z == d \div x
  <2>2. z \in Int /\ x * z <= d /\ d < x * z + x
    BY <2>1
  <2> HIDE DEF z
  <2>3. x * z <= x * y /\ x * y < x * (z + 1)
    BY <1>1, <2>2
  <2>4. ~(z > y)
    <3>1. ASSUME z >= y + 1 PROVE FALSE
      <4>1. x * (z - (y + 1)) >= 0
        BY <2>2, <3>1
      <4>2. x * (z - (y + 1)) = x * z - x * y - x
        BY <2>2
      <4> QED BY <2>2, <2>3, <4>1, <4>2
    <3> QED BY <2>2, <3>1
  <2>5. ~(z < y)
    <3>1. ASSUME y >= z + 1 PROVE FALSE
      <4>1. x * (y - (z + 1)) >= 0
        BY <2>2, <3>1
      <4>2. x * (y - (z + 1)) = x * y - x * (z + 1)
        BY <2>2
      <4> QED BY <2>2, <2>3, <4>1, <4>2
    <3> QED BY <2>2, <3>1
  <2>6. z = y
    BY <2>2, <2>4, <2>5
  <2> QED BY <2>6 DEF z
<1>2. f < e
  <2>1. e # 0 /\ f # 0
    OBVIOUS
  <2>2. f * q = f * p + f * (q - p)
    OBVIOUS
  <2>3. f * (q - p) > 0
    BY <2>1
  <2>4. e * p > f * p
    <3>1. f * p \in Int /\ f * (q - p) \in Int /\ e * p \in Int
      OBVIOUS
    <3> QED BY <2>2, <2>3, <3>1
  <2>5. ASSUME e <= f PROVE FALSE
    <3>1. (f - e) * p >= 0
      BY <2>5
    <3>2. (f - e) * p = f * p - e * p
      OBVIOUS
    <3>3. f * p \in Int /\ e * p \in Int
      OBVIOUS
    <3> QED BY <2>4, <3>1, <3>2, <3>3
  <2> QED BY <2>5
<1> QED BY <1>1, <1>2

\* The place of a hit in a list without repetitions.
LEMMA RankOfHit ==
  ASSUME NEW s, Distinct(s, ChunkIds)
  PROVE  /\ Len(s) \in Nat /\ Len(s) <= Cardinality(ChunkIds)
         /\ \A h \in Listed(s) : h \in ChunkIds /\ Rank(s, h) \in 1 .. Len(s) /\ s[Rank(s, h)] = h
         /\ \A i \in 1 .. Len(s) : s[i] \in Listed(s) /\ Rank(s, s[i]) = i
<1>1. s \in Seq(ChunkIds) /\ Len(s) \in Nat /\ DOMAIN s = 1 .. Len(s) /\ \A i, j \in 1 .. Len(s) : s[i] = s[j] => i = j
  BY DEF Distinct
<1>2. Len(s) <= Cardinality(ChunkIds)
  <2>1. s \in Injection(1 .. Len(s), ChunkIds)
    <3>1. s \in [1 .. Len(s) -> ChunkIds]
      BY <1>1
    <3> QED BY <1>1, <3>1 DEF Injection, IsInjective
  <2>2. Cardinality(1 .. Len(s)) <= Cardinality(ChunkIds)
    BY <2>1, FS_Injection, RetrievalAssumption
  <2>3. Cardinality(1 .. Len(s)) = Len(s)
    BY <1>1, FS_Interval
  <2> QED BY <2>2, <2>3
<1>3. ASSUME NEW h \in Listed(s) PROVE h \in ChunkIds /\ Rank(s, h) \in 1 .. Len(s) /\ s[Rank(s, h)] = h
  <2>1. \E i \in 1 .. Len(s) : s[i] = h
    BY <1>1, ListedFacts
  <2>2. Rank(s, h) = CHOOSE i \in 1 .. Len(s) : s[i] = h
    BY <1>1 DEF Rank
  <2>3. Rank(s, h) \in 1 .. Len(s) /\ s[Rank(s, h)] = h
    BY <2>1, <2>2
  <2> QED BY <1>1, <2>3
<1>4. ASSUME NEW i \in 1 .. Len(s) PROVE s[i] \in Listed(s) /\ Rank(s, s[i]) = i
  <2>1. s[i] \in Listed(s)
    BY <1>1, ListedFacts
  <2> QED BY <1>1, <1>3, <2>1
<1> QED BY <1>1, <1>2, <1>3, <1>4

\* a is ahead of b in every list that has b.
AheadIn(s, a, b) == b \in Listed(s) => a \in Listed(s) /\ Rank(s, a) < Rank(s, b)

LEMMA ScoreFacts ==
  ASSUME NEW s, Distinct(s, ChunkIds)
  PROVE  /\ \A h \in ChunkIds : RankScore(s, h) \in Nat
         /\ \A a, b \in ChunkIds : AheadIn(s, a, b) =>
               /\ RankScore(s, b) <= RankScore(s, a)
               /\ b \in Listed(s) => RankScore(s, b) < RankScore(s, a)
<1> USE RetrievalAssumption
<1> DEFINE C == Cardinality(ChunkIds)
<1>0. C \in Nat
  BY FS_CardinalityType
<1>1. /\ Len(s) \in Nat /\ Len(s) <= C
      /\ \A h \in Listed(s) : h \in ChunkIds /\ Rank(s, h) \in 1 .. Len(s)
  BY RankOfHit
<1>2. Denominator \in Nat \ {0} /\ \A i \in 1 .. C : \E e \in Nat : Denominator = e * (RrfK + i)
  BY DenominatorIsMultiple DEF Multiple
<1> HIDE DEF C
<1>3. ASSUME NEW a \in Listed(s), NEW b \in Listed(s), Rank(s, a) < Rank(s, b)
      PROVE  /\ RankScore(s, a) \in Nat /\ RankScore(s, b) \in Nat
             /\ RankScore(s, b) < RankScore(s, a)
  <2>1. Rank(s, a) \in 1 .. C /\ Rank(s, b) \in 1 .. C
    BY <1>0, <1>1
  <2> DEFINE p == RrfK + Rank(s, a)
             q == RrfK + Rank(s, b)
  <2>2. p \in Nat \ {0} /\ q \in Nat \ {0} /\ p < q
    BY <1>0, <1>3, <2>1
  <2>3. PICK e \in Nat : Denominator = e * p
    BY <1>2, <2>1
  <2>4. PICK f \in Nat : Denominator = f * q
    BY <1>2, <2>1
  <2>5. RankScore(s, a) = Denominator \div p /\ RankScore(s, b) = Denominator \div q
    BY DEF RankScore
  <2> HIDE DEF p, q
  <2>6. Denominator \div p = e /\ Denominator \div q = f /\ f < e
    BY <1>2, <2>2, <2>3, <2>4, QuotientsDecrease
  <2> QED BY <2>5, <2>6
<1>4. ASSUME NEW h \in ChunkIds PROVE RankScore(s, h) \in Nat
  <2>1. CASE h \notin Listed(s)
    BY <2>1 DEF RankScore
  <2>2. CASE h \in Listed(s)
    <3>1. Rank(s, h) \in 1 .. C
      BY <1>0, <1>1, <2>2
    <3> DEFINE p == RrfK + Rank(s, h)
    <3>2. p \in Nat \ {0} /\ p + 1 \in Nat \ {0}
      BY <1>0, <3>1
    <3>3. RankScore(s, h) = Denominator \div p
      BY <2>2 DEF RankScore
    <3> HIDE DEF p
    <3> QED BY <1>2, <3>2, <3>3
  <2> QED BY <2>1, <2>2
<1>5. ASSUME NEW a \in ChunkIds, NEW b \in ChunkIds, AheadIn(s, a, b)
      PROVE  /\ RankScore(s, b) <= RankScore(s, a)
             /\ b \in Listed(s) => RankScore(s, b) < RankScore(s, a)
  <2>1. RankScore(s, a) \in Nat /\ RankScore(s, b) \in Nat
    BY <1>4
  <2>2. CASE b \notin Listed(s)
    <3>1. RankScore(s, b) = 0
      BY <2>2 DEF RankScore
    <3> QED BY <2>1, <2>2, <3>1
  <2>3. CASE b \in Listed(s)
    <3>1. RankScore(s, b) < RankScore(s, a)
      BY <1>3, <1>5, <2>3 DEF AheadIn
    <3> QED BY <2>1, <3>1
  <2> QED BY <2>2, <2>3
<1> QED BY <1>4, <1>5

\* The fused list has the chunks of both, in the order of their scores.
LEMMA FusedLists ==
  ASSUME NEW x, Distinct(x, ChunkIds), NEW y, Distinct(y, ChunkIds), NEW f, f = Fuse(x, y)
  PROVE  /\ Distinct(f, ChunkIds) /\ Listed(f) = Listed(x) \cup Listed(y)
         /\ \A a, b \in Listed(f) : a # b /\ AheadIn(x, a, b) /\ AheadIn(y, a, b) => Rank(f, a) < Rank(f, b)
<1> DEFINE L == Listed(x) \cup Listed(y)
           score == [h \in L |-> RankScore(x, h) + RankScore(y, h)]
           Better(a, b) == score[a] > score[b] \/ (score[a] = score[b] /\ a < b)
           R == {p \in L \X L : Better(p[1], p[2])}
           C == Cardinality(L)
           before(h) == {z \in L : Better(z, h)}
           at(k) == CHOOSE h \in L : Cardinality(before(h)) = k - 1
           o == [k \in 1 .. C |-> at(k)]
<1>0. f = o
  BY DEF Fuse, InOrder
<1>1. L \in SUBSET ChunkIds /\ ChunkIds \subseteq Nat /\ IsFiniteSet(ChunkIds)
  BY RankOfHit, RetrievalAssumption
<1>2. IsFiniteSet(L)
  BY <1>1, FS_Subset
<1>3. C \in Nat
  BY <1>2, FS_CardinalityType
<1>4. \A h \in L : score[h] \in Nat /\ h \in Nat
  <2>1. \A h \in L : h \in ChunkIds /\ h \in Nat
    BY <1>1
  <2>2. \A h \in ChunkIds : RankScore(x, h) \in Nat /\ RankScore(y, h) \in Nat
    BY ScoreFacts
  <2> QED BY <2>1, <2>2
<1>5. \A a, b \in L : AheadIn(x, a, b) /\ AheadIn(y, a, b) => score[b] < score[a]
  <2>1. ASSUME NEW a \in L, NEW b \in L, AheadIn(x, a, b), AheadIn(y, a, b) PROVE score[b] < score[a]
    <3>1. /\ a \in ChunkIds /\ b \in ChunkIds
          /\ score[a] = RankScore(x, a) + RankScore(y, a)
          /\ score[b] = RankScore(x, b) + RankScore(y, b)
      BY <1>1
    <3>2. /\ RankScore(x, a) \in Nat /\ RankScore(x, b) \in Nat
          /\ RankScore(y, a) \in Nat /\ RankScore(y, b) \in Nat
      BY <3>1, ScoreFacts
    <3>3. /\ RankScore(x, b) <= RankScore(x, a) /\ RankScore(y, b) <= RankScore(y, a)
          /\ b \in Listed(x) => RankScore(x, b) < RankScore(x, a)
          /\ b \in Listed(y) => RankScore(y, b) < RankScore(y, a)
      BY <2>1, <3>1, ScoreFacts
    <3> QED BY <3>2, <3>3
  <2> QED BY <2>1
<1>6. \A h \in Listed(x) : h \in L
  OBVIOUS
<1> HIDE DEF L, score
<1>7. \A a, b \in L : <<a, b>> \in R <=> Better(a, b)
  OBVIOUS
<1>8. /\ \A a \in L : ~Better(a, a)
      /\ \A a, b \in L : a # b => Better(a, b) \/ Better(b, a)
      /\ \A a, b, c \in L : Better(a, b) /\ Better(b, c) => Better(a, c)
  BY <1>4
<1>9. \A a, b \in L : AheadIn(x, a, b) /\ AheadIn(y, a, b) => Better(a, b)
  BY <1>4, <1>5
<1> HIDE DEF R, Better
<1>10. TotalOrder(L, R)
  BY <1>7, <1>8 DEF TotalOrder
<1>11. ASSUME NEW h \in L PROVE before(h) = Down(L, R, h)
  BY <1>7 DEF Down
<1> HIDE DEF before
<1>12. \A k \in 1 .. C : \E h \in L : Cardinality(before(h)) = k - 1
  <2> HIDE DEF at, o
  <2>1. PlacesTaken(L, R)
    BY <1>2, <1>10, OrderLaws DEF Ordered
  <2> QED BY <1>11, <2>1 DEF PlacesTaken
<1>13. ASSUME NEW k \in 1 .. C
       PROVE  o[k] \in L /\ Cardinality(Down(L, R, o[k])) = k - 1
  <2>1. at(k) \in L /\ Cardinality(before(at(k))) = k - 1
    BY <1>12
  <2> HIDE DEF at
  <2>2. o[k] = at(k)
    OBVIOUS
  <2> QED BY <1>11, <2>1, <2>2
<1>14. o \in [1 .. C -> L]
  BY <1>13
<1> HIDE DEF o
<1>15. Sorts(o, L, R)
  BY <1>13, <1>14 DEF Sorts
<1>16. /\ \A i, j \in 1 .. C : i < j <=> <<o[i], o[j]>> \in R
       /\ \A i, j \in 1 .. C : o[i] = o[j] => i = j
       /\ \A h \in L : \E i \in 1 .. C : o[i] = h
  <2>1. Lists(o, L, R)
    BY <1>2, <1>10, <1>15, OrderLaws DEF Ordered
  <2> QED BY <2>1 DEF Lists
<1> HIDE DEF C
<1>17. f \in Seq(ChunkIds) /\ Len(f) = C
  <2>1. f \in [1 .. C -> ChunkIds]
    BY <1>0, <1>1, <1>14
  <2> QED BY <1>3, <2>1, ListIsSeq
<1>18. Distinct(f, ChunkIds)
  BY <1>0, <1>16, <1>17 DEF Distinct
<1>19. Listed(f) = L
  <2>1. \A h : h \in Listed(f) <=> \E i \in 1 .. C : f[i] = h
    BY <1>17, ListedFacts
  <2>2. \A i \in 1 .. C : f[i] \in L
    BY <1>0, <1>14
  <2>3. \A h \in L : \E i \in 1 .. C : f[i] = h
    BY <1>0, <1>16
  <2>4. \A h : h \in Listed(f) <=> h \in L
    BY <2>1, <2>2, <2>3
  <2> HIDE DEF at
  <2> QED BY <2>4
<1>20. ASSUME NEW a \in Listed(f), NEW b \in Listed(f), AheadIn(x, a, b), AheadIn(y, a, b)
       PROVE  Rank(f, a) < Rank(f, b)
  <2>1. /\ Rank(f, a) \in 1 .. C /\ f[Rank(f, a)] = a
        /\ Rank(f, b) \in 1 .. C /\ f[Rank(f, b)] = b
    BY <1>17, <1>18, RankOfHit
  <2>2. <<a, b>> \in R
    BY <1>7, <1>9, <1>19, <1>20
  <2> QED BY <1>0, <1>16, <2>1, <2>2
<1> QED BY <1>18, <1>19, <1>20 DEF L

-----------------------------------------------------------------------------
(* One chunk of each parent (collapse_results).                              *)

ParentsOf(s) == {ParentOf[h] : h \in Listed(s)}

LEMMA CollapsedList ==
  ASSUME NEW hits \in Seq(ChunkIds), NEW k \in Nat, NEW r, r = Collapse(hits, k)
  PROVE  /\ r \in Seq(ChunkIds) /\ Len(r) \in Nat /\ Len(r) <= k
         /\ \A i, j \in 1 .. Len(r) : i # j => ParentOf[r[i]] # ParentOf[r[j]]
         /\ Len(r) < k => ParentsOf(r) = ParentsOf(hits)
<1> DEFINE L == Len(hits)
           P(i) == ParentOf[hits[i]]
           keep == {i \in 1 .. L : \A j \in 1 .. i - 1 : P(j) # P(i)}
           c == Cardinality(keep)
           q == Pick(hits, keep)
<1>0. L \in Nat /\ DOMAIN hits = 1 .. L
  OBVIOUS
<1>1. r = Prefix(q, k)
  BY <1>0 DEF Collapse
<1>2. keep \in SUBSET (1 .. L)
  OBVIOUS
<1>3. \A i \in keep : i \in 1 .. L /\ \A j \in 1 .. i - 1 : P(j) # P(i)
  OBVIOUS
<1>4. \A i \in 1 .. L : (\A j \in 1 .. i - 1 : P(j) # P(i)) => i \in keep
  OBVIOUS
<1> HIDE DEF keep
<1>5. c \in Nat /\ Picks(q, hits, keep)
  BY <1>0, <1>2, PickFacts
<1>6. PICK order \in [1 .. c -> keep] :
          /\ q = [n \in 1 .. c |-> hits[order[n]]]
          /\ \A i, j \in 1 .. c : i < j <=> order[i] < order[j]
          /\ \A x \in keep : \E i \in 1 .. c : order[i] = x
  BY <1>5 DEF Picks
<1> HIDE DEF c, q
<1>7. \A i \in 1 .. c : q[i] = hits[order[i]] /\ order[i] \in keep /\ order[i] \in 1 .. L
  BY <1>3, <1>6
<1>8. q \in Seq(ChunkIds) /\ Len(q) = c
  <2>1. \A i \in 1 .. L : hits[i] \in ChunkIds
    BY <1>0
  <2>2. q \in [1 .. c -> ChunkIds]
    BY <1>6, <1>7, <2>1
  <2> QED BY <1>5, <2>2, ListIsSeq
<1> DEFINE m == IF k < c THEN k ELSE c
<1>9. r \in Seq(ChunkIds) /\ Len(r) = m /\ \A i \in 1 .. Len(r) : r[i] = q[i]
  BY <1>1, <1>8, BeginningOf
<1>10. m \in Nat /\ m <= k /\ m <= c /\ (m < k => m = c)
  BY <1>5
<1> HIDE DEF m
<1>11. \A i, j \in 1 .. c : i < j => P(order[i]) # P(order[j])
  <2>1. ASSUME NEW i \in 1 .. c, NEW j \in 1 .. c, i < j PROVE P(order[i]) # P(order[j])
    <3>1. order[i] < order[j] /\ order[i] \in 1 .. L /\ order[j] \in keep /\ order[j] \in 1 .. L
      BY <1>6, <1>7, <2>1
    <3> HIDE DEF P, L
    <3>2. order[i] \in 1 .. order[j] - 1
      BY <1>0, <3>1
    <3> QED BY <1>3, <3>1, <3>2
  <2> QED BY <2>1
<1>12. \A i, j \in 1 .. Len(r) : i # j => ParentOf[r[i]] # ParentOf[r[j]]
  <2>1. ASSUME NEW i \in 1 .. Len(r), NEW j \in 1 .. Len(r), i # j PROVE ParentOf[r[i]] # ParentOf[r[j]]
    <3>1. i \in 1 .. c /\ j \in 1 .. c /\ (i < j \/ j < i)
      BY <1>5, <1>9, <1>10, <2>1
    <3>2. r[i] = hits[order[i]] /\ r[j] = hits[order[j]]
      BY <1>7, <1>9, <3>1
    <3>3. P(order[i]) # P(order[j])
      BY <1>11, <3>1
    <3> QED BY <3>2, <3>3
  <2> QED BY <2>1
<1>13. ASSUME Len(r) < k PROVE ParentsOf(r) = ParentsOf(hits)
  <2>1. Len(r) = c
    BY <1>9, <1>10, <1>13
  <2>2. ASSUME NEW h \in Listed(r) PROVE h \in Listed(hits)
    <3>1. PICK i \in 1 .. Len(r) : r[i] = h
      BY <1>9, ListedFacts
    <3>2. hits[order[i]] = h /\ order[i] \in 1 .. L
      BY <1>7, <1>9, <2>1, <3>1
    <3> QED BY <3>2, ListedFacts
  <2>3. ASSUME NEW h \in Listed(hits) PROVE \E g \in Listed(r) : ParentOf[g] = ParentOf[h]
    <3> DEFINE S == {i \in 1 .. L : P(i) = ParentOf[h]}
    <3>1. PICK i \in 1 .. L : hits[i] = h
      BY ListedFacts
    <3>2. i \in S /\ S \in SUBSET Nat
      BY <3>1
    <3>3. \A j \in S : j \in 1 .. L /\ P(j) = ParentOf[h]
      OBVIOUS
    <3>4. \A j \in 1 .. L : P(j) = ParentOf[h] => j \in S
      OBVIOUS
    <3> HIDE DEF S
    <3>5. PICK j \in S : \A x \in S : j <= x
      BY <3>2, LeastNatural
    <3>6. j \in 1 .. L /\ P(j) = ParentOf[h]
      BY <3>3
    <3>7. ASSUME NEW x \in 1 .. j - 1 PROVE P(x) # P(j)
      <4>1. x \in 1 .. L /\ ~(j <= x)
        BY <1>0, <3>6
      <4> HIDE DEF P, L
      <4> QED BY <3>4, <3>5, <3>6, <4>1
    <3>8. j \in keep
      BY <1>4, <3>6, <3>7
    <3>9. PICK n \in 1 .. c : order[n] = j
      BY <1>6, <3>8
    <3>10. n \in 1 .. Len(r) /\ r[n] = hits[j]
      BY <1>7, <1>9, <2>1, <3>9
    <3>11. hits[j] \in Listed(r) /\ ParentOf[hits[j]] = ParentOf[h]
      BY <1>9, <3>6, <3>10, ListedFacts
    <3> QED BY <3>11
  <2> QED BY <2>2, <2>3 DEF ParentsOf
<1> QED BY <1>9, <1>10, <1>12, <1>13

-----------------------------------------------------------------------------
(* A search over both signals (search() of retrieval.py).                    *)

\* The sources list no chunk twice; the lists of the last round are what the round
\* made of them, and a result that is short was searched to the last depth.
RetrievalRight ==
    /\ DOMAIN ranking = {"semantic", "db", "file"}
    /\ \A source \in {"semantic", "db", "file"} : Distinct(ranking[source], ChunkIds)
    /\ mode \in {"hybrid", "semantic", "keyword"}
    /\ depth \in FirstDepth .. MaxDepth
    /\ Distinct(nearest, ChunkIds) /\ Distinct(merged, ChunkIds)
    /\ fused = <<>> \/ fused = Fuse(nearest, merged)
    /\ \A i \in 1 .. Len(ranking.file) :
          2 * i <= Len(merged) => ranking.file[i] \in Listed(Prefix(merged, 2 * i))
    /\ answer.done \in BOOLEAN
    /\ answer.done \/ answer.hits = <<>>
    /\ answer.done => /\ answer.hits = Collapse(fused, WantedK)
                      /\ Len(answer.hits) < WantedK => depth = MaxDepth

LEMMA EmptyIsDistinct == Distinct(<<>>, ChunkIds)
BY DEF Distinct

LEMMA PrefixIsDistinct ==
  ASSUME NEW s, Distinct(s, ChunkIds), NEW n \in Nat
  PROVE  Distinct(Prefix(s, n), ChunkIds)
<1>1. s \in Seq(ChunkIds) /\ Len(s) \in Nat /\ \A i, j \in 1 .. Len(s) : s[i] = s[j] => i = j
  BY DEF Distinct
<1> DEFINE p == Prefix(s, n)
<1>2. /\ p \in Seq(ChunkIds) /\ Len(p) = (IF n < Len(s) THEN n ELSE Len(s))
      /\ \A i \in 1 .. Len(p) : p[i] = s[i]
  BY <1>1, BeginningOf
<1> HIDE DEF p
<1>3. \A i \in 1 .. Len(p) : i \in 1 .. Len(s)
  BY <1>1, <1>2
<1> QED BY <1>1, <1>2, <1>3 DEF Distinct, p

LEMMA RankingsAreDistinct == \A s \in Rankings : Distinct(s, ChunkIds)
<1> USE RetrievalAssumption
<1>0. Cardinality(ChunkIds) \in Nat
  BY FS_CardinalityType
<1>1. ASSUME NEW p \in SetToSeqs(ChunkIds), NEW n \in 0 .. Cardinality(ChunkIds)
      PROVE  Distinct(Prefix(p, n), ChunkIds)
  <2>1. /\ p \in [1 .. Cardinality(ChunkIds) -> ChunkIds]
        /\ \A i, j \in 1 .. Cardinality(ChunkIds) : i # j => p[i] # p[j]
    BY DEF SetToSeqs
  <2>2. p \in Seq(ChunkIds) /\ Len(p) = Cardinality(ChunkIds)
    BY <1>0, <2>1, ListIsSeq
  <2>3. Distinct(p, ChunkIds)
    BY <2>1, <2>2 DEF Distinct
  <2> QED BY <1>0, <2>3, PrefixIsDistinct
<1> QED BY <1>1 DEF Rankings

\* Nothing was fused yet.
LEMMA RetrievalBegins ==
  ASSUME DOMAIN ranking = {"semantic", "db", "file"},
         \A source \in {"semantic", "db", "file"} : Distinct(ranking[source], ChunkIds),
         mode \in {"hybrid", "semantic", "keyword"}, depth = FirstDepth,
         fused = <<>>, nearest = <<>>, merged = <<>>, answer = Searching
  PROVE  RetrievalRight
<1>1. depth \in FirstDepth .. MaxDepth
  BY RetrievalAssumption
<1>2. answer.done = FALSE /\ answer.hits = <<>>
  BY DEF Searching
<1>3. \A i \in 1 .. Len(ranking.file) : ~(2 * i <= Len(merged))
  BY DEF Distinct
<1> QED BY <1>1, <1>2, <1>3, EmptyIsDistinct DEF RetrievalRight

LEMMA RetrievalStart ==
  ASSUME RetrievalInit \/ RetrievalIdle
  PROVE  RetrievalRight
<1>1. CASE RetrievalInit
  <2>1. PICK semantic \in Rankings, db \in Rankings, file \in Rankings :
            ranking = [semantic |-> semantic, db |-> db, file |-> file]
    BY <1>1 DEF RetrievalInit
  <2>2. Distinct(semantic, ChunkIds) /\ Distinct(db, ChunkIds) /\ Distinct(file, ChunkIds)
    BY RankingsAreDistinct
  <2>3. /\ DOMAIN ranking = {"semantic", "db", "file"}
        /\ \A source \in {"semantic", "db", "file"} : Distinct(ranking[source], ChunkIds)
    BY <2>1, <2>2
  <2> QED BY <1>1, <2>3, RetrievalBegins DEF RetrievalInit
<1>2. CASE RetrievalIdle
  <2>1. /\ DOMAIN ranking = {"semantic", "db", "file"}
        /\ \A source \in {"semantic", "db", "file"} : ranking[source] = <<>>
    BY <1>2 DEF RetrievalIdle
  <2> QED BY <1>2, <2>1, EmptyIsDistinct, RetrievalBegins DEF RetrievalIdle
<1> QED BY <1>1, <1>2

\* One round.
LEMMA RoundRight ==
  ASSUME RetrievalRight, NEW semanticWorks \in BOOLEAN, NEW dbWorks \in BOOLEAN,
         Round(semanticWorks, dbWorks)
  PROVE  RetrievalRight'
<1> USE RetrievalAssumption
<1> DEFINE semantic == IF semanticWorks /\ mode # "keyword" THEN Prefix(ranking.semantic, depth) ELSE <<>>
           db == IF dbWorks THEN Prefix(ranking.db, depth) ELSE <<>>
           file == Prefix(ranking.file, depth)
           keyword == IF mode = "semantic" THEN <<>> ELSE MergeKeywords(db, file, depth)
           all == Fuse(semantic, keyword)
           result == Collapse(all, WantedK)
<1>0. /\ DOMAIN ranking = {"semantic", "db", "file"}
      /\ \A source \in {"semantic", "db", "file"} : Distinct(ranking[source], ChunkIds)
      /\ mode \in {"hybrid", "semantic", "keyword"} /\ depth \in FirstDepth .. MaxDepth /\ depth \in Nat
      /\ answer.done \in BOOLEAN
      /\ answer.done \/ answer.hits = <<>>
  BY DEF RetrievalRight
<1>1. /\ ~ answer.done /\ fused' = all /\ nearest' = semantic /\ merged' = keyword
      /\ IF Enough(result) \/ depth >= MaxDepth
         THEN answer' = [done |-> TRUE, hits |-> result] /\ depth' = depth
         ELSE depth' = NextDepth(depth) /\ answer' = answer
      /\ ranking' = ranking /\ mode' = mode
  BY DEF Round
<1>2. Distinct(semantic, ChunkIds) /\ Distinct(db, ChunkIds) /\ Distinct(file, ChunkIds)
  BY <1>0, EmptyIsDistinct, PrefixIsDistinct
<1>3. /\ Distinct(keyword, ChunkIds) /\ Len(keyword) <= depth
      /\ \A i \in 1 .. Len(file) : 2 * i <= Len(keyword) => file[i] \in Listed(Prefix(keyword, 2 * i))
  <2>1. CASE mode = "semantic"
    <3>1. keyword = <<>>
      BY <2>1
    <3>2. Len(file) \in Nat
      BY <1>2 DEF Distinct
    <3> HIDE DEF keyword, file
    <3> QED BY <1>0, <3>1, <3>2, EmptyIsDistinct
  <2>2. CASE mode # "semantic"
    <3>1. db \in Seq(ChunkIds) /\ file \in Seq(ChunkIds)
      BY <1>2 DEF Distinct
    <3>2. keyword = MergeKeywords(db, file, depth)
      BY <2>2
    <3> HIDE DEF db, file, keyword
    <3> QED BY <1>0, <3>1, <3>2, MergedLists
  <2> QED BY <2>1, <2>2
<1> HIDE DEF semantic, db, keyword
<1>4. ASSUME NEW i \in 1 .. Len(ranking.file), 2 * i <= Len(keyword)
      PROVE  ranking.file[i] \in Listed(Prefix(keyword, 2 * i))
  <2>1. ranking.file \in Seq(ChunkIds) /\ Len(ranking.file) \in Nat /\ Len(keyword) \in Nat
    BY <1>0, <1>3 DEF Distinct
  <2>2. i <= depth
    BY <1>0, <1>3, <1>4, <2>1
  <2>3. /\ Len(file) = (IF depth < Len(ranking.file) THEN depth ELSE Len(ranking.file))
        /\ \A j \in 1 .. Len(file) : file[j] = ranking.file[j]
    BY <1>0, <2>1, BeginningOf
  <2>4. i \in 1 .. Len(file)
    BY <1>0, <2>1, <2>2, <2>3
  <2> QED BY <1>3, <1>4, <2>3, <2>4
<1> HIDE DEF file
<1>5. NextDepth(depth) \in FirstDepth .. MaxDepth
  BY <1>0 DEF NextDepth
<1> HIDE DEF all, result
<1>6. all = Fuse(semantic, keyword) /\ result = Collapse(all, WantedK)
  BY DEF all, result
<1>7. Distinct(all, ChunkIds)
  BY <1>2, <1>3, <1>6, FusedLists
<1>8. Len(result) \in Nat
  <2>1. all \in Seq(ChunkIds) /\ WantedK \in Nat
    BY <1>7 DEF Distinct
  <2> QED BY <1>6, <2>1, CollapsedList
<1>9. CASE Enough(result) \/ depth >= MaxDepth
  <2>1. answer' = [done |-> TRUE, hits |-> result] /\ depth' = depth
    BY <1>1, <1>9
  <2>2. Len(result) < WantedK => depth = MaxDepth
    BY <1>0, <1>8, <1>9 DEF Enough
  <2>3. answer'.done = TRUE /\ answer'.hits = Collapse(fused', WantedK)
    BY <1>1, <1>6, <2>1
  <2>4. Len(answer'.hits) < WantedK => depth' = MaxDepth
    BY <2>1, <2>2
  <2> QED BY <1>0, <1>1, <1>2, <1>3, <1>4, <1>6, <2>1, <2>3, <2>4 DEF RetrievalRight
<1>10. CASE ~(Enough(result) \/ depth >= MaxDepth)
  <2>1. depth' = NextDepth(depth) /\ answer' = answer
    BY <1>1, <1>10
  <2> QED BY <1>0, <1>1, <1>2, <1>3, <1>4, <1>5, <1>6, <2>1 DEF RetrievalRight
<1> QED BY <1>9, <1>10

\* What the invariant promises.
LEMMA RetrievalEnough ==
  ASSUME RetrievalRight
  PROVE  RetrievalTypeOK /\ FileHitsNotHidden /\ FusionIsMonotone /\ AnswerIsComplete
<1> USE RetrievalAssumption
<1>0. /\ DOMAIN ranking = {"semantic", "db", "file"}
      /\ Distinct(ranking.file, ChunkIds)
      /\ mode \in {"hybrid", "semantic", "keyword"} /\ depth \in FirstDepth .. MaxDepth
      /\ Distinct(nearest, ChunkIds) /\ Distinct(merged, ChunkIds)
      /\ fused = <<>> \/ fused = Fuse(nearest, merged)
      /\ answer.done \in BOOLEAN /\ (answer.done \/ answer.hits = <<>>)
  BY DEF RetrievalRight
<1>1. Distinct(fused, ChunkIds)
  BY <1>0, EmptyIsDistinct, FusedLists
<1>2. fused \in Seq(ChunkIds) /\ merged \in Seq(ChunkIds) /\ ranking.file \in Seq(ChunkIds) /\ WantedK \in Nat
  BY <1>0, <1>1 DEF Distinct
<1>3. ASSUME answer.done
      PROVE  /\ answer.hits \in Seq(ChunkIds) /\ Len(answer.hits) \in Nat /\ Len(answer.hits) <= WantedK
             /\ \A i, j \in 1 .. Len(answer.hits) : i # j => ParentOf[answer.hits[i]] # ParentOf[answer.hits[j]]
             /\ Len(answer.hits) < WantedK => depth = MaxDepth /\ ParentsOf(answer.hits) = ParentsOf(fused)
  <2> DEFINE hits == answer.hits
  <2>1. hits = Collapse(fused, WantedK) /\ (Len(hits) < WantedK => depth = MaxDepth)
    BY <1>3 DEF RetrievalRight
  <2> HIDE DEF hits
  <2>2. /\ hits \in Seq(ChunkIds) /\ Len(hits) \in Nat /\ Len(hits) <= WantedK
        /\ \A i, j \in 1 .. Len(hits) : i # j => ParentOf[hits[i]] # ParentOf[hits[j]]
        /\ Len(hits) < WantedK => ParentsOf(hits) = ParentsOf(fused)
    BY <1>2, <2>1, CollapsedList
  <2> QED BY <2>1, <2>2 DEF hits
<1>4. RetrievalTypeOK
  <2>1. Listed(fused) \subseteq ChunkIds /\ Listed(merged) \subseteq ChunkIds
    BY <1>0, <1>1, RankOfHit
  <2>2. Len(answer.hits) <= WantedK
    BY <1>0, <1>2, <1>3
  <2> QED BY <1>0, <2>1, <2>2 DEF RetrievalTypeOK
<1>5. FileHitsNotHidden
  <2>1. IsInjective(merged)
    BY <1>0, <1>2 DEF Distinct, IsInjective
  <2>2. \A i \in 1 .. Len(ranking.file) :
            2 * i <= Len(merged) => ranking.file[i] \in Listed(Prefix(merged, 2 * i))
    BY DEF RetrievalRight
  <2>3. DOMAIN ranking.file = 1 .. Len(ranking.file)
    BY <1>2
  <2> QED BY <2>1, <2>2, <2>3 DEF FileHitsNotHidden
<1>6. FusionIsMonotone
  <2>1. ASSUME NEW a \in Listed(fused), NEW b \in Listed(fused), a # b,
               AheadIn(nearest, a, b), AheadIn(merged, a, b)
        PROVE  Rank(fused, a) < Rank(fused, b)
    <3>1. CASE fused = <<>>
      <4>1. PICK i \in 1 .. Len(fused) : fused[i] = a
        BY <1>2, ListedFacts
      <4>2. Len(fused) = 0
        BY <3>1
      <4> QED BY <4>1, <4>2
    <3>2. CASE fused = Fuse(nearest, merged)
      BY <1>0, <2>1, <3>2, FusedLists
    <3> QED BY <1>0, <3>1, <3>2
  <2> QED BY <2>1 DEF FusionIsMonotone, AheadIn
<1>7. AnswerIsComplete
  <2>1. ASSUME answer.done PROVE DOMAIN answer.hits = 1 .. Len(answer.hits)
    BY <1>3, <2>1
  <2> QED BY <1>3, <2>1 DEF AnswerIsComplete, ParentsOf
<1> QED BY <1>4, <1>5, <1>6, <1>7

LEMMA RetrievalParts == ApiSpec => (RetrievalInit \/ RetrievalIdle) /\ [][RetrievalNext]_retrievalVars
<1>1. ApiInit => RetrievalInit \/ RetrievalIdle
  BY DEF ApiInit
<1>2. [ApiNext]_apiVars => [RetrievalNext]_retrievalVars
  BY DEF ApiNext, apiVars, OnlyResearch, OnlyLegacy, OnlyRuns, OnlySignals, OnlyIndex, OnlyRetrieval,
         OnlyChunking, ApiOnly, offlineVars, OnlySite, OnlyCorpus, OnlyRebuild, OnlyData, OnlyLife
<1> QED BY <1>1, <1>2, PTL DEF ApiSpec

LEMMA RetrievalStep ==
  ASSUME RetrievalRight, [RetrievalNext]_retrievalVars
  PROVE  RetrievalRight'
<1>1. CASE UNCHANGED retrievalVars
  BY <1>1 DEF retrievalVars, RetrievalRight
<1>2. CASE RetrievalNext
  BY <1>2, RoundRight DEF RetrievalNext
<1> QED BY <1>1, <1>2

LEMMA RetrievalStaysRight == ApiSpec => []RetrievalRight
BY RetrievalParts, RetrievalStart, RetrievalStep, PTL

-----------------------------------------------------------------------------
(* The semantic index (index_document).                                      *)

\* Calls of index_document that wait for the backend, and those that have its
\* answer.
EmbeddingCalls == [at : {"embedding"}, ref : Refs, version : Versions]
UpsertCalls ==
    [at : {"upsert"}, ref : Refs, version : Versions, dim : Dimensions, odd : SUBSET Nat]

\* The types of the tables and of the calls.
IndexTyped ==
    /\ lastRow \in 0 .. MaxRows /\ fts \in BOOLEAN /\ backend \in Dimensions
    /\ stamp \in Dimensions \cup {0}
    /\ writer \in [Writers -> {Free} \cup EmbeddingCalls \cup UpsertCalls]
    /\ \A r \in rows : r.id \in 1 .. lastRow /\ r.ref \in Refs /\ r.version \in Versions
    /\ vectors \subseteq (1 .. lastRow) \X Dimensions
    /\ words \subseteq 1 .. lastRow

\* A rowid is that of one chunk, so that the chunks of one document can be taken
\* out of the other tables by their rowids.
RowidsDiffer == \A a, b \in rows : a.id = b.id => a = b

\* An index without a stamp holds nothing: what the first write stamps is the
\* dimension of every vector there is.
UnstampedIsEmpty == stamp = 0 => vectors = {}

\* There are finitely many rows, and their distances can be compared.
RowsFinite == IsFiniteSet(rows) /\ \A r \in rows : r.distance \in Nat

IndexRight == IndexTyped /\ RowidsDiffer /\ UnstampedIsEmpty /\ RowsFinite /\ TablesMirror

LEMMA IndexStart ==
  ASSUME IndexInit
  PROVE  IndexRight
<1> USE IndexAssumption
<1>1. /\ rows = {} /\ vectors = {} /\ words = {} /\ stamp = 0 /\ lastRow = 0 /\ fts \in BOOLEAN
      /\ backend \in Dimensions /\ writer = [w \in Writers |-> Free]
  BY DEF IndexInit
<1>2. IndexTyped
  BY <1>1 DEF IndexTyped
<1>3. RowidsDiffer /\ UnstampedIsEmpty /\ RowsFinite
  BY <1>1, FS_EmptySet DEF RowidsDiffer, UnstampedIsEmpty, RowsFinite
<1>4. TablesMirror
  <2>1. {v[1] : v \in vectors} = {} /\ {r.id : r \in rows} = {}
    BY <1>1
  <2> QED BY <1>1, <2>1 DEF TablesMirror
<1> QED BY <1>2, <1>3, <1>4 DEF IndexRight

\* A step that leaves the tables alone.
LEMMA TablesStay ==
  ASSUME IndexRight, UNCHANGED <<rows, vectors, words, stamp, lastRow, fts>>, backend' \in Dimensions,
         writer' \in [Writers -> {Free} \cup EmbeddingCalls \cup UpsertCalls]
  PROVE  IndexRight'
<1>1. IndexTyped'
  BY DEF IndexRight, IndexTyped
<1>2. RowidsDiffer' /\ UnstampedIsEmpty' /\ RowsFinite'
  BY DEF IndexRight, RowidsDiffer, UnstampedIsEmpty, RowsFinite
<1>3. TablesMirror'
  BY DEF IndexRight, TablesMirror
<1> QED BY <1>1, <1>2, <1>3 DEF IndexRight

\* What upsert inserts: as many rows as the text has chunks, with fresh rowids.
LEMMA NewRowsFacts ==
  ASSUME lastRow \in Nat, NEW ref \in Refs, NEW version \in Versions, NEW odd
  PROVE  /\ \A r \in NewRows(ref, version, odd) :
               /\ r.ref = ref /\ r.version = version /\ r.skipped = odd
               /\ r.pos \in (1 .. ChunkCount[version]) \ odd /\ r.id = lastRow + r.pos
         /\ \A i \in (1 .. ChunkCount[version]) \ odd : \E r \in NewRows(ref, version, odd) : r.pos = i
         /\ \A a, b \in NewRows(ref, version, odd) : a.id = b.id => a = b
         /\ IsFiniteSet(NewRows(ref, version, odd))
         /\ \A r \in NewRows(ref, version, odd) : r.distance \in Nat
         /\ ChunkCount[version] \in Nat
<1> DEFINE N == ChunkCount[version]
           places == (1 .. N) \ odd
           row(i) == [id |-> lastRow + i, ref |-> ref, version |-> version, pos |-> i, skipped |-> odd,
                      distance |-> DistanceOf[<<version, i>>]]
           fresh == NewRows(ref, version, odd)
<1>1. N \in Nat
  BY IndexAssumption DEF Versions
<1>2. fresh = {row(i) : i \in places}
  BY DEF NewRows
<1>3. \A i \in places : /\ row(i).ref = ref /\ row(i).version = version /\ row(i).pos = i
                        /\ row(i).skipped = odd /\ row(i).id = lastRow + i
  OBVIOUS
<1>9. \A i \in places : row(i).distance = DistanceOf[<<version, i>>] /\ i \in 1 .. N
  OBVIOUS
<1>a. places \in SUBSET (1 .. N)
  OBVIOUS
<1> HIDE DEF row, fresh, N, places
<1>4. \A r \in fresh : /\ r.ref = ref /\ r.version = version /\ r.skipped = odd
                       /\ r.pos \in places /\ r.pos \in 1 .. N /\ r.id = lastRow + r.pos /\ r = row(r.pos)
  <2>1. ASSUME NEW r \in fresh
        PROVE  /\ r.ref = ref /\ r.version = version /\ r.skipped = odd
               /\ r.pos \in places /\ r.pos \in 1 .. N /\ r.id = lastRow + r.pos /\ r = row(r.pos)
    <3>1. PICK i \in places : r = row(i)
      BY <1>2
    <3>2. r.ref = ref /\ r.version = version /\ r.skipped = odd /\ r.pos = i /\ r.id = lastRow + i
      BY <1>3, <3>1
    <3> QED BY <1>9, <3>1, <3>2
  <2> QED BY <2>1
<1>5. \A i \in places : row(i) \in fresh /\ row(i).pos = i
  BY <1>2, <1>3
<1>8. \A r \in fresh : r.distance \in Nat
  <2>1. \A i \in 1 .. N : DistanceOf[<<version, i>>] \in Nat
    BY IndexAssumption DEF Versions, N
  <2>2. \A i \in places : row(i).distance \in Nat
    BY <1>9, <2>1
  <2> QED BY <1>4, <2>2
<1>6. ASSUME NEW a \in fresh, NEW b \in fresh, a.id = b.id PROVE a = b
  <2>1. a.pos \in Int /\ b.pos \in Int
    BY <1>1, <1>4
  <2>2. lastRow + a.pos = lastRow + b.pos
    BY <1>4, <1>6
  <2>3. a.pos = b.pos
    BY <2>1, <2>2
  <2> QED BY <1>4, <2>3
<1>7. IsFiniteSet(fresh)
  <2>1. IsFiniteSet(1 .. N)
    BY <1>1, FS_Interval
  <2>2. IsFiniteSet(places)
    BY <1>a, <2>1, FS_Subset
  <2> DEFINE f == [i \in places |-> row(i)]
  <2>3. f \in Surjection(places, fresh)
    <3>1. f \in [places -> fresh]
      BY <1>5
    <3>2. \A r \in fresh : \E i \in places : f[i] = r
      BY <1>4
    <3> HIDE DEF f
    <3> QED BY <3>1, <3>2 DEF Surjection
  <2> HIDE DEF f
  <2> QED BY <2>2, <2>3, FS_Surjection
<1> QED BY <1>1, <1>4, <1>5, <1>6, <1>7, <1>8 DEF fresh, N, places

\* upsert: the old chunks of a document leave the three tables and the new ones
\* enter them.
LEMMA ReplaceKeeps ==
  ASSUME IndexRight, NEW w \in Writers, writer[w] \in UpsertCalls, DimensionFits(w),
         lastRow + ChunkCount[writer[w].version] <= MaxRows,
         stamp' = writer[w].dim, Replace(w), UNCHANGED <<fts, backend>>,
         writer' = [writer EXCEPT ![w] = Free]
  PROVE  IndexRight'
<1> USE IndexAssumption
<1> DEFINE ref == writer[w].ref
           version == writer[w].version
           dim == writer[w].dim
           N == ChunkCount[version]
           odd == writer[w].odd
           fresh == NewRows(ref, version, odd)
           ids == {r.id : r \in fresh}
           others == {r \in rows : r.ref # ref}
           old == OldIds(ref)
<1>0. ref \in Refs /\ version \in Versions /\ dim \in Dimensions
  BY DEF UpsertCalls
<1>1. /\ rows' = others \cup fresh
      /\ vectors' = {v \in vectors : v[1] \notin old} \cup (ids \X {dim})
      /\ words' = IF fts THEN (words \ old) \cup ids ELSE words
      /\ lastRow' = lastRow + N
  BY DEF Replace
<1>2. /\ lastRow \in 0 .. MaxRows /\ lastRow \in Nat /\ fts \in BOOLEAN /\ stamp \in Dimensions \cup {0}
      /\ \A r \in rows : r.id \in 1 .. lastRow /\ r.ref \in Refs /\ r.version \in Versions
      /\ vectors \subseteq (1 .. lastRow) \X Dimensions /\ words \subseteq 1 .. lastRow
  BY DEF IndexRight, IndexTyped
<1>3. \A r \in rows : r.id \in old <=> r.ref = ref
  BY DEF OldIds, IndexRight, RowidsDiffer
<1>4. /\ \A r \in fresh : /\ r.ref = ref /\ r.version = version /\ r.skipped = odd
                           /\ r.pos \in (1 .. N) \ odd /\ r.pos \in 1 .. N /\ r.id = lastRow + r.pos
      /\ \A i \in (1 .. N) \ odd : \E r \in fresh : r.pos = i
      /\ \A a, b \in fresh : a.id = b.id => a = b
      /\ N \in Nat
      /\ IsFiniteSet(fresh) /\ \A r \in fresh : r.distance \in Nat
  BY <1>0, <1>2, NewRowsFacts
<1>5. lastRow + N <= MaxRows
  OBVIOUS
<1>6. \A i \in ids : \E r \in fresh : r.id = i
  OBVIOUS
<1>7. \A r \in fresh : r.id \in ids
  OBVIOUS
<1>8. \A r \in others : r \in rows /\ r.ref # ref
  OBVIOUS
<1>9. \A r \in rows : r.ref # ref => r \in others
  OBVIOUS
<1>10. stamp = 0 \/ stamp = dim
  BY DEF DimensionFits
<1>11. writer' \in [Writers -> {Free} \cup EmbeddingCalls \cup UpsertCalls]
  BY DEF IndexRight, IndexTyped
<1> HIDE DEF ref, version, dim, N, odd, fresh, ids, others, old
<1>12. lastRow' = lastRow + N /\ lastRow' \in 0 .. MaxRows
  BY <1>1, <1>2, <1>4, <1>5
<1>13. \A i \in ids : i \in lastRow + 1 .. lastRow + N /\ i \notin 1 .. lastRow /\ i \in 1 .. lastRow'
  BY <1>2, <1>4, <1>6, <1>12
<1>14. 1 .. lastRow \subseteq 1 .. lastRow'
  BY <1>2, <1>4, <1>12
<1>15. IndexTyped'
  <2>1. \A r \in rows' : r.id \in 1 .. lastRow' /\ r.ref \in Refs /\ r.version \in Versions
    BY <1>0, <1>1, <1>2, <1>4, <1>7, <1>8, <1>13, <1>14
  <2>2. vectors' \subseteq (1 .. lastRow') \X Dimensions
    BY <1>0, <1>1, <1>2, <1>13, <1>14
  <2>3. words' \subseteq 1 .. lastRow'
    BY <1>1, <1>2, <1>13, <1>14
  <2>4. stamp' \in Dimensions \cup {0} /\ fts' \in BOOLEAN /\ backend' \in Dimensions
    BY <1>0, <1>2 DEF dim, IndexRight, IndexTyped
  <2> QED BY <1>11, <1>12, <2>1, <2>2, <2>3, <2>4 DEF IndexTyped
<1>16. RowidsDiffer'
  <2>1. \A a \in others : a.id \in 1 .. lastRow
    BY <1>2, <1>8
  <2>2. \A b \in fresh : b.id \notin 1 .. lastRow
    BY <1>7, <1>13
  <2>3. \A a, b \in others : a.id = b.id => a = b
    BY <1>8 DEF IndexRight, RowidsDiffer
  <2> QED BY <1>1, <1>4, <2>1, <2>2, <2>3 DEF RowidsDiffer
<1>17. UnstampedIsEmpty'
  <2>1. stamp' # 0
    BY <1>0 DEF dim
  <2> QED BY <2>1 DEF UnstampedIsEmpty
<1>26. RowsFinite'
  <2>1. IsFiniteSet(rows) /\ \A r \in rows : r.distance \in Nat
    BY DEF IndexRight, RowsFinite
  <2>2. IsFiniteSet(others)
    <3>1. others \in SUBSET rows
      BY <1>8
    <3> QED BY <2>1, <3>1, FS_Subset
  <2>3. IsFiniteSet(rows')
    BY <1>1, <1>4, <2>2, FS_Union
  <2>4. \A r \in rows' : r.distance \in Nat
    BY <1>1, <1>4, <1>8, <2>1
  <2> QED BY <2>3, <2>4 DEF RowsFinite
<1>18. {r.id : r \in rows'} = ({r.id : r \in rows} \ old) \cup ids
  <2>1. ASSUME NEW r \in rows' PROVE r.id \in ({x.id : x \in rows} \ old) \cup ids
    BY <1>1, <1>3, <1>7, <1>8
  <2>2. ASSUME NEW i \in {x.id : x \in rows} \ old PROVE \E r \in rows' : r.id = i
    <3>1. PICK r \in rows : r.id = i
      OBVIOUS
    <3>2. r \in others
      BY <1>3, <1>9, <3>1
    <3> QED BY <1>1, <3>1, <3>2
  <2>3. ASSUME NEW i \in ids PROVE \E r \in rows' : r.id = i
    BY <1>1, <1>6
  <2> QED BY <2>1, <2>2, <2>3
<1>19. {v[1] : v \in vectors'} = ({v[1] : v \in vectors} \ old) \cup ids
  <2>1. ASSUME NEW v \in vectors' PROVE v[1] \in ({x[1] : x \in vectors} \ old) \cup ids
    BY <1>1
  <2>2. ASSUME NEW i \in {x[1] : x \in vectors} \ old PROVE \E v \in vectors' : v[1] = i
    BY <1>1
  <2>3. ASSUME NEW i \in ids PROVE \E v \in vectors' : v[1] = i
    <3>1. <<i, dim>> \in vectors' /\ <<i, dim>>[1] = i
      BY <1>1
    <3> QED BY <3>1
  <2> QED BY <2>1, <2>2, <2>3
<1>20. {v[1] : v \in vectors'} = {r.id : r \in rows'}
  BY <1>18, <1>19 DEF IndexRight, TablesMirror
<1>21. \A v \in vectors' : v[2] = stamp'
  <2>1. stamp' = dim
    BY DEF dim
  <2>2. \A v \in vectors : v[2] = dim
    BY <1>10 DEF IndexRight, TablesMirror, UnstampedIsEmpty
  <2> QED BY <1>1, <2>1, <2>2
<1>22. fts' => words' = {r.id : r \in rows'}
  BY <1>1, <1>2, <1>18 DEF IndexRight, TablesMirror
<1>23. \A a, b \in rows' : a.ref = b.ref => a.version = b.version /\ a.skipped = b.skipped
  BY <1>1, <1>4, <1>8 DEF IndexRight, TablesMirror
<1>24. ASSUME NEW a \in rows'
       PROVE  {r.pos : r \in {x \in rows' : x.ref = a.ref}} = (1 .. ChunkCount[a.version]) \ a.skipped
  <2>1. CASE a.ref = ref
    <3>1. {x \in rows' : x.ref = a.ref} = fresh
      BY <1>1, <1>4, <1>8, <2>1
    <3>2. {r.pos : r \in fresh} = (1 .. N) \ odd
      BY <1>4
    <3>3. a.version = version /\ a.skipped = odd
      BY <1>1, <1>4, <1>8, <2>1
    <3> QED BY <3>1, <3>2, <3>3 DEF N
  <2>2. CASE a.ref # ref
    <3>1. {x \in rows' : x.ref = a.ref} = {x \in rows : x.ref = a.ref} /\ a \in rows
      BY <1>1, <1>4, <1>8, <1>9, <2>2
    <3> QED BY <3>1 DEF IndexRight, TablesMirror
  <2> QED BY <2>1, <2>2
<1>25. TablesMirror'
  BY <1>20, <1>21, <1>22, <1>23, <1>24 DEF TablesMirror
<1> QED BY <1>15, <1>16, <1>17, <1>25, <1>26 DEF IndexRight

\* The calls that wait for nothing but themselves.
LEMMA IndexStepRight ==
  ASSUME IndexRight, [IndexNext]_indexVars
  PROVE  IndexRight'
<1> USE IndexAssumption
<1>0. /\ writer \in [Writers -> {Free} \cup EmbeddingCalls \cup UpsertCalls] /\ backend \in Dimensions
      /\ 0 \notin Dimensions
  BY DEF IndexRight, IndexTyped
<1>1. CASE UNCHANGED indexVars
  BY <1>0, <1>1, TablesStay DEF indexVars
<1>2. ASSUME NEW w \in Writers, NEW ref \in Refs, NEW version \in Versions, BeginIndex(w, ref, version)
      PROVE  IndexRight'
  <2>1. [at |-> "embedding", ref |-> ref, version |-> version] \in EmbeddingCalls
    BY DEF EmbeddingCalls
  <2>2. writer' \in [Writers -> {Free} \cup EmbeddingCalls \cup UpsertCalls]
    BY <1>0, <1>2, <2>1 DEF BeginIndex
  <2> QED BY <1>0, <1>2, <2>2, TablesStay DEF BeginIndex
<1>3. ASSUME NEW w \in Writers, Embedded(w) PROVE IndexRight'
  <2>1. writer[w] \in EmbeddingCalls
    BY <1>0, <1>3 DEF Embedded, Free, UpsertCalls
  <2>a. PICK odd \in SUBSET (2 .. ChunkCount[writer[w].version]) :
           writer' = [writer EXCEPT ![w] = [at |-> "upsert", ref |-> writer[w].ref, dim |-> backend,
                                            version |-> writer[w].version, odd |-> odd]]
    BY <1>3 DEF Embedded
  <2>b. odd \in SUBSET Nat
    <3>1. ChunkCount[writer[w].version] \in Nat
      BY <2>1 DEF EmbeddingCalls, Versions
    <3> QED BY <3>1
  <2>2. [at |-> "upsert", ref |-> writer[w].ref, dim |-> backend, version |-> writer[w].version, odd |-> odd]
           \in UpsertCalls
    BY <1>0, <2>1, <2>b DEF EmbeddingCalls, UpsertCalls
  <2>3. writer' \in [Writers -> {Free} \cup EmbeddingCalls \cup UpsertCalls]
    BY <1>0, <2>a, <2>2
  <2> QED BY <1>0, <1>3, <2>3, TablesStay DEF Embedded
<1>4. ASSUME NEW w \in Writers, EmbedFails(w) PROVE IndexRight'
  <2>1. writer' \in [Writers -> {Free} \cup EmbeddingCalls \cup UpsertCalls]
    BY <1>0, <1>4 DEF EmbedFails
  <2> QED BY <1>0, <1>4, <2>1, TablesStay DEF EmbedFails
<1>5. ASSUME NEW w \in Writers, Upsert(w) PROVE IndexRight'
  <2>1. writer[w] \in UpsertCalls
    BY <1>0, <1>5 DEF Upsert, Free, EmbeddingCalls
  <2>2. CASE DimensionFits(w)
    BY <1>5, <2>1, <2>2, ReplaceKeeps DEF Upsert
  <2>3. CASE ~DimensionFits(w)
    <3>1. writer' \in [Writers -> {Free} \cup EmbeddingCalls \cup UpsertCalls]
      BY <1>0, <1>5 DEF Upsert
    <3> QED BY <1>0, <1>5, <2>3, <3>1, TablesStay DEF Upsert
  <2> QED BY <2>2, <2>3
<1>6. ASSUME NEW w \in Writers, UpsertFails(w) PROVE IndexRight'
  <2>1. writer[w] \in UpsertCalls
    BY <1>0, <1>6 DEF UpsertFails, Free, EmbeddingCalls
  <2>2. writer[w].dim \in Dimensions /\ writer[w].dim # 0 /\ (stamp = 0 \/ stamp = writer[w].dim)
    BY <1>0, <1>6, <2>1 DEF UpsertFails, UpsertCalls, DimensionFits
  <2>3. /\ stamp' = writer[w].dim /\ UNCHANGED <<rows, vectors, words, lastRow, fts, backend>>
        /\ writer' \in [Writers -> {Free} \cup EmbeddingCalls \cup UpsertCalls]
    BY <1>0, <1>6 DEF UpsertFails
  <2>4. IndexTyped' /\ RowidsDiffer' /\ UnstampedIsEmpty' /\ RowsFinite'
    BY <2>2, <2>3 DEF IndexRight, IndexTyped, RowidsDiffer, UnstampedIsEmpty, RowsFinite
  <2>5. \A v \in vectors : v[2] = stamp'
    BY <2>2, <2>3 DEF IndexRight, UnstampedIsEmpty, TablesMirror
  <2>6. TablesMirror'
    BY <2>3, <2>5 DEF IndexRight, TablesMirror
  <2> QED BY <2>4, <2>6 DEF IndexRight
<1>7. ASSUME NEW dim \in Dimensions, ChangeModel(dim) PROVE IndexRight'
  <2>1. writer' \in [Writers -> {Free} \cup EmbeddingCalls \cup UpsertCalls]
    BY <1>7 DEF ChangeModel
  <2> QED BY <1>7, <2>1, TablesStay DEF ChangeModel
<1>8. CASE Reindex
  <2>1. /\ rows' = {} /\ vectors' = {} /\ words' = {} /\ stamp' = 0 /\ lastRow' = 0
        /\ fts' = fts /\ backend' = backend /\ writer' = [w \in Writers |-> Free]
    BY <1>8 DEF Reindex
  <2>2. IndexTyped' /\ RowidsDiffer' /\ UnstampedIsEmpty' /\ RowsFinite'
    BY <2>1, FS_EmptySet DEF IndexRight, IndexTyped, RowidsDiffer, UnstampedIsEmpty, RowsFinite
  <2>3. {v[1] : v \in vectors'} = {} /\ {r.id : r \in rows'} = {}
    BY <2>1
  <2>4. TablesMirror'
    BY <2>1, <2>3 DEF TablesMirror
  <2> QED BY <2>2, <2>4 DEF IndexRight
<1> QED BY <1>1, <1>2, <1>3, <1>4, <1>5, <1>6, <1>7, <1>8 DEF IndexNext

LEMMA IndexParts == ApiSpec => IndexInit /\ [][IndexNext]_indexVars
<1>1. ApiInit => IndexInit
  BY DEF ApiInit, IndexIdle
<1>2. [ApiNext]_apiVars => [IndexNext]_indexVars
  BY DEF ApiNext, apiVars, OnlyResearch, OnlyLegacy, OnlyRuns, OnlySignals, OnlyIndex, OnlyRetrieval,
         OnlyChunking, ApiOnly, offlineVars, OnlySite, OnlyCorpus, OnlyRebuild, OnlyData, OnlyLife
<1> QED BY <1>1, <1>2, PTL DEF ApiSpec

LEMMA IndexStaysRight == ApiSpec => []IndexRight
BY IndexParts, IndexStart, IndexStepRight, PTL

LEMMA IndexEnough ==
  ASSUME IndexRight
  PROVE  IndexTypeOK /\ TablesMirror /\ SearchIsExact
<1>1. IndexTypeOK
  <2>1. \A w \in Writers : writer[w].at \in {"idle", "embedding", "upsert"}
    BY DEF IndexRight, IndexTyped, Free, EmbeddingCalls, UpsertCalls
  <2> QED BY <2>1 DEF IndexTypeOK, IndexRight, IndexTyped
<1>2. RowsRanked
  <2>1. \A r \in rows : r.id \in Nat /\ r.ref \in Refs
    BY DEF IndexRight, IndexTyped
  <2> QED BY <2>1 DEF IndexRight, RowsFinite, RowidsDiffer, TablesMirror, RowsRanked
<1>3. \A k \in 1 .. 3, filtered \in BOOLEAN : Widened(k, filtered) = Nearest(k, filtered)
  BY <1>2, SearchAnswers
<1>4. SearchIsExact
  BY <1>3 DEF SearchIsExact, Search
<1> QED BY <1>1, <1>4 DEF IndexRight

\* The chunks, vec_chunks and chunks_fts tables mirror each other and hold one
\* version of each document in one dimension, but for the chunks whose vector had
\* another length, whatever index_document calls overlap, fail or are lost with
\* the process (upsert, _ensure_vec_table).
THEOREM TablesAreMirrors == ApiSpec => [](IndexTypeOK /\ TablesMirror)
BY IndexStaysRight, IndexEnough, PTL

\* Doubling the candidate window (search() of vecindex.py) gives the k nearest of
\* the rows that match, for every k and however many of the nearest rows the
\* filter drops; over an index of another model, or after a query that raised, it
\* gives nothing, never a part.
SearchGivesNearest ==
    \A k \in Nat \ {0}, filtered, raises \in BOOLEAN :
        \/ Search(k, filtered, raises) = Nearest(k, filtered)
        \/ Search(k, filtered, raises) = <<>> /\ (stamp # backend \/ raises)

THEOREM SearchesAreExact == ApiSpec => []SearchGivesNearest
<1>1. IndexRight => RowsRanked
  <2> SUFFICES ASSUME IndexRight PROVE RowsRanked
    OBVIOUS
  <2>1. \A r \in rows : r.id \in Nat /\ r.ref \in Refs
    BY DEF IndexRight, IndexTyped
  <2> QED BY <2>1 DEF IndexRight, RowsFinite, RowidsDiffer, TablesMirror, RowsRanked
<1>2. IndexRight => SearchGivesNearest
  BY <1>1, SearchAnswers DEF SearchGivesNearest, Search
<1> QED BY <1>2, IndexStaysRight, PTL

\* The index and the search over it: mirrored tables, exact windows, no source
\* hidden by another, a fusion that keeps an order all lists agree on, and answers
\* that are short only when there is no more (vecindex.py, retrieval.py).
THEOREM SearchIsRight == ApiSpec => []SearchInv
<1>1. IndexRight /\ RetrievalRight => SearchInv
  BY IndexEnough, RetrievalEnough DEF SearchInv
<1> QED BY <1>1, IndexStaysRight, RetrievalStaysRight, PTL

-----------------------------------------------------------------------------
(* Chunking and site discovery.  The loops of the text code as recursive      *)
(* functions: what a turn does, and that the result is the last turn.        *)

\* The turns of Kept.
KeepsOf(g, X, s, S) ==
    /\ g \in [0 .. Len(s) -> Seq(X)] /\ g[0] = <<>>
    /\ \A n \in 1 .. Len(s) : g[n] = IF s[n] \in S THEN Append(g[n - 1], s[n]) ELSE g[n - 1]

\* Kept is its last turn.
LEMMA KeptLoop ==
  ASSUME NEW X, NEW s \in Seq(X), NEW S
  PROVE  \E g : KeepsOf(g, X, s, S) /\ Kept(s, S) = g[Len(s)]
<1> DEFINE L == Len(s)
           T == Seq(X)
           IsLoop(f) == f = [n \in 0 .. L |-> IF n = 0 THEN <<>> ELSE IF s[n] \in S THEN Append(f[n - 1], s[n]) ELSE f[n - 1]]
           G == [n \in Nat |-> [q \in T |-> IF n \in 1 .. L THEN IF s[n] \in S THEN Append(q, s[n]) ELSE q ELSE q]]
<1>0. L \in Nat /\ \A n \in 1 .. L : s[n] \in X
  OBVIOUS
<1>1. Kept(s, S) = (CHOOSE f : IsLoop(f))[L]
  BY DEF Kept
<1>2. <<>> \in T /\ \A q \in T, n \in 1 .. L : (IF s[n] \in S THEN Append(q, s[n]) ELSE q) \in T
  BY <1>0
<1> HIDE DEF L
<1>3. G \in [Nat -> [T -> T]]
  BY <1>2
<1>4. \A q \in T, n \in 1 .. L : n \in Nat /\ G[n][q] = IF s[n] \in S THEN Append(q, s[n]) ELSE q
  BY <1>0
<1> HIDE DEF G, T
<1>a. \E f : Loop(f, T, <<>>, G, L)
  BY <1>0, <1>2, <1>3, LoopExists
<1>5. PICK f0 \in [0 .. L -> T] : f0[0] = <<>> /\ \A n \in 0 .. L : n # 0 => f0[n] = G[n][f0[n - 1]]
  BY <1>a DEF Loop
<1>6. IsLoop(f0)
  <2>1. ASSUME NEW n \in 0 .. L, n # 0
        PROVE  f0[n] = IF s[n] \in S THEN Append(f0[n - 1], s[n]) ELSE f0[n - 1]
    <3>1. n \in 1 .. L /\ n - 1 \in 0 .. L
      BY <1>0, <2>1
    <3>2. f0[n - 1] \in T
      BY <3>1
    <3> QED BY <1>4, <1>5, <2>1, <3>1, <3>2
  <2> QED BY <1>5, <2>1
<1>7. \A f : IsLoop(f) => f[0] = <<>> /\ (\A n \in 1 .. L : f[n] = IF s[n] \in S THEN Append(f[n - 1], s[n]) ELSE f[n - 1]) /\ f = [n \in 0 .. L |-> f[n]]
  <2>1. 0 \in 0 .. L /\ \A n \in 1 .. L : n \in 0 .. L /\ n # 0
    BY <1>0
  <2> QED BY <2>1, Zenon
<1> DEFINE g == CHOOSE f : IsLoop(f)
<1>8. IsLoop(g)
  BY <1>6, Zenon
<1> HIDE DEF g
<1>9. g[0] = <<>> /\ (\A n \in 1 .. L : g[n] = IF s[n] \in S THEN Append(g[n - 1], s[n]) ELSE g[n - 1]) /\ g = [n \in 0 .. L |-> g[n]]
  BY <1>7, <1>8
<1> HIDE DEF IsLoop
<1> DEFINE Held == {n \in Nat : n <= L => g[n] \in T}
<1>10. 0 \in Held
  BY <1>2, <1>9
<1>11. ASSUME NEW n \in Held PROVE n + 1 \in Held
  <2> SUFFICES ASSUME n + 1 <= L PROVE g[n + 1] \in T
    OBVIOUS
  <2>1. n \in Nat /\ n + 1 \in 1 .. L /\ (n + 1) - 1 = n /\ g[n] \in T
    BY <1>0
  <2> QED BY <1>2, <1>9, <2>1
<1>12. Held = Nat
  <2>1. Held \in SUBSET Nat
    OBVIOUS
  <2> HIDE DEF Held
  <2> QED BY <1>10, <1>11, <2>1, NatSetInduction
<1>13. g \in [0 .. L -> T]
  <2>1. \A n \in 0 .. L : g[n] \in T
    BY <1>0, <1>12
  <2> QED BY <1>9, <2>1
<1>14. KeepsOf(g, X, s, S)
  BY <1>9, <1>13 DEF T, L, KeepsOf
<1> QED BY <1>1, <1>14 DEF g, L

\* The turns of the filter of the query (normalize_url).
KeepsKeys(g, X, s) ==
    /\ g \in [0 .. Len(s) -> Seq(X)] /\ g[0] = <<>>
    /\ \A n \in 1 .. Len(s) : g[n] = IF s[n] \in Tracking THEN g[n - 1] ELSE Append(g[n - 1], s[n])

\* KeptKeys is its last turn.
LEMMA KeysLoop ==
  ASSUME NEW X, NEW s \in Seq(X)
  PROVE  \E g : KeepsKeys(g, X, s) /\ KeptKeys(s) = g[Len(s)]
<1> DEFINE L == Len(s)
           T == Seq(X)
           IsLoop(f) == f = [n \in 0 .. L |-> IF n = 0 THEN <<>> ELSE IF s[n] \in Tracking THEN f[n - 1] ELSE Append(f[n - 1], s[n])]
           G == [n \in Nat |-> [q \in T |-> IF n \in 1 .. L THEN IF s[n] \in Tracking THEN q ELSE Append(q, s[n]) ELSE q]]
<1>0. L \in Nat /\ \A n \in 1 .. L : s[n] \in X
  OBVIOUS
<1>1. KeptKeys(s) = (CHOOSE f : IsLoop(f))[L]
  BY DEF KeptKeys
<1>2. <<>> \in T /\ \A q \in T, n \in 1 .. L : (IF s[n] \in Tracking THEN q ELSE Append(q, s[n])) \in T
  BY <1>0
<1> HIDE DEF L
<1>3. G \in [Nat -> [T -> T]]
  BY <1>2
<1>4. \A q \in T, n \in 1 .. L : n \in Nat /\ G[n][q] = IF s[n] \in Tracking THEN q ELSE Append(q, s[n])
  BY <1>0
<1> HIDE DEF G, T
<1>a. \E f : Loop(f, T, <<>>, G, L)
  BY <1>0, <1>2, <1>3, LoopExists
<1>5. PICK f0 \in [0 .. L -> T] : f0[0] = <<>> /\ \A n \in 0 .. L : n # 0 => f0[n] = G[n][f0[n - 1]]
  BY <1>a DEF Loop
<1>6. IsLoop(f0)
  <2>1. ASSUME NEW n \in 0 .. L, n # 0
        PROVE  f0[n] = IF s[n] \in Tracking THEN f0[n - 1] ELSE Append(f0[n - 1], s[n])
    <3>1. n \in 1 .. L /\ n - 1 \in 0 .. L
      BY <1>0, <2>1
    <3>2. f0[n - 1] \in T
      BY <3>1
    <3> QED BY <1>4, <1>5, <2>1, <3>1, <3>2
  <2> QED BY <1>5, <2>1
<1>7. \A f : IsLoop(f) => f[0] = <<>> /\ (\A n \in 1 .. L : f[n] = IF s[n] \in Tracking THEN f[n - 1] ELSE Append(f[n - 1], s[n])) /\ f = [n \in 0 .. L |-> f[n]]
  <2>1. 0 \in 0 .. L /\ \A n \in 1 .. L : n \in 0 .. L /\ n # 0
    BY <1>0
  <2> QED BY <2>1, Zenon
<1> DEFINE g == CHOOSE f : IsLoop(f)
<1>8. IsLoop(g)
  BY <1>6, Zenon
<1> HIDE DEF g
<1>9. g[0] = <<>> /\ (\A n \in 1 .. L : g[n] = IF s[n] \in Tracking THEN g[n - 1] ELSE Append(g[n - 1], s[n])) /\ g = [n \in 0 .. L |-> g[n]]
  BY <1>7, <1>8
<1> HIDE DEF IsLoop
<1> DEFINE Held == {n \in Nat : n <= L => g[n] \in T}
<1>10. 0 \in Held
  BY <1>2, <1>9
<1>11. ASSUME NEW n \in Held PROVE n + 1 \in Held
  <2> SUFFICES ASSUME n + 1 <= L PROVE g[n + 1] \in T
    OBVIOUS
  <2>1. n \in Nat /\ n + 1 \in 1 .. L /\ (n + 1) - 1 = n /\ g[n] \in T
    BY <1>0
  <2> QED BY <1>2, <1>9, <2>1
<1>12. Held = Nat
  <2>1. Held \in SUBSET Nat
    OBVIOUS
  <2> HIDE DEF Held
  <2> QED BY <1>10, <1>11, <2>1, NatSetInduction
<1>13. g \in [0 .. L -> T]
  <2>1. \A n \in 0 .. L : g[n] \in T
    BY <1>0, <1>12
  <2> QED BY <1>9, <2>1
<1>14. KeepsKeys(g, X, s)
  BY <1>9, <1>13 DEF T, L, KeepsKeys
<1> QED BY <1>1, <1>14 DEF g, L

\* The turns over the segments of a path (_remove_dot_segments).
Resolves(g, X, s) ==
    /\ g \in [0 .. Len(s) -> Seq(X)] /\ g[0] = <<>>
    /\ \A n \in 1 .. Len(s) : g[n] = Resolve(g[n - 1], s[n])

\* RemoveDotSegments is its last turn.
LEMMA DotsLoop ==
  ASSUME NEW X, NEW s \in Seq(X)
  PROVE  \E g : Resolves(g, X, s) /\ RemoveDotSegments(s) = g[Len(s)]
<1> DEFINE L == Len(s)
           T == Seq(X)
           IsLoop(f) == f = [n \in 0 .. L |-> IF n = 0 THEN <<>> ELSE Resolve(f[n - 1], s[n])]
           G == [n \in Nat |-> [q \in T |-> IF n \in 1 .. L THEN Resolve(q, s[n]) ELSE q]]
<1>0. L \in Nat /\ \A n \in 1 .. L : s[n] \in X
  OBVIOUS
<1>1. RemoveDotSegments(s) = (CHOOSE f : IsLoop(f))[L]
  BY DEF RemoveDotSegments
<1>2. <<>> \in T /\ \A q \in T, n \in 1 .. L : (Resolve(q, s[n])) \in T
  BY <1>0 DEF Resolve, Front
<1> HIDE DEF L
<1>3. G \in [Nat -> [T -> T]]
  BY <1>2
<1>4. \A q \in T, n \in 1 .. L : n \in Nat /\ G[n][q] = Resolve(q, s[n])
  BY <1>0
<1> HIDE DEF G, T
<1>a. \E f : Loop(f, T, <<>>, G, L)
  BY <1>0, <1>2, <1>3, LoopExists
<1>5. PICK f0 \in [0 .. L -> T] : f0[0] = <<>> /\ \A n \in 0 .. L : n # 0 => f0[n] = G[n][f0[n - 1]]
  BY <1>a DEF Loop
<1>6. IsLoop(f0)
  <2>1. ASSUME NEW n \in 0 .. L, n # 0
        PROVE  f0[n] = Resolve(f0[n - 1], s[n])
    <3>1. n \in 1 .. L /\ n - 1 \in 0 .. L
      BY <1>0, <2>1
    <3>2. f0[n - 1] \in T
      BY <3>1
    <3> QED BY <1>4, <1>5, <2>1, <3>1, <3>2
  <2> QED BY <1>5, <2>1
<1>7. \A f : IsLoop(f) => f[0] = <<>> /\ (\A n \in 1 .. L : f[n] = Resolve(f[n - 1], s[n])) /\ f = [n \in 0 .. L |-> f[n]]
  <2>1. 0 \in 0 .. L /\ \A n \in 1 .. L : n \in 0 .. L /\ n # 0
    BY <1>0
  <2> QED BY <2>1
<1> DEFINE g == CHOOSE f : IsLoop(f)
<1>8. IsLoop(g)
  BY <1>6
<1> HIDE DEF g
<1>9. g[0] = <<>> /\ (\A n \in 1 .. L : g[n] = Resolve(g[n - 1], s[n])) /\ g = [n \in 0 .. L |-> g[n]]
  BY <1>7, <1>8
<1> HIDE DEF IsLoop
<1> DEFINE Held == {n \in Nat : n <= L => g[n] \in T}
<1>10. 0 \in Held
  BY <1>2, <1>9
<1>11. ASSUME NEW n \in Held PROVE n + 1 \in Held
  <2> SUFFICES ASSUME n + 1 <= L PROVE g[n + 1] \in T
    OBVIOUS
  <2>1. n \in Nat /\ n + 1 \in 1 .. L /\ (n + 1) - 1 = n /\ g[n] \in T
    BY <1>0
  <2> QED BY <1>2, <1>9, <2>1
<1>12. Held = Nat
  <2>1. Held \in SUBSET Nat
    OBVIOUS
  <2> HIDE DEF Held
  <2> QED BY <1>10, <1>11, <2>1, NatSetInduction
<1>13. g \in [0 .. L -> T]
  <2>1. \A n \in 0 .. L : g[n] \in T
    BY <1>0, <1>12
  <2> QED BY <1>9, <2>1
<1>14. Resolves(g, X, s)
  BY <1>9, <1>13 DEF T, L, Resolves
<1> QED BY <1>1, <1>14 DEF g, L

\* The turns over the candidates of a map (map_site).
Merges(g, X, s) ==
    /\ g \in [0 .. Len(s) -> Seq(X)] /\ g[0] = <<>>
    /\ \A n \in 1 .. Len(s) : g[n] = Merge(g[n - 1], s[n])

\* MergeAll is its last turn.
LEMMA MergeLoop ==
  ASSUME NEW X, NEW s \in Seq(X)
  PROVE  \E g : Merges(g, X, s) /\ MergeAll(s) = g[Len(s)]
<1> DEFINE L == Len(s)
           T == Seq(X)
           IsLoop(f) == f = [n \in 0 .. L |-> IF n = 0 THEN <<>> ELSE Merge(f[n - 1], s[n])]
           G == [n \in Nat |-> [q \in T |-> IF n \in 1 .. L THEN Merge(q, s[n]) ELSE q]]
<1>0. L \in Nat /\ \A n \in 1 .. L : s[n] \in X
  OBVIOUS
<1>1. MergeAll(s) = (CHOOSE f : IsLoop(f))[L]
  BY DEF MergeAll
<1>2. <<>> \in T /\ \A q \in T, n \in 1 .. L : (Merge(q, s[n])) \in T
  BY <1>0 DEF Merge
<1> HIDE DEF L
<1>3. G \in [Nat -> [T -> T]]
  BY <1>2
<1>4. \A q \in T, n \in 1 .. L : n \in Nat /\ G[n][q] = Merge(q, s[n])
  BY <1>0
<1> HIDE DEF G, T
<1>a. \E f : Loop(f, T, <<>>, G, L)
  BY <1>0, <1>2, <1>3, LoopExists
<1>5. PICK f0 \in [0 .. L -> T] : f0[0] = <<>> /\ \A n \in 0 .. L : n # 0 => f0[n] = G[n][f0[n - 1]]
  BY <1>a DEF Loop
<1>6. IsLoop(f0)
  <2>1. ASSUME NEW n \in 0 .. L, n # 0
        PROVE  f0[n] = Merge(f0[n - 1], s[n])
    <3>1. n \in 1 .. L /\ n - 1 \in 0 .. L
      BY <1>0, <2>1
    <3>2. f0[n - 1] \in T
      BY <3>1
    <3> QED BY <1>4, <1>5, <2>1, <3>1, <3>2
  <2> QED BY <1>5, <2>1
<1>7. \A f : IsLoop(f) => f[0] = <<>> /\ (\A n \in 1 .. L : f[n] = Merge(f[n - 1], s[n])) /\ f = [n \in 0 .. L |-> f[n]]
  <2>1. 0 \in 0 .. L /\ \A n \in 1 .. L : n \in 0 .. L /\ n # 0
    BY <1>0
  <2> QED BY <2>1
<1> DEFINE g == CHOOSE f : IsLoop(f)
<1>8. IsLoop(g)
  BY <1>6
<1> HIDE DEF g
<1>9. g[0] = <<>> /\ (\A n \in 1 .. L : g[n] = Merge(g[n - 1], s[n])) /\ g = [n \in 0 .. L |-> g[n]]
  BY <1>7, <1>8
<1> HIDE DEF IsLoop
<1> DEFINE Held == {n \in Nat : n <= L => g[n] \in T}
<1>10. 0 \in Held
  BY <1>2, <1>9
<1>11. ASSUME NEW n \in Held PROVE n + 1 \in Held
  <2> SUFFICES ASSUME n + 1 <= L PROVE g[n + 1] \in T
    OBVIOUS
  <2>1. n \in Nat /\ n + 1 \in 1 .. L /\ (n + 1) - 1 = n /\ g[n] \in T
    BY <1>0
  <2> QED BY <1>2, <1>9, <2>1
<1>12. Held = Nat
  <2>1. Held \in SUBSET Nat
    OBVIOUS
  <2> HIDE DEF Held
  <2> QED BY <1>10, <1>11, <2>1, NatSetInduction
<1>13. g \in [0 .. L -> T]
  <2>1. \A n \in 0 .. L : g[n] \in T
    BY <1>0, <1>12
  <2> QED BY <1>9, <2>1
<1>14. Merges(g, X, s)
  BY <1>9, <1>13 DEF T, L, Merges
<1> QED BY <1>1, <1>14 DEF g, L

-----------------------------------------------------------------------------
(* The elements of a sequence that Kept leaves.                              *)

SameRounds(s, t, S, R, k) ==
    /\ k <= Len(s) /\ k <= Len(t)
    /\ \A n \in 1 .. k : s[n] = t[n] /\ (s[n] \in S <=> s[n] \in R)

\* Two loops with the same rounds have the same values.
LEMMA SameKept ==
  ASSUME NEW X, NEW s \in Seq(X), NEW t \in Seq(X), NEW S, NEW R, NEW k \in Nat, SameRounds(s, t, S, R, k),
         NEW g, KeepsOf(g, X, s, S), NEW h, KeepsOf(h, X, t, R)
  PROVE  g[k] = h[k]
<1> DEFINE S0 == {n \in Nat : n <= k => g[n] = h[n]}
<1>1. 0 \in S0
  BY DEF KeepsOf
<1>2. ASSUME NEW n \in S0 PROVE n + 1 \in S0
  <2> SUFFICES ASSUME n + 1 <= k PROVE g[n + 1] = h[n + 1]
    OBVIOUS
  <2>1. /\ n + 1 \in 1 .. k /\ n + 1 \in 1 .. Len(s) /\ n + 1 \in 1 .. Len(t) /\ (n + 1) - 1 = n
        /\ g[n] = h[n]
    BY DEF SameRounds
  <2>2. /\ g[n + 1] = IF s[n + 1] \in S THEN Append(g[n], s[n + 1]) ELSE g[n]
        /\ h[n + 1] = IF t[n + 1] \in R THEN Append(h[n], t[n + 1]) ELSE h[n]
    BY <2>1 DEF KeepsOf
  <2>3. s[n + 1] = t[n + 1] /\ (s[n + 1] \in S <=> s[n + 1] \in R)
    BY <2>1 DEF SameRounds
  <2> QED BY <2>1, <2>2, <2>3
<1>3. S0 = Nat
  <2>1. S0 \in SUBSET Nat
    OBVIOUS
  <2> HIDE DEF S0
  <2> QED BY <1>1, <1>2, <2>1, NatSetInduction
<1> QED BY <1>3

\* Only membership of the elements matters.
LEMMA KeptSame ==
  ASSUME NEW X, NEW s \in Seq(X), NEW S, NEW R, \A n \in 1 .. Len(s) : s[n] \in S <=> s[n] \in R
  PROVE  Kept(s, S) = Kept(s, R)
<1> DEFINE L == Len(s)
<1>0. L \in Nat
  OBVIOUS
<1>1. PICK g : KeepsOf(g, X, s, S) /\ Kept(s, S) = g[L]
  BY KeptLoop
<1>2. PICK h : KeepsOf(h, X, s, R) /\ Kept(s, R) = h[L]
  BY KeptLoop
<1>3. SameRounds(s, s, S, R, L)
  BY <1>0 DEF SameRounds
<1> HIDE DEF L
<1>4. g[L] = h[L]
  BY <1>0, <1>1, <1>2, <1>3, SameKept
<1> QED BY <1>1, <1>2, <1>4

\* Nothing is kept of nothing.
LEMMA KeptEmpty == ASSUME NEW S PROVE Kept(<<>>, S) = <<>>
<1>1. <<>> \in Seq({}) /\ Len(<<>>) = 0
  OBVIOUS
<1>2. \E g : KeepsOf(g, {}, <<>>, S) /\ Kept(<<>>, S) = g[0]
  BY <1>1, KeptLoop
<1> QED BY <1>2 DEF KeepsOf

\* One element more is kept or not.
LEMMA KeptAppend ==
  ASSUME NEW X, NEW s \in Seq(X), NEW x \in X, NEW S
  PROVE  /\ Kept(s, S) \in Seq(X)
         /\ Kept(Append(s, x), S) = IF x \in S THEN Append(Kept(s, S), x) ELSE Kept(s, S)
<1> DEFINE L == Len(s)
           t == Append(s, x)
<1>0. L \in Nat /\ t \in Seq(X) /\ Len(t) = L + 1 /\ t[L + 1] = x /\ \A n \in 1 .. L : t[n] = s[n]
  OBVIOUS
<1>1. PICK g : KeepsOf(g, X, s, S) /\ Kept(s, S) = g[L]
  BY KeptLoop
<1>a. SameRounds(s, t, S, S, L)
  BY <1>0 DEF SameRounds
<1> HIDE DEF t
<1>2. PICK h : KeepsOf(h, X, t, S) /\ Kept(t, S) = h[Len(t)]
  BY <1>0, KeptLoop
<1> HIDE DEF L
<1>3. g[L] = h[L]
  BY <1>0, <1>1, <1>2, <1>a, SameKept
<1>4. h[L + 1] = IF x \in S THEN Append(h[L], x) ELSE h[L]
  <2>1. L + 1 \in 1 .. Len(t) /\ (L + 1) - 1 = L
    BY <1>0
  <2> QED BY <1>0, <1>2, <2>1 DEF KeepsOf
<1>5. Kept(t, S) = h[L + 1] /\ Kept(s, S) = h[L]
  BY <1>0, <1>1, <1>2, <1>3
<1>6. Kept(s, S) \in Seq(X)
  BY <1>0, <1>1 DEF KeepsOf, L
<1> QED BY <1>4, <1>5, <1>6 DEF t

\* The members that are kept, and a second selection.
LEMMA KeptMembers ==
  ASSUME NEW X, NEW s \in Seq(X), NEW S, NEW R
  PROVE  /\ ToSet(Kept(s, S)) = ToSet(s) \cap S
         /\ Kept(Kept(s, S), R) = Kept(s, S \cap R)
<1> DEFINE L == Len(s)
           B == S \cap R
<1>0. L \in Nat /\ \A n \in 1 .. L : s[n] \in X
  OBVIOUS
<1>1. PICK g : KeepsOf(g, X, s, S) /\ Kept(s, S) = g[L]
  BY KeptLoop
<1>2. PICK h : KeepsOf(h, X, s, B) /\ Kept(s, B) = h[L]
  BY KeptLoop
<1> DEFINE Good(n) == Kept(g[n], R) = h[n] /\ ToSet(g[n]) = {s[i] : i \in 1 .. n} \cap S
           S0 == {n \in Nat : n <= L => Good(n)}
<1>3. 0 \in S0
  <2>1. ToSet(<<>>) = {} /\ 1 .. 0 = {}
    BY DEF ToSet
  <2> QED BY <1>1, <1>2, <2>1, KeptEmpty DEF KeepsOf
<1>4. ASSUME NEW n \in S0 PROVE n + 1 \in S0
  <2> SUFFICES ASSUME n + 1 <= L PROVE Good(n + 1)
    OBVIOUS
  <2> DEFINE y == s[n + 1]
  <2>1. n \in Nat /\ n + 1 \in 1 .. L /\ (n + 1) - 1 = n /\ Good(n) /\ y \in X /\ g[n] \in Seq(X)
    BY <1>0, <1>1 DEF KeepsOf
  <2>2. /\ g[n + 1] = IF y \in S THEN Append(g[n], y) ELSE g[n]
        /\ h[n + 1] = IF y \in B THEN Append(h[n], y) ELSE h[n]
    BY <1>1, <1>2, <2>1 DEF KeepsOf
  <2> HIDE DEF y
  <2> DEFINE gn == g[n]
  <2>a. gn \in Seq(X) /\ y \in X
    BY <2>1
  <2> HIDE DEF gn
  <2>b. Kept(Append(gn, y), R) = IF y \in R THEN Append(Kept(gn, R), y) ELSE Kept(gn, R)
    BY <2>a, KeptAppend
  <2>3. Kept(Append(g[n], y), R) = IF y \in R THEN Append(Kept(g[n], R), y) ELSE Kept(g[n], R)
    BY <2>b DEF gn
  <2>4. Kept(g[n + 1], R) = h[n + 1]
    BY <2>1, <2>2, <2>3
  <2>5. ToSet(Append(g[n], y)) = ToSet(g[n]) \cup {y}
    <3> DEFINE q == g[n]
               p == Append(q, y)
    <3>1. /\ Len(q) \in Nat /\ DOMAIN q = 1 .. Len(q) /\ DOMAIN p = 1 .. Len(q) + 1 /\ p[Len(q) + 1] = y
          /\ \A i \in 1 .. Len(q) : p[i] = q[i]
      BY <2>1
    <3> HIDE DEF p, q
    <3>2. \A i \in 1 .. Len(q) + 1 : i \in 1 .. Len(q) \/ i = Len(q) + 1
      BY <3>1
    <3>3. /\ Len(q) + 1 \in 1 .. Len(q) + 1 /\ \A i \in 1 .. Len(q) : i \in 1 .. Len(q) + 1
      BY <3>1
    <3>4. ToSet(p) = ToSet(q) \cup {y}
      BY <3>1, <3>2, <3>3 DEF ToSet
    <3> QED BY <3>4 DEF p, q
  <2>6. {s[i] : i \in 1 .. n + 1} = {s[i] : i \in 1 .. n} \cup {y}
    <3>1. \A i \in 1 .. n + 1 : i \in 1 .. n \/ i = n + 1
      BY <2>1
    <3>2. n + 1 \in 1 .. n + 1 /\ \A i \in 1 .. n : i \in 1 .. n + 1
      BY <2>1
    <3> QED BY <3>1, <3>2 DEF y
  <2>7. ToSet(g[n + 1]) = {s[i] : i \in 1 .. n + 1} \cap S
    BY <2>1, <2>2, <2>5, <2>6
  <2> QED BY <2>4, <2>7
<1>5. S0 = Nat
  <2>1. S0 \in SUBSET Nat
    OBVIOUS
  <2> HIDE DEF S0
  <2> QED BY <1>3, <1>4, <2>1, NatSetInduction
<1>6. Good(L)
  <2> HIDE DEF Good
  <2>1. L \in S0 /\ L <= L
    BY <1>0, <1>5
  <2> QED BY <2>1
<1>7. {s[i] : i \in 1 .. L} = ToSet(s)
  BY DEF ToSet
<1> QED BY <1>1, <1>2, <1>6, <1>7

-----------------------------------------------------------------------------
(* The concatenation of many sequences (FlattenSeq of SequencesExt).         *)

\* The turns of FlattenSeq over a sequence that is not empty.
Flattens(g, X, q) ==
    /\ g \in [1 .. Len(q) -> Seq(X)] /\ g[1] = q[1]
    /\ \A n \in 1 .. Len(q) : n # 1 => g[n] = g[n - 1] \o q[n]

\* FlattenSeq is its last turn.
LEMMA FlattenLoop ==
  ASSUME NEW X, NEW q \in Seq(Seq(X)), q # <<>>
  PROVE  \E g : Flattens(g, X, q) /\ FlattenSeq(q) = g[Len(q)]
<1> DEFINE N == Len(q)
           T == Seq(X)
           IsLoop(f) == f = [n \in 1 .. N |-> IF n = 1 THEN q[n] ELSE f[n - 1] \o q[n]]
           G == [n \in Nat |-> [p \in T |-> IF n \in 1 .. N - 1 THEN p \o q[n + 1] ELSE p]]
<1>0. N \in Nat /\ N # 0 /\ 1 \in 1 .. N /\ q[1] \in T /\ \A n \in 1 .. N - 1 : n + 1 \in 1 .. N /\ q[n + 1] \in T
  OBVIOUS
<1>1. FlattenSeq(q) = (CHOOSE f : IsLoop(f))[N]
  BY <1>0 DEF FlattenSeq
<1>2. \A p \in T, r \in T : p \o r \in T
  OBVIOUS
<1> DEFINE M == N - 1
<1>m. M \in Nat /\ N = M + 1
  BY <1>0
<1> HIDE DEF N, T
<1>3. G \in [Nat -> [T -> T]]
  BY <1>0, <1>2
<1>4. \A p \in T, n \in 1 .. M : G[n][p] = p \o q[n + 1]
  BY <1>0
<1> HIDE DEF G, M
<1> DEFINE base == q[1]
<1>b. base \in T
  BY <1>0
<1> HIDE DEF base
<1>a. \E f : Loop(f, T, base, G, M)
  BY <1>m, <1>b, <1>3, LoopExists
<1>5. PICK f0 \in [0 .. M -> T] : f0[0] = base /\ \A n \in 0 .. M : n # 0 => f0[n] = G[n][f0[n - 1]]
  BY <1>a DEF Loop
<1>c. \A n \in 1 .. M : n \in 0 .. M /\ n # 0 /\ n - 1 \in 0 .. M /\ f0[n - 1] \in T
  BY <1>m, <1>5
<1>d. \A n \in 1 .. M : f0[n] = f0[n - 1] \o q[n + 1]
  BY <1>4, <1>5, <1>c
<1> DEFINE h == [n \in 1 .. N |-> f0[n - 1]]
<1>6. IsLoop(h)
  <2>1. ASSUME NEW n \in 1 .. N
        PROVE  f0[n - 1] = IF n = 1 THEN q[n] ELSE h[n - 1] \o q[n]
    <3>1. CASE n = 1
      BY <1>5, <3>1 DEF base
    <3>2. CASE n # 1
      <4>1. n - 1 \in 1 .. M /\ n - 1 \in 1 .. N /\ (n - 1) + 1 = n
        BY <1>m, <3>2
      <4> QED BY <1>d, <3>2, <4>1
    <3> QED BY <3>1, <3>2
  <2> QED BY <2>1
<1>7. \A f : IsLoop(f) => /\ f[1] = q[1] /\ f = [n \in 1 .. N |-> f[n]]
                          /\ \A n \in 1 .. N : n # 1 => f[n] = f[n - 1] \o q[n]
  BY <1>0, Zenon
<1> HIDE DEF h
<1> DEFINE g == CHOOSE f : IsLoop(f)
<1>8. IsLoop(g)
  BY <1>6, Zenon
<1> HIDE DEF g
<1>9. g[1] = q[1] /\ g = [n \in 1 .. N |-> g[n]] /\ \A n \in 1 .. N : n # 1 => g[n] = g[n - 1] \o q[n]
  BY <1>7, <1>8
<1> HIDE DEF IsLoop
<1> DEFINE Held == {n \in Nat : n + 1 <= N => g[n + 1] \in T}
<1>10. 0 \in Held
  BY <1>0, <1>9
<1>11. ASSUME NEW n \in Held PROVE n + 1 \in Held
  <2> SUFFICES ASSUME (n + 1) + 1 <= N PROVE g[(n + 1) + 1] \in T
    OBVIOUS
  <2> DEFINE k == (n + 1) + 1
  <2>1. n \in Nat /\ k \in 1 .. N /\ k # 1 /\ k - 1 = n + 1 /\ g[n + 1] \in T /\ n + 1 \in 1 .. M /\ k = (n + 1) + 1
    BY <1>0, <1>m
  <2> HIDE DEF k
  <2>2. q[k] \in T
    BY <1>0, <2>1 DEF M
  <2>3. g[k] = g[n + 1] \o q[k]
    BY <1>9, <2>1
  <2>4. g[k] \in T
    BY <1>2, <2>1, <2>2, <2>3
  <2> QED BY <2>4 DEF k
<1>12. Held = Nat
  <2>1. Held \in SUBSET Nat
    OBVIOUS
  <2> HIDE DEF Held
  <2> QED BY <1>10, <1>11, <2>1, NatSetInduction
<1>13. g \in [1 .. N -> T]
  <2>1. ASSUME NEW n \in 1 .. N PROVE g[n] \in T
    <3>1. n - 1 \in Nat /\ (n - 1) + 1 = n /\ (n - 1) + 1 <= N
      BY <1>0
    <3>2. n - 1 \in Held
      BY <1>12, <3>1
    <3> QED BY <3>1, <3>2
  <2> QED BY <1>9, <2>1
<1>14. Flattens(g, X, q)
  BY <1>9, <1>13 DEF T, N, Flattens
<1> QED BY <1>1, <1>14 DEF g, N

\* Nothing concatenated is nothing.
LEMMA FlattenEmpty == FlattenSeq(<<>>) = <<>>
BY DEF FlattenSeq

\* Another sequence joins at the end.
LEMMA FlattenAppend ==
  ASSUME NEW X, NEW q \in Seq(Seq(X)), NEW p \in Seq(X)
  PROVE  FlattenSeq(q) \in Seq(X) /\ FlattenSeq(Append(q, p)) = FlattenSeq(q) \o p
<1> DEFINE N == Len(q)
           t == Append(q, p)
<1> DEFINE T == Seq(X)
<1>t. q \in Seq(T) /\ p \in T
  OBVIOUS
<1> HIDE DEF T
<1>0. N \in Nat /\ t \in Seq(T) /\ t # <<>> /\ Len(t) = N + 1 /\ t[N + 1] = p /\ \A n \in 1 .. N : t[n] = q[n]
  BY <1>t
<1> USE DEF T
<1>e. q = <<>> <=> N = 0
  OBVIOUS
<1> HIDE DEF t
<1>1. PICK h : Flattens(h, X, t) /\ FlattenSeq(t) = h[Len(t)]
  BY <1>0, FlattenLoop
<1> HIDE DEF N
<1>2. /\ h \in [1 .. N + 1 -> Seq(X)] /\ h[1] = t[1]
      /\ \A n \in 1 .. N + 1 : n # 1 => h[n] = h[n - 1] \o t[n]
  BY <1>0, <1>1 DEF Flattens
<1>3. CASE N = 0
  <2>1. FlattenSeq(t) = p
    BY <1>0, <1>1, <1>2, <1>3
  <2>2. FlattenSeq(q) = <<>> /\ <<>> \o p = p /\ <<>> \in Seq(X)
    BY <1>e, <1>3, FlattenEmpty
  <2> QED BY <2>1, <2>2 DEF t
<1>4. CASE N # 0
  <2>1. PICK g : Flattens(g, X, q) /\ FlattenSeq(q) = g[N]
    BY <1>e, <1>4, FlattenLoop DEF N
  <2>2. /\ g \in [1 .. N -> Seq(X)] /\ g[1] = q[1]
        /\ \A n \in 1 .. N : n # 1 => g[n] = g[n - 1] \o q[n]
    BY <2>1 DEF Flattens, N
  <2> DEFINE Held == {n \in Nat : n + 1 <= N => g[n + 1] = h[n + 1]}
  <2>3. 0 \in Held
    BY <1>0, <1>2, <1>4, <2>2
  <2>4. ASSUME NEW n \in Held PROVE n + 1 \in Held
    <3> SUFFICES ASSUME (n + 1) + 1 <= N PROVE g[(n + 1) + 1] = h[(n + 1) + 1]
      OBVIOUS
    <3> DEFINE k == (n + 1) + 1
    <3>1. k \in 1 .. N /\ k \in 1 .. N + 1 /\ k # 1 /\ k - 1 = n + 1 /\ g[n + 1] = h[n + 1]
      BY <1>0
    <3> HIDE DEF k
    <3>2. g[k] = h[k]
      BY <1>0, <1>2, <2>2, <3>1
    <3> QED BY <3>2 DEF k
  <2>5. Held = Nat
    <3>1. Held \in SUBSET Nat
      OBVIOUS
    <3> HIDE DEF Held
    <3> QED BY <2>3, <2>4, <3>1, NatSetInduction
  <2>6. g[N] = h[N] /\ g[N] \in Seq(X)
    <3>1. N - 1 \in Nat /\ (N - 1) + 1 = N /\ N \in 1 .. N
      BY <1>0, <1>4
    <3>a. N - 1 \in Held
      BY <2>5, <3>1
    <3> QED BY <2>2, <3>1, <3>a
  <2>7. h[N + 1] = h[N] \o p
    <3>1. N + 1 \in 1 .. N + 1 /\ N + 1 # 1 /\ (N + 1) - 1 = N
      BY <1>0, <1>4
    <3> QED BY <1>0, <1>2, <3>1
  <2> QED BY <1>0, <1>1, <2>1, <2>6, <2>7 DEF t
<1> QED BY <1>3, <1>4

-----------------------------------------------------------------------------
(* The breadcrumb of a block (chunk_markdown).                               *)

UpTo(i) == [n \in 1 .. i |-> n]
OpenAt(inp, i) ==
    {h \in 1 .. i : /\ inp[h].kind = "heading"
                    /\ \A m \in h + 1 .. i : inp[m].kind = "heading" => inp[m].level > inp[h].level}
Crumbs(inp, i) == Kept(UpTo(i), OpenAt(inp, i))
Above(inp, S, i) == {h \in S : inp[h].level < inp[i].level}

\* A block has a size.
LEMMA BlockFacts ==
  \A b \in Blocks : b.kind \in {"para", "code", "heading"} /\ b.size \in Nat \ {0} /\ b.level \in Nat
<1> DEFINE Fine(b) == b.kind \in {"para", "code", "heading"} /\ b.size \in Nat \ {0} /\ b.level \in Nat
<1>1. \A n \in Sizes : n \in Nat \ {0}
  BY ChunkingAssumption
<1>2. \A l \in Levels : l \in Nat
  BY DEF Levels
<1>3. \A b \in Paragraphs : Fine(b)
  BY <1>1 DEF Paragraphs
<1>4. \A b \in {[kind |-> "code", size |-> n, level |-> 0] : n \in Sizes} : Fine(b)
  BY <1>1
<1>5. \A b \in {[kind |-> "heading", size |-> 1, level |-> l] : l \in Levels} : Fine(b)
  BY <1>2
<1> HIDE DEF Fine
<1>6. \A b \in Blocks : Fine(b)
  BY <1>3, <1>4, <1>5 DEF Blocks
<1> QED BY <1>6 DEF Fine

\* The breadcrumb of the specification is that of its input.
LEMMA BreadcrumbIs == \A i : Breadcrumb(i) = Crumbs(input, i)
BY DEF Breadcrumb, Crumbs, UpTo, OpenAt

\* A breadcrumb lists blocks by their number.
LEMMA CrumbsAreNumbers == ASSUME NEW inp, NEW i \in Nat PROVE Crumbs(inp, i) \in Seq(Nat)
<1>1. UpTo(i) \in Seq(Nat) /\ 0 \in Nat
  BY DEF UpTo
<1> QED BY <1>1, KeptAppend DEF Crumbs

\* The next block: a heading closes those that are not above it, and opens.
LEMMA CrumbsNext ==
  ASSUME NEW inp \in Seq(Blocks), NEW i \in Nat, i + 1 <= Len(inp)
  PROVE  Crumbs(inp, i + 1) =
            IF inp[i + 1].kind = "heading"
            THEN Append(Kept(Crumbs(inp, i), Above(inp, ToSet(Crumbs(inp, i)), i + 1)), i + 1)
            ELSE Crumbs(inp, i)
<1> DEFINE k == i + 1
           s == UpTo(i)
           A == OpenAt(inp, i)
           B == OpenAt(inp, k)
           C == Kept(s, A)
           R == Above(inp, ToSet(C), k)
<1>0. k \in Nat /\ k = i + 1 /\ k \in 1 .. Len(inp) /\ \A n \in 1 .. k : inp[n].level \in Nat
  <2>1. \A n \in 1 .. Len(inp) : inp[n] \in Blocks
    OBVIOUS
  <2> QED BY <2>1, BlockFacts
<1> HIDE DEF k
<1>1. s \in Seq(Nat) /\ Len(s) = i /\ (\A n \in 1 .. i : s[n] = n) /\ UpTo(k) = Append(s, k)
  BY <1>0 DEF UpTo
<1>2. k \in B <=> inp[k].kind = "heading"
  <2>1. ~ \E m \in k + 1 .. k : TRUE
    BY <1>0
  <2> QED BY <1>0, <2>1 DEF OpenAt
<1> HIDE DEF s
<1>3. Crumbs(inp, k) = IF k \in B THEN Append(Kept(s, B), k) ELSE Kept(s, B)
  <2> DEFINE X == Nat
  <2>a. s \in Seq(X) /\ k \in X
    BY <1>0, <1>1
  <2> HIDE DEF B, A, C, R, X
  <2>1. Kept(Append(s, k), B) = IF k \in B THEN Append(Kept(s, B), k) ELSE Kept(s, B)
    BY <2>a, KeptAppend
  <2> QED BY <1>1, <2>1 DEF Crumbs, B
<1>4. ToSet(C) = ToSet(s) \cap A
  <2> HIDE DEF A
  <2> QED BY <1>1, KeptMembers
<1>5. \A n \in 1 .. i : n \in ToSet(s)
  <2>1. DOMAIN s = 1 .. i
    BY <1>1
  <2> QED BY <1>1, <2>1 DEF ToSet
<1>6. \A n \in 1 .. i : n \in B <=> n \in A /\ (inp[k].kind = "heading" => inp[n].level < inp[k].level)
  <2> TAKE n \in 1 .. i
  <2>1. /\ n \in 1 .. k /\ k \in n + 1 .. k /\ \A m \in n + 1 .. k : m \in n + 1 .. i \/ m = k
        /\ \A m \in n + 1 .. i : m \in n + 1 .. k
    BY <1>0
  <2>2. inp[n].level \in Nat /\ inp[k].level \in Nat
    BY <1>0, <2>1
  <2>3. inp[k].level > inp[n].level <=> inp[n].level < inp[k].level
    BY <2>2
  <2> QED BY <2>1, <2>3 DEF OpenAt
<1>7. CASE inp[k].kind = "heading"
  <2>1. \A n \in 1 .. i : n \in B <=> n \in A \cap R
    BY <1>4, <1>5, <1>6, <1>7 DEF Above
  <2>a. \A n \in 1 .. Len(s) : s[n] \in B <=> s[n] \in A \cap R
    BY <1>1, <2>1
  <2>b. Kept(Kept(s, A), R) = Kept(s, A \cap R)
    <3> HIDE DEF A, R
    <3> QED BY <1>1, KeptMembers
  <2> DEFINE D == A \cap R
  <2>c. \A n \in 1 .. Len(s) : s[n] \in B <=> s[n] \in D
    BY <2>a
  <2>2. Kept(s, B) = Kept(s, D)
    <3> HIDE DEF B, D
    <3> QED BY <1>1, <2>c, KeptSame
  <2>3. Kept(s, B) = Kept(C, R)
    BY <2>2, <2>b
  <2>4. Crumbs(inp, k) = Append(Kept(C, R), k)
    BY <1>2, <1>3, <1>7, <2>3
  <2> QED BY <1>7, <2>4 DEF Crumbs, k, s
<1>8. CASE inp[k].kind # "heading"
  <2>1. \A n \in 1 .. Len(s) : s[n] \in B <=> s[n] \in A
    BY <1>1, <1>6, <1>8
  <2>2. Kept(s, B) = Kept(s, A)
    <3> HIDE DEF B, A
    <3> QED BY <1>1, <2>1, KeptSame
  <2> QED BY <1>2, <1>3, <1>8, <2>2 DEF Crumbs, k, s
<1> QED BY <1>7, <1>8

-----------------------------------------------------------------------------
(* The pieces of a list of chunks.                                           *)

AnyPiece == [block : Nat, from : Nat, to : Nat]
AnyChunk == [pieces : Seq(AnyPiece), size : Nat, path : Seq(Nat)]
PiecesOf(cs) == [i \in DOMAIN cs |-> cs[i].pieces]

\* They are lists of pieces.
LEMMA PiecesListed ==
  ASSUME NEW cs \in Seq(AnyChunk)
  PROVE  PiecesOf(cs) \in Seq(Seq(AnyPiece))
<1> DEFINE q == PiecesOf(cs)
           T == Seq(AnyPiece)
           V == AnyChunk
           N == Len(cs)
<1>1. \A c \in V : c.pieces \in T
  BY DEF AnyChunk
<1> HIDE DEF V, T
<1>2. cs \in Seq(V)
  BY DEF V
<1>3. N \in Nat /\ DOMAIN cs = 1 .. N /\ \A i \in 1 .. N : cs[i] \in V
  BY <1>2
<1>4. q = [i \in 1 .. N |-> cs[i].pieces]
  BY <1>3 DEF PiecesOf
<1> HIDE DEF N, q
<1>5. q \in [1 .. N -> T]
  BY <1>1, <1>3, <1>4
<1>6. q \in Seq(T)
  BY <1>3, <1>5
<1> QED BY <1>6 DEF T, q

\* What is appended is a member.
LEMMA SetOfAppend ==
  ASSUME NEW X, NEW s \in Seq(X), NEW x \in X
  PROVE  ToSet(Append(s, x)) = ToSet(s) \cup {x}
<1> DEFINE N == Len(s)
           t == Append(s, x)
<1>1. /\ N \in Nat /\ DOMAIN s = 1 .. N /\ DOMAIN t = 1 .. N + 1 /\ t[N + 1] = x
      /\ \A n \in 1 .. N : t[n] = s[n]
  OBVIOUS
<1> HIDE DEF N, t
<1>2. /\ \A n \in 1 .. N + 1 : n \in 1 .. N \/ n = N + 1
      /\ \A n \in 1 .. N : n \in 1 .. N + 1
      /\ N + 1 \in 1 .. N + 1
  BY <1>1
<1>3. ToSet(t) = ToSet(s) \cup {x}
  BY <1>1, <1>2 DEF ToSet
<1> QED BY <1>3 DEF t

\* The pieces of one chunk more.
LEMMA PiecesAppend ==
  ASSUME NEW cs \in Seq(AnyChunk), NEW c \in AnyChunk
  PROVE  /\ Pieces(Append(cs, c)) = Pieces(cs) \cup ToSet(c.pieces)
         /\ PiecesOf(cs) \in Seq(Seq(AnyPiece))
         /\ PiecesOf(Append(cs, c)) = Append(PiecesOf(cs), c.pieces)
<1> DEFINE N == Len(cs)
           t == Append(cs, c)
<1> DEFINE V == AnyChunk
<1>v. cs \in Seq(V) /\ c \in V /\ \A b \in V : b.pieces \in Seq(AnyPiece)
  BY DEF AnyChunk
<1> HIDE DEF V
<1>w. /\ N \in Nat /\ DOMAIN cs = 1 .. N /\ DOMAIN t = 1 .. N + 1 /\ t[N + 1] = c
      /\ Len(t) = N + 1
      /\ \A n \in 1 .. N : t[n] = cs[n] /\ cs[n] \in V
  BY <1>v
<1> HIDE DEF N, t
<1>1. /\ N \in Nat /\ DOMAIN cs = 1 .. N /\ DOMAIN t = 1 .. N + 1 /\ t[N + 1] = c
      /\ Len(t) = N + 1
      /\ \A n \in 1 .. N : t[n] = cs[n] /\ cs[n].pieces \in Seq(AnyPiece)
      /\ c.pieces \in Seq(AnyPiece)
  BY <1>v, <1>w
<1>2. /\ \A n \in 1 .. N + 1 : n \in 1 .. N \/ n = N + 1
      /\ \A n \in 1 .. N : n \in 1 .. N + 1
      /\ N + 1 \in 1 .. N + 1
  BY <1>1
<1>3. Pieces(t) = Pieces(cs) \cup ToSet(c.pieces)
  BY <1>1, <1>2 DEF Pieces
<1> DEFINE T == Seq(AnyPiece)
<1>a. \A n \in 1 .. N : cs[n].pieces \in T
  BY <1>1
<1>b. c.pieces \in T
  BY <1>1
<1> HIDE DEF T
<1>4. PiecesOf(cs) \in Seq(T) /\ Len(PiecesOf(cs)) = N /\ \A n \in 1 .. N : PiecesOf(cs)[n] = cs[n].pieces
  BY <1>1, <1>a DEF PiecesOf
<1>5. PiecesOf(t) \in [1 .. N + 1 -> T] /\ \A n \in 1 .. N + 1 : PiecesOf(t)[n] = t[n].pieces
  BY <1>1, <1>2, <1>a, <1>b DEF PiecesOf
<1>6. PiecesOf(t) = Append(PiecesOf(cs), c.pieces)
  <2> DEFINE p == PiecesOf(t)
             q == PiecesOf(cs)
             x == c.pieces
  <2>0. p \in [1 .. N + 1 -> T] /\ q \in Seq(T) /\ Len(q) = N /\ x \in T
    BY <1>4, <1>5, <1>b
  <2>1. \A n \in 1 .. N : p[n] = q[n]
    BY <1>1, <1>2, <1>4, <1>5
  <2>2. p[N + 1] = x
    BY <1>1, <1>2, <1>5
  <2> HIDE DEF p, q, x
  <2>3. p = Append(q, x)
    BY <1>1, <1>2, <2>0, <2>1, <2>2
  <2> QED BY <2>3 DEF p, q, x
<1> QED BY <1>3, <1>4, <1>6 DEF t, T

-----------------------------------------------------------------------------
(* chunk_markdown: the finished chunks and the open one.                     *)

WholeOf(inp, i) == Piece(i, 0, inp[i].size)
Wholes(inp, k) == [i \in 1 .. k |-> WholeOf(inp, i)]
Titles(inp, p) == \A n \in DOMAIN p : inp[p[n].block].kind = "heading"

(* What the window lets a chunk be, and what its breadcrumb is.              *)
FitsIn(inp, p, size) == size > MaxTokens => Len(p) = 1 \/ inp[Last(p).block].kind = "heading"
IsUnder(inp, p, crumbs) ==
    \A n \in DOMAIN p :
        /\ inp[p[n].block].kind # "heading"
        /\ \A m \in 1 .. n - 1 : inp[p[m].block].kind = "heading"
        => crumbs = Crumbs(inp, p[n].block)
IsRight(inp, c) == FitsIn(inp, c.pieces, c.size) /\ IsUnder(inp, c.pieces, c.path)

(* The first k blocks are in the chunks cs and the open chunk cur.           *)
Packed(inp, cs, cur, tok, crumbs, k) ==
    /\ cs \in Seq(AnyChunk) /\ cur \in Seq(AnyPiece) /\ tok \in Nat /\ crumbs \in Seq(Nat)
    /\ FlattenSeq(PiecesOf(cs)) \o cur = Wholes(inp, k)
    /\ \A i \in 1 .. k : WholeOf(inp, i) \in Pieces(cs) \cup ToSet(cur)
    /\ \A i \in DOMAIN cs : IsRight(inp, cs[i])
    /\ FitsIn(inp, cur, tok) /\ IsUnder(inp, cur, crumbs)

FlushedOf(cs, cur, tok, crumbs) == IF cur = <<>> THEN cs ELSE Append(cs, Closed(cur, tok, crumbs))

\* A chunk without pieces is within every window and under every heading.
LEMMA EmptyChunk ==
  ASSUME NEW inp
  PROVE  /\ FitsIn(inp, <<>>, 0) /\ \A crumbs : IsUnder(inp, <<>>, crumbs)
         /\ ToSet(<<>>) = {} /\ Titles(inp, <<>>)
BY ChunkingAssumption DEF FitsIn, IsUnder, ToSet, Titles

\* An append to the last of many sequences is one to their concatenation.
LEMMA AppendAfter ==
  ASSUME NEW X, NEW s \in Seq(X), NEW t \in Seq(X), NEW x \in X
  PROVE  s \o Append(t, x) = Append(s \o t, x)
<1> DEFINE N == Len(s)
           M == Len(t)
           u == s \o Append(t, x)
           v == Append(s \o t, x)
           L == N + M + 1
<1>1. N \in Nat /\ M \in Nat /\ Append(t, x) \in Seq(X) /\ Len(Append(t, x)) = M + 1
      /\ s \o t \in Seq(X) /\ Len(s \o t) = N + M
  OBVIOUS
<1>2. u \in Seq(X) /\ Len(u) = L /\ v \in Seq(X) /\ Len(v) = L
  BY <1>1
<1>3. ASSUME NEW n \in 1 .. L PROVE u[n] = v[n]
  <2>1. CASE n <= N
    BY <1>1, <2>1
  <2>2. CASE n > N /\ n <= N + M
    BY <1>1, <2>2
  <2>3. CASE n = L
    BY <1>1, <2>3
  <2> QED BY <1>1, <2>1, <2>2, <2>3
<1> HIDE DEF u, v, L
<1>4. u = [n \in 1 .. L |-> u[n]] /\ v = [n \in 1 .. L |-> v[n]]
  BY <1>2
<1>5. u = v
  BY <1>3, <1>4
<1> QED BY <1>5 DEF u, v

\* The open chunk is finished.
LEMMA ChunkCloses ==
  ASSUME NEW inp, NEW cs, NEW cur, NEW tok, NEW crumbs, NEW k \in Nat,
         Packed(inp, cs, cur, tok, crumbs, k), NEW later \in Seq(Nat)
  PROVE  Packed(inp, FlushedOf(cs, cur, tok, crumbs), <<>>, 0, later, k)
<1> DEFINE c == Closed(cur, tok, crumbs)
           ds == Append(cs, c)
<1>0. cs \in Seq(AnyChunk) /\ cur \in Seq(AnyPiece) /\ tok \in Nat /\ crumbs \in Seq(Nat)
  BY DEF Packed
<1>1. <<>> \in Seq(AnyPiece) /\ 0 \in Nat /\ FitsIn(inp, <<>>, 0) /\ IsUnder(inp, <<>>, later) /\ ToSet(<<>>) = {}
  <2>1. FitsIn(inp, <<>>, 0) /\ (\A p : IsUnder(inp, <<>>, p)) /\ ToSet(<<>>) = {}
    BY EmptyChunk
  <2>2. <<>> \in Seq(AnyPiece) /\ 0 \in Nat
    OBVIOUS
  <2> QED BY <2>1, <2>2
<1>2. CASE cur = <<>>
  <2>1. Packed(inp, cs, <<>>, 0, later, k)
    BY <1>1, <1>2 DEF Packed
  <2> QED BY <1>2, <2>1 DEF FlushedOf
<1>3. CASE cur # <<>>
  <2>1. c \in AnyChunk /\ c.pieces = cur /\ c.size = tok /\ c.path = crumbs
    BY <1>0 DEF Closed, AnyChunk
  <2> HIDE DEF c
  <2>2. /\ Pieces(ds) = Pieces(cs) \cup ToSet(cur)
        /\ PiecesOf(cs) \in Seq(Seq(AnyPiece))
        /\ PiecesOf(ds) = Append(PiecesOf(cs), cur)
    BY <1>0, <2>1, PiecesAppend
  <2>3. ds \in Seq(AnyChunk) /\ \A i \in DOMAIN ds : (i \in DOMAIN cs /\ ds[i] = cs[i]) \/ ds[i] = c
    <3> DEFINE V == AnyChunk
    <3>1. cs \in Seq(V) /\ c \in V
      BY <1>0, <2>1
    <3> HIDE DEF V
    <3>2. ds \in Seq(V) /\ \A i \in DOMAIN ds : (i \in DOMAIN cs /\ ds[i] = cs[i]) \/ ds[i] = c
      BY <3>1
    <3> QED BY <3>2 DEF V
  <2>4. FlattenSeq(PiecesOf(ds)) \o <<>> = Wholes(inp, k)
    <3> DEFINE q == PiecesOf(cs)
    <3>1. q \in Seq(Seq(AnyPiece))
      BY <2>2
    <3> HIDE DEF q
    <3>2. FlattenSeq(q) \in Seq(AnyPiece) /\ FlattenSeq(Append(q, cur)) = FlattenSeq(q) \o cur
      BY <1>0, <3>1, FlattenAppend
    <3> DEFINE f == FlattenSeq(q)
    <3>a. f \in Seq(AnyPiece)
      BY <3>2
    <3> HIDE DEF f
    <3>3. f \o cur \in Seq(AnyPiece)
      BY <1>0, <3>a
    <3>4. \A e \in Seq(AnyPiece) : e \o <<>> = e
      OBVIOUS
    <3>5. (f \o cur) \o <<>> = f \o cur
      BY <3>3, <3>4
    <3>6. f \o cur = Wholes(inp, k)
      BY DEF Packed, f, q
    <3>7. FlattenSeq(PiecesOf(ds)) = f \o cur
      BY <2>2, <3>2 DEF f, q
    <3> QED BY <3>5, <3>6, <3>7
  <2> HIDE DEF ds
  <2>5. \A i \in DOMAIN ds : IsRight(inp, ds[i])
    BY <2>1, <2>3 DEF Packed, IsRight
  <2>6. \A i \in 1 .. k : WholeOf(inp, i) \in Pieces(ds) \cup ToSet(<<>>)
    BY <1>1, <2>2 DEF Packed
  <2>7. Packed(inp, ds, <<>>, 0, later, k)
    BY <1>1, <2>3, <2>4, <2>5, <2>6 DEF Packed
  <2> QED BY <1>3, <2>7 DEF FlushedOf, ds, c
<1> QED BY <1>2, <1>3

\* The next block joins the open chunk.
LEMMA BlockJoins ==
  ASSUME NEW inp \in Seq(Blocks), NEW cs, NEW cur, NEW tok, NEW crumbs, NEW k \in Nat, k + 1 <= Len(inp),
         Packed(inp, cs, cur, tok, crumbs, k), NEW size \in Nat, NEW later \in Seq(Nat),
         FitsIn(inp, Append(cur, WholeOf(inp, k + 1)), size),
         IsUnder(inp, Append(cur, WholeOf(inp, k + 1)), later)
  PROVE  Packed(inp, cs, Append(cur, WholeOf(inp, k + 1)), size, later, k + 1)
<1> DEFINE w == WholeOf(inp, k + 1)
           new == Append(cur, w)
<1>0. cs \in Seq(AnyChunk) /\ cur \in Seq(AnyPiece)
  BY DEF Packed
<1>1. w \in AnyPiece /\ \A i \in 1 .. k : WholeOf(inp, i) \in AnyPiece
  <2>1. \A i \in 1 .. Len(inp) : inp[i] \in Blocks
    OBVIOUS
  <2>2. k + 1 \in 1 .. Len(inp) /\ k + 1 \in Nat /\ \A i \in 1 .. k : i \in 1 .. Len(inp) /\ i \in Nat
    OBVIOUS
  <2>3. inp[k + 1].size \in Nat /\ \A i \in 1 .. k : inp[i].size \in Nat
    BY <2>1, <2>2, BlockFacts
  <2> QED BY <2>2, <2>3 DEF WholeOf, Piece, AnyPiece
<1>2. \A i \in 1 .. k + 1 : i \in 1 .. k \/ i = k + 1
  OBVIOUS
<1> DEFINE S == Wholes(inp, k)
<1>3. /\ S \in Seq(AnyPiece) /\ Len(S) = k /\ Wholes(inp, k + 1) = Append(S, w)
  <2>1. S = [i \in 1 .. k |-> WholeOf(inp, i)] /\ Wholes(inp, k + 1) = [i \in 1 .. k + 1 |-> WholeOf(inp, i)]
    BY DEF Wholes
  <2> DEFINE A == AnyPiece
             T == Wholes(inp, k + 1)
             W(i) == WholeOf(inp, i)
  <2>2. w \in A /\ (\A i \in 1 .. k : W(i) \in A) /\ w = W(k + 1)
    BY <1>1
  <2>3. S = [i \in 1 .. k |-> W(i)] /\ T = [i \in 1 .. k + 1 |-> W(i)]
    BY <2>1
  <2> HIDE DEF S, A, T, w, W
  <2>4. S \in Seq(A) /\ Len(S) = k /\ T = Append(S, w)
    BY <1>2, <2>2, <2>3
  <2> QED BY <2>4 DEF A, T
<1> HIDE DEF w
<1>4. FlattenSeq(PiecesOf(cs)) \o new = Append(S, w)
  <2> DEFINE f == FlattenSeq(PiecesOf(cs))
  <2>1. f \in Seq(AnyPiece)
    <3>1. PiecesOf(cs) \in Seq(Seq(AnyPiece))
      BY <1>0, PiecesListed
    <3> DEFINE q == PiecesOf(cs)
    <3>2. q \in Seq(Seq(AnyPiece))
      BY <3>1
    <3> HIDE DEF q
    <3>3. FlattenSeq(q) \in Seq(AnyPiece)
      BY <1>0, <3>2, FlattenAppend
    <3> QED BY <3>3 DEF q
  <2>2. f \o cur = S
    BY DEF Packed
  <2> HIDE DEF f, S
  <2> DEFINE A == AnyPiece
  <2>a. f \in Seq(A) /\ cur \in Seq(A) /\ w \in A
    BY <1>0, <1>1, <2>1
  <2> HIDE DEF A
  <2>3. f \o Append(cur, w) = Append(f \o cur, w)
    BY <2>a, AppendAfter
  <2> QED BY <2>2, <2>3 DEF f
<1>5. new \in Seq(AnyPiece) /\ ToSet(new) = ToSet(cur) \cup {w}
  <2> HIDE DEF S
  <2>1. ToSet(new) = ToSet(cur) \cup {w}
    BY <1>0, <1>1, SetOfAppend
  <2> DEFINE A == AnyPiece
  <2>a. cur \in Seq(A) /\ w \in A
    BY <1>0, <1>1
  <2> HIDE DEF A
  <2>2. new \in Seq(A)
    BY <2>a
  <2> QED BY <2>1, <2>2 DEF A
<1> HIDE DEF new, S
<1>6. \A i \in 1 .. k + 1 : WholeOf(inp, i) \in Pieces(cs) \cup ToSet(new)
  BY <1>2, <1>5 DEF Packed, w
<1>7. FitsIn(inp, new, size) /\ IsUnder(inp, new, later)
  BY DEF new, w
<1>8. Packed(inp, cs, new, size, later, k + 1)
  BY <1>0, <1>3, <1>4, <1>5, <1>6, <1>7 DEF Packed
<1> QED BY <1>8 DEF new, w

\* Headings followed by one more block.
LEMMA TitlesAppend ==
  ASSUME NEW inp, NEW cur \in Seq(AnyPiece), NEW w \in AnyPiece
  PROVE  /\ Titles(inp, Append(cur, w)) <=> Titles(inp, cur) /\ inp[w.block].kind = "heading"
         /\ Len(Append(cur, w)) = Len(cur) + 1 /\ Last(Append(cur, w)) = w
<1> DEFINE N == Len(cur)
           new == Append(cur, w)
           V == AnyPiece
<1>0. cur \in Seq(V) /\ w \in V
  OBVIOUS
<1> HIDE DEF V
<1>1. /\ N \in Nat /\ DOMAIN cur = 1 .. N /\ DOMAIN new = 1 .. N + 1 /\ Len(new) = N + 1
      /\ new[N + 1] = w /\ \A n \in 1 .. N : new[n] = cur[n]
  BY <1>0
<1>2. /\ \A n \in 1 .. N + 1 : n \in 1 .. N \/ n = N + 1
      /\ \A n \in 1 .. N : n \in 1 .. N + 1
      /\ N + 1 \in 1 .. N + 1
  BY <1>1
<1> HIDE DEF N, new
<1>3. Titles(inp, new) <=> Titles(inp, cur) /\ inp[w.block].kind = "heading"
  BY <1>1, <1>2 DEF Titles
<1>4. Last(new) = w
  BY <1>1 DEF Last
<1> QED BY <1>1, <1>3, <1>4 DEF new, N

\* A chunk of headings alone has any breadcrumb.
LEMMA TitlesAreUnder ==
  ASSUME NEW inp, NEW cur, Titles(inp, cur), NEW crumbs
  PROVE  IsUnder(inp, cur, crumbs)
BY DEF Titles, IsUnder

\* One block more in the open chunk is under the same breadcrumb.
LEMMA UnderAppend ==
  ASSUME NEW inp, NEW cur \in Seq(AnyPiece), NEW w \in AnyPiece, NEW crumbs, IsUnder(inp, cur, crumbs),
         inp[w.block].kind # "heading" /\ Titles(inp, cur) => crumbs = Crumbs(inp, w.block)
  PROVE  IsUnder(inp, Append(cur, w), crumbs)
<1> DEFINE N == Len(cur)
           new == Append(cur, w)
           V == AnyPiece
<1>0. cur \in Seq(V) /\ w \in V
  OBVIOUS
<1> HIDE DEF V
<1>1. /\ N \in Nat /\ DOMAIN cur = 1 .. N /\ DOMAIN new = 1 .. N + 1
      /\ new[N + 1] = w /\ \A n \in 1 .. N : new[n] = cur[n]
  BY <1>0
<1> HIDE DEF N, new
<1>2. ASSUME NEW n \in DOMAIN new, inp[new[n].block].kind # "heading",
             \A m \in 1 .. n - 1 : inp[new[m].block].kind = "heading"
      PROVE  crumbs = Crumbs(inp, new[n].block)
  <2>1. CASE n \in 1 .. N
    <3>1. \A m \in 1 .. n - 1 : m \in 1 .. N
      BY <1>1, <2>1
    <3>2. inp[cur[n].block].kind # "heading" /\ \A m \in 1 .. n - 1 : inp[cur[m].block].kind = "heading"
      BY <1>1, <1>2, <2>1, <3>1
    <3>3. crumbs = Crumbs(inp, cur[n].block)
      BY <1>1, <2>1, <3>2 DEF IsUnder
    <3> QED BY <1>1, <2>1, <3>3
  <2>2. CASE n = N + 1
    <3>1. \A m \in 1 .. N : m \in 1 .. n - 1
      BY <1>1, <2>2
    <3>2. Titles(inp, cur)
      BY <1>1, <1>2, <3>1 DEF Titles
    <3> QED BY <1>1, <1>2, <2>2, <3>2
  <2>3. n \in 1 .. N \/ n = N + 1
    BY <1>1
  <2> QED BY <2>1, <2>2, <2>3
<1>3. IsUnder(inp, new, crumbs)
  BY <1>2 DEF IsUnder
<1> QED BY <1>3 DEF new

(* How many blocks were read.                                                *)
ReadSoFar == IF next <= Len(input) THEN next - 1 ELSE Len(input)

ChunkTyped ==
    /\ chunker \in {"text", "markdown"} /\ input \in Seq(Blocks)
    /\ next \in 1 .. Len(input) + 2 /\ body \in BOOLEAN

(* The headings under which the open chunk stands: while it holds headings   *)
(* alone its breadcrumb is that of the next block.                           *)
MarkdownRight ==
    chunker = "markdown" =>
        /\ stack = Crumbs(input, ReadSoFar)
        /\ Packed(input, chunks, current, tokens, path, ReadSoFar)
        /\ next <= Len(input) + 1 =>
              /\ Titles(input, current) /\ current # <<>> => path = stack
              /\ body = ~Titles(input, current)
        /\ Done => current = <<>>

(* What a step over block k + 1 starts from.                                 *)
AtBlock(k) ==
    /\ k \in Nat /\ next = k + 1 /\ k + 1 <= Len(input) /\ k + 1 \in 1 .. Len(input)
    /\ input[next] \in Blocks /\ input[next].size \in Nat
    /\ input \in Seq(Blocks) /\ body \in BOOLEAN
    /\ stack = Crumbs(input, k) /\ stack \in Seq(Nat)
    /\ Packed(input, chunks, current, tokens, path, k)
    /\ Titles(input, current) /\ current # <<>> => path = stack
    /\ body = ~Titles(input, current)
    /\ Whole(next) = WholeOf(input, k + 1) /\ Whole(next) \in AnyPiece /\ Whole(next).block = next
    /\ current \in Seq(AnyPiece) /\ tokens \in Nat /\ path \in Seq(Nat)
    /\ \A s \in Seq(Nat) : Packed(input, Flushed, <<>>, 0, s, k)
    /\ input[next].kind # "heading" => Crumbs(input, k + 1) = stack
    /\ input[next].kind = "heading" => Crumbs(input, k + 1) = Opened(next) /\ Opened(next) \in Seq(Nat)

\* What every branch of chunk_markdown has of the block it reads.
LEMMA BlockStarts ==
  ASSUME ChunkTyped, MarkdownRight, chunker = "markdown", next <= Len(input)
  PROVE  AtBlock(next - 1)
<1> DEFINE k == next - 1
<1>1. k \in Nat /\ next = k + 1 /\ k + 1 <= Len(input) /\ k + 1 \in 1 .. Len(input) /\ ReadSoFar = k
      /\ next <= Len(input) + 1 /\ next \in Nat
  BY DEF ChunkTyped, ReadSoFar
<1>2. input \in Seq(Blocks) /\ input[next] \in Blocks /\ body \in BOOLEAN
  <2>1. \A i \in 1 .. Len(input) : input[i] \in Blocks
    BY DEF ChunkTyped
  <2> QED BY <1>1, <2>1 DEF ChunkTyped
<1> HIDE DEF k
<1>3. /\ stack = Crumbs(input, k) /\ Packed(input, chunks, current, tokens, path, k)
      /\ Titles(input, current) /\ current # <<>> => path = stack
      /\ body = ~Titles(input, current)
  BY <1>1 DEF MarkdownRight
<1>4. input[next].size \in Nat /\ Whole(next) = WholeOf(input, k + 1) /\ Whole(next) \in AnyPiece /\ Whole(next).block = next
  BY <1>1, <1>2, BlockFacts DEF Whole, WholeOf, Piece, AnyPiece
<1>5. stack \in Seq(Nat)
  BY <1>1, <1>3, CrumbsAreNumbers
<1>6. current \in Seq(AnyPiece) /\ tokens \in Nat /\ path \in Seq(Nat)
  BY <1>3 DEF Packed
<1>7. ASSUME NEW s \in Seq(Nat) PROVE Packed(input, Flushed, <<>>, 0, s, k)
  <2>1. Packed(input, FlushedOf(chunks, current, tokens, path), <<>>, 0, s, k)
    BY <1>1, <1>3, ChunkCloses
  <2> QED BY <2>1 DEF Flushed, FlushedOf
<1>8. Crumbs(input, k + 1) =
            IF input[k + 1].kind = "heading"
            THEN Append(Kept(Crumbs(input, k), Above(input, ToSet(Crumbs(input, k)), k + 1)), k + 1)
            ELSE Crumbs(input, k)
  BY <1>1, <1>2, CrumbsNext
<1>9. Opened(next) = Append(Kept(stack, Above(input, ToSet(stack), k + 1)), k + 1)
  BY <1>1 DEF Opened, Above
<1>10. Crumbs(input, k + 1) \in Seq(Nat)
  <2>1. k + 1 \in Nat
    BY <1>1
  <2> QED BY <2>1, CrumbsAreNumbers
<1>11. AtBlock(k)
  BY <1>1, <1>2, <1>3, <1>4, <1>5, <1>6, <1>7, <1>8, <1>9, <1>10 DEF AtBlock
<1> QED BY <1>11 DEF k

\* After a block.
LEMMA BlockEnds ==
  ASSUME ChunkTyped, NEW k, AtBlock(k), chunker' = chunker, input' = input, next' = next + 1, body' \in BOOLEAN,
         stack' = Crumbs(input, k + 1), Packed(input, chunks', current', tokens', path', k + 1),
         Titles(input, current') /\ current' # <<>> => path' = stack',
         body' = ~Titles(input, current')
  PROVE  ChunkTyped' /\ MarkdownRight'
<1>1. /\ k \in Nat /\ Len(input) \in Nat /\ next = k + 1 /\ k + 1 <= Len(input)
  BY DEF AtBlock, ChunkTyped
<1>2. next' \in 1 .. Len(input) + 2 /\ ReadSoFar' = k + 1 /\ ~Done'
  BY <1>1 DEF ReadSoFar, Done
<1> QED BY <1>2 DEF ChunkTyped, MarkdownRight

\* A heading closes the open chunk and opens the next breadcrumb.
LEMMA HeadingRight ==
  ASSUME ChunkTyped, MarkdownRight, ReadHeading
  PROVE  ChunkTyped' /\ MarkdownRight'
<1> DEFINE k == next - 1
           w == WholeOf(input, k + 1)
           full == tokens >= TargetTokens
           base == IF full THEN <<>> ELSE current
           cs == IF full THEN Flushed ELSE chunks
           tok == IF full THEN 0 ELSE tokens
           later == path'
<1>1. AtBlock(k)
  BY BlockStarts DEF ReadHeading
<1> HIDE DEF k
<1>2. /\ chunks' = cs /\ current' = Append(base, w) /\ tokens' = tok + input[next].size
      /\ body' = (~full /\ body) /\ path' = (IF ~full /\ body THEN path ELSE Opened(next))
      /\ stack' = Opened(next) /\ next' = next + 1 /\ chunker' = chunker /\ input' = input
      /\ input[next].kind = "heading"
  BY <1>1 DEF ReadHeading, AtBlock
<1>3. later \in Seq(Nat) /\ tokens' \in Nat /\ base \in Seq(AnyPiece) /\ w \in AnyPiece /\ w.block = next
      /\ k \in Nat /\ k + 1 <= Len(input) /\ input \in Seq(Blocks)
  BY <1>1, <1>2 DEF AtBlock
<1>4. \E p \in Seq(Nat) : Packed(input, cs, base, tok, p, k)
  BY <1>1 DEF AtBlock
<1>5. Titles(input, base) <=> ~(~full /\ body)
  BY <1>1, EmptyChunk DEF AtBlock
<1>6. IsUnder(input, base, path) \/ full
  BY <1>1 DEF AtBlock, Packed
<1> HIDE DEF w, base, cs, tok
<1>7. /\ Titles(input, Append(base, w)) <=> Titles(input, base)
      /\ Last(Append(base, w)) = w
  BY <1>2, <1>3, TitlesAppend
<1>8. FitsIn(input, Append(base, w), tokens')
  BY <1>2, <1>3, <1>7 DEF FitsIn
<1>9. IsUnder(input, Append(base, w), later)
  <2>1. CASE Titles(input, base)
    BY <1>7, <2>1, TitlesAreUnder
  <2>2. CASE ~Titles(input, base)
    <3>1. later = path /\ IsUnder(input, base, path)
      BY <1>2, <1>5, <1>6, <2>2
    <3>2. IsUnder(input, Append(base, w), path)
      BY <1>2, <1>3, <2>2, <3>1, UnderAppend
    <3> QED BY <3>1, <3>2
  <2> QED BY <2>1, <2>2
<1>10. Packed(input, cs, Append(base, w), tokens', later, k + 1)
  <2>1. PICK p \in Seq(Nat) : Packed(input, cs, base, tok, p, k)
    BY <1>4
  <2> HIDE DEF later
  <2> DEFINE size == tokens'
  <2>2. size \in Nat /\ FitsIn(input, Append(base, WholeOf(input, k + 1)), size)
        /\ IsUnder(input, Append(base, WholeOf(input, k + 1)), later)
    BY <1>3, <1>8, <1>9 DEF w
  <2> HIDE DEF size
  <2>3. Packed(input, cs, Append(base, WholeOf(input, k + 1)), size, later, k + 1)
    BY <1>3, <2>1, <2>2, BlockJoins
  <2> QED BY <2>3 DEF size, w
<1>11. Packed(input, chunks', current', tokens', path', k + 1)
  BY <1>2, <1>10
<1>12. stack' = Crumbs(input, k + 1) /\ body' = ~Titles(input, current') /\ body' \in BOOLEAN
  BY <1>1, <1>2, <1>5, <1>7 DEF AtBlock
<1>13. Titles(input, current') /\ current' # <<>> => path' = stack'
  BY <1>2, <1>5, <1>7
<1> QED BY <1>1, <1>2, <1>11, <1>12, <1>13, BlockEnds

\* A chunk that ends with the block just read.
LEMMA BlockCloses ==
  ASSUME NEW inp, NEW cs, NEW cur \in Seq(AnyPiece), NEW w \in AnyPiece, NEW size, NEW crumbs, NEW k \in Nat,
         Packed(inp, cs, Append(cur, w), size, crumbs, k), NEW later \in Seq(Nat)
  PROVE  Packed(inp, Append(cs, Closed(Append(cur, w), size, crumbs)), <<>>, 0, later, k)
<1> DEFINE new == Append(cur, w)
<1>1. new # <<>>
  BY TitlesAppend
<1>2. Packed(inp, cs, new, size, crumbs, k)
  OBVIOUS
<1> HIDE DEF new
<1>3. Packed(inp, FlushedOf(cs, new, size, crumbs), <<>>, 0, later, k)
  BY <1>2, ChunkCloses
<1>4. FlushedOf(cs, new, size, crumbs) = Append(cs, Closed(new, size, crumbs))
  BY <1>1 DEF FlushedOf
<1> QED BY <1>3, <1>4 DEF new

\* A code block over the window is a chunk of its own.
LEMMA LargeCodeRight ==
  ASSUME ChunkTyped, MarkdownRight, ReadLargeCode
  PROVE  ChunkTyped' /\ MarkdownRight'
<1> DEFINE k == next - 1
           w == WholeOf(input, k + 1)
           size == input[next].size
           cs == Flushed
<1>1. AtBlock(k)
  BY BlockStarts DEF ReadLargeCode
<1> HIDE DEF k
<1>2. /\ chunks' = Append(cs, Closed(<<w>>, size, stack)) /\ current' = <<>> /\ tokens' = 0
      /\ body' = FALSE /\ path' = stack /\ stack' = stack
      /\ next' = next + 1 /\ chunker' = chunker /\ input' = input
      /\ input[next].kind # "heading"
  BY <1>1 DEF ReadLargeCode, AtBlock
<1>3. /\ stack \in Seq(Nat) /\ size \in Nat /\ w \in AnyPiece /\ w.block = next /\ Packed(input, cs, <<>>, 0, stack, k)
      /\ k \in Nat /\ next = k + 1 /\ k + 1 <= Len(input) /\ input \in Seq(Blocks) /\ Crumbs(input, k + 1) = stack
  BY <1>1, <1>2 DEF AtBlock
<1> DEFINE e == <<>>
<1>4. e \in Seq(AnyPiece) /\ Append(e, w) = <<w>> /\ Len(e) = 0 /\ IsUnder(input, e, stack)
  <2>1. e \in Seq(AnyPiece) /\ Append(e, w) = <<w>> /\ Len(e) = 0
    OBVIOUS
  <2>2. \A p : IsUnder(input, <<>>, p)
    BY EmptyChunk
  <2> QED BY <2>1, <2>2
<1> HIDE DEF w, size, cs
<1>5. FitsIn(input, Append(e, w), size)
  BY <1>3, <1>4 DEF FitsIn
<1>6. IsUnder(input, Append(e, w), stack)
  <2>1. stack = Crumbs(input, w.block)
    BY <1>3
  <2> HIDE DEF e
  <2> QED BY <1>3, <1>4, <2>1, UnderAppend
<1>7. Packed(input, cs, Append(e, w), size, stack, k + 1)
  <2>1. Packed(input, cs, e, 0, stack, k)
    BY <1>3
  <2>2. FitsIn(input, Append(e, WholeOf(input, k + 1)), size) /\ IsUnder(input, Append(e, WholeOf(input, k + 1)), stack)
    BY <1>5, <1>6 DEF w
  <2> HIDE DEF e
  <2>3. Packed(input, cs, Append(e, WholeOf(input, k + 1)), size, stack, k + 1)
    BY <1>3, <2>1, <2>2, BlockJoins
  <2> QED BY <2>3 DEF w
<1>8. Packed(input, Append(cs, Closed(Append(e, w), size, stack)), <<>>, 0, stack, k + 1)
  <2> DEFINE n == k + 1
  <2>1. n \in Nat /\ Packed(input, cs, Append(e, w), size, stack, n)
    BY <1>3, <1>7
  <2> HIDE DEF e, n
  <2>2. Packed(input, Append(cs, Closed(Append(e, w), size, stack)), <<>>, 0, stack, n)
    BY <1>3, <1>4, <2>1, BlockCloses
  <2> QED BY <2>2 DEF n
<1>9. Packed(input, chunks', current', tokens', path', k + 1)
  BY <1>2, <1>4, <1>8
<1>10. stack' = Crumbs(input, k + 1) /\ body' = ~Titles(input, current') /\ body' \in BOOLEAN
       /\ (Titles(input, current') /\ current' # <<>> => path' = stack')
  BY <1>2, <1>3, EmptyChunk
<1> QED BY <1>1, <1>2, <1>9, <1>10, BlockEnds

\* A block joins the open chunk, or closes it and starts another.
LEMMA BlockRight ==
  ASSUME ChunkTyped, MarkdownRight, ReadBlock
  PROVE  ChunkTyped' /\ MarkdownRight'
<1> DEFINE k == next - 1
           w == WholeOf(input, k + 1)
           size == input[next].size
           anew == StartsAnew(size)
           base == IF anew THEN <<>> ELSE current
           sum == (IF anew THEN 0 ELSE tokens) + size
           crumbs == IF base = <<>> THEN stack ELSE path
           cs == IF anew THEN Flushed ELSE chunks
<1>1. AtBlock(k)
  BY BlockStarts DEF ReadBlock
<1> HIDE DEF k
<1>2. /\ path' = crumbs /\ stack' = stack /\ next' = next + 1 /\ chunker' = chunker /\ input' = input
      /\ input[next].kind # "heading"
      /\ \/ chunks' = Append(cs, Closed(Append(base, w), sum, crumbs)) /\ current' = <<>> /\ tokens' = 0 /\ body' = FALSE
         \/ chunks' = cs /\ current' = Append(base, w) /\ tokens' = sum /\ body' = TRUE
  BY <1>1 DEF ReadBlock, AtBlock
<1>3. /\ crumbs \in Seq(Nat) /\ sum \in Nat /\ w \in AnyPiece /\ w.block = next /\ base \in Seq(AnyPiece)
      /\ k \in Nat /\ next = k + 1 /\ k + 1 <= Len(input) /\ input \in Seq(Blocks) /\ Crumbs(input, k + 1) = stack
  BY <1>1, <1>2 DEF AtBlock
<1>4. \E t \in Nat, p \in Seq(Nat) : Packed(input, cs, base, t, p, k) /\ IsUnder(input, base, crumbs)
  <2>1. CASE anew
    <3>1. Packed(input, cs, base, 0, stack, k) /\ stack \in Seq(Nat) /\ base = <<>>
      BY <1>1, <2>1 DEF AtBlock
    <3>2. IsUnder(input, base, crumbs)
      BY <3>1, EmptyChunk
    <3> HIDE DEF base, cs, crumbs
    <3> QED BY <3>1, <3>2
  <2>2. CASE ~anew
    <3>1. Packed(input, cs, base, tokens, path, k) /\ tokens \in Nat /\ path \in Seq(Nat) /\ base = current
      BY <1>1, <2>2 DEF AtBlock
    <3>2. IsUnder(input, base, crumbs)
      <4>1. CASE base = <<>>
        BY <4>1, EmptyChunk
      <4>2. CASE base # <<>>
        BY <3>1, <4>2 DEF Packed
      <4> QED BY <4>1, <4>2
    <3> HIDE DEF base, cs, crumbs
    <3> QED BY <3>1, <3>2
  <2> QED BY <2>1, <2>2
<1>5. Titles(input, base) => crumbs = stack
  BY <1>1 DEF AtBlock
<1>6. base = <<>> \/ sum <= MaxTokens
  <2>1. sum \in Nat /\ MaxTokens \in Nat
    BY <1>3, ChunkingAssumption
  <2>2. CASE anew
    BY <2>2
  <2>3. CASE ~anew
    <3>1. current = <<>> \/ ~(tokens + size > MaxTokens)
      BY <2>3 DEF StartsAnew
    <3> QED BY <2>1, <2>3, <3>1
  <2> QED BY <2>2, <2>3
<1> HIDE DEF w, size, base, cs, crumbs, sum
<1>7. FitsIn(input, Append(base, w), sum)
  <2>0. sum \in Nat /\ MaxTokens \in Nat
    BY <1>3, ChunkingAssumption
  <2>1. CASE base = <<>>
    BY <2>1 DEF FitsIn
  <2>2. CASE sum <= MaxTokens
    BY <2>0, <2>2 DEF FitsIn
  <2> QED BY <1>6, <2>1, <2>2
<1>8. IsUnder(input, Append(base, w), crumbs)
  <2>1. input[w.block].kind # "heading" /\ Titles(input, base) => crumbs = Crumbs(input, w.block)
    BY <1>3, <1>5
  <2>2. IsUnder(input, base, crumbs)
    BY <1>4
  <2> QED BY <1>3, <2>1, <2>2, UnderAppend
<1>9. Packed(input, cs, Append(base, w), sum, crumbs, k + 1)
  <2>1. PICK t \in Nat, p \in Seq(Nat) : Packed(input, cs, base, t, p, k)
    BY <1>4
  <2>2. FitsIn(input, Append(base, WholeOf(input, k + 1)), sum) /\ IsUnder(input, Append(base, WholeOf(input, k + 1)), crumbs)
    BY <1>7, <1>8 DEF w
  <2>3. Packed(input, cs, Append(base, WholeOf(input, k + 1)), sum, crumbs, k + 1)
    BY <1>3, <2>1, <2>2, BlockJoins
  <2> QED BY <2>3 DEF w
<1>10. stack' = Crumbs(input, k + 1)
  BY <1>2, <1>3
<1>11. CASE chunks' = Append(cs, Closed(Append(base, w), sum, crumbs)) /\ current' = <<>> /\ tokens' = 0 /\ body' = FALSE
  <2> DEFINE n == k + 1
  <2>1. n \in Nat /\ Packed(input, cs, Append(base, w), sum, crumbs, n)
    BY <1>3, <1>9
  <2> HIDE DEF n
  <2>2. Packed(input, Append(cs, Closed(Append(base, w), sum, crumbs)), <<>>, 0, crumbs, n)
    BY <1>3, <2>1, BlockCloses
  <2>3. Packed(input, chunks', current', tokens', path', k + 1)
    BY <1>2, <1>11, <2>2 DEF n
  <2>4. body' = ~Titles(input, current') /\ body' \in BOOLEAN
       /\ (Titles(input, current') /\ current' # <<>> => path' = stack')
    BY <1>11, EmptyChunk
  <2> QED BY <1>1, <1>2, <1>10, <2>3, <2>4, BlockEnds
<1>12. CASE chunks' = cs /\ current' = Append(base, w) /\ tokens' = sum /\ body' = TRUE
  <2>1. Packed(input, chunks', current', tokens', path', k + 1)
    BY <1>2, <1>9, <1>12
  <2>2. ~Titles(input, Append(base, w))
    <3> HIDE DEF base, w
    <3>1. Titles(input, Append(base, w)) => input[w.block].kind = "heading"
      BY <1>3, TitlesAppend
    <3> QED BY <1>2, <1>3, <3>1
  <2>3. body' = ~Titles(input, current') /\ body' \in BOOLEAN
       /\ (Titles(input, current') /\ current' # <<>> => path' = stack')
    BY <1>12, <2>2
  <2> QED BY <1>1, <1>2, <1>10, <2>1, <2>3, BlockEnds
<1> QED BY <1>2, <1>11, <1>12

\* The open chunk is closed after the last block.
LEMMA MarkdownEnds ==
  ASSUME ChunkTyped, MarkdownRight, FinishMarkdown
  PROVE  ChunkTyped' /\ MarkdownRight'
<1> DEFINE k == Len(input)
<1>1. k \in Nat /\ ReadSoFar = k /\ next = k + 1 /\ next' = k + 2 /\ ReadSoFar' = k /\ path \in Seq(Nat)
      /\ input' = input /\ chunker' = chunker /\ stack' = stack /\ path' = path /\ body' = body
      /\ chunks' = Flushed /\ current' = <<>> /\ tokens' = 0 /\ chunker = "markdown"
  <2>1. k \in Nat /\ next = k + 1 /\ next' = k + 2
    BY DEF FinishMarkdown, ChunkTyped
  <2>2. input' = input /\ chunker' = chunker /\ stack' = stack /\ path' = path /\ body' = body
      /\ chunks' = Flushed /\ current' = <<>> /\ tokens' = 0 /\ chunker = "markdown"
    BY DEF FinishMarkdown
  <2>3. ReadSoFar = k /\ ReadSoFar' = k
    BY <2>1, <2>2 DEF ReadSoFar
  <2>4. path \in Seq(Nat)
    BY <2>2 DEF MarkdownRight, Packed
  <2> QED BY <2>1, <2>2, <2>3, <2>4
<1> HIDE DEF k
<1>2. stack = Crumbs(input, k) /\ Packed(input, chunks, current, tokens, path, k)
  BY <1>1 DEF MarkdownRight
<1>3. Packed(input, FlushedOf(chunks, current, tokens, path), <<>>, 0, path, k)
  BY <1>1, <1>2, ChunkCloses
<1>4. Packed(input, chunks', current', tokens', path', k)
  BY <1>1, <1>3 DEF Flushed, FlushedOf
<1>5. ~(next' <= Len(input') + 1)
  BY <1>1 DEF k
<1>6. MarkdownRight'
  BY <1>1, <1>2, <1>4, <1>5 DEF MarkdownRight
<1>7. ChunkTyped'
  BY <1>1 DEF ChunkTyped, k
<1> QED BY <1>6, <1>7

-----------------------------------------------------------------------------
(* chunk_text.                                                               *)

\* The windows of a long paragraph advance and overlap.
LEMMA StrideFacts == /\ Stride \in Nat \ {0} /\ Stride <= MaxChars /\ MaxChars \in Nat
                     /\ MaxChunks \in Nat \ {0}
BY ChunkingAssumption DEF Stride

\* A number is between two multiples of d that follow each other.
LEMMA DivFacts ==
  ASSUME NEW a \in Nat, NEW d \in Nat \ {0}
  PROVE  a \div d \in Nat /\ (a \div d) * d <= a /\ a < (a \div d) * d + d
<1>1. a \div d \in Int /\ d * (a \div d) <= a /\ a < d * (a \div d) + d
  OBVIOUS
<1> DEFINE z == a \div d
<1>2. z \in Int /\ d * z <= a /\ a < d * z + d
  BY <1>1
<1> HIDE DEF z
<1>3. d * z = z * d /\ z * d \in Int
  BY <1>2
<1>4. z >= 0
  <2>1. ASSUME z <= -1 PROVE FALSE
    <3>1. z * d <= -d
      BY <1>2, <2>1
    <3> QED BY <1>2, <1>3, <3>1
  <2> QED BY <1>2, <2>1
<1>5. z \in Nat /\ z * d <= a /\ a < z * d + d
  BY <1>2, <1>3, <1>4
<1> QED BY <1>5 DEF z

\* Quotients grow with what is divided.
LEMMA DivGrows ==
  ASSUME NEW a \in Nat, NEW b \in Nat, a <= b, NEW d \in Nat \ {0}
  PROVE  a \div d <= b \div d
<1> DEFINE x == a \div d
           y == b \div d
<1>1. x \in Nat /\ x * d <= a
  BY DivFacts
<1>2. y \in Nat /\ b < y * d + d
  BY DivFacts
<1> HIDE DEF x, y
<1>3. ASSUME y + 1 <= x PROVE FALSE
  <2>1. (y + 1) * d <= x * d
    BY <1>1, <1>2, <1>3
  <2>2. (y + 1) * d = y * d + d
    BY <1>2
  <2>3. x * d \in Nat /\ y * d \in Nat
    BY <1>1, <1>2
  <2> QED BY <1>1, <1>2, <2>1, <2>2, <2>3
<1>4. x <= y
  BY <1>1, <1>2, <1>3
<1> QED BY <1>4 DEF x, y

(* Character n of block i is in a piece of S.                                *)
Holds(S, i, n) == \E p \in S : p.block = i /\ p.from < n /\ n <= p.to

\* The windows of an oversized paragraph: each fits, together they hold it all.
LEMMA WindowsCover ==
  ASSUME NEW i \in Nat, input[i].size \in Nat \ {0}
  PROVE  /\ CutUp(i) \in Seq(AnyChunk)
         /\ \A m \in DOMAIN CutUp(i) : CutUp(i)[m].size <= MaxChars
         /\ \A n \in 1 .. input[i].size : Holds(Pieces(CutUp(i)), i, n)
<1> DEFINE size == input[i].size
           N == (size - 1) \div Stride + 1
           From(n) == (n - 1) * Stride
           To(n) == Smaller(From(n) + MaxChars, size)
           C(n) == Closed(<<Piece(i, From(n), To(n))>>, To(n) - From(n), <<>>)
           W == CutUp(i)
<1>0. size \in Nat /\ size # 0 /\ size - 1 \in Nat
  OBVIOUS
<1>1. W = [n \in 1 .. N |-> C(n)]
  BY DEF CutUp
<1> HIDE DEF W, size
<1>2. N \in Nat
  <2>1. (size - 1) \div Stride \in Nat
    BY <1>0, StrideFacts, DivFacts
  <2> QED BY <2>1
<1>3. ASSUME NEW n \in 1 .. N
      PROVE  From(n) \in Nat /\ From(n) < size
  <2> DEFINE z == (size - 1) \div Stride
  <2>1. z \in Nat /\ z * Stride <= size - 1
    BY <1>0, StrideFacts, DivFacts
  <2>2. n - 1 \in Nat /\ n - 1 <= z
    BY <2>1
  <2> HIDE DEF z
  <2>3. (n - 1) * Stride <= z * Stride /\ (n - 1) * Stride \in Nat /\ z * Stride \in Nat
    BY <2>1, <2>2, StrideFacts
  <2> QED BY <1>0, <2>1, <2>3
<1>4. \A n \in 1 .. N : /\ To(n) \in Nat /\ To(n) - From(n) \in Nat /\ To(n) - From(n) <= MaxChars
                        /\ (To(n) = size \/ To(n) = From(n) + MaxChars)
  BY <1>0, <1>3, StrideFacts DEF Smaller
<1> HIDE DEF N, From, To
<1>5. \A n \in 1 .. N : C(n) \in AnyChunk /\ C(n).size <= MaxChars /\ C(n).pieces = <<Piece(i, From(n), To(n))>>
  <2> TAKE n \in 1 .. N
  <2>1. Piece(i, From(n), To(n)) \in AnyPiece
    BY <1>3, <1>4 DEF Piece, AnyPiece
  <2> DEFINE p == Piece(i, From(n), To(n))
  <2> HIDE DEF p
  <2>2. <<p>> \in Seq(AnyPiece) /\ <<>> \in Seq(Nat)
    BY <2>1 DEF p
  <2> QED BY <1>4, <2>2 DEF Closed, AnyChunk, p
<1> HIDE DEF C
<1>6. W \in Seq(AnyChunk) /\ DOMAIN W = 1 .. N /\ \A n \in 1 .. N : W[n] = C(n)
  <2> DEFINE V == AnyChunk
  <2>1. \A n \in 1 .. N : C(n) \in V
    BY <1>5
  <2> HIDE DEF V
  <2>2. W \in Seq(V)
    BY <1>1, <1>2, <2>1
  <2> QED BY <1>1, <2>2 DEF V
<1>7. \A m \in DOMAIN W : W[m].size <= MaxChars
  BY <1>5, <1>6
<1>8. ASSUME NEW x \in 1 .. size PROVE Holds(Pieces(W), i, x)
  <2> DEFINE n == (x - 1) \div Stride + 1
             z == (x - 1) \div Stride
  <2>0. x - 1 \in Nat /\ x - 1 <= size - 1 /\ x \in Nat
    BY <1>0
  <2>1. z \in Nat /\ z * Stride <= x - 1 /\ x - 1 < z * Stride + Stride
    BY <2>0, StrideFacts, DivFacts
  <2>2. z <= (size - 1) \div Stride
    BY <1>0, <2>0, StrideFacts, DivGrows
  <2>3. n \in 1 .. N /\ n - 1 = z
    <3> DEFINE y == (size - 1) \div Stride
    <3>1. y \in Nat
      BY <1>0, StrideFacts, DivFacts
    <3>2. N = y + 1 /\ n = z + 1 /\ z <= y
      BY <2>2 DEF N
    <3> HIDE DEF y, n, z
    <3> QED BY <2>1, <3>1, <3>2
  <2> HIDE DEF n, z
  <2>4. From(n) = z * Stride /\ z * Stride \in Nat
    BY <2>1, <2>3, StrideFacts DEF From
  <2>5. From(n) < x /\ x <= To(n)
    BY <1>0, <1>4, <2>0, <2>1, <2>3, <2>4, StrideFacts
  <2> DEFINE p == Piece(i, From(n), To(n))
  <2>6. p \in ToSet(W[n].pieces)
    BY <1>5, <1>6, <2>3 DEF ToSet
  <2>7. p \in Pieces(W)
    BY <1>6, <2>3, <2>6 DEF Pieces
  <2>8. p.block = i /\ p.from = From(n) /\ p.to = To(n)
    BY DEF Piece
  <2> QED BY <2>5, <2>7, <2>8 DEF Holds
<1> QED BY <1>6, <1>7, <1>8 DEF W, size

\* The pieces of two lists of chunks.
LEMMA PiecesConcat ==
  ASSUME NEW cs \in Seq(AnyChunk), NEW ds \in Seq(AnyChunk)
  PROVE  /\ cs \o ds \in Seq(AnyChunk)
         /\ Pieces(cs \o ds) = Pieces(cs) \cup Pieces(ds)
         /\ \A n \in DOMAIN (cs \o ds) : (\E m \in DOMAIN cs : (cs \o ds)[n] = cs[m]) \/ (\E m \in DOMAIN ds : (cs \o ds)[n] = ds[m])
<1> DEFINE N == Len(cs)
           M == Len(ds)
           t == cs \o ds
           V == AnyChunk
<1>0. cs \in Seq(V) /\ ds \in Seq(V)
  OBVIOUS
<1> HIDE DEF V
<1>1. /\ N \in Nat /\ M \in Nat /\ DOMAIN cs = 1 .. N /\ DOMAIN ds = 1 .. M /\ DOMAIN t = 1 .. N + M /\ t \in Seq(V)
      /\ \A n \in 1 .. N : t[n] = cs[n]
      /\ \A n \in 1 .. M : t[N + n] = ds[n]
  BY <1>0
<1> HIDE DEF N, M, t
<1>2. /\ \A n \in 1 .. N + M : n \in 1 .. N \/ (n - N \in 1 .. M /\ N + (n - N) = n)
      /\ \A n \in 1 .. N : n \in 1 .. N + M
      /\ \A n \in 1 .. M : N + n \in 1 .. N + M
  BY <1>1
<1>3. \A n \in DOMAIN t : (\E m \in DOMAIN cs : t[n] = cs[m]) \/ (\E m \in DOMAIN ds : t[n] = ds[m])
  <2> TAKE n \in DOMAIN t
  <2>1. CASE n \in 1 .. N
    BY <1>1, <2>1
  <2>2. CASE n - N \in 1 .. M /\ N + (n - N) = n
    BY <1>1, <2>2
  <2> QED BY <1>1, <1>2, <2>1, <2>2
<1>4. Pieces(t) = Pieces(cs) \cup Pieces(ds)
  <2>1. Pieces(t) \subseteq Pieces(cs) \cup Pieces(ds)
    BY <1>3 DEF Pieces
  <2>2. Pieces(cs) \subseteq Pieces(t)
    BY <1>1, <1>2 DEF Pieces
  <2>3. Pieces(ds) \subseteq Pieces(t)
    <3> SUFFICES ASSUME NEW m \in DOMAIN ds, NEW p \in ToSet(ds[m].pieces) PROVE p \in Pieces(t)
      BY DEF Pieces
    <3>1. N + m \in DOMAIN t /\ t[N + m] = ds[m]
      BY <1>1, <1>2
    <3> QED BY <3>1 DEF Pieces
  <2> QED BY <2>1, <2>2, <2>3
<1> QED BY <1>1, <1>3, <1>4 DEF t, V

\* At most max_chunks are returned; all of them, if they are fewer.
LEMMA CutFacts ==
  ASSUME NEW cs \in Seq(AnyChunk)
  PROVE  /\ Cut(cs, MaxChunks) \in Seq(AnyChunk) /\ Len(Cut(cs, MaxChunks)) <= MaxChunks
         /\ Len(Cut(cs, MaxChunks)) < MaxChunks => Cut(cs, MaxChunks) = cs
         /\ \A n \in DOMAIN Cut(cs, MaxChunks) : n \in DOMAIN cs /\ Cut(cs, MaxChunks)[n] = cs[n]
<1> DEFINE V == AnyChunk
           M == MaxChunks
<1>1. M \in Nat /\ cs \in Seq(V)
  BY StrideFacts
<1> HIDE DEF V, M
<1>2. CASE M < Len(cs)
  <2>1. Cut(cs, M) = SubSeq(cs, 1, M)
    BY <1>2 DEF Cut
  <2>2. SubSeq(cs, 1, M) \in Seq(V) /\ Len(SubSeq(cs, 1, M)) = M /\ \A n \in 1 .. M : n \in DOMAIN cs /\ SubSeq(cs, 1, M)[n] = cs[n]
    BY <1>1, <1>2
  <2>3. DOMAIN SubSeq(cs, 1, M) = 1 .. M
    BY <2>2
  <2> QED BY <1>1, <2>1, <2>2, <2>3 DEF M, V
<1>3. CASE ~(M < Len(cs))
  <2>1. SubSeq(cs, 1, Len(cs)) = cs
    BY <1>1
  <2>2. Cut(cs, M) = cs
    BY <1>3, <2>1 DEF Cut
  <2> QED BY <1>1, <1>3, <2>2 DEF M, V
<1> QED BY <1>2, <1>3

(* The first k paragraphs are in the chunks cs and the open one.             *)
Windowed(inp, cs, cur, tok, k) ==
    /\ cs \in Seq(AnyChunk) /\ cur \in Seq(AnyPiece) /\ tok \in Nat
    /\ cur = <<>> => tok = 0
    /\ tok <= MaxChars /\ \A i \in DOMAIN cs : cs[i].size <= MaxChars
    /\ \A i \in 1 .. k : \A n \in 1 .. inp[i].size : Holds(Pieces(cs) \cup ToSet(cur), i, n)

TextRight ==
    chunker = "text" =>
        /\ path = <<>> /\ Len(chunks) <= MaxChunks
        /\ \A i \in DOMAIN chunks : chunks[i].size <= MaxChars
        /\ Len(chunks) < MaxChunks => Windowed(input, chunks, current, tokens, ReadSoFar)
        /\ next <= Len(input) + 1 => Len(chunks) < MaxChunks
        /\ Done => current = <<>> \/ Len(chunks) >= MaxChunks

\* A character in some pieces is in more.
LEMMA HoldsMore ==
  ASSUME NEW S, NEW T, S \subseteq T, NEW i, NEW n, Holds(S, i, n)
  PROVE  Holds(T, i, n)
BY DEF Holds

\* The empty sequence has no member and is of every type.
LEMMA NothingOpen == ToSet(<<>>) = {} /\ <<>> \in Seq(AnyPiece) /\ <<>> \in Seq(Nat) /\ <<>> \in Seq(AnyChunk)
BY DEF ToSet

\* Closing the open chunk loses no character.
LEMMA WindowCloses ==
  ASSUME NEW inp, NEW cs, NEW cur, NEW tok, NEW k, Windowed(inp, cs, cur, tok, k)
  PROVE  Windowed(inp, FlushedOf(cs, cur, tok, <<>>), <<>>, 0, k)
<1> DEFINE c == Closed(cur, tok, <<>>)
           ds == Append(cs, c)
<1>0. cs \in Seq(AnyChunk) /\ cur \in Seq(AnyPiece) /\ tok \in Nat /\ 0 \in Nat /\ 0 <= MaxChars
  BY StrideFacts DEF Windowed
<1>1. CASE cur = <<>>
  BY <1>0, <1>1 DEF Windowed, FlushedOf
<1>2. CASE cur # <<>>
  <2>1. c \in AnyChunk /\ c.pieces = cur /\ c.size = tok
    BY <1>0, NothingOpen DEF Closed, AnyChunk
  <2> HIDE DEF c
  <2>2. Pieces(ds) = Pieces(cs) \cup ToSet(cur)
    BY <1>0, <2>1, PiecesAppend
  <2>3. ds \in Seq(AnyChunk) /\ \A i \in DOMAIN ds : (i \in DOMAIN cs /\ ds[i] = cs[i]) \/ ds[i] = c
    <3> DEFINE V == AnyChunk
    <3>1. cs \in Seq(V) /\ c \in V
      BY <1>0, <2>1
    <3> HIDE DEF V
    <3>2. ds \in Seq(V) /\ \A i \in DOMAIN ds : (i \in DOMAIN cs /\ ds[i] = cs[i]) \/ ds[i] = c
      BY <3>1
    <3> QED BY <3>2 DEF V
  <2> HIDE DEF ds
  <2>4. \A i \in DOMAIN ds : ds[i].size <= MaxChars
    BY <2>1, <2>3 DEF Windowed
  <2>5. Pieces(ds) \cup ToSet(<<>>) = Pieces(cs) \cup ToSet(cur)
    BY <2>2, NothingOpen
  <2>6. Windowed(inp, ds, <<>>, 0, k)
    BY <1>0, <2>3, <2>4, <2>5, NothingOpen DEF Windowed
  <2> QED BY <1>2, <2>6 DEF FlushedOf, ds, c
<1> QED BY <1>1, <1>2

\* A paragraph that fits joins the open chunk.
LEMMA ParagraphJoins ==
  ASSUME NEW inp, NEW cs, NEW cur, NEW tok, NEW k \in Nat, Windowed(inp, cs, cur, tok, k),
         inp[k + 1].size \in Nat, NEW size \in Nat, size <= MaxChars
  PROVE  Windowed(inp, cs, Append(cur, WholeOf(inp, k + 1)), size, k + 1)
<1> DEFINE w == WholeOf(inp, k + 1)
           new == Append(cur, w)
<1>0. cs \in Seq(AnyChunk) /\ cur \in Seq(AnyPiece)
  BY DEF Windowed
<1>1. w \in AnyPiece /\ w.block = k + 1 /\ w.from = 0 /\ w.to = inp[k + 1].size
  BY DEF WholeOf, Piece, AnyPiece
<1> HIDE DEF w
<1>2. ToSet(new) = ToSet(cur) \cup {w}
  BY <1>0, <1>1, SetOfAppend
<1>3. new \in Seq(AnyPiece) /\ new # <<>>
  <2> DEFINE A == AnyPiece
  <2>a. cur \in Seq(A) /\ w \in A
    BY <1>0, <1>1
  <2> HIDE DEF A
  <2>2. new \in Seq(A) /\ Len(new) = Len(cur) + 1 /\ Len(cur) \in Nat
    BY <2>a
  <2> HIDE DEF new
  <2>3. new # <<>>
    BY <2>2
  <2> QED BY <2>2, <2>3 DEF A
<1> HIDE DEF new
<1>4. ASSUME NEW i \in 1 .. k + 1, NEW n \in 1 .. inp[i].size PROVE Holds(Pieces(cs) \cup ToSet(new), i, n)
  <2>1. CASE i \in 1 .. k
    <3>1. Holds(Pieces(cs) \cup ToSet(cur), i, n)
      BY <2>1 DEF Windowed
    <3> QED BY <1>2, <3>1, HoldsMore
  <2>2. CASE i = k + 1
    BY <1>1, <1>2, <2>2 DEF Holds
  <2> QED BY <2>1, <2>2
<1>5. Windowed(inp, cs, new, size, k + 1)
  BY <1>0, <1>3, <1>4 DEF Windowed
<1> QED BY <1>5 DEF new, w

\* A paragraph over the window is cut into overlapping windows.
LEMMA ParagraphIsCut ==
  ASSUME NEW cs, NEW k \in Nat, Windowed(input, cs, <<>>, 0, k), input[k + 1].size \in Nat \ {0}
  PROVE  Windowed(input, cs \o CutUp(k + 1), <<>>, 0, k + 1)
<1> DEFINE j == k + 1
           ds == CutUp(j)
           es == cs \o ds
<1>0. cs \in Seq(AnyChunk) /\ j \in Nat /\ input[j].size \in Nat \ {0}
  BY DEF Windowed
<1> HIDE DEF j
<1>1. /\ ds \in Seq(AnyChunk) /\ \A m \in DOMAIN ds : ds[m].size <= MaxChars
      /\ \A n \in 1 .. input[j].size : Holds(Pieces(ds), j, n)
  BY <1>0, WindowsCover
<1> HIDE DEF ds
<1>2. /\ es \in Seq(AnyChunk) /\ Pieces(es) = Pieces(cs) \cup Pieces(ds)
      /\ \A n \in DOMAIN es : (\E m \in DOMAIN cs : es[n] = cs[m]) \/ (\E m \in DOMAIN ds : es[n] = ds[m])
  BY <1>0, <1>1, PiecesConcat
<1> HIDE DEF es
<1>3. \A n \in DOMAIN es : es[n].size <= MaxChars
  BY <1>1, <1>2 DEF Windowed
<1>4. ASSUME NEW i \in 1 .. j, NEW n \in 1 .. input[i].size PROVE Holds(Pieces(es) \cup ToSet(<<>>), i, n)
  <2>1. CASE i \in 1 .. k
    <3>1. Holds(Pieces(cs) \cup ToSet(<<>>), i, n)
      BY <2>1 DEF Windowed
    <3>2. Pieces(cs) \cup ToSet(<<>>) \subseteq Pieces(es) \cup ToSet(<<>>)
      BY <1>2
    <3> QED BY <3>1, <3>2, HoldsMore
  <2>2. CASE i = j
    <3>1. Holds(Pieces(ds), i, n)
      BY <1>1, <2>2
    <3>2. Pieces(ds) \subseteq Pieces(es) \cup ToSet(<<>>)
      BY <1>2
    <3> QED BY <3>1, <3>2, HoldsMore
  <2> QED BY <2>1, <2>2 DEF j
<1>5. Windowed(input, es, <<>>, 0, j)
  BY <1>2, <1>3, <1>4, StrideFacts, NothingOpen DEF Windowed
<1> QED BY <1>5 DEF es, ds, j

\* What is returned of it.
LEMMA WindowsAreCut ==
  ASSUME NEW inp, NEW cs, NEW cur, NEW tok, NEW k, Windowed(inp, cs, cur, tok, k)
  PROVE  /\ Len(Cut(cs, MaxChunks)) <= MaxChunks /\ Len(Cut(cs, MaxChunks)) \in Nat
         /\ \A i \in DOMAIN Cut(cs, MaxChunks) : Cut(cs, MaxChunks)[i].size <= MaxChars
         /\ Len(Cut(cs, MaxChunks)) < MaxChunks => Windowed(inp, Cut(cs, MaxChunks), cur, tok, k)
<1> DEFINE ds == Cut(cs, MaxChunks)
<1>1. cs \in Seq(AnyChunk) /\ \A i \in DOMAIN cs : cs[i].size <= MaxChars
  BY DEF Windowed
<1>2. /\ ds \in Seq(AnyChunk) /\ Len(ds) <= MaxChunks
      /\ Len(ds) < MaxChunks => ds = cs
      /\ \A n \in DOMAIN ds : n \in DOMAIN cs /\ ds[n] = cs[n]
  BY <1>1, CutFacts
<1> HIDE DEF ds
<1>3. Len(ds) \in Nat
  BY <1>2
<1> QED BY <1>1, <1>2, <1>3 DEF ds

\* Every step of chunk_text keeps the paragraphs read so far.
LEMMA TextStep ==
  ASSUME ChunkTyped, TextRight, PackParagraph \/ FinishText
  PROVE  ChunkTyped' /\ TextRight'
<1> DEFINE L == Len(input)
<1>0. /\ L \in Nat /\ input \in Seq(Blocks) /\ chunker = "text" /\ chunker' = chunker /\ input' = input
      /\ path' = path /\ body' = body /\ path = <<>> /\ next \in 1 .. L + 1 /\ body \in BOOLEAN
  BY DEF PackParagraph, FinishText, ChunkTyped, TextRight
<1>1. Windowed(input, chunks, current, tokens, ReadSoFar) /\ MaxChunks \in Nat
  BY <1>0, StrideFacts DEF TextRight
<1>2. Windowed(input, Flushed, <<>>, 0, ReadSoFar)
  <2>1. Windowed(input, FlushedOf(chunks, current, tokens, <<>>), <<>>, 0, ReadSoFar)
    BY <1>1, WindowCloses
  <2> QED BY <1>0, <2>1 DEF Flushed, FlushedOf
<1>3. CASE FinishText
  <2>1. ReadSoFar = L /\ ReadSoFar' = L /\ next' = L + 2 /\ next' \in 1 .. L + 2
    BY <1>0, <1>3 DEF FinishText, ReadSoFar
  <2> DEFINE ds == Cut(Flushed, MaxChunks)
  <2>2. /\ Len(ds) <= MaxChunks /\ Len(ds) \in Nat /\ \A i \in DOMAIN ds : ds[i].size <= MaxChars
        /\ Len(ds) < MaxChunks => Windowed(input, ds, <<>>, 0, L)
    BY <1>2, <2>1, WindowsAreCut
  <2>3. chunks' = ds /\ current' = <<>> /\ tokens' = 0
    BY <1>3 DEF FinishText
  <2> HIDE DEF ds
  <2>4. ~(next' <= Len(input') + 1)
    BY <1>0, <2>1
  <2>5. TextRight'
    BY <1>0, <2>1, <2>2, <2>3, <2>4 DEF TextRight
  <2> QED BY <1>0, <2>1, <2>5 DEF ChunkTyped
<1>4. CASE PackParagraph
  <2> DEFINE k == next - 1
             size == input[next].size
  <2>1. k \in Nat /\ next = k + 1 /\ k + 1 <= L /\ ReadSoFar = k /\ next \in 1 .. L
    BY <1>0, <1>4 DEF PackParagraph, ReadSoFar
  <2>2. size \in Nat \ {0} /\ Whole(next) = WholeOf(input, k + 1)
    <3>1. input[next] \in Blocks
      <4>1. \A i \in 1 .. L : input[i] \in Blocks
        BY <1>0
      <4> QED BY <2>1, <4>1
    <3> QED BY <2>1, <3>1, BlockFacts DEF Whole, WholeOf
  <2> HIDE DEF k, size
  <2>3. \E cs : /\ Windowed(input, cs, current', tokens', k + 1)
                /\ chunks' = Cut(cs, MaxChunks) \/ (chunks' = cs /\ Len(cs) < MaxChunks)
    <3>1. CASE size > MaxChars
      <4>1. chunks' = Cut(Flushed \o CutUp(next), MaxChunks) /\ current' = <<>> /\ tokens' = 0
        BY <1>4, <3>1 DEF PackParagraph, size
      <4>2. Windowed(input, Flushed, <<>>, 0, k) /\ input[k + 1].size \in Nat \ {0}
        BY <1>2, <2>1, <2>2 DEF size
      <4>3. Windowed(input, Flushed \o CutUp(k + 1), <<>>, 0, k + 1)
        BY <2>1, <4>2, ParagraphIsCut
      <4> QED BY <2>1, <4>1, <4>3
    <3>2. CASE size <= MaxChars
      <4>0. MaxChars \in Nat /\ ~(size > MaxChars) /\ size \in Nat /\ input[k + 1].size \in Nat
        BY <2>1, <2>2, <3>2, StrideFacts DEF size
      <4>1. CASE current # <<>> /\ tokens + size + 2 > MaxChars
        <5>1. chunks' = Cut(Flushed, MaxChunks) /\ current' = <<Whole(next)>> /\ tokens' = size
          BY <1>4, <4>0, <4>1 DEF PackParagraph, size
        <5> DEFINE e == <<>>
                   w == WholeOf(input, k + 1)
        <5>2. Append(e, w) = <<w>>
          OBVIOUS
        <5>3. Windowed(input, Flushed, e, 0, k)
          BY <1>2, <2>1
        <5> HIDE DEF e
        <5>4. Windowed(input, Flushed, Append(e, WholeOf(input, k + 1)), size, k + 1)
          BY <2>1, <3>2, <4>0, <5>3, ParagraphJoins
        <5> QED BY <2>2, <5>1, <5>2, <5>4
      <4>2. CASE ~(current # <<>> /\ tokens + size + 2 > MaxChars)
        <5> DEFINE sum == tokens + (IF current = <<>> THEN 0 ELSE 2) + size
        <5>1. chunks' = chunks /\ current' = Append(current, Whole(next)) /\ tokens' = sum
          BY <1>4, <4>0, <4>2 DEF PackParagraph, size
        <5>2. sum \in Nat /\ sum <= MaxChars
          BY <1>1, <3>2, <4>0, <4>2 DEF Windowed
        <5> HIDE DEF sum
        <5>3. Windowed(input, chunks, Append(current, WholeOf(input, k + 1)), sum, k + 1)
          BY <1>1, <2>1, <4>0, <5>2, ParagraphJoins
        <5>4. Len(chunks) < MaxChunks
          BY <1>0 DEF TextRight
        <5> QED BY <2>2, <5>1, <5>3, <5>4
      <4> QED BY <4>1, <4>2
    <3>3. MaxChars \in Nat /\ size \in Nat
      BY <2>2, StrideFacts
    <3> QED BY <3>1, <3>2, <3>3
  <2>4. /\ Len(chunks') <= MaxChunks /\ Len(chunks') \in Nat /\ \A i \in DOMAIN chunks' : chunks'[i].size <= MaxChars
        /\ Len(chunks') < MaxChunks => Windowed(input, chunks', current', tokens', k + 1)
    <3>1. PICK cs : /\ Windowed(input, cs, current', tokens', k + 1)
                    /\ chunks' = Cut(cs, MaxChunks) \/ (chunks' = cs /\ Len(cs) < MaxChunks)
      BY <2>3
    <3> DEFINE cur == current'
               tok == tokens'
               j == k + 1
    <3>a. Windowed(input, cs, cur, tok, j)
      BY <3>1
    <3> HIDE DEF cur, tok, j
    <3>2. /\ Len(Cut(cs, MaxChunks)) <= MaxChunks /\ Len(Cut(cs, MaxChunks)) \in Nat
          /\ \A i \in DOMAIN Cut(cs, MaxChunks) : Cut(cs, MaxChunks)[i].size <= MaxChars
          /\ Len(Cut(cs, MaxChunks)) < MaxChunks => Windowed(input, Cut(cs, MaxChunks), cur, tok, j)
      BY <3>a, WindowsAreCut
    <3>3. cs \in Seq(AnyChunk) /\ Len(cs) \in Nat
      <4>1. cs \in Seq(AnyChunk)
        BY <3>a DEF Windowed
      <4> QED BY <4>1
    <3>4. CASE chunks' = Cut(cs, MaxChunks)
      BY <3>2, <3>4 DEF cur, tok, j
    <3>5. CASE chunks' = cs /\ Len(cs) < MaxChunks
      <4>1. \A i \in DOMAIN cs : cs[i].size <= MaxChars
        BY <3>a DEF Windowed
      <4>2. Len(cs) <= MaxChunks
        BY <1>1, <3>3, <3>5
      <4> HIDE DEF Windowed
      <4> QED BY <3>1, <3>3, <3>5, <4>1, <4>2
    <3> QED BY <3>1, <3>4, <3>5
  <2>5. CASE Len(chunks') >= MaxChunks
    <3>1. next' = L + 2
      BY <1>4, <2>5 DEF PackParagraph, TextGoesOn, Full
    <3>2. ~(next' <= Len(input') + 1) /\ ~(Len(chunks') < MaxChunks) /\ next' \in 1 .. L + 2
      BY <1>0, <1>1, <2>4, <2>5, <3>1
    <3>3. TextRight'
      BY <1>0, <2>4, <2>5, <3>2 DEF TextRight
    <3> QED BY <1>0, <3>2, <3>3 DEF ChunkTyped
  <2>6. CASE ~(Len(chunks') >= MaxChunks)
    <3>1. next' = next + 1
      BY <1>4, <2>6 DEF PackParagraph, TextGoesOn, Full
    <3>2. ReadSoFar' = k + 1 /\ next' \in 1 .. L + 2 /\ ~Done' /\ Len(chunks') < MaxChunks
      BY <1>0, <1>1, <2>1, <2>4, <2>6, <3>1 DEF ReadSoFar, Done
    <3>3. TextRight'
      BY <1>0, <2>4, <3>2 DEF TextRight
    <3> QED BY <1>0, <3>2, <3>3 DEF ChunkTyped
  <2> QED BY <2>5, <2>6
<1> QED BY <1>3, <1>4

-----------------------------------------------------------------------------
(* The overlap of chunk_markdown.                                            *)

LeadsRight == leads \in Seq(Nat) /\ \A i \in 1 .. Len(leads) : leads[i] <= OverlapTokens

\* The words of a finished chunk are a number.
LEMMA WordsFacts ==
  ASSUME chunks \in Seq(AnyChunk), NEW i \in 1 .. Len(chunks)
  PROVE  chunks[i].size \in Nat /\ Markers(i) \in Nat /\ WordsOf(i) = chunks[i].size + Markers(i)
<1> DEFINE V == AnyChunk
           T == Seq(AnyPiece)
<1>1. chunks[i] \in V
  <2> HIDE DEF V
  <2>1. chunks \in Seq(V)
    BY DEF V
  <2> QED BY <2>1
<1>2. chunks[i].size \in Nat /\ chunks[i].pieces \in T
  <2> HIDE DEF T
  <2>1. V = [pieces : T, size : Nat, path : Seq(Nat)]
    BY DEF AnyChunk, T
  <2> QED BY <1>1, <2>1
<1>3. Len(chunks[i].pieces) \in Nat /\ DOMAIN chunks[i].pieces = 1 .. Len(chunks[i].pieces)
  BY <1>2
<1> DEFINE D == DOMAIN chunks[i].pieces
           H == {n \in D : input[chunks[i].pieces[n].block].kind = "heading"}
<1>4. IsFiniteSet(D)
  <2> DEFINE n == Len(chunks[i].pieces)
  <2>1. n \in Nat
    BY <1>3
  <2>2. D = 1 .. n
    BY <1>3
  <2> HIDE DEF n, D
  <2>3. IsFiniteSet(1 .. n)
    BY <2>1, FS_Interval
  <2> QED BY <2>2, <2>3
<1>5. H \in SUBSET D
  OBVIOUS
<1> HIDE DEF D
<1>6. IsFiniteSet(H)
  BY <1>4, <1>5, FS_Subset
<1>7. Cardinality(H) \in Nat
  BY <1>6, FS_CardinalityType
<1>8. Markers(i) = Cardinality(H)
  BY DEF Markers, D
<1> QED BY <1>2, <1>7, <1>8 DEF WordsOf

\* What is prepended is not longer than the overlap.
LEMMA OverlapRight ==
  ASSUME LeadsRight, chunks \in Seq(AnyChunk), PrependOverlap
  PROVE  LeadsRight'
<1> DEFINE i == Len(leads) + 1
<1>0. Len(leads) \in Nat /\ OverlapTokens \in Nat /\ i <= Len(chunks) /\ Len(chunks) \in Nat
  BY ChunkingAssumption DEF LeadsRight, PrependOverlap
<1>1. ASSUME i > 1 PROVE TailOverlap(i - 1) \in Nat /\ TailOverlap(i - 1) <= OverlapTokens
  <2> DEFINE j == i - 1
  <2>1. j \in 1 .. Len(chunks) /\ j \in 1 .. Len(leads)
    BY <1>0, <1>1
  <2> HIDE DEF j
  <2>2. WordsOf(j) \in Nat
    BY <2>1, WordsFacts
  <2>3. leads[j] \in Nat
    BY <2>1 DEF LeadsRight
  <2>4. TailOverlap(j) \in Nat /\ TailOverlap(j) <= OverlapTokens
    BY <1>0, <2>2, <2>3 DEF TailOverlap, Smaller
  <2> QED BY <2>4 DEF j
<1>2. PICK n \in Nat : leads' = Append(leads, n) /\ n <= OverlapTokens
  BY <1>0, <1>1 DEF PrependOverlap
<1>3. leads' \in Seq(Nat) /\ Len(leads') = Len(leads) + 1
      /\ \A m \in 1 .. Len(leads') : leads'[m] = IF m <= Len(leads) THEN leads[m] ELSE n
  BY <1>0, <1>2 DEF LeadsRight
<1> QED BY <1>0, <1>2, <1>3 DEF LeadsRight

ChunkRight == ChunkTyped /\ MarkdownRight /\ TextRight /\ LeadsRight

\* Both chunkers start with nothing read.
LEMMA ChunkStart == ChunkInit \/ ChunkIdle => ChunkRight
<1> SUFFICES ASSUME ChunkInit \/ ChunkIdle PROVE ChunkRight
  OBVIOUS
<1> USE NothingOpen
<1>1. input \in Seq(Blocks) /\ Len(input) \in Nat
  <2>1. CASE ChunkInit
    <3>1. PICK n \in 0 .. MaxBlocks : input \in [1 .. n -> IF chunker = "text" THEN Paragraphs ELSE Blocks]
      BY <2>1 DEF ChunkInit, Inputs
    <3> DEFINE B == Blocks
    <3>2. Paragraphs \subseteq B
      BY DEF Blocks
    <3>3. n \in Nat
      BY ChunkingAssumption
    <3>4. input \in [1 .. n -> B]
      BY <3>1, <3>2
    <3> HIDE DEF B
    <3>5. input \in Seq(B)
      BY <3>3, <3>4
    <3> QED BY <3>5 DEF B
  <2>2. CASE ChunkIdle
    BY <2>2 DEF ChunkIdle
  <2> QED BY <2>1, <2>2
<1>2. /\ next = 1 /\ current = <<>> /\ tokens = 0 /\ chunker \in {"text", "markdown"}
      /\ stack = <<>> /\ path = <<>> /\ body = FALSE /\ chunks = <<>> /\ leads = <<>>
  BY DEF ChunkInit, ChunkIdle
<1>3. ReadSoFar = 0 /\ ~Done /\ next <= Len(input) + 1 /\ next \in 1 .. Len(input) + 2
  BY <1>1, <1>2 DEF ReadSoFar, Done
<1>4. ChunkTyped
  BY <1>1, <1>2, <1>3 DEF ChunkTyped
<1>5. Crumbs(input, 0) = <<>>
  <2>1. UpTo(0) = <<>>
    BY DEF UpTo
  <2> QED BY <2>1, KeptEmpty DEF Crumbs
<1>6. Packed(input, <<>>, <<>>, 0, <<>>, 0)
  <2>1. FitsIn(input, <<>>, 0) /\ IsUnder(input, <<>>, <<>>)
    <3>1. FitsIn(input, <<>>, 0) /\ \A p : IsUnder(input, <<>>, p)
      BY EmptyChunk
    <3> QED BY <3>1
  <2>2. PiecesOf(<<>>) = <<>> /\ Wholes(input, 0) = <<>>
    BY DEF PiecesOf, Wholes
  <2>3. FlattenSeq(PiecesOf(<<>>)) \o <<>> = Wholes(input, 0)
    <3>1. <<>> \o <<>> = <<>>
      OBVIOUS
    <3> QED BY <2>2, <3>1, FlattenEmpty
  <2>4. \A i \in DOMAIN <<>> : FALSE
    OBVIOUS
  <2>5. \A i \in 1 .. 0 : FALSE
    OBVIOUS
  <2> QED BY <2>1, <2>3, <2>4, <2>5 DEF Packed
<1>7. Titles(input, <<>>)
  BY EmptyChunk
<1>8. MarkdownRight
  BY <1>2, <1>3, <1>5, <1>6, <1>7 DEF MarkdownRight
<1>9. TextRight
  <2>1. Windowed(input, <<>>, <<>>, 0, 0)
    <3>1. (\A i \in DOMAIN <<>> : FALSE) /\ \A i \in 1 .. 0 : FALSE
      OBVIOUS
    <3> QED BY <3>1, StrideFacts DEF Windowed
  <2>2. Len(<<>>) < MaxChunks /\ Len(<<>>) <= MaxChunks /\ \A i \in DOMAIN <<>> : FALSE
    BY StrideFacts
  <2> QED BY <1>2, <1>3, <2>1, <2>2 DEF TextRight
<1>10. LeadsRight
  BY <1>2 DEF LeadsRight
<1> QED BY <1>4, <1>8, <1>9, <1>10 DEF ChunkRight

\* Every step of a chunker, and every other step of the process.
LEMMA ChunkStep ==
  ASSUME ChunkRight, [ChunkNext]_chunkVars
  PROVE  ChunkRight'
<1>0. ChunkTyped /\ MarkdownRight /\ TextRight /\ LeadsRight
  BY DEF ChunkRight
<1>a. UNCHANGED leads => LeadsRight'
  BY <1>0 DEF LeadsRight
<1>1. CASE UNCHANGED chunkVars
  BY <1>0, <1>1, <1>a DEF chunkVars, ChunkRight, ChunkTyped, MarkdownRight, TextRight, ReadSoFar, Done
<1>2. CASE PackParagraph \/ FinishText
  <2>1. ChunkTyped' /\ TextRight'
    BY <1>0, <1>2, TextStep
  <2>2. chunker' # "markdown" /\ UNCHANGED leads
    BY <1>2 DEF PackParagraph, FinishText
  <2> QED BY <1>a, <2>1, <2>2 DEF ChunkRight, MarkdownRight
<1>3. CASE ReadHeading \/ ReadLargeCode \/ ReadBlock \/ FinishMarkdown
  <2>1. ChunkTyped' /\ MarkdownRight'
    BY <1>0, <1>3, HeadingRight, LargeCodeRight, BlockRight, MarkdownEnds
  <2>2. chunker' # "text" /\ UNCHANGED leads
    BY <1>3 DEF ReadHeading, ReadLargeCode, ReadBlock, FinishMarkdown
  <2> QED BY <1>a, <2>1, <2>2 DEF ChunkRight, TextRight
<1>4. CASE PrependOverlap
  <2>1. chunker = "markdown" /\ UNCHANGED <<chunker, input, next, current, tokens, stack, path, body, chunks>>
    BY <1>4 DEF PrependOverlap
  <2>2. chunks \in Seq(AnyChunk)
    BY <1>0, <2>1 DEF MarkdownRight, Packed
  <2>3. LeadsRight'
    BY <1>0, <1>4, <2>2, OverlapRight
  <2>4. ChunkTyped' /\ MarkdownRight'
    BY <1>0, <2>1 DEF ChunkTyped, MarkdownRight, ReadSoFar, Done
  <2>5. TextRight'
    BY <2>1 DEF TextRight
  <2> QED BY <2>3, <2>4, <2>5 DEF ChunkRight
<1> QED BY <1>1, <1>2, <1>3, <1>4 DEF ChunkNext

\* A behaviour of the process is one of the chunker.
LEMMA ChunkParts == ApiSpec => (ChunkInit \/ ChunkIdle) /\ [][ChunkNext]_chunkVars
<1>1. ApiInit => ChunkInit \/ ChunkIdle
  BY DEF ApiInit
<1>2. [ApiNext]_apiVars => [ChunkNext]_chunkVars
  BY DEF ApiNext, apiVars, OnlyResearch, OnlyLegacy, OnlyRuns, OnlySignals, OnlyIndex, OnlyRetrieval,
         OnlyChunking, ApiOnly, offlineVars, OnlySite, OnlyCorpus, OnlyRebuild, OnlyData, OnlyLife
<1> QED BY <1>1, <1>2, PTL DEF ApiSpec

\* The inductive invariant of the chunkers.
LEMMA ChunksStayRight == ApiSpec => []ChunkRight
BY ChunkParts, ChunkStart, ChunkStep, PTL

\* At the end of the input it says what the chunks hold.
LEMMA ChunkEnough == ChunkRight => NothingIsLost /\ WindowsHold /\ BreadcrumbIsTrue
<1> SUFFICES ASSUME ChunkTyped, MarkdownRight, TextRight, LeadsRight PROVE NothingIsLost /\ WindowsHold /\ BreadcrumbIsTrue
  BY DEF ChunkRight
<1> DEFINE L == Len(input)
<1>0. L \in Nat /\ MaxChunks \in Nat /\ DOMAIN input = 1 .. L /\ \A i \in 1 .. L : input[i].size \in Nat \ {0}
  <2>1. input \in Seq(Blocks)
    BY DEF ChunkTyped
  <2>2. \A i \in 1 .. L : input[i] \in Blocks
    BY <2>1
  <2> QED BY <2>1, <2>2, StrideFacts, BlockFacts
<1>1. Done => ReadSoFar = L
  <2>1. ReadSoFar = IF next <= L THEN next - 1 ELSE L
    BY DEF ReadSoFar
  <2>2. Done <=> next = L + 2
    BY DEF Done
  <2> HIDE DEF L
  <2> QED BY <1>0, <2>1, <2>2
<1>2. CASE chunker = "text"
  <2>1. WindowsHold
    BY <1>2 DEF WindowsHold, TextRight
  <2>2. BreadcrumbIsTrue
    BY <1>2 DEF BreadcrumbIsTrue
  <2>3. ASSUME Done, Len(chunks) < MaxChunks, NEW i \in DOMAIN input, NEW n \in 1 .. input[i].size PROVE Covered(i, n)
    <3>1. Windowed(input, chunks, current, tokens, L) /\ Len(chunks) \in Nat
      <4>1. Windowed(input, chunks, current, tokens, L)
        BY <1>1, <1>2, <2>3 DEF TextRight
      <4>2. chunks \in Seq(AnyChunk)
        BY <4>1 DEF Windowed
      <4> QED BY <4>1, <4>2
    <3>2. current = <<>>
      BY <1>0, <1>2, <2>3, <3>1 DEF TextRight
    <3>3. Holds(Pieces(chunks) \cup ToSet(current), i, n)
      BY <1>0, <2>3, <3>1 DEF Windowed
    <3> QED BY <3>2, <3>3, NothingOpen DEF Holds, Covered
  <2>4. NothingIsLost
    BY <1>2, <2>3 DEF NothingIsLost
  <2> QED BY <2>1, <2>2, <2>4
<1>3. CASE chunker = "markdown"
  <2>0. Packed(input, chunks, current, tokens, path, ReadSoFar)
    BY <1>3 DEF MarkdownRight
  <2>a. \A i \in DOMAIN chunks : FitsIn(input, chunks[i].pieces, chunks[i].size) /\ IsUnder(input, chunks[i].pieces, chunks[i].path)
    BY <2>0 DEF Packed, IsRight
  <2>1. WindowsHold
    <3>0. chunks \in Seq(AnyChunk) /\ DOMAIN chunks = 1 .. Len(chunks) /\ MaxTokens \in Nat /\ OverlapTokens \in Nat
      BY <2>0, ChunkingAssumption DEF Packed
    <3>1. ASSUME NEW i \in DOMAIN chunks, Length(i) > MaxTokens + OverlapTokens + Markers(i)
          PROVE  chunks[i].size > MaxTokens
      <4> DEFINE lead == IF i \in DOMAIN leads THEN leads[i] ELSE 0
                 size == chunks[i].size
                 marks == Markers(i)
      <4>1. lead \in Nat /\ lead <= OverlapTokens
        BY <3>0 DEF LeadsRight
      <4>2. size \in Nat /\ marks \in Nat /\ WordsOf(i) = size + marks
        BY <3>0, WordsFacts
      <4>3. Length(i) = size + marks + lead
        BY <4>2 DEF Length
      <4>4. size + marks + lead > MaxTokens + OverlapTokens + marks
        BY <3>1, <4>3
      <4> HIDE DEF lead, size, marks
      <4>5. size > MaxTokens
        BY <3>0, <4>1, <4>2, <4>4
      <4> QED BY <4>5 DEF size
    <3> QED BY <1>3, <2>a, <3>1 DEF WindowsHold, FitsIn
  <2>2. BreadcrumbIsTrue
    BY <2>a, BreadcrumbIs DEF BreadcrumbIsTrue, IsUnder
  <2>3. ASSUME Done PROVE /\ FlattenSeq(PiecesOf(chunks)) = Wholes(input, L)
                          /\ \A i \in DOMAIN input : \A n \in 1 .. input[i].size : Covered(i, n)
    <3>1. current = <<>> /\ ReadSoFar = L
      BY <1>1, <1>3, <2>3 DEF MarkdownRight
    <3>2. FlattenSeq(PiecesOf(chunks)) = Wholes(input, L)
      <4> DEFINE T == Seq(AnyPiece)
                 q == PiecesOf(chunks)
      <4>2. q \in Seq(T)
        BY <2>0, PiecesListed DEF Packed
      <4> HIDE DEF T
      <4> HIDE DEF q
      <4>3. FlattenSeq(q) \in T /\ <<>> \in T
        <5>1. q \in Seq(Seq(AnyPiece)) /\ <<>> \in Seq(AnyPiece)
          BY <4>2 DEF T
        <5>2. FlattenSeq(q) \in Seq(AnyPiece)
          BY <5>1, FlattenAppend
        <5> QED BY <5>1, <5>2 DEF T
      <4> DEFINE f == FlattenSeq(q)
      <4>4. f \in T
        BY <4>3
      <4> HIDE DEF f
      <4>5. f \o <<>> = f
        BY <4>4 DEF T
      <4>6. f \o <<>> = Wholes(input, L)
        BY <2>0, <3>1 DEF Packed, f, q
      <4> QED BY <4>5, <4>6 DEF f, q
    <3>3. ASSUME NEW i \in DOMAIN input, NEW n \in 1 .. input[i].size PROVE Covered(i, n)
      <4>1. WholeOf(input, i) \in Pieces(chunks)
        BY <1>0, <2>0, <3>1, NothingOpen DEF Packed
      <4>2. WholeOf(input, i).block = i /\ WholeOf(input, i).from < n /\ n <= WholeOf(input, i).to
        BY <1>0 DEF WholeOf, Piece
      <4> QED BY <4>1, <4>2 DEF Covered
    <3> QED BY <3>2, <3>3
  <2>4. PiecesOf(chunks) = [i \in DOMAIN chunks |-> chunks[i].pieces] /\ Wholes(input, L) = [i \in DOMAIN input |-> Whole(i)]
    BY <1>0 DEF PiecesOf, Wholes, WholeOf, Whole
  <2>5. NothingIsLost
    BY <2>3, <2>4 DEF NothingIsLost
  <2> QED BY <2>1, <2>2, <2>5
<1> QED BY <1>2, <1>3 DEF ChunkTyped

\* Both chunkers, for every input and window: each character of each block is in
\* some chunk unless the chunk limit cut the text, no chunk is over its window, and
\* none returned over its window and the overlap prepended to it, but a single
\* block or headings, and the breadcrumb of a chunk is the headings that its
\* first block of text stands under (chunk_text, chunk_markdown).
THEOREM ChunksLoseNothing == ApiSpec => [](NothingIsLost /\ WindowsHold /\ BreadcrumbIsTrue)
BY ChunksStayRight, ChunkEnough, PTL

-----------------------------------------------------------------------------
(* The identity of a URL (normalize_url).                                    *)

\* The greatest of some numbers up to N.
LEMMA MaxFacts ==
  ASSUME NEW N \in Nat, NEW S \in SUBSET (0 .. N), 0 \in S
  PROVE  Max(S) \in S /\ \A n \in S : n <= Max(S)
<1> DEFINE T == {N - n : n \in S}
<1>1. T \in SUBSET Nat /\ T # {}
  <2>1. ASSUME NEW n \in S PROVE N - n \in Nat
    <3>1. n \in 0 .. N
      OBVIOUS
    <3> QED BY <3>1
  <2>2. N - 0 \in T
    OBVIOUS
  <2> QED BY <2>1, <2>2
<1>2. PICK t \in T : \A k \in T : t <= k
  BY <1>1, LeastNatural
<1>3. PICK m \in S : t = N - m
  BY <1>2
<1>4. ASSUME NEW n \in S PROVE m >= n
  <2>1. n \in 0 .. N /\ m \in 0 .. N
    OBVIOUS
  <2>2. N - n \in T
    OBVIOUS
  <2>3. N - m <= N - n
    BY <1>2, <1>3, <2>2
  <2> QED BY <2>1, <2>3
<1>5. Max(S) \in S /\ \A n \in S : Max(S) >= n
  BY <1>4 DEF Max
<1> QED BY <1>5

(* A beginning of a sequence, one longer at a time.                          *)
LEMMA OneLonger ==
  ASSUME NEW X, NEW s \in Seq(X), NEW n \in Nat, n + 1 <= Len(s)
  PROVE  SubSeq(s, 1, n + 1) = Append(SubSeq(s, 1, n), s[n + 1])
<1> DEFINE a == SubSeq(s, 1, n + 1)
           p == SubSeq(s, 1, n)
           b == Append(p, s[n + 1])
<1>1. Len(s) \in Nat /\ n + 1 \in 1 .. Len(s) /\ s[n + 1] \in X
  OBVIOUS
<1>2. a \in Seq(X) /\ Len(a) = n + 1 /\ \A i \in 1 .. n + 1 : a[i] = s[i]
  BY <1>1
<1>3. p \in Seq(X) /\ Len(p) = n /\ \A i \in 1 .. n : p[i] = s[i]
  BY <1>1
<1> HIDE DEF a, p
<1>4. b \in Seq(X) /\ Len(b) = n + 1 /\ b[n + 1] = s[n + 1] /\ \A i \in 1 .. n : b[i] = p[i]
  BY <1>1, <1>3
<1> HIDE DEF b
<1>5. \A i \in 1 .. n + 1 : i \in 1 .. n \/ i = n + 1
  OBVIOUS
<1>6. \A i \in 1 .. n + 1 : a[i] = b[i]
  BY <1>2, <1>3, <1>4, <1>5
<1>7. a = [i \in 1 .. n + 1 |-> a[i]] /\ b = [i \in 1 .. n + 1 |-> b[i]]
  BY <1>2, <1>4
<1>8. a = b
  BY <1>6, <1>7
<1> QED BY <1>8 DEF a, b, p

\* A sequence is its longest beginning.
LEMMA WholeSequence ==
  ASSUME NEW X, NEW s \in Seq(X)
  PROVE  SubSeq(s, 1, Len(s)) = s /\ SubSeq(s, 1, 0) = <<>>
OBVIOUS

Fixed(s) == Unescaped(s) = s /\ s # "." /\ s # ".."
AllFixed(p) == \A i \in DOMAIN p : Fixed(p[i])

\* No dot segment is left, and what remains is normalised.
LEMMA DotsAreGone ==
  ASSUME NEW X, NEW s \in Seq(X), \A n \in 1 .. Len(s) : Unescaped(s[n]) = s[n]
  PROVE  RemoveDotSegments(s) \in Seq(X) /\ AllFixed(RemoveDotSegments(s))
<1> DEFINE L == Len(s)
<1>0. L \in Nat /\ \A n \in 1 .. L : s[n] \in X
  OBVIOUS
<1>1. PICK g : Resolves(g, X, s) /\ RemoveDotSegments(s) = g[L]
  BY DotsLoop
<1> DEFINE Held == {n \in Nat : n <= L => AllFixed(g[n])}
<1>2. 0 \in Held
  BY <1>1 DEF Resolves, AllFixed
<1>3. ASSUME NEW n \in Held PROVE n + 1 \in Held
  <2> SUFFICES ASSUME n + 1 <= L PROVE AllFixed(g[n + 1])
    OBVIOUS
  <2> DEFINE x == s[n + 1]
             q == g[n]
             p == g[n + 1]
  <2>1. n \in Nat /\ n + 1 \in 1 .. L /\ (n + 1) - 1 = n /\ n \in 0 .. L /\ AllFixed(q)
    BY <1>0
  <2>2. p = Resolve(q, x) /\ x \in X /\ q \in Seq(X) /\ Unescaped(x) = x
    BY <1>0, <1>1, <2>1 DEF Resolves
  <2> HIDE DEF x, q, p
  <2>3. CASE x = "."
    BY <2>1, <2>2, <2>3 DEF Resolve, p
  <2>4. CASE x = ".."
    <3>1. p = IF q = <<>> THEN q ELSE Front(q)
      BY <2>2, <2>4 DEF Resolve
    <3>2. CASE q # <<>>
      <4>1. Len(q) \in Nat /\ Len(q) - 1 \in Nat /\ p = SubSeq(q, 1, Len(q) - 1)
        BY <2>2, <3>1, <3>2 DEF Front
      <4>2. DOMAIN p = 1 .. Len(q) - 1 /\ \A i \in 1 .. Len(q) - 1 : i \in DOMAIN q /\ p[i] = q[i]
        BY <2>2, <4>1
      <4>3. AllFixed(p)
        BY <2>1, <4>2 DEF AllFixed
      <4> QED BY <4>3 DEF p
    <3>3. CASE q = <<>>
      BY <2>1, <3>1, <3>3 DEF p
    <3> QED BY <3>2, <3>3
  <2>5. CASE x # "." /\ x # ".."
    <3>1. p = Append(q, x)
      BY <2>2, <2>5 DEF Resolve
    <3>2. DOMAIN p = 1 .. Len(q) + 1 /\ DOMAIN q = 1 .. Len(q) /\ p[Len(q) + 1] = x /\ Len(q) \in Nat
          /\ \A i \in 1 .. Len(q) : p[i] = q[i]
      BY <2>2, <3>1
    <3>3. \A i \in 1 .. Len(q) + 1 : i \in 1 .. Len(q) \/ i = Len(q) + 1
      BY <3>2
    <3>4. Fixed(x)
      BY <2>2, <2>5 DEF Fixed
    <3>5. AllFixed(p)
      BY <2>1, <3>2, <3>3, <3>4 DEF AllFixed
    <3> QED BY <3>5 DEF p
  <2> QED BY <2>3, <2>4, <2>5 DEF p
<1>4. Held = Nat
  <2>1. Held \in SUBSET Nat
    OBVIOUS
  <2> HIDE DEF Held
  <2> QED BY <1>2, <1>3, <2>1, NatSetInduction
<1>5. L \in Held /\ L <= L
  BY <1>0, <1>4
<1>6. g[L] \in Seq(X)
  BY <1>0, <1>1 DEF Resolves
<1> QED BY <1>1, <1>5, <1>6

\* A path without dot segments stays as it is.
LEMMA NoDotsNoChange ==
  ASSUME NEW X, NEW s \in Seq(X), AllFixed(s)
  PROVE  RemoveDotSegments(s) = s
<1> DEFINE L == Len(s)
<1>0. L \in Nat /\ (\A n \in 1 .. L : s[n] \in X /\ n \in DOMAIN s) /\ SubSeq(s, 1, L) = s /\ SubSeq(s, 1, 0) = <<>>
  BY WholeSequence
<1>1. PICK g : Resolves(g, X, s) /\ RemoveDotSegments(s) = g[L]
  BY DotsLoop
<1> DEFINE Held == {n \in Nat : n <= L => g[n] = SubSeq(s, 1, n)}
<1>2. 0 \in Held
  BY <1>0, <1>1 DEF Resolves
<1>3. ASSUME NEW n \in Held PROVE n + 1 \in Held
  <2> SUFFICES ASSUME n + 1 <= L PROVE g[n + 1] = SubSeq(s, 1, n + 1)
    OBVIOUS
  <2>1. n \in Nat /\ n + 1 \in 1 .. L /\ (n + 1) - 1 = n /\ g[n] = SubSeq(s, 1, n)
    BY <1>0
  <2>2. g[n + 1] = Resolve(g[n], s[n + 1])
    BY <1>1, <2>1 DEF Resolves
  <2>3. s[n + 1] # "." /\ s[n + 1] # ".."
    BY <1>0, <2>1 DEF AllFixed, Fixed
  <2>4. g[n + 1] = Append(SubSeq(s, 1, n), s[n + 1])
    BY <2>1, <2>2, <2>3 DEF Resolve
  <2>5. SubSeq(s, 1, n + 1) = Append(SubSeq(s, 1, n), s[n + 1])
    BY <2>1, OneLonger
  <2> QED BY <2>4, <2>5
<1>4. Held = Nat
  <2>1. Held \in SUBSET Nat
    OBVIOUS
  <2> HIDE DEF Held
  <2> QED BY <1>2, <1>3, <2>1, NatSetInduction
<1>5. L \in Held /\ L <= L
  BY <1>0, <1>4
<1> QED BY <1>0, <1>1, <1>5

\* No empty segment is left at the end, and what has none there stays.
LEMMA SlashesAreGone ==
  ASSUME NEW X, NEW s \in Seq(X)
  PROVE  /\ WithoutSlashes(s) \in Seq(X) /\ Len(WithoutSlashes(s)) \in 0 .. Len(s)
         /\ \A i \in DOMAIN WithoutSlashes(s) : i \in DOMAIN s /\ WithoutSlashes(s)[i] = s[i]
         /\ WithoutSlashes(s) = <<>> \/ Last(WithoutSlashes(s)) # Blank
         /\ s = <<>> \/ Last(s) # Blank => WithoutSlashes(s) = s
<1> DEFINE S == {0} \cup {i \in DOMAIN s : s[i] # Blank}
           M == Max(S)
           p == WithoutSlashes(s)
           N == Len(s)
<1>0. N \in Nat /\ DOMAIN s = 1 .. N /\ (s = <<>> <=> N = 0) /\ Last(s) = s[N] /\ SubSeq(s, 1, N) = s
  BY WholeSequence DEF Last
<1>1. M \in S /\ \A n \in S : n <= M
  <2>1. S \in SUBSET (0 .. N) /\ 0 \in S
    BY <1>0
  <2> HIDE DEF S, N
  <2> QED BY <1>0, <2>1, MaxFacts
<1>2. M \in 0 .. N /\ (M # 0 => s[M] # Blank)
  BY <1>0, <1>1
<1>3. p = SubSeq(s, 1, M)
  BY DEF WithoutSlashes
<1>4. p \in Seq(X) /\ Len(p) = M /\ DOMAIN p = 1 .. M /\ \A i \in 1 .. M : i \in 1 .. N /\ p[i] = s[i]
  <2> HIDE DEF M, p
  <2> QED BY <1>0, <1>2, <1>3
<1>5. N # 0 /\ s[N] # Blank => M = N
  <2> SUFFICES ASSUME N # 0, s[N] # Blank PROVE M = N
    OBVIOUS
  <2>1. N \in S
    BY <1>0
  <2> HIDE DEF M, S, N
  <2>2. N <= M /\ M <= N /\ N \in Nat /\ M \in Nat
    <3>1. N <= M
      BY <1>1, <2>1
    <3>2. M \in 0 .. N /\ N \in Nat
      BY <1>0, <1>2
    <3> QED BY <3>1, <3>2
  <2> QED BY <2>2
<1> HIDE DEF M, S
<1>6. p = <<>> \/ Last(p) # Blank
  <2>1. CASE M = 0
    BY <1>4, <2>1
  <2>2. CASE M # 0
    <3>1. M \in 1 .. M /\ Last(p) = p[M]
      BY <1>2, <1>4, <2>2 DEF Last
    <3> QED BY <1>2, <1>4, <2>2, <3>1
  <2> QED BY <2>1, <2>2
<1>7. s = <<>> \/ Last(s) # Blank => p = s
  <2>1. CASE N = 0
    <3>1. M = N
      BY <1>0, <1>2, <2>1
    <3> QED BY <1>0, <1>3, <3>1
  <2>2. CASE N # 0 /\ s[N] # Blank
    BY <1>0, <1>3, <1>5, <2>2
  <2> QED BY <1>0, <2>1, <2>2
<1> QED BY <1>0, <1>2, <1>4, <1>6, <1>7

\* The query keys that are kept, and keys of which none is dropped.
LEMMA KeysAreKept ==
  ASSUME NEW X, NEW s \in Seq(X)
  PROVE  /\ KeptKeys(s) \in Seq(X) /\ \A i \in DOMAIN KeptKeys(s) : KeptKeys(s)[i] \notin Tracking
         /\ (\A i \in DOMAIN s : s[i] \notin Tracking) => KeptKeys(s) = s
<1> DEFINE L == Len(s)
           Untracked(q) == \A i \in DOMAIN q : q[i] \notin Tracking
<1>0. L \in Nat /\ (\A n \in 1 .. L : s[n] \in X /\ n \in DOMAIN s) /\ SubSeq(s, 1, L) = s /\ SubSeq(s, 1, 0) = <<>>
  BY WholeSequence
<1>1. PICK g : KeepsKeys(g, X, s) /\ KeptKeys(s) = g[L]
  BY KeysLoop
<1> DEFINE Good(n) == Untracked(g[n]) /\ (Untracked(s) => g[n] = SubSeq(s, 1, n))
           Held == {n \in Nat : n <= L => Good(n)}
<1>2. 0 \in Held
  BY <1>0, <1>1 DEF KeepsKeys
<1>3. ASSUME NEW n \in Held PROVE n + 1 \in Held
  <2> SUFFICES ASSUME n + 1 <= L PROVE Good(n + 1)
    OBVIOUS
  <2> DEFINE x == s[n + 1]
             q == g[n]
             p == g[n + 1]
             a == SubSeq(s, 1, n)
             b == SubSeq(s, 1, n + 1)
  <2>1. n \in Nat /\ n + 1 \in 1 .. L /\ (n + 1) - 1 = n /\ n \in 0 .. L /\ Untracked(q) /\ (Untracked(s) => q = a)
    BY <1>0
  <2>2. p = (IF x \in Tracking THEN q ELSE Append(q, x)) /\ x \in X /\ q \in Seq(X)
    BY <1>0, <1>1, <2>1 DEF KeepsKeys
  <2>3. b = Append(a, x)
    BY <2>1, OneLonger
  <2>4. Untracked(s) => x \notin Tracking
    BY <1>0, <2>1
  <2> HIDE DEF x, q, p, a, b
  <2>5. Untracked(p)
    <3>1. CASE x \in Tracking
      BY <2>1, <2>2, <3>1
    <3>2. CASE x \notin Tracking
      <4>1. DOMAIN p = 1 .. Len(q) + 1 /\ DOMAIN q = 1 .. Len(q) /\ p[Len(q) + 1] = x /\ Len(q) \in Nat
            /\ \A i \in 1 .. Len(q) : p[i] = q[i]
        BY <2>2, <3>2
      <4>2. \A i \in 1 .. Len(q) + 1 : i \in 1 .. Len(q) \/ i = Len(q) + 1
        BY <4>1
      <4> QED BY <2>1, <3>2, <4>1, <4>2
    <3> QED BY <3>1, <3>2
  <2>6. Untracked(s) => p = b
    <3> HIDE DEF Untracked
    <3> QED BY <2>1, <2>2, <2>3, <2>4
  <2> HIDE DEF Untracked
  <2> QED BY <2>5, <2>6 DEF p, b
<1>4. Held = Nat
  <2>1. Held \in SUBSET Nat
    OBVIOUS
  <2> HIDE DEF Held
  <2> QED BY <1>2, <1>3, <2>1, NatSetInduction
<1>5. Good(L)
  <2> HIDE DEF Good
  <2>1. L \in Held /\ L <= L
    BY <1>0, <1>4
  <2> QED BY <2>1
<1>6. g[L] \in Seq(X)
  BY <1>0, <1>1 DEF KeepsKeys
<1> QED BY <1>0, <1>1, <1>5, <1>6

\* A segment is normalised once.
LEMMA UnescapedFacts == \A x \in STRING : Unescaped(x) \in STRING /\ Unescaped(Unescaped(x)) = Unescaped(x)
BY SiteAssumption DEF Unescaped

\* A normal path is its own normal path, and has no dot segments.
LEMMA PathIsStable ==
  ASSUME NEW path1 \in Seq(STRING)
  PROVE  /\ NormalPath(path1) \in Seq(STRING) /\ AllFixed(NormalPath(path1))
         /\ NormalPath(NormalPath(path1)) = NormalPath(path1)
<1> DEFINE X == STRING
           a == [i \in DOMAIN path1 |-> Unescaped(path1[i])]
           b == RemoveDotSegments(a)
           c == WithoutSlashes(b)
           d == [i \in DOMAIN c |-> Unescaped(c[i])]
<1>0. path1 \in Seq(X) /\ \A x \in X : Unescaped(x) \in X /\ Unescaped(Unescaped(x)) = Unescaped(x)
  BY UnescapedFacts
<1> HIDE DEF X
<1>1. a \in Seq(X) /\ \A n \in 1 .. Len(a) : Unescaped(a[n]) = a[n]
  <2>1. DOMAIN path1 = 1 .. Len(path1) /\ Len(path1) \in Nat /\ \A i \in 1 .. Len(path1) : path1[i] \in X
    BY <1>0
  <2>2. a \in [1 .. Len(path1) -> X] /\ \A i \in 1 .. Len(path1) : a[i] = Unescaped(path1[i])
    BY <1>0, <2>1
  <2> HIDE DEF a
  <2>3. a \in Seq(X) /\ Len(a) = Len(path1)
    BY <2>1, <2>2
  <2> QED BY <1>0, <2>1, <2>2, <2>3
<1> HIDE DEF a
<1>2. b \in Seq(X) /\ AllFixed(b)
  BY <1>1, DotsAreGone
<1> HIDE DEF b
<1>3. /\ c \in Seq(X) /\ \A i \in DOMAIN c : i \in DOMAIN b /\ c[i] = b[i]
      /\ c = <<>> \/ Last(c) # Blank
  BY <1>2, SlashesAreGone
<1> HIDE DEF c
<1>4. AllFixed(c)
  BY <1>2, <1>3 DEF AllFixed
<1>5. d = c
  <2>1. \A i \in DOMAIN c : Unescaped(c[i]) = c[i]
    BY <1>4 DEF AllFixed, Fixed
  <2>2. c = [i \in DOMAIN c |-> c[i]]
    BY <1>3
  <2> QED BY <2>1, <2>2
<1>6. RemoveDotSegments(c) = c
  BY <1>3, <1>4, NoDotsNoChange
<1>7. WithoutSlashes(c) = c
  BY <1>3, SlashesAreGone
<1>8. NormalPath(path1) = c
  BY DEF NormalPath, a, b, c
<1>9. NormalPath(c) = c
  BY <1>5, <1>6, <1>7 DEF NormalPath
<1> QED BY <1>3, <1>4, <1>8, <1>9 DEF X

\* A normalised URL normalises to itself.
LEMMA UrlIsStable ==
  ASSUME NEW u, u # NoUrl => /\ u = [origin |-> u.origin, path |-> u.path, query |-> u.query]
                             /\ u.path \in Seq(STRING) /\ u.query \in Seq(STRING),
         NormalizeUrl(u) # NoUrl
  PROVE  /\ NormalizeUrl(NormalizeUrl(u)) = NormalizeUrl(u)
         /\ "." \notin ToSet(NormalizeUrl(u).path) /\ ".." \notin ToSet(NormalizeUrl(u).path)
<1> DEFINE o == IF u.origin \in DOMAIN Spelled THEN Spelled[u.origin] ELSE u.origin
           p == NormalPath(u.path)
           q == KeptKeys(u.query)
           v == [origin |-> o, path |-> p, query |-> q]
           o2 == IF v.origin \in DOMAIN Spelled THEN Spelled[v.origin] ELSE v.origin
           p2 == NormalPath(v.path)
           q2 == KeptKeys(v.query)
           v2 == [origin |-> o2, path |-> p2, query |-> q2]
<1>1. u # NoUrl /\ u \notin TooLong /\ v \notin TooLong /\ NormalizeUrl(u) = v /\ v # NoUrl
  BY DEF NormalizeUrl
<1>2. u.path \in Seq(STRING) /\ u.query \in Seq(STRING)
  BY <1>1
<1>3. v.origin = o /\ v.path = p /\ v.query = q
  OBVIOUS
<1>4. o2 = o
  BY <1>3, SiteAssumption
<1>5. p2 = p /\ AllFixed(p) /\ p \in Seq(STRING)
  BY <1>2, <1>3, PathIsStable
<1>6. q2 = q
  <2> DEFINE X == STRING
             k == u.query
  <2>1. k \in Seq(X)
    BY <1>2
  <2> HIDE DEF X, k
  <2>2. KeptKeys(k) \in Seq(X) /\ \A i \in DOMAIN KeptKeys(k) : KeptKeys(k)[i] \notin Tracking
    BY <2>1, KeysAreKept
  <2> DEFINE m == KeptKeys(k)
  <2>3. m \in Seq(X) /\ \A i \in DOMAIN m : m[i] \notin Tracking
    BY <2>2
  <2> HIDE DEF m
  <2>4. KeptKeys(m) = m
    BY <2>3, KeysAreKept
  <2> QED BY <1>3, <2>4 DEF m, k
<1>7. NormalizeUrl(v) = IF v2 \in TooLong THEN NoUrl ELSE v2
  <2> HIDE DEF v
  <2> QED BY <1>1 DEF NormalizeUrl
<1>8. v2 = v
  BY <1>4, <1>5, <1>6
<1>9. "." \notin ToSet(p) /\ ".." \notin ToSet(p)
  <2> HIDE DEF p
  <2>1. \A i \in DOMAIN p : p[i] # "." /\ p[i] # ".."
    BY <1>5 DEF AllFixed, Fixed
  <2> QED BY <2>1 DEF ToSet
<1> HIDE DEF v, v2
<1> QED BY <1>1, <1>3, <1>7, <1>8, <1>9

-----------------------------------------------------------------------------
(* The scan of a page (discover_links).                                      *)

UrlAt(i) == NormalizeUrl(scan.page[i].url)

ScanTyped ==
    /\ scan = [page |-> scan.page, next |-> scan.next, output |-> scan.output, rejected |-> scan.rejected]
    /\ scan.page \in Seq(PageElements)
    /\ scan.next \in 1 .. Len(scan.page) + 1
    /\ scan.output \in Seq({UrlAt(i) : i \in DOMAIN scan.page})
    /\ DOMAIN scan.rejected = Reasons

(* The output is exactly the URLs of the admissible elements passed, and     *)
(* those of the first ones alone.                                            *)
ScanRight ==
    /\ ScanTyped /\ ScanIsExact
    /\ \A j \in 1 .. scan.next - 1 : Admissible(j) => UrlAt(j) \in ToSet(scan.output)
    /\ \A x \in ToSet(scan.output) : \E j \in FirstOnes : x = UrlAt(j)

\* A scan starts on some page, at its first element.
LEMMA InitialScans ==
  ASSUME SiteInit
  PROVE  \E p \in Seq(PageElements) : scan = [EmptyScan EXCEPT !.page = p]
<1>1. MaxElements \in Nat
  BY SiteAssumption
<1>2. CASE SiteIdle
  <2>1. scan = [EmptyScan EXCEPT !.page = <<>>] /\ <<>> \in Seq(PageElements)
    BY <1>2 DEF SiteIdle, EmptyScan
  <2> QED BY <2>1
<1>3. CASE ~SiteIdle
  <2>1. PICK p \in TupleOf(PageElements, MaxElements) : scan = [EmptyScan EXCEPT !.page = p]
    BY <1>3 DEF SiteInit
  <2> DEFINE E == PageElements
  <2>2. p \in [1 .. MaxElements -> E]
    BY <2>1 DEF TupleOf
  <2> HIDE DEF E
  <2>3. p \in Seq(E)
    BY <1>1, <2>2
  <2> QED BY <2>1, <2>3 DEF E
<1> QED BY <1>2, <1>3

\* Nothing is listed before the first element.
LEMMA ScanStart == SiteInit => ScanRight
<1> SUFFICES ASSUME SiteInit PROVE ScanRight
  OBVIOUS
<1>1. PICK p \in Seq(PageElements) : scan = [EmptyScan EXCEPT !.page = p]
  BY InitialScans
<1>2. /\ scan = [page |-> p, next |-> 1, output |-> <<>>, rejected |-> [r \in Reasons |-> 0]]
      /\ Len(p) \in Nat
  BY <1>1 DEF EmptyScan
<1>3. /\ scan.page = p /\ scan.next = 1 /\ scan.output = <<>> /\ scan.rejected = [r \in Reasons |-> 0]
  BY <1>2
<1>4. ScanTyped
  <2>1. 1 \in 1 .. Len(p) + 1
    BY <1>2
  <2>2. DOMAIN scan.rejected = Reasons
    BY <1>3
  <2>3. <<>> \in Seq({UrlAt(i) : i \in DOMAIN scan.page})
    OBVIOUS
  <2> QED BY <1>2, <1>3, <2>1, <2>2, <2>3 DEF ScanTyped
<1>5. 1 .. scan.next - 1 = {} /\ ToSet(scan.output) = {}
  BY <1>3, NothingOpen
<1>6. FirstOnes = {}
  BY <1>5 DEF FirstOnes
<1>7. ScanIsExact
  <2>1. Cardinality({}) = 0 /\ Len(scan.output) = 0 /\ ChildCap \in Nat
    BY <1>3, SiteAssumption, FS_EmptySet
  <2>2. \A r \in Reasons : {i \in 1 .. scan.next - 1 :
              InScope(scan.page[i]) /\ TrapReason(NormalizeUrl(scan.page[i].url)) = r} = {}
    BY <1>5
  <2>3. \A r \in Reasons : scan.rejected[r] = 0
    BY <1>3
  <2>4. Len(scan.output) = Cardinality(FirstOnes) /\ Len(scan.output) <= ChildCap
    BY <1>6, <2>1
  <2>5. \A i \in FirstOnes : FALSE
    BY <1>6
  <2>6. \A r \in Reasons : scan.rejected[r] = Cardinality({i \in 1 .. scan.next - 1 :
              InScope(scan.page[i]) /\ TrapReason(NormalizeUrl(scan.page[i].url)) = r})
    BY <2>1, <2>2, <2>3
  <2> QED BY <2>4, <2>5, <2>6 DEF ScanIsExact
<1> QED BY <1>4, <1>5, <1>6, <1>7 DEF ScanRight

\* One element more: the numbers of the first ones and of the traps.
LEMMA OneMore ==
  ASSUME NEW n \in Nat, NEW S, S \subseteq 1 .. n - 1
  PROVE  /\ IsFiniteSet(S) /\ Cardinality(S) \in Nat /\ n \notin S
         /\ IsFiniteSet(S \cup {n}) /\ Cardinality(S \cup {n}) = Cardinality(S) + 1
<1>1. IsFiniteSet(1 .. n - 1)
  BY FS_Interval
<1>2. IsFiniteSet(S) /\ Cardinality(S) \in Nat
  BY <1>1, FS_Subset, FS_CardinalityType
<1>3. n \notin S
  OBVIOUS
<1> QED BY <1>2, <1>3, FS_AddElement

(* The first ones among the elements up to n.                                *)
FirstsTo(n) ==
    {i \in 1 .. n : Admissible(i) /\ \A j \in 1 .. i - 1 : Admissible(j) => UrlAt(j) # UrlAt(i)}
TrappedTo(r, n) == {i \in 1 .. n : InScope(scan.page[i]) /\ TrapReason(UrlAt(i)) = r}

\* One element is passed, counted as a trap, or listed.
LEMMA ScanStep ==
  ASSUME ScanRight, DiscoverLinks
  PROVE  ScanRight'
<1> DEFINE n == scan.next
           e == scan.page[n]
           u == UrlAt(n)
           reason == TrapReason(u)
           F == FirstOnes
           out == scan.output
           G == FirstsTo(n)
<1>1. /\ scan.page \in Seq(PageElements) /\ n \in 1 .. Len(scan.page) /\ n \in Nat /\ Len(scan.page) \in Nat
      /\ ~ScanFull(scan) /\ scan' = Scanned(scan)
  <2>1. ~(scan.next > Len(scan.page)) /\ ~ScanFull(scan) /\ scan' = Scanned(scan)
    BY DEF DiscoverLinks, ScanDone
  <2>2. scan.page \in Seq(PageElements) /\ scan.next \in 1 .. Len(scan.page) + 1
    BY DEF ScanRight, ScanTyped
  <2>3. Len(scan.page) \in Nat
    BY <2>2
  <2> QED BY <2>1, <2>2, <2>3
<1>2. /\ scan = [page |-> scan.page, next |-> n, output |-> out, rejected |-> scan.rejected]
      /\ DOMAIN scan.rejected = Reasons /\ out \in Seq({UrlAt(i) : i \in DOMAIN scan.page})
  BY DEF ScanRight, ScanTyped
<1>3. /\ Len(out) = Cardinality(F) /\ Len(out) \in Nat /\ Len(out) < ChildCap /\ ChildCap \in Nat
      /\ \A i \in F : out[Cardinality({j \in F : j <= i})] = UrlAt(i)
      /\ \A r \in Reasons : scan.rejected[r] = Cardinality(TrappedTo(r, n - 1))
      /\ \A j \in 1 .. n - 1 : Admissible(j) => UrlAt(j) \in ToSet(out)
      /\ \A x \in ToSet(out) : \E j \in F : x = UrlAt(j)
  <2>1. ChildCap \in Nat /\ Len(out) \in Nat
    BY <1>2, SiteAssumption
  <2>2. Len(out) < ChildCap
    BY <1>1, <2>1 DEF ScanFull
  <2> QED BY <2>1, <2>2 DEF ScanRight, ScanIsExact, TrappedTo, UrlAt
<1>4. /\ scan'.page = scan.page /\ scan'.next = n + 1
      /\ scan' = [page |-> scan'.page, next |-> scan'.next, output |-> scan'.output, rejected |-> scan'.rejected]
      /\ DOMAIN scan'.rejected = Reasons
      /\ \/ ~InScope(e) /\ scan'.output = out /\ scan'.rejected = scan.rejected
         \/ InScope(e) /\ reason # "none" /\ scan'.output = out
            /\ scan'.rejected = [scan.rejected EXCEPT ![reason] = @ + 1]
         \/ InScope(e) /\ reason = "none" /\ u \in ToSet(out) /\ scan'.output = out /\ scan'.rejected = scan.rejected
         \/ InScope(e) /\ reason = "none" /\ u \notin ToSet(out) /\ scan'.output = Append(out, u)
            /\ scan'.rejected = scan.rejected
  <2> DEFINE pg == scan.page
             rj == scan.rejected
             passed == [page |-> pg, next |-> n + 1, output |-> out, rejected |-> rj]
  <2>0. scan = [page |-> pg, next |-> n, output |-> out, rejected |-> rj] /\ DOMAIN rj = Reasons
    BY <1>2
  <2>1. [scan EXCEPT !.next = @ + 1] = passed
    BY <2>0
  <2>2. scan' = IF ~InScope(e) THEN passed
                ELSE IF reason # "none" THEN [passed EXCEPT !.rejected[reason] = @ + 1]
                ELSE IF u \in ToSet(out) THEN passed
                ELSE [passed EXCEPT !.output = Append(@, u)]
    BY <1>1, <2>1 DEF Scanned, ListedBefore, UrlAt
  <2> HIDE DEF pg, rj, n, e, u, reason, out
  <2>3. CASE ~InScope(e)
    BY <2>0, <2>2, <2>3 DEF pg, rj
  <2>4. CASE InScope(e) /\ reason # "none"
    <3> DEFINE rk == [rj EXCEPT ![reason] = @ + 1]
    <3>1. scan' = [page |-> pg, next |-> n + 1, output |-> out, rejected |-> rk]
      BY <2>2, <2>4
    <3>2. DOMAIN rk = Reasons
      BY <2>0
    <3> HIDE DEF rk
    <3>3. scan'.page = pg /\ scan'.next = n + 1 /\ scan'.output = out /\ scan'.rejected = rk
      BY <3>1
    <3> QED BY <2>4, <3>1, <3>2, <3>3 DEF pg, rj, rk
  <2>5. CASE InScope(e) /\ reason = "none" /\ u \in ToSet(out)
    BY <2>0, <2>2, <2>5 DEF pg, rj
  <2>6. CASE InScope(e) /\ reason = "none" /\ u \notin ToSet(out)
    <3> DEFINE op == Append(out, u)
    <3>1. scan' = [page |-> pg, next |-> n + 1, output |-> op, rejected |-> rj]
      BY <2>2, <2>6
    <3> HIDE DEF op
    <3>2. scan'.page = pg /\ scan'.next = n + 1 /\ scan'.output = op /\ scan'.rejected = rj
      BY <3>1
    <3> QED BY <2>0, <2>6, <3>1, <3>2 DEF pg, rj, op
  <2> QED BY <2>3, <2>4, <2>5, <2>6
<1>5. /\ \A i : UrlAt(i)' = UrlAt(i) /\ (Admissible(i)' <=> Admissible(i))
      /\ FirstOnes' = G
      /\ F = FirstsTo(n - 1)
      /\ Admissible(n) <=> InScope(e) /\ reason = "none"
  <2>1. \A i : UrlAt(i)' = UrlAt(i) /\ (Admissible(i)' <=> Admissible(i))
    BY <1>4 DEF UrlAt, Admissible
  <2>2. (n + 1) - 1 = n
    BY <1>1
  <2>3. FirstOnes' = G
    BY <1>4, <2>1, <2>2 DEF FirstOnes, FirstsTo, UrlAt
  <2>4. F = FirstsTo(n - 1)
    BY DEF FirstOnes, FirstsTo, UrlAt
  <2>5. Admissible(n) <=> InScope(e) /\ reason = "none"
    BY DEF Admissible, UrlAt
  <2> QED BY <2>1, <2>3, <2>4, <2>5
<1>6. \A i \in 1 .. n : i \in 1 .. n - 1 \/ i = n
  BY <1>1
<1>7. \A i \in 1 .. n - 1 : i \in 1 .. n /\ i # n
  BY <1>1
<1>8. \A r \in Reasons : scan'.rejected[r] = Cardinality(TrappedTo(r, n))
  <2> SUFFICES ASSUME NEW r \in Reasons PROVE scan'.rejected[r] = Cardinality(TrappedTo(r, n))
    OBVIOUS
  <2> DEFINE S == TrappedTo(r, n - 1)
  <2>1. TrappedTo(r, n) = IF InScope(e) /\ reason = r THEN S \cup {n} ELSE S
    BY <1>1, <1>6, <1>7 DEF TrappedTo
  <2>2. S \subseteq 1 .. n - 1 /\ r # "none"
    BY DEF TrappedTo, Reasons
  <2>3. scan.rejected[r] = Cardinality(S)
    BY <1>3
  <2> HIDE DEF S
  <2>4. Cardinality(S) \in Nat /\ Cardinality(S \cup {n}) = Cardinality(S) + 1
    BY <1>1, <2>2, OneMore
  <2>5. scan'.rejected[r] = IF InScope(e) /\ reason = r THEN scan.rejected[r] + 1 ELSE scan.rejected[r]
    BY <1>2, <1>4, <2>2
  <2> QED BY <2>1, <2>3, <2>4, <2>5
<1> HIDE DEF e, reason, F, G
<1>9. CASE scan'.output = out /\ (Admissible(n) => u \in ToSet(out))
  <2>1. n \notin G
    <3> SUFFICES ASSUME Admissible(n) PROVE n \notin G
      BY DEF G, FirstsTo
    <3>1. PICK j \in F : u = UrlAt(j)
      BY <1>3, <1>9
    <3>2. j \in 1 .. n - 1 /\ Admissible(j)
      BY <1>5 DEF FirstsTo
    <3> QED BY <3>1, <3>2 DEF G, FirstsTo
  <2>2. G = F
    <3>1. \A i \in G : i \in F
      BY <1>5, <1>6, <2>1 DEF G, FirstsTo
    <3>2. \A i \in F : i \in G
      BY <1>5, <1>7 DEF G, FirstsTo
    <3> QED BY <3>1, <3>2
  <2>3. FirstOnes' = F
    BY <1>5, <2>2
  <2>4. \A i \in F : out[Cardinality({j \in F : j <= i})] = UrlAt(i)
    BY <1>3
  <2>5. ScanIsExact'
    <3>1. Len(scan'.output) = Cardinality(FirstOnes') /\ Len(scan'.output) <= ChildCap
      BY <1>3, <1>9, <2>3
    <3>2. \A i \in FirstOnes' : scan'.output[Cardinality({j \in FirstOnes' : j <= i})] = UrlAt(i)'
      BY <1>5, <1>9, <2>3, <2>4
    <3>3. \A r \in Reasons : scan'.rejected[r] = Cardinality({i \in 1 .. scan'.next - 1 :
              InScope(scan'.page[i]) /\ TrapReason(NormalizeUrl(scan'.page[i].url)) = r})
      <4>1. scan'.next - 1 = n
        BY <1>1, <1>4
      <4> QED BY <1>4, <1>8, <4>1 DEF TrappedTo, UrlAt
    <3> QED BY <3>1, <3>2, <3>3 DEF ScanIsExact, UrlAt
  <2>6. \A j \in 1 .. scan'.next - 1 : Admissible(j)' => UrlAt(j)' \in ToSet(scan'.output)
    <3>1. scan'.next - 1 = n
      BY <1>1, <1>4
    <3> QED BY <1>3, <1>5, <1>6, <1>9, <3>1
  <2>7. \A x \in ToSet(scan'.output) : \E j \in FirstOnes' : x = UrlAt(j)'
    BY <1>3, <1>5, <1>9, <2>3
  <2>8. ScanTyped'
    <3>1. scan'.next \in 1 .. Len(scan'.page) + 1
      BY <1>1, <1>4
    <3>2. scan'.output \in Seq({UrlAt(i)' : i \in DOMAIN scan'.page})
      BY <1>2, <1>4, <1>5, <1>9
    <3> QED BY <1>1, <1>4, <3>1, <3>2 DEF ScanTyped
  <2> QED BY <2>5, <2>6, <2>7, <2>8 DEF ScanRight
<1>10. CASE scan'.output = Append(out, u) /\ Admissible(n) /\ u \notin ToSet(out)
  <2> DEFINE new == Append(out, u)
             Y == {UrlAt(i) : i \in DOMAIN scan.page}
             N == Len(out)
  <2>0. out \in Seq(Y) /\ u \in Y
    <3>1. n \in DOMAIN scan.page
      BY <1>1
    <3> QED BY <1>2, <3>1
  <2> HIDE DEF Y
  <2>1. /\ new \in Seq(Y) /\ Len(new) = N + 1 /\ new[N + 1] = u /\ N \in Nat
        /\ \A i \in 1 .. N : new[i] = out[i]
    BY <2>0
  <2>a. ToSet(new) = ToSet(out) \cup {u}
    <3> HIDE DEF u, out, new
    <3> QED BY <2>0, SetOfAppend DEF new
  <2>2. n \in G
    <3>1. \A j \in 1 .. n - 1 : Admissible(j) => UrlAt(j) # u
      BY <1>3, <1>10
    <3>2. n \in 1 .. n
      BY <1>1
    <3> QED BY <1>10, <3>1, <3>2 DEF G, FirstsTo
  <2>3. G = F \cup {n} /\ F \subseteq 1 .. n - 1
    <3>1. \A i \in G : i \in F \/ i = n
      BY <1>5, <1>6 DEF G, FirstsTo
    <3>2. \A i \in F : i \in G /\ i \in 1 .. n - 1
      BY <1>5, <1>7 DEF G, FirstsTo
    <3> QED BY <2>2, <3>1, <3>2
  <2>4. IsFiniteSet(F) /\ Cardinality(G) = Cardinality(F) + 1 /\ Cardinality(F) \in Nat
    BY <1>1, <2>3, OneMore
  <2>5. ASSUME NEW i \in G PROVE new[Cardinality({j \in G : j <= i})] = UrlAt(i)
    <3>1. CASE i = n
      <4>1. {j \in G : j <= i} = G
        BY <1>1, <2>3, <3>1
      <4>2. Cardinality(G) = N + 1
        BY <1>3, <2>4
      <4> QED BY <2>1, <3>1, <4>1, <4>2
    <3>2. CASE i \in F
      <4> DEFINE D == {j \in F : j <= i}
      <4>1. {j \in G : j <= i} = D
        BY <1>1, <2>3, <3>2
      <4>2. D \subseteq F /\ i \in D
        BY <2>3, <3>2
      <4> HIDE DEF D
      <4>3. IsFiniteSet(D) /\ Cardinality(D) <= Cardinality(F) /\ Cardinality(D) \in Nat
        BY <2>4, <4>2, FS_Subset, FS_CardinalityType
      <4>4. Cardinality(D) # 0
        BY <4>2, <4>3, FS_EmptySet
      <4>5. Cardinality(D) \in 1 .. N
        BY <1>3, <4>3, <4>4
      <4>6. out[Cardinality(D)] = UrlAt(i)
        BY <1>3, <3>2 DEF D
      <4> QED BY <2>1, <4>1, <4>5, <4>6
    <3> QED BY <2>3, <3>1, <3>2
  <2>6. ScanIsExact'
    <3>1. Len(scan'.output) = Cardinality(FirstOnes') /\ Len(scan'.output) <= ChildCap
      BY <1>3, <1>5, <1>10, <2>1, <2>4
    <3>2. \A i \in FirstOnes' : scan'.output[Cardinality({j \in FirstOnes' : j <= i})] = UrlAt(i)'
      BY <1>5, <1>10, <2>5
    <3>3. \A r \in Reasons : scan'.rejected[r] = Cardinality({i \in 1 .. scan'.next - 1 :
              InScope(scan'.page[i]) /\ TrapReason(NormalizeUrl(scan'.page[i].url)) = r})
      <4>1. scan'.next - 1 = n
        BY <1>1, <1>4
      <4> QED BY <1>4, <1>8, <4>1 DEF TrappedTo, UrlAt
    <3> QED BY <3>1, <3>2, <3>3 DEF ScanIsExact, UrlAt
  <2>7. \A j \in 1 .. scan'.next - 1 : Admissible(j)' => UrlAt(j)' \in ToSet(scan'.output)
    <3>1. scan'.next - 1 = n
      BY <1>1, <1>4
    <3> QED BY <1>3, <1>5, <1>6, <1>10, <2>a, <3>1
  <2>8. \A x \in ToSet(scan'.output) : \E j \in FirstOnes' : x = UrlAt(j)'
    <3>1. FirstOnes' = F \cup {n} /\ ToSet(scan'.output) = ToSet(out) \cup {u}
      BY <1>5, <1>10, <2>3, <2>a
    <3> QED BY <1>3, <1>5, <3>1
  <2>9. ScanTyped'
    <3>1. scan'.next \in 1 .. Len(scan'.page) + 1
      BY <1>1, <1>4
    <3>2. scan'.output \in Seq({UrlAt(i)' : i \in DOMAIN scan'.page})
      <4>1. {UrlAt(i)' : i \in DOMAIN scan'.page} = Y
        BY <1>4, <1>5 DEF Y
      <4> QED BY <1>10, <2>1, <4>1
    <3> QED BY <1>1, <1>4, <3>1, <3>2 DEF ScanTyped
  <2> QED BY <2>6, <2>7, <2>8, <2>9 DEF ScanRight
<1> QED BY <1>4, <1>5, <1>9, <1>10

-----------------------------------------------------------------------------
(* The walk over the sitemaps (discover).                                    *)

WalkStates == [at : {"none", "robots", "walk", "done"}, queue : Seq(Sitemaps), seen : SUBSET Sitemaps,
               fetches : Nat, failed : BOOLEAN, pages : Seq(STRING)]

\* One entry goes to the queue, to the pages, or nowhere.
LEMMA TakeLocFacts ==
  ASSUME NEW w \in WalkStates, NEW loc \in STRING
  PROVE  LET v == TakeLoc(w, loc)
         IN  /\ v \in WalkStates /\ v.at = w.at /\ v.seen = w.seen /\ v.fetches = w.fetches /\ v.failed = w.failed
             /\ \/ v.queue = w.queue /\ v.pages = w.pages /\ (Len(w.pages) >= MapLimit \/ (loc \notin Sitemaps /\ loc \in ToSet(w.pages)))
                \/ Len(w.pages) < MapLimit /\ loc \in Sitemaps /\ v.queue = Append(w.queue, loc) /\ v.pages = w.pages
                \/ Len(w.pages) < MapLimit /\ loc \notin Sitemaps /\ v.pages = Append(w.pages, loc) /\ v.queue = w.queue
<1> DEFINE v == TakeLoc(w, loc)
           qs == Seq(Sitemaps)
           ps == Seq(STRING)
           q2 == Append(w.queue, loc)
           p2 == Append(w.pages, loc)
<1>1. w.queue \in qs /\ w.pages \in ps /\ Len(w.pages) \in Nat /\ MapLimit \in Nat
  BY SiteAssumption DEF WalkStates
<1>2. loc \in Sitemaps => q2 \in qs
  BY <1>1
<1>3. p2 \in ps
  BY <1>1
<1> HIDE DEF qs, ps, q2, p2
<1>4. w \in [at : {"none", "robots", "walk", "done"}, queue : qs, seen : SUBSET Sitemaps,
             fetches : Nat, failed : BOOLEAN, pages : ps]
  BY DEF WalkStates, qs, ps
<1>5. CASE Len(w.pages) >= MapLimit
  <2>1. v = w
    BY <1>5 DEF TakeLoc
  <2> QED BY <1>5, <2>1
<1>6. CASE ~(Len(w.pages) >= MapLimit) /\ loc \in Sitemaps
  <2>1. v = [w EXCEPT !.queue = q2]
    BY <1>6 DEF TakeLoc, q2
  <2>2. Len(w.pages) < MapLimit
    BY <1>1, <1>6
  <2>3. /\ v \in WalkStates /\ v.at = w.at /\ v.seen = w.seen /\ v.fetches = w.fetches /\ v.failed = w.failed
        /\ v.queue = q2 /\ v.pages = w.pages
    BY <1>2, <1>4, <1>6, <2>1 DEF WalkStates, qs, ps
  <2> QED BY <1>6, <2>2, <2>3 DEF q2
<1>7. CASE ~(Len(w.pages) >= MapLimit) /\ loc \notin Sitemaps /\ loc \in ToSet(w.pages)
  <2>1. v = w
    BY <1>7 DEF TakeLoc
  <2> QED BY <1>7, <2>1
<1>8. CASE ~(Len(w.pages) >= MapLimit) /\ loc \notin Sitemaps /\ loc \notin ToSet(w.pages)
  <2>1. v = [w EXCEPT !.pages = p2]
    BY <1>8 DEF TakeLoc, p2
  <2>2. Len(w.pages) < MapLimit
    BY <1>1, <1>8
  <2>3. /\ v \in WalkStates /\ v.at = w.at /\ v.seen = w.seen /\ v.fetches = w.fetches /\ v.failed = w.failed
        /\ v.pages = p2 /\ v.queue = w.queue
    BY <1>3, <1>4, <2>1 DEF WalkStates, qs, ps
  <2> QED BY <1>8, <2>2, <2>3 DEF p2
<1> QED BY <1>5, <1>6, <1>7, <1>8

\* The turns over the entries of one sitemap.
Takes(g, w, s) ==
    /\ g \in [0 .. Len(s) -> WalkStates] /\ g[0] = w
    /\ \A n \in 1 .. Len(s) : g[n] = TakeLoc(g[n - 1], s[n])

\* TakeLocs is its last turn.
LEMMA TakeLoop ==
  ASSUME NEW w \in WalkStates, NEW s \in Seq(STRING)
  PROVE  \E g : Takes(g, w, s) /\ TakeLocs(w, s) = g[Len(s)]
<1> DEFINE L == Len(s)
           T == WalkStates
           IsLoop(f) == f = [n \in 0 .. L |-> IF n = 0 THEN w ELSE TakeLoc(f[n - 1], s[n])]
           G == [n \in Nat |-> [q \in T |-> IF n \in 1 .. L THEN TakeLoc(q, s[n]) ELSE q]]
<1>0. L \in Nat /\ \A n \in 1 .. L : s[n] \in STRING
  OBVIOUS
<1>1. TakeLocs(w, s) = (CHOOSE f : IsLoop(f))[L]
  BY DEF TakeLocs
<1>2. w \in T /\ \A q \in T, n \in 1 .. L : (TakeLoc(q, s[n])) \in T
  BY <1>0, TakeLocFacts
<1> HIDE DEF L
<1>3. G \in [Nat -> [T -> T]]
  BY <1>2
<1>4. \A q \in T, n \in 1 .. L : n \in Nat /\ G[n][q] = TakeLoc(q, s[n])
  BY <1>0
<1> HIDE DEF G, T
<1>a. \E f : Loop(f, T, w, G, L)
  BY <1>0, <1>2, <1>3, LoopExists
<1>5. PICK f0 \in [0 .. L -> T] : f0[0] = w /\ \A n \in 0 .. L : n # 0 => f0[n] = G[n][f0[n - 1]]
  BY <1>a DEF Loop
<1>6. IsLoop(f0)
  <2>1. ASSUME NEW n \in 0 .. L, n # 0
        PROVE  f0[n] = TakeLoc(f0[n - 1], s[n])
    <3>1. n \in 1 .. L /\ n - 1 \in 0 .. L
      BY <1>0, <2>1
    <3>2. f0[n - 1] \in T
      BY <3>1
    <3> QED BY <1>4, <1>5, <2>1, <3>1, <3>2
  <2> QED BY <1>5, <2>1
<1>7. \A f : IsLoop(f) => f[0] = w /\ (\A n \in 1 .. L : f[n] = TakeLoc(f[n - 1], s[n])) /\ f = [n \in 0 .. L |-> f[n]]
  <2>1. 0 \in 0 .. L /\ \A n \in 1 .. L : n \in 0 .. L /\ n # 0
    BY <1>0
  <2> QED BY <2>1
<1> DEFINE g == CHOOSE f : IsLoop(f)
<1>8. IsLoop(g)
  BY <1>6
<1> HIDE DEF g
<1>9. g[0] = w /\ (\A n \in 1 .. L : g[n] = TakeLoc(g[n - 1], s[n])) /\ g = [n \in 0 .. L |-> g[n]]
  BY <1>7, <1>8
<1> HIDE DEF IsLoop
<1> DEFINE Held == {n \in Nat : n <= L => g[n] \in T}
<1>10. 0 \in Held
  BY <1>2, <1>9
<1>11. ASSUME NEW n \in Held PROVE n + 1 \in Held
  <2> SUFFICES ASSUME n + 1 <= L PROVE g[n + 1] \in T
    OBVIOUS
  <2>1. n \in Nat /\ n + 1 \in 1 .. L /\ (n + 1) - 1 = n /\ g[n] \in T
    BY <1>0
  <2> QED BY <1>2, <1>9, <2>1
<1>12. Held = Nat
  <2>1. Held \in SUBSET Nat
    OBVIOUS
  <2> HIDE DEF Held
  <2> QED BY <1>10, <1>11, <2>1, NatSetInduction
<1>13. g \in [0 .. L -> T]
  <2>1. \A n \in 0 .. L : g[n] \in T
    BY <1>0, <1>12
  <2> QED BY <1>9, <2>1
<1>14. Takes(g, w, s)
  BY <1>9, <1>13 DEF T, L, Takes
<1> QED BY <1>1, <1>14 DEF g, L

\* The rounds of MapsFrom.
Reaches(g, S) ==
    /\ g \in [0 .. Cardinality(Sitemaps) -> SUBSET Sitemaps] /\ g[0] = S
    /\ \A n \in 1 .. Cardinality(Sitemaps) : g[n] = g[n - 1] \cup {m \in Sitemaps \ PackedMaps : \E k \in g[n - 1] : m \in ToSet(LocsOf[k])}

\* MapsFrom is its last round.
LEMMA ReachLoop ==
  ASSUME NEW S \in SUBSET Sitemaps
  PROVE  \E g : Reaches(g, S) /\ MapsFrom(S) = g[Cardinality(Sitemaps)]
<1> DEFINE L == Cardinality(Sitemaps)
           T == SUBSET Sitemaps
           IsLoop(f) == f = [n \in 0 .. L |-> IF n = 0 THEN S ELSE f[n - 1] \cup {m \in Sitemaps \ PackedMaps : \E k \in f[n - 1] : m \in ToSet(LocsOf[k])}]
           G == [n \in Nat |-> [q \in T |-> IF n \in 1 .. L THEN q \cup {m \in Sitemaps \ PackedMaps : \E k \in q : m \in ToSet(LocsOf[k])} ELSE q]]
<1>0. L \in Nat
  <2>1. IsFiniteSet(Sitemaps)
    BY SiteAssumption DEF Sitemaps
  <2> QED BY <2>1, FS_CardinalityType
<1>1. MapsFrom(S) = (CHOOSE f : IsLoop(f))[L]
  BY DEF MapsFrom
<1>2. S \in T /\ \A q \in T, n \in 1 .. L : (q \cup {m \in Sitemaps \ PackedMaps : \E k \in q : m \in ToSet(LocsOf[k])}) \in T
  OBVIOUS
<1> HIDE DEF L
<1>3. G \in [Nat -> [T -> T]]
  BY <1>2
<1>4. \A q \in T, n \in 1 .. L : n \in Nat /\ G[n][q] = q \cup {m \in Sitemaps \ PackedMaps : \E k \in q : m \in ToSet(LocsOf[k])}
  BY <1>0
<1> HIDE DEF G, T
<1>a. \E f : Loop(f, T, S, G, L)
  BY <1>0, <1>2, <1>3, LoopExists
<1>5. PICK f0 \in [0 .. L -> T] : f0[0] = S /\ \A n \in 0 .. L : n # 0 => f0[n] = G[n][f0[n - 1]]
  BY <1>a DEF Loop
<1>6. IsLoop(f0)
  <2>1. ASSUME NEW n \in 0 .. L, n # 0
        PROVE  f0[n] = f0[n - 1] \cup {m \in Sitemaps \ PackedMaps : \E k \in f0[n - 1] : m \in ToSet(LocsOf[k])}
    <3>1. n \in 1 .. L /\ n - 1 \in 0 .. L
      BY <1>0, <2>1
    <3>2. f0[n - 1] \in T
      BY <3>1
    <3> QED BY <1>4, <1>5, <2>1, <3>1, <3>2
  <2> QED BY <1>5, <2>1
<1>7. \A f : IsLoop(f) => f[0] = S /\ (\A n \in 1 .. L : f[n] = f[n - 1] \cup {m \in Sitemaps \ PackedMaps : \E k \in f[n - 1] : m \in ToSet(LocsOf[k])}) /\ f = [n \in 0 .. L |-> f[n]]
  <2>1. 0 \in 0 .. L /\ \A n \in 1 .. L : n \in 0 .. L /\ n # 0
    BY <1>0
  <2> QED BY <2>1
<1> DEFINE g == CHOOSE f : IsLoop(f)
<1>8. IsLoop(g)
  BY <1>6, Zenon
<1> HIDE DEF g
<1>9. g[0] = S /\ (\A n \in 1 .. L : g[n] = g[n - 1] \cup {m \in Sitemaps \ PackedMaps : \E k \in g[n - 1] : m \in ToSet(LocsOf[k])}) /\ g = [n \in 0 .. L |-> g[n]]
  BY <1>7, <1>8
<1> HIDE DEF IsLoop
<1> DEFINE Held == {n \in Nat : n <= L => g[n] \in T}
<1>10. 0 \in Held
  BY <1>2, <1>9
<1>11. ASSUME NEW n \in Held PROVE n + 1 \in Held
  <2> SUFFICES ASSUME n + 1 <= L PROVE g[n + 1] \in T
    OBVIOUS
  <2>1. n \in Nat /\ n + 1 \in 1 .. L /\ (n + 1) - 1 = n /\ g[n] \in T
    BY <1>0
  <2> DEFINE q == g[n]
  <2>2. g[n + 1] = q \cup {m \in Sitemaps \ PackedMaps : \E k \in q : m \in ToSet(LocsOf[k])}
    BY <1>9, <2>1, Zenon
  <2>3. q \in T
    BY <2>1
  <2> HIDE DEF q
  <2> QED BY <1>2, <2>1, <2>2, <2>3
<1>12. Held = Nat
  <2>1. Held \in SUBSET Nat
    OBVIOUS
  <2> HIDE DEF Held
  <2> QED BY <1>10, <1>11, <2>1, NatSetInduction
<1>13. g \in [0 .. L -> T]
  <2>1. \A n \in 0 .. L : g[n] \in T
    BY <1>0, <1>12
  <2> QED BY <1>9, <2>1
<1>14. Reaches(g, S)
  BY <1>9, <1>13 DEF T, L, Reaches
<1> QED BY <1>1, <1>14 DEF g, L

(* No sitemap that can be fetched leads out of C.                            *)
IsClosed(C) == \A k \in C : \A m \in Sitemaps \ PackedMaps : m \in ToSet(LocsOf[k]) => m \in C

\* MapsFrom(S) is the least closed set with S: as every round but the last adds
\* a sitemap, there are rounds enough.
LEMMA MapsFromFacts ==
  ASSUME NEW S \in SUBSET (Sitemaps \ PackedMaps)
  PROVE  /\ S \subseteq MapsFrom(S) /\ MapsFrom(S) \subseteq Sitemaps \ PackedMaps /\ IsClosed(MapsFrom(S))
         /\ \A C : S \subseteq C /\ IsClosed(C) => MapsFrom(S) \subseteq C
<1> DEFINE N == Cardinality(Sitemaps)
           Beyond(q) == {m \in Sitemaps \ PackedMaps : \E k \in q : m \in ToSet(LocsOf[k])}
<1>0. IsFiniteSet(Sitemaps) /\ N \in Nat
  <2>1. IsFiniteSet(Sitemaps)
    BY SiteAssumption DEF Sitemaps
  <2> QED BY <2>1, FS_CardinalityType
<1>1. PICK g : Reaches(g, S) /\ MapsFrom(S) = g[N]
  BY ReachLoop
<1>2. /\ g \in [0 .. N -> SUBSET Sitemaps] /\ g[0] = S
      /\ \A n \in 1 .. N : g[n] = g[n - 1] \cup Beyond(g[n - 1])
  BY <1>1 DEF Reaches
<1>3. \A q : IsClosed(q) <=> Beyond(q) \subseteq q
  BY DEF IsClosed
<1>4. \A q, C : q \subseteq C => Beyond(q) \subseteq Beyond(C)
  OBVIOUS
<1>5. \A q : Beyond(q) \subseteq Sitemaps \ PackedMaps
  OBVIOUS
<1> HIDE DEF N, Beyond
<1> DEFINE Smallest(q) == \A C : S \subseteq C /\ IsClosed(C) => q \subseteq C
           Good(n) == /\ S \subseteq g[n] /\ g[n] \subseteq Sitemaps \ PackedMaps /\ Smallest(g[n])
                      /\ Cardinality(g[n]) >= n \/ IsClosed(g[n])
           Held == {n \in Nat : n <= N => Good(n)}
<1>6. 0 \in Held
  <2>1. IsFiniteSet(S) /\ Cardinality(S) >= 0
    BY <1>0, FS_Subset, FS_CardinalityType
  <2>2. Smallest(S)
    OBVIOUS
  <2> HIDE DEF Smallest
  <2> QED BY <1>2, <2>1, <2>2
<1>7. ASSUME NEW n \in Held PROVE n + 1 \in Held
  <2> SUFFICES ASSUME n + 1 <= N PROVE Good(n + 1)
    OBVIOUS
  <2> DEFINE q == g[n]
             p == g[n + 1]
  <2>1. n \in Nat /\ n + 1 \in 1 .. N /\ (n + 1) - 1 = n /\ n \in 0 .. N /\ Good(n)
    BY <1>0
  <2>2. p = q \cup Beyond(q) /\ q \subseteq Sitemaps
    BY <1>2, <2>1
  <2>3. S \subseteq q /\ q \subseteq Sitemaps \ PackedMaps /\ Smallest(q) /\ (Cardinality(q) >= n \/ IsClosed(q))
    BY <2>1
  <2> HIDE DEF q, p, Good
  <2>4. S \subseteq p /\ p \subseteq Sitemaps \ PackedMaps
    BY <1>5, <2>2, <2>3
  <2>5. Smallest(p)
    <3> SUFFICES ASSUME NEW C, S \subseteq C, IsClosed(C) PROVE p \subseteq C
      OBVIOUS
    <3>1. q \subseteq C
      BY <2>3
    <3>2. Beyond(q) \subseteq Beyond(C) /\ Beyond(C) \subseteq C
      BY <1>3, <1>4, <3>1
    <3> QED BY <2>2, <3>1, <3>2
  <2> HIDE DEF Smallest
  <2>6. Cardinality(p) >= n + 1 \/ IsClosed(p)
    <3>1. CASE IsClosed(q)
      <4>1. p = q
        BY <1>3, <2>2, <3>1
      <4> QED BY <3>1, <4>1
    <3>2. CASE ~IsClosed(q)
      <4>1. q # p /\ q \subseteq p
        BY <1>3, <2>2, <3>2
      <4>2. IsFiniteSet(p)
        BY <1>0, <2>4, FS_Subset
      <4>3. IsFiniteSet(q) /\ Cardinality(q) <= Cardinality(p) /\ Cardinality(q) # Cardinality(p)
        BY <4>1, <4>2, FS_Subset
      <4>4. Cardinality(q) \in Nat /\ Cardinality(p) \in Nat
        BY <4>2, <4>3, FS_CardinalityType
      <4> QED BY <2>1, <2>3, <3>2, <4>3, <4>4
    <3> QED BY <3>1, <3>2
  <2> QED BY <2>4, <2>5, <2>6 DEF Good, p
<1>8. Held = Nat
  <2>1. Held \in SUBSET Nat
    OBVIOUS
  <2> HIDE DEF Held
  <2> QED BY <1>6, <1>7, <2>1, NatSetInduction
<1>9. Good(N)
  <2> HIDE DEF Good
  <2>1. N \in Held /\ N <= N
    BY <1>0, <1>8
  <2> QED BY <2>1
<1>10. IsClosed(g[N])
  <2>1. CASE Cardinality(g[N]) >= N
    <3> DEFINE q == g[N]
    <3>1. q \subseteq Sitemaps
      BY <1>9
    <3>2. Cardinality(q) >= N
      BY <2>1
    <3> HIDE DEF q
    <3>3. Cardinality(q) <= N /\ (Cardinality(q) = N => q = Sitemaps) /\ IsFiniteSet(q)
      BY <1>0, <3>1, FS_Subset DEF N
    <3>4. q = Sitemaps
      <4>1. Cardinality(q) \in Nat
        BY <3>3, FS_CardinalityType
      <4> QED BY <1>0, <3>2, <3>3, <4>1
    <3>5. IsClosed(q)
      BY <3>4 DEF IsClosed
    <3> QED BY <3>5 DEF q
  <2> QED BY <1>9, <2>1
<1> QED BY <1>1, <1>9, <1>10

\* What one sitemap adds to the walk.
Added(w, v, s) ==
    /\ v \in WalkStates /\ v.at = w.at /\ v.seen = w.seen /\ v.fetches = w.fetches /\ v.failed = w.failed
    /\ ToSet(w.queue) \subseteq ToSet(v.queue) /\ ToSet(v.queue) \subseteq ToSet(w.queue) \cup s
    /\ ToSet(w.pages) \subseteq ToSet(v.pages) /\ ToSet(v.pages) \subseteq ToSet(w.pages) \cup (s \ Sitemaps)
    /\ Len(w.pages) <= Len(v.pages)
    /\ Len(v.pages) < MapLimit => /\ s \cap Sitemaps \subseteq ToSet(v.queue)
                                  /\ s \ Sitemaps \subseteq ToSet(v.pages)

\* One entry more of the sitemap.
LEMMA TakenStep ==
  ASSUME NEW w \in WalkStates, NEW v, NEW s, Added(w, v, s), NEW loc \in STRING
  PROVE  Added(w, TakeLoc(v, loc), s \cup {loc})
<1> DEFINE z == TakeLoc(v, loc)
           X == STRING
<1>0. v \in WalkStates /\ v.queue \in Seq(Sitemaps) /\ v.pages \in Seq(X) /\ loc \in X
      /\ MapLimit \in Nat /\ Len(v.pages) \in Nat /\ Len(w.pages) \in Nat
  BY SiteAssumption DEF Added, WalkStates
<1>1. /\ z \in WalkStates /\ z.at = v.at /\ z.seen = v.seen /\ z.fetches = v.fetches /\ z.failed = v.failed
      /\ \/ z.queue = v.queue /\ z.pages = v.pages /\ (Len(v.pages) >= MapLimit \/ (loc \notin Sitemaps /\ loc \in ToSet(v.pages)))
         \/ Len(v.pages) < MapLimit /\ loc \in Sitemaps /\ z.queue = Append(v.queue, loc) /\ z.pages = v.pages
         \/ Len(v.pages) < MapLimit /\ loc \notin Sitemaps /\ z.pages = Append(v.pages, loc) /\ z.queue = v.queue
  BY <1>0, TakeLocFacts
<1> HIDE DEF z, X
<1> USE DEF Added
<1>2. CASE z.queue = v.queue /\ z.pages = v.pages /\ (Len(v.pages) >= MapLimit \/ (loc \notin Sitemaps /\ loc \in ToSet(v.pages)))
  <2>1. Len(z.pages) < MapLimit => Len(v.pages) < MapLimit /\ loc \notin Sitemaps /\ loc \in ToSet(v.pages)
    BY <1>0, <1>2
  <2> QED BY <1>1, <1>2, <2>1 DEF z
<1>3. CASE Len(v.pages) < MapLimit /\ loc \in Sitemaps /\ z.queue = Append(v.queue, loc) /\ z.pages = v.pages
  <2> DEFINE Q == Sitemaps
             vq == v.queue
  <2>1. vq \in Seq(Q) /\ loc \in Q
    BY <1>0, <1>3
  <2> HIDE DEF Q, vq
  <2>2. ToSet(Append(vq, loc)) = ToSet(vq) \cup {loc}
    BY <2>1, SetOfAppend
  <2>3. ToSet(z.queue) = ToSet(v.queue) \cup {loc}
    BY <1>3, <2>2 DEF vq
  <2> QED BY <1>1, <1>3, <2>3 DEF z
<1>4. CASE Len(v.pages) < MapLimit /\ loc \notin Sitemaps /\ z.pages = Append(v.pages, loc) /\ z.queue = v.queue
  <2> DEFINE vp == v.pages
             p2 == Append(vp, loc)
  <2>1. vp \in Seq(X) /\ loc \in X
    BY <1>0
  <2> HIDE DEF vp
  <2>2. ToSet(p2) = ToSet(vp) \cup {loc}
    BY <2>1, SetOfAppend
  <2>3. Len(p2) = Len(vp) + 1
    BY <2>1
  <2> HIDE DEF p2
  <2>4. z.pages = p2 /\ vp = v.pages /\ z.queue = v.queue
    BY <1>4 DEF p2, vp
  <2>5. Len(w.pages) <= Len(z.pages) /\ ToSet(z.pages) = ToSet(v.pages) \cup {loc}
    BY <1>0, <2>2, <2>3, <2>4
  <2> QED BY <1>1, <1>4, <2>5 DEF z
<1> QED BY <1>1, <1>2, <1>3, <1>4

\* All entries of the sitemap.
LEMMA TakesAll ==
  ASSUME NEW w \in WalkStates, NEW s \in Seq(STRING)
  PROVE  Added(w, TakeLocs(w, s), ToSet(s))
<1> DEFINE N == Len(s)
           To(n) == {s[i] : i \in 1 .. n}
<1>0. N \in Nat /\ (\A n \in 1 .. N : s[n] \in STRING) /\ DOMAIN s = 1 .. N
  OBVIOUS
<1>1. PICK g : Takes(g, w, s) /\ TakeLocs(w, s) = g[N]
  BY TakeLoop
<1>2. /\ g \in [0 .. N -> WalkStates] /\ g[0] = w
      /\ \A n \in 1 .. N : g[n] = TakeLoc(g[n - 1], s[n])
  BY <1>1 DEF Takes
<1> HIDE DEF N
<1> DEFINE Good(n) == Added(w, g[n], To(n))
           Held == {n \in Nat : n <= N => Good(n)}
<1>3. 0 \in Held
  <2>1. To(0) = {}
    OBVIOUS
  <2>2. Len(w.pages) \in Nat
    BY DEF WalkStates
  <2>3. Added(w, w, {})
    BY <2>2 DEF Added
  <2> HIDE DEF To
  <2> QED BY <1>2, <2>1, <2>3
<1>4. ASSUME NEW n \in Held PROVE n + 1 \in Held
  <2> SUFFICES ASSUME n + 1 <= N PROVE Good(n + 1)
    OBVIOUS
  <2>1. n \in Nat /\ n + 1 \in 1 .. N /\ (n + 1) - 1 = n /\ Good(n)
    BY <1>0
  <2>2. g[n + 1] = TakeLoc(g[n], s[n + 1]) /\ s[n + 1] \in STRING
    BY <1>0, <1>2, <2>1
  <2>3. To(n + 1) = To(n) \cup {s[n + 1]}
    <3>1. (\A i \in 1 .. n + 1 : i \in 1 .. n \/ i = n + 1) /\ n + 1 \in 1 .. n + 1 /\ \A i \in 1 .. n : i \in 1 .. n + 1
      BY <2>1
    <3> QED BY <3>1
  <2> HIDE DEF To
  <2> DEFINE v == g[n]
             loc == s[n + 1]
             t == To(n)
  <2>4. Added(w, v, t) /\ loc \in STRING
    BY <2>1, <2>2
  <2> HIDE DEF v, loc, t
  <2>5. Added(w, TakeLoc(v, loc), t \cup {loc})
    BY <2>4, TakenStep
  <2> QED BY <2>2, <2>3, <2>5 DEF v, loc, t
<1>5. Held = Nat
  <2>1. Held \in SUBSET Nat
    OBVIOUS
  <2> HIDE DEF Held
  <2> QED BY <1>3, <1>4, <2>1, NatSetInduction
<1>6. Good(N)
  <2> HIDE DEF Good
  <2>1. N \in Held /\ N <= N
    BY <1>0, <1>5
  <2> QED BY <2>1
<1>7. To(N) = ToSet(s)
  BY <1>0 DEF ToSet
<1> QED BY <1>1, <1>6, <1>7

\* The answer of a map repeats nothing and has room for every wanted candidate.
LEMMA MergeFacts ==
  ASSUME NEW X, NEW s \in Seq(X)
  PROVE  /\ MergeAll(s) \in Seq(X) /\ IsInjective(MergeAll(s))
         /\ Len(MergeAll(s)) < MapLimit => ToSet(s) \cap Wanted \subseteq ToSet(MergeAll(s))
<1> DEFINE N == Len(s)
           To(n) == {s[i] : i \in 1 .. n}
<1>0. N \in Nat /\ (\A n \in 1 .. N : s[n] \in X) /\ DOMAIN s = 1 .. N /\ MapLimit \in Nat
  BY SiteAssumption
<1>1. PICK g : Merges(g, X, s) /\ MergeAll(s) = g[N]
  BY MergeLoop
<1>2. /\ g \in [0 .. N -> Seq(X)] /\ g[0] = <<>>
      /\ \A n \in 1 .. N : g[n] = Merge(g[n - 1], s[n])
  BY <1>1 DEF Merges
<1> HIDE DEF N
<1> DEFINE Good(q, t) == IsInjective(q) /\ (Len(q) < MapLimit => t \cap Wanted \subseteq ToSet(q))
           Held == {n \in Nat : n <= N => Good(g[n], To(n))}
<1>3. 0 \in Held
  <2>1. To(0) = {} /\ IsInjective(<<>>)
    BY DEF IsInjective
  <2> HIDE DEF To
  <2> QED BY <1>2, <2>1
<1>4. ASSUME NEW n \in Held PROVE n + 1 \in Held
  <2> SUFFICES ASSUME n + 1 <= N PROVE Good(g[n + 1], To(n + 1))
    OBVIOUS
  <2>1. n \in Nat /\ n + 1 \in 1 .. N /\ (n + 1) - 1 = n /\ n \in 0 .. N /\ Good(g[n], To(n))
    BY <1>0
  <2>2. To(n + 1) = To(n) \cup {s[n + 1]}
    <3>1. (\A i \in 1 .. n + 1 : i \in 1 .. n \/ i = n + 1) /\ n + 1 \in 1 .. n + 1 /\ \A i \in 1 .. n : i \in 1 .. n + 1
      BY <2>1
    <3> QED BY <3>1
  <2> HIDE DEF To, Good
  <2> DEFINE q == g[n]
             p == g[n + 1]
             x == s[n + 1]
             t == To(n)
  <2>3. q \in Seq(X) /\ p = Merge(q, x) /\ x \in X /\ Good(q, t)
    BY <1>0, <1>2, <2>1
  <2> HIDE DEF q, p, x, t
  <2>4. Good(p, t \cup {x})
    <3>1. CASE p = q /\ (Len(q) >= MapLimit \/ x \in ToSet(q) \/ x \notin Wanted)
      <4>1. Len(q) \in Nat
        BY <2>3
      <4> QED BY <1>0, <2>3, <3>1, <4>1 DEF Good
    <3>2. CASE p = Append(q, x) /\ ~(Len(q) >= MapLimit) /\ x \notin ToSet(q)
      <4>1. ToSet(p) = ToSet(q) \cup {x} /\ (IsInjective(q) => IsInjective(p))
        BY <2>3, <3>2, InjectiveAppend
      <4>2. Len(q) < MapLimit
        <5>1. Len(q) \in Nat
          BY <2>3
        <5> QED BY <1>0, <3>2, <5>1
      <4> QED BY <2>3, <4>1, <4>2 DEF Good
    <3> QED BY <2>3, <3>1, <3>2 DEF Merge
  <2> QED BY <2>2, <2>4 DEF p, t, x
<1>5. Held = Nat
  <2>1. Held \in SUBSET Nat
    OBVIOUS
  <2> HIDE DEF Held
  <2> QED BY <1>3, <1>4, <2>1, NatSetInduction
<1> HIDE DEF Good, To
<1>6. Good(g[N], To(N))
  <2>1. N \in Nat /\ N <= N
    BY <1>0
  <2> QED BY <1>5, <2>1
<1>7. To(N) = ToSet(s) /\ g[N] \in Seq(X)
  <2>1. To(N) = ToSet(s)
    BY <1>0 DEF ToSet, To
  <2>2. g[N] \in Seq(X)
    BY <1>0, <1>2
  <2> QED BY <2>1, <2>2
<1>8. Good(g[N], ToSet(s))
  BY <1>6, <1>7
<1> QED BY <1>1, <1>7, <1>8 DEF Good

(* What the walk from some start has found: sitemaps the start leads to, and *)
(* unless a fetch failed or the list is full, all that the fetched ones list.*)
Found(w, start) ==
    LET M == MapsFrom(ToSet(start) \ PackedMaps)
        awaited == w.seen \cup ToSet(w.queue) \cup PackedMaps
    IN  /\ w.seen \subseteq M /\ ToSet(w.queue) \ PackedMaps \subseteq M
        /\ ToSet(w.pages) \subseteq UNION {ToSet(LocsOf[m]) \ Sitemaps : m \in w.seen}
        /\ ~w.failed /\ Len(w.pages) < MapLimit =>
              /\ ToSet(start) \subseteq awaited
              /\ \A m \in w.seen : /\ ToSet(LocsOf[m]) \cap Sitemaps \subseteq awaited
                                   /\ ToSet(LocsOf[m]) \ Sitemaps \subseteq ToSet(w.pages)

Starts == {ListedMaps, FallbackMaps}

WalkRight ==
    /\ walk \in WalkStates /\ walk.fetches <= MaxSitemapFetches
    /\ walk.at \in {"walk", "done"} => \E start \in Starts : Found(walk, start)
    /\ walk.at \in {"none", "robots"} => walk.seen = {} /\ walk.pages = <<>> /\ walk.fetches = 0 /\ ~walk.failed
    /\ walk.at = "done" => WalkOver
    /\ MapIsMerged

\* The sitemaps a walk starts from.
LEMMA StartFacts ==
  ASSUME NEW start \in Starts
  PROVE  start \in Seq(Sitemaps) /\ ToSet(start) \ PackedMaps \in SUBSET (Sitemaps \ PackedMaps)
<1> DEFINE Q == Sitemaps
<1>1. start \in Seq(Q)
  BY SiteAssumption DEF Starts, Sitemaps
<1> HIDE DEF Q
<1>2. ToSet(start) \subseteq Q
  BY <1>1 DEF ToSet
<1> QED BY <1>1, <1>2 DEF Q

\* A walk starts with nothing found.
LEMMA WalkStart == SiteInit => WalkRight
<1> SUFFICES ASSUME SiteInit PROVE WalkRight
  OBVIOUS
<1>1. PICK a \in {"none", "robots"} : walk = [at |-> a, queue |-> <<>>, seen |-> {}, fetches |-> 0,
               failed |-> FALSE, pages |-> <<>>]
  BY DEF SiteInit, SiteIdle
<1>2. <<>> \in Seq(Sitemaps) /\ <<>> \in Seq(STRING) /\ MaxSitemapFetches \in Nat
  BY SiteAssumption
<1>3. walk \in WalkStates
  BY <1>1, <1>2 DEF WalkStates
<1>4. walk.at = a /\ walk.seen = {} /\ walk.pages = <<>> /\ walk.fetches = 0 /\ ~walk.failed
  BY <1>1
<1>5. a # "walk" /\ a # "done" /\ walk.fetches <= MaxSitemapFetches
  BY <1>2, <1>4
<1> QED BY <1>3, <1>4, <1>5 DEF WalkRight, MapIsMerged

\* robots.txt gives the start.
LEMMA RobotsRead ==
  ASSUME WalkRight, NEW answered \in BOOLEAN, ReadRobots(answered)
  PROVE  WalkRight'
<1> DEFINE start == IF answered /\ ListedMaps # <<>> THEN ListedMaps ELSE FallbackMaps
           v == [walk EXCEPT !.at = "walk", !.queue = start]
<1>1. walk \in WalkStates /\ walk.at = "robots" /\ walk' = v /\ walk.fetches <= MaxSitemapFetches
  BY DEF WalkRight, ReadRobots
<1>2. walk.seen = {} /\ walk.pages = <<>> /\ ~walk.failed
  BY <1>1 DEF WalkRight
<1>3. start \in Starts
  BY DEF Starts
<1> HIDE DEF start
<1>4. start \in Seq(Sitemaps) /\ ToSet(start) \ PackedMaps \in SUBSET (Sitemaps \ PackedMaps)
  BY <1>3, StartFacts
<1>5. v \in WalkStates /\ v.at = "walk" /\ v.queue = start /\ v.seen = {} /\ v.pages = <<>> /\ ~v.failed
      /\ v.fetches = walk.fetches
  BY <1>1, <1>2, <1>4 DEF WalkStates
<1> HIDE DEF v
<1>6. Found(v, start)
  <2>1. ToSet(start) \ PackedMaps \subseteq MapsFrom(ToSet(start) \ PackedMaps)
    BY <1>4, MapsFromFacts
  <2>2. ToSet(<<>>) = {}
    BY NothingOpen
  <2> QED BY <1>5, <2>1, <2>2 DEF Found
<1>7. walk'.at = "walk" /\ \E s \in Starts : Found(walk', s)
  BY <1>1, <1>3, <1>5, <1>6
<1> QED BY <1>1, <1>5, <1>7 DEF WalkRight, MapIsMerged

(* A sitemap at the head of the queue, fetched or passed over.               *)
LEMMA PassedMap ==
  ASSUME NEW w \in WalkStates, NEW start \in Starts, Found(w, start), w.queue # <<>>, SkipsMap(Head(w.queue)),
         w = walk
  PROVE  LET v == [w EXCEPT !.queue = Tail(@)]
         IN  v \in WalkStates /\ v.at = w.at /\ v.fetches = w.fetches /\ Found(v, start)
<1> DEFINE v == [w EXCEPT !.queue = Tail(@)]
           m == Head(w.queue)
           t == Tail(w.queue)
           Q == Sitemaps
<1>1. m \in Sitemaps /\ t \in Seq(Sitemaps) /\ ToSet(w.queue) = {m} \cup ToSet(t)
  <2>1. w.queue \in Seq(Q)
    BY DEF WalkStates
  <2> HIDE DEF Q
  <2>2. m \in Q /\ t \in Seq(Q) /\ ToSet(w.queue) = {m} \cup ToSet(t)
    BY <2>1, HeadAndTail
  <2> QED BY <2>2 DEF Q
<1>2. m \in w.seen \cup PackedMaps
  BY DEF SkipsMap
<1> HIDE DEF m, t
<1>3. /\ v \in WalkStates /\ v.at = w.at /\ v.fetches = w.fetches /\ v.queue = t /\ v.seen = w.seen
      /\ v.failed = w.failed /\ v.pages = w.pages
  BY <1>1 DEF WalkStates, t
<1> HIDE DEF v
<1>4. v.seen \cup ToSet(v.queue) \cup PackedMaps = w.seen \cup ToSet(w.queue) \cup PackedMaps
  BY <1>1, <1>2, <1>3
<1>5. ToSet(v.queue) \subseteq ToSet(w.queue)
  BY <1>1, <1>3
<1>6. Found(v, start)
  BY <1>3, <1>4, <1>5 DEF Found
<1> QED BY <1>3, <1>6 DEF v

\* A sitemap that is fetched: its entries are in, or the walk has failed.
LEMMA FetchedMap ==
  ASSUME NEW w \in WalkStates, NEW start \in Starts, Found(w, start), w.queue # <<>>, ~SkipsMap(Head(w.queue)),
         w = walk
  PROVE  LET m == Head(w.queue)
             v == [w EXCEPT !.queue = Tail(@), !.seen = @ \cup {m}, !.fetches = @ + 1]
         IN  /\ Found([v EXCEPT !.failed = TRUE], start) /\ [v EXCEPT !.failed = TRUE] \in WalkStates
             /\ v \in WalkStates /\ m \in Sitemaps
             /\ v.at = w.at /\ v.fetches = w.fetches + 1
             /\ \A z : Added(v, z, ToSet(LocsOf[m])) => Found(z, start)
<1> DEFINE m == Head(w.queue)
           t == Tail(w.queue)
           seen2 == w.seen \cup {m}
           v == [w EXCEPT !.queue = Tail(@), !.seen = @ \cup {m}, !.fetches = @ + 1]
           x == [v EXCEPT !.failed = TRUE]
           Q == Sitemaps
           M == MapsFrom(ToSet(start) \ PackedMaps)
           s == ToSet(LocsOf[m])
<1>1. m \in Sitemaps /\ t \in Seq(Sitemaps) /\ ToSet(w.queue) = {m} \cup ToSet(t)
  <2>1. w.queue \in Seq(Q)
    BY DEF WalkStates
  <2> HIDE DEF Q
  <2>2. m \in Q /\ t \in Seq(Q) /\ ToSet(w.queue) = {m} \cup ToSet(t)
    BY <2>1, HeadAndTail
  <2> QED BY <2>2 DEF Q
<1>2. m \notin w.seen /\ m \notin PackedMaps
  BY DEF SkipsMap
<1> HIDE DEF m, t, seen2
<1>3. /\ v \in WalkStates /\ v.at = w.at /\ v.fetches = w.fetches + 1 /\ v.queue = t /\ v.seen = seen2
      /\ v.failed = w.failed /\ v.pages = w.pages
  <2> DEFINE qs == Seq(Sitemaps)
             ps == Seq(STRING)
             n == w.fetches + 1
  <2>1. t \in qs /\ seen2 \in SUBSET Sitemaps /\ n \in Nat
    BY <1>1 DEF WalkStates, seen2
  <2> HIDE DEF qs, ps, n
  <2>2. w \in [at : {"none", "robots", "walk", "done"}, queue : qs, seen : SUBSET Sitemaps,
               fetches : Nat, failed : BOOLEAN, pages : ps]
    BY DEF WalkStates, qs, ps
  <2>3. v = [w EXCEPT !.queue = t, !.seen = seen2, !.fetches = n]
    BY DEF t, seen2, n
  <2> HIDE DEF v
  <2> QED BY <2>1, <2>2, <2>3 DEF WalkStates, qs, ps, n
<1> HIDE DEF v
<1>4. /\ x \in WalkStates /\ x.queue = t /\ x.seen = seen2 /\ x.failed /\ x.pages = w.pages
  BY <1>3 DEF WalkStates
<1> HIDE DEF x
<1>5. /\ w.seen \subseteq M /\ ToSet(w.queue) \ PackedMaps \subseteq M
      /\ ToSet(w.pages) \subseteq UNION {ToSet(LocsOf[k]) \ Sitemaps : k \in w.seen}
  BY DEF Found
<1>6. seen2 \subseteq M /\ ToSet(t) \ PackedMaps \subseteq M
      /\ ToSet(w.pages) \subseteq UNION {ToSet(LocsOf[k]) \ Sitemaps : k \in seen2}
  BY <1>1, <1>2, <1>5, Zenon DEF seen2
<1>7. Found(x, start)
  BY <1>4, <1>6 DEF Found
<1>8. ASSUME NEW z, Added(v, z, s) PROVE Found(z, start)
  <2>1. /\ z \in WalkStates /\ z.seen = seen2 /\ z.failed = w.failed
        /\ ToSet(t) \subseteq ToSet(z.queue) /\ ToSet(z.queue) \subseteq ToSet(t) \cup s
        /\ ToSet(w.pages) \subseteq ToSet(z.pages) /\ ToSet(z.pages) \subseteq ToSet(w.pages) \cup (s \ Sitemaps)
        /\ Len(w.pages) <= Len(z.pages)
        /\ Len(z.pages) < MapLimit => /\ s \cap Sitemaps \subseteq ToSet(z.queue)
                                      /\ s \ Sitemaps \subseteq ToSet(z.pages)
    BY <1>3, <1>8 DEF Added
  <2> HIDE DEF s, M
  <2>2. ToSet(z.queue) \subseteq Sitemaps
    <3>1. z.queue \in Seq(Q)
      BY <2>1 DEF WalkStates
    <3> HIDE DEF Q
    <3>2. ToSet(z.queue) \subseteq Q
      BY <3>1 DEF ToSet
    <3> QED BY <3>2 DEF Q
  <2>3. IsClosed(M)
    BY StartFacts, MapsFromFacts DEF M
  <2>4. s \cap (Sitemaps \ PackedMaps) \subseteq M
    <3>1. m \in M
      BY <1>6 DEF seen2
    <3> QED BY <2>3, <3>1 DEF IsClosed, s
  <2>5. ToSet(z.queue) \ PackedMaps \subseteq M
    BY <1>6, <2>1, <2>2, <2>4
  <2>6. ToSet(z.pages) \subseteq UNION {ToSet(LocsOf[k]) \ Sitemaps : k \in seen2}
    BY <1>6, <2>1 DEF s, seen2
  <2>7. ASSUME ~z.failed, Len(z.pages) < MapLimit
        PROVE  LET awaited == z.seen \cup ToSet(z.queue) \cup PackedMaps
               IN  /\ ToSet(start) \subseteq awaited
                   /\ \A k \in z.seen : /\ ToSet(LocsOf[k]) \cap Sitemaps \subseteq awaited
                                        /\ ToSet(LocsOf[k]) \ Sitemaps \subseteq ToSet(z.pages)
    <3> DEFINE before == w.seen \cup ToSet(w.queue) \cup PackedMaps
               awaited == z.seen \cup ToSet(z.queue) \cup PackedMaps
    <3>1. ~w.failed /\ Len(w.pages) < MapLimit
      <4>1. Len(w.pages) \in Nat /\ Len(z.pages) \in Nat /\ MapLimit \in Nat
        BY <2>1, SiteAssumption DEF WalkStates
      <4> QED BY <2>1, <2>7, <4>1
    <3>2. /\ ToSet(start) \subseteq before
          /\ \A k \in w.seen : /\ ToSet(LocsOf[k]) \cap Sitemaps \subseteq before
                               /\ ToSet(LocsOf[k]) \ Sitemaps \subseteq ToSet(w.pages)
      BY <3>1 DEF Found
    <3>3. before \subseteq awaited
      BY <1>1, <2>1 DEF seen2
    <3>4. s \cap Sitemaps \subseteq awaited /\ s \ Sitemaps \subseteq ToSet(z.pages)
      BY <2>1, <2>7
    <3> HIDE DEF before, awaited
    <3>5. ASSUME NEW k \in z.seen
          PROVE  /\ ToSet(LocsOf[k]) \cap Sitemaps \subseteq awaited /\ ToSet(LocsOf[k]) \ Sitemaps \subseteq ToSet(z.pages)
      <4>1. CASE k = m
        BY <3>4, <4>1 DEF s
      <4>2. CASE k \in w.seen
        BY <2>1, <3>2, <3>3, <4>2
      <4> QED BY <2>1, <4>1, <4>2 DEF seen2
    <3>6. ToSet(start) \subseteq awaited
      BY <3>2, <3>3
    <3> QED BY <3>5, <3>6 DEF awaited
  <2> QED BY <1>6, <2>1, <2>5, <2>6, <2>7 DEF Found, M
<1> QED BY <1>1, <1>3, <1>4, <1>7, <1>8 DEF m, v, x

\* One turn of the walk.
LEMMA MapFetched ==
  ASSUME WalkRight, NEW answered \in BOOLEAN, FetchSitemap(answered)
  PROVE  WalkRight'
<1> DEFINE m == Head(walk.queue)
           passed == [walk EXCEPT !.queue = Tail(@)]
           fetched == [walk EXCEPT !.queue = Tail(@), !.seen = @ \cup {m}, !.fetches = @ + 1]
           missed == [fetched EXCEPT !.failed = TRUE]
           taken == TakeLocs(fetched, LocsOf[m])
<1>1. /\ walk \in WalkStates /\ walk.at = "walk" /\ walk.queue # <<>> /\ walk.fetches < MaxSitemapFetches
      /\ walk.fetches \in Nat /\ MaxSitemapFetches \in Nat
  <2>1. walk.fetches \in Nat /\ MaxSitemapFetches \in Nat /\ walk \in WalkStates
    BY SiteAssumption DEF WalkRight, WalkStates
  <2> QED BY <2>1 DEF FetchSitemap, WalkOver
<1>2. walk' = IF SkipsMap(m) THEN passed ELSE IF answered THEN taken ELSE missed
  <2>1. [passed EXCEPT !.seen = @ \cup {m}, !.fetches = @ + 1] = fetched
    BY <1>1 DEF WalkStates
  <2> QED BY <2>1 DEF FetchSitemap
<1>3. PICK start \in Starts : Found(walk, start)
  BY <1>1 DEF WalkRight
<1> SUFFICES walk' \in WalkStates /\ walk'.at = "walk" /\ walk'.fetches <= MaxSitemapFetches /\ Found(walk', start)
  BY DEF WalkRight, MapIsMerged
<1>4. CASE SkipsMap(m)
  <2>1. passed \in WalkStates /\ passed.at = walk.at /\ passed.fetches = walk.fetches /\ Found(passed, start)
    BY <1>1, <1>3, <1>4, PassedMap
  <2> QED BY <1>1, <1>2, <1>4, <2>1
<1>5. CASE ~SkipsMap(m)
  <2>1. /\ Found(missed, start) /\ missed \in WalkStates /\ fetched \in WalkStates /\ m \in Sitemaps
        /\ fetched.at = walk.at /\ fetched.fetches = walk.fetches + 1
        /\ \A z : Added(fetched, z, ToSet(LocsOf[m])) => Found(z, start)
    BY <1>1, <1>3, <1>5, FetchedMap, Zenon
  <2>2. LocsOf[m] \in Seq(STRING)
    BY <2>1, SiteAssumption DEF Sitemaps
  <2> DEFINE s == LocsOf[m]
  <2>3. missed.at = fetched.at /\ missed.fetches = fetched.fetches
    BY <2>1 DEF WalkStates
  <2> HIDE DEF fetched, m, s
  <2>4. Added(fetched, TakeLocs(fetched, s), ToSet(s))
    BY <2>1, <2>2, TakesAll DEF s
  <2>5. Found(taken, start) /\ taken \in WalkStates /\ taken.at = fetched.at /\ taken.fetches = fetched.fetches
    BY <2>1, <2>4 DEF Added, s
  <2> HIDE DEF taken, missed
  <2>6. walk' = taken \/ walk' = missed
    BY <1>2, <1>5
  <2> QED BY <1>1, <2>1, <2>3, <2>5, <2>6
<1> QED BY <1>4, <1>5

\* The answer is merged from the pages of the walk.
LEMMA SiteMapped ==
  ASSUME WalkRight, NEW answered \in BOOLEAN, MapSite(answered)
  PROVE  WalkRight'
<1> DEFINE home == <<HomePage>>
           rest == IF answered THEN HomeLinks ELSE <<>>
           listed == walk.pages
           X == STRING
           all == home \o listed \o rest
           v == [walk EXCEPT !.at = "done"]
<1>1. walk \in WalkStates /\ walk.at = "walk" /\ walk' = v /\ walk.fetches <= MaxSitemapFetches /\ WalkOver
      /\ links' = MergeAll(all)
  BY DEF WalkRight, MapSite
<1>2. PICK start \in Starts : Found(walk, start)
  BY <1>1 DEF WalkRight
<1>3. v \in WalkStates /\ v.at = "done" /\ v.queue = walk.queue /\ v.seen = walk.seen /\ v.fetches = walk.fetches
      /\ v.failed = walk.failed /\ v.pages = listed
  BY <1>1 DEF WalkStates
<1>4. home \in Seq(X) /\ rest \in Seq(X) /\ listed \in Seq(X)
  <2>1. HomePage \in X /\ HomeLinks \in Seq(X) /\ listed \in Seq(X)
    BY <1>1, SiteAssumption DEF WalkStates
  <2> HIDE DEF X, listed
  <2> QED BY <2>1
<1> HIDE DEF v, home, rest, listed, X
<1>5. all \in Seq(X) /\ ToSet(listed) \subseteq ToSet(all)
  <2>1. home \o listed \in Seq(X) /\ ToSet(listed) \subseteq ToSet(home \o listed)
    BY <1>4, ConcatFacts
  <2> DEFINE h == home \o listed
  <2>2. h \in Seq(X)
    BY <2>1
  <2> HIDE DEF h
  <2>3. h \o rest \in Seq(X) /\ ToSet(h) \subseteq ToSet(h \o rest)
    BY <1>4, <2>2, ConcatFacts
  <2> QED BY <2>1, <2>3 DEF h
<1> HIDE DEF all
<1>6. /\ IsInjective(links') /\ (Len(links') < MapLimit => ToSet(all) \cap Wanted \subseteq ToSet(links'))
  BY <1>1, <1>5, MergeFacts
<1>7. MapIsMerged'
  <2>1. walk'.pages = listed
    BY <1>1, <1>3
  <2> QED BY <1>5, <1>6, <2>1 DEF MapIsMerged, IsInjective
<1>8. Found(v, start)
  BY <1>2, <1>3 DEF Found, listed
<1>9. WalkOver'
  BY <1>1, <1>3 DEF WalkOver, listed
<1> QED BY <1>1, <1>2, <1>3, <1>7, <1>8, <1>9 DEF WalkRight

SiteRight == ScanRight /\ WalkRight

\* Every step of the scan and the walk, and every other of the process.
LEMMA SiteStep ==
  ASSUME SiteRight, [SiteNext]_siteVars
  PROVE  SiteRight'
<1>0. ScanRight /\ WalkRight
  BY DEF SiteRight
<1>1. UNCHANGED scan => ScanRight'
  <2> SUFFICES ASSUME scan' = scan PROVE ScanRight'
    OBVIOUS
  <2>1. \A i : UrlAt(i)' = UrlAt(i) /\ (Admissible(i)' <=> Admissible(i))
    BY DEF UrlAt, Admissible
  <2>2. FirstOnes' = FirstOnes
    BY <2>1 DEF FirstOnes
  <2>3. ScanIsExact'
    BY <1>0, <2>2 DEF ScanRight, ScanIsExact
  <2>4. ScanTyped'
    BY <1>0, <2>1 DEF ScanRight, ScanTyped
  <2> QED BY <1>0, <2>1, <2>2, <2>3, <2>4 DEF ScanRight
<1>2. UNCHANGED <<walk, links>> => WalkRight'
  BY <1>0 DEF WalkRight, MapIsMerged, WalkOver
<1>3. CASE DiscoverLinks
  BY <1>0, <1>2, <1>3, ScanStep DEF SiteRight, DiscoverLinks
<1>4. ASSUME NEW answered \in BOOLEAN, ReadRobots(answered) PROVE SiteRight'
  BY <1>0, <1>1, <1>4, RobotsRead DEF SiteRight, ReadRobots
<1>5. ASSUME NEW answered \in BOOLEAN, FetchSitemap(answered) PROVE SiteRight'
  BY <1>0, <1>1, <1>5, MapFetched DEF SiteRight, FetchSitemap
<1>6. ASSUME NEW answered \in BOOLEAN, MapSite(answered) PROVE SiteRight'
  BY <1>0, <1>1, <1>6, SiteMapped DEF SiteRight, MapSite
<1>7. CASE UNCHANGED siteVars
  BY <1>1, <1>2, <1>7 DEF SiteRight, siteVars
<1> QED BY <1>3, <1>4, <1>5, <1>6, <1>7 DEF SiteNext

\* A behaviour of the process is one of the discovery.
LEMMA SiteParts == ApiSpec => SiteInit /\ [][SiteNext]_siteVars
<1>1. ApiInit => SiteInit
  BY DEF ApiInit, SiteInit
<1>2. [ApiNext]_apiVars => [SiteNext]_siteVars
  BY DEF ApiNext, apiVars, OnlyResearch, OnlyLegacy, OnlyRuns, OnlySignals, OnlyIndex, OnlyRetrieval,
         OnlyChunking, ApiOnly, offlineVars, OnlySite, OnlyCorpus, OnlyRebuild, OnlyData, OnlyLife
<1> QED BY <1>1, <1>2, PTL DEF ApiSpec

\* The inductive invariant of the discovery.
LEMMA SiteStaysRight == ApiSpec => []SiteRight
<1>1. SiteInit => SiteRight
  BY ScanStart, WalkStart DEF SiteRight
<1> QED BY <1>1, SiteParts, SiteStep, PTL

\* A walk that is over has seen a closed set of sitemaps with its start.
LEMMA WalkEnough == WalkRight => WalkIsComplete
<1> SUFFICES ASSUME WalkRight, walk.at = "done", ~walk.failed, walk.fetches < MaxSitemapFetches, Len(walk.pages) < MapLimit
             PROVE  \E start \in Starts :
                      ToSet(walk.pages) =
                        UNION {ToSet(LocsOf[m]) \ Sitemaps : m \in MapsFrom(ToSet(start) \ PackedMaps)}
  BY DEF WalkIsComplete, Starts
<1>1. ToSet(walk.queue) = {}
  <2>1. /\ walk.fetches \in Nat /\ Len(walk.pages) \in Nat /\ MapLimit \in Nat /\ MaxSitemapFetches \in Nat
    BY SiteAssumption DEF WalkRight, WalkStates
  <2>2. walk.queue = <<>>
    BY <2>1 DEF WalkRight, WalkOver
  <2> QED BY <2>2, NothingOpen
<1>2. PICK start \in Starts : Found(walk, start)
  BY DEF WalkRight
<1> DEFINE S == ToSet(start) \ PackedMaps
           M == MapsFrom(S)
           C == walk.seen
<1>3. /\ C \subseteq M /\ S \subseteq C
      /\ ToSet(walk.pages) \subseteq UNION {ToSet(LocsOf[m]) \ Sitemaps : m \in C}
      /\ \A m \in C : /\ ToSet(LocsOf[m]) \cap Sitemaps \subseteq C \cup PackedMaps
                      /\ ToSet(LocsOf[m]) \ Sitemaps \subseteq ToSet(walk.pages)
  BY <1>1, <1>2 DEF Found
<1>4. IsClosed(C)
  BY <1>3 DEF IsClosed
<1>5. S \in SUBSET (Sitemaps \ PackedMaps)
  BY StartFacts
<1> HIDE DEF S, M, C
<1>6. M \subseteq C
  BY <1>3, <1>4, <1>5, MapsFromFacts DEF M
<1>7. ToSet(walk.pages) = UNION {ToSet(LocsOf[m]) \ Sitemaps : m \in M}
  BY <1>3, <1>6
<1> QED BY <1>7 DEF M, S

\* The inductive invariant gives every property of the discovery.
LEMMA SiteEnough == SiteRight => SiteTypeOK /\ IdentityIsStable /\ ScanIsExact /\ WalkIsComplete /\ MapIsMerged
<1> SUFFICES ASSUME ScanRight, WalkRight
             PROVE  SiteTypeOK /\ IdentityIsStable /\ ScanIsExact /\ WalkIsComplete /\ MapIsMerged
  BY DEF SiteRight
<1>1. ScanTyped /\ ScanIsExact /\ MapIsMerged
  BY DEF ScanRight, WalkRight
<1>2. SiteTypeOK
  <2>1. walk.fetches \in Nat /\ walk.fetches <= MaxSitemapFetches /\ MaxSitemapFetches \in Nat /\ walk.seen \subseteq Sitemaps
    BY SiteAssumption DEF WalkRight, WalkStates
  <2> QED BY <1>1, <2>1 DEF SiteTypeOK, ScanTyped
<1>3. IdentityIsStable
  <2> SUFFICES ASSUME NEW i \in DOMAIN scan.page, NormalizeUrl(scan.page[i].url) # NoUrl
               PROVE  LET u == NormalizeUrl(scan.page[i].url)
                      IN  /\ NormalizeUrl(u) = u /\ "." \notin ToSet(u.path) /\ ".." \notin ToSet(u.path)
    BY DEF IdentityIsStable
  <2> DEFINE E == PageElements
             url == scan.page[i].url
  <2>1. scan.page[i] \in E
    BY <1>1 DEF ScanTyped
  <2>2. url # NoUrl => /\ url = [origin |-> url.origin, path |-> url.path, query |-> url.query]
                       /\ url.path \in Seq(STRING) /\ url.query \in Seq(STRING)
    BY <2>1, SiteAssumption
  <2>3. NormalizeUrl(url) # NoUrl
    OBVIOUS
  <2> HIDE DEF url
  <2>4. /\ NormalizeUrl(NormalizeUrl(url)) = NormalizeUrl(url)
        /\ "." \notin ToSet(NormalizeUrl(url).path) /\ ".." \notin ToSet(NormalizeUrl(url).path)
    BY <2>2, <2>3, UrlIsStable
  <2> QED BY <2>4 DEF url
<1> QED BY <1>1, <1>2, <1>3, WalkEnough

\* A URL normalises to one identity; a page gives up its links in order, each once;
\* a walk without limit or failure finds every page the sitemaps lead to, and the
\* answer of a map repeats none (normalize_url, discover_links, discover, map_site).
THEOREM SitesAreRead == ApiSpec => [](IdentityIsStable /\ ScanIsExact /\ WalkIsComplete /\ MapIsMerged)
BY SiteStaysRight, SiteEnough, PTL

\* The chunkers and the discovery of URLs: nothing of a text is lost, windows and
\* breadcrumbs hold, identities are stable, links and sitemap pages are complete.
THEOREM TextIsRight == ApiSpec => []TextInv
<1>1. ChunkRight /\ SiteRight => TextInv
  BY ChunkEnough, SiteEnough DEF TextInv
<1> QED BY <1>1, ChunksStayRight, SiteStaysRight, PTL
=============================================================================
