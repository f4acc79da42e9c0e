---------------------------- MODULE RoutingProofs ----------------------------
(***************************************************************************)
(* Theorems about Selection, for any table of models, any requests and any  *)
(* settings, and about TokenizerPreload, which loads the tokenizers that    *)
(* Selection's estimates are made with.                                     *)
(*                                                                         *)
(* Selection: the rows stay within their bounds (TypeStep), and what is     *)
(* chosen from rows within their bounds is right, whatever requests,        *)
(* probes and discoveries made them so.  The argument is about the lists.   *)
(* InOrderLists: InOrder turns a strict total order into a list with each   *)
(* element once.  SortedLists: a weak order, with the table's order for     *)
(* ties, is such an order.  Picked: pick_candidates cuts that list and      *)
(* replaces at most its last place by the fallback model.  BonusGrows: the  *)
(* bonus is monotone in every column.  DistinctOf: dropping repetitions     *)
(* leaves the first bucket of a health run where it stands.                 *)
(*                                                                         *)
(* TokenizerPreload: neither of its two properties is inductive.  That no   *)
(* hint has two loads follows from CurrentInv: a load that was not cleared  *)
(* away is the one its hint's entry names, so that there can be only one.   *)
(* CurrentInv survives the callback of an older load, and the reuse of a    *)
(* future, because of EntryInv: an entry names a future that is neither     *)
(* over nor cleared and has that entry's hint.                              *)
(***************************************************************************)
EXTENDS Selection, TokenizerPreload, FiniteSetTheorems, SequenceTheorems, TLAPS

\* s has every element of S, once.
Lists(s, S) ==
    /\ s \in Seq(S) /\ Len(s) = Cardinality(S)
    /\ \A i, j \in 1..Len(s) : s[i] = s[j] => i = j
    /\ \A m \in S : \E i \in 1..Len(s) : s[i] = m

\* The place of m among the elements of S.
Rank(S, less, m) == Cardinality({n \in S : <<n, m>> \in less}) + 1

\* A finite set in a strict and total order: each element once, the lesser first.
LEMMA InOrderLists ==
    ASSUME NEW S, IsFiniteSet(S), NEW less,
           \A x \in S : <<x, x>> \notin less,
           \A x, y, z \in S : <<x, y>> \in less /\ <<y, z>> \in less => <<x, z>> \in less,
           \A x, y \in S : x = y \/ <<x, y>> \in less \/ <<y, x>> \in less
    PROVE  /\ Lists(InOrder(S, less), S)
           /\ \A i, j \in 1..Cardinality(S) :
                 i < j => <<InOrder(S, less)[i], InOrder(S, less)[j]>> \in less
           /\ \A m \in S : /\ Rank(S, less, m) \in 1..Cardinality(S)
                          /\ InOrder(S, less)[Rank(S, less, m)] = m
<1> DEFINE N == Cardinality(S)
           below(m) == {n \in S : <<n, m>> \in less}
           f == [m \in S |-> Cardinality(below(m))]
           o == InOrder(S, less)
<1>0. N \in Nat
  BY FS_CardinalityType
<1>1. ASSUME NEW m \in S PROVE IsFiniteSet(below(m)) /\ f[m] \in 0..(N - 1)
  <2>1. IsFiniteSet(S \ {m}) /\ Cardinality(S \ {m}) = N - 1
    <3>1. /\ IsFiniteSet(S \ {m})
          /\ Cardinality(S \ {m}) = IF m \in S THEN Cardinality(S) - 1 ELSE Cardinality(S)
      BY FS_RemoveElement, Zenon
    <3> QED BY <3>1
  <2>2. below(m) \in SUBSET (S \ {m})
    OBVIOUS
  <2>3. IsFiniteSet(below(m)) /\ Cardinality(below(m)) <= N - 1
    <3> DEFINE B == below(m)
               T == S \ {m}
    <3>1. IsFiniteSet(T) /\ B \in SUBSET T
      BY <2>1, <2>2
    <3> HIDE DEF B, T
    <3>2. IsFiniteSet(B) /\ Cardinality(B) <= Cardinality(T)
      BY <3>1, FS_Subset
    <3> QED BY <2>1, <3>2 DEF B, T
  <2>4. Cardinality(below(m)) \in Nat
    BY <2>3, FS_CardinalityType
  <2> QED BY <1>0, <2>3, <2>4
<1>2. ASSUME NEW x \in S, NEW y \in S, <<x, y>> \in less PROVE f[x] < f[y]
  <2>1. below(x) \in SUBSET below(y) /\ x \in below(y) /\ x \notin below(x)
    BY <1>2
  <2>2. Cardinality(below(x)) <= Cardinality(below(y)) /\ Cardinality(below(y)) # Cardinality(below(x))
    BY <1>1, <2>1, FS_Subset
  <2>3. Cardinality(below(x)) \in Nat /\ Cardinality(below(y)) \in Nat
    BY <1>1, FS_CardinalityType
  <2> QED BY <2>2, <2>3
<1>3. \A x, y \in S : f[x] = f[y] => x = y
  <2> SUFFICES ASSUME NEW x \in S, NEW y \in S, f[x] = f[y], x # y PROVE FALSE
    OBVIOUS
  <2>1. f[x] \in Int /\ f[y] \in Int
    <3>1. f[x] \in 0..(N - 1) /\ f[y] \in 0..(N - 1)
      BY <1>1
    <3> HIDE DEF f, N
    <3> QED BY <3>1
  <2>2. f[x] < f[y] \/ f[y] < f[x]
    BY <1>2
  <2> HIDE DEF f
  <2> QED BY <2>1, <2>2
<1>4. f \in Surjection(S, 0..(N - 1))
  <2>1. f \in [S -> 0..(N - 1)]
    BY <1>1
  <2>2. f \in Injection(S, 0..(N - 1))
    BY <1>3, <2>1 DEF Injection, IsInjective
  <2>3. IsFiniteSet(0..(N - 1)) /\ Cardinality(0..(N - 1)) = N
    <3>1. 0 \in Int /\ N - 1 \in Int
      BY <1>0
    <3> QED BY <1>0, <3>1, FS_Interval
  <2> HIDE DEF f, N
  <2> QED BY <2>2, <2>3, FS_Injection DEF N
<1>5. ASSUME NEW i \in 1..N PROVE o[i] \in S /\ f[o[i]] = i - 1
  <2>1. i - 1 \in 0..(N - 1)
    BY <1>0
  <2>2. \E m \in S : f[m] = i - 1
    BY <1>4, <2>1 DEF Surjection
  <2>3. \E m \in S : Cardinality(below(m)) = i - 1
    BY <2>2
  <2>4. o[i] = CHOOSE m \in S : Cardinality(below(m)) = i - 1
    BY DEF InOrder
  <2> HIDE DEF o
  <2>5. o[i] \in S /\ Cardinality(below(o[i])) = i - 1
    BY <2>3, <2>4
  <2> QED BY <2>5
<1>6. o \in [1..N -> S] /\ Len(o) = N /\ o \in Seq(S)
  <2> DEFINE e(i) == CHOOSE m \in S : Cardinality(below(m)) = i - 1
  <2>1. o = [i \in 1..N |-> e(i)]
    BY DEF InOrder
  <2>2. o \in [1..N -> S]
    <3> HIDE DEF o, e
    <3> QED BY <1>5, <2>1
  <2> HIDE DEF o, N
  <2>3. o \in Seq(S)
    BY <1>0, <2>2, SeqDef
  <2>4. DOMAIN o = 1..N
    BY <2>2
  <2>5. Len(o) = N
    BY <1>0, <2>3, <2>4, LenProperties
  <2> QED BY <2>2, <2>3, <2>5
<1> HIDE DEF o, f, N
<1>7. \A i, j \in 1..N : o[i] = o[j] => i = j
  <2> SUFFICES ASSUME NEW i \in 1..N, NEW j \in 1..N, o[i] = o[j] PROVE i = j
    OBVIOUS
  <2>1. i - 1 = j - 1
    BY <1>5
  <2> QED BY <1>0, <2>1
<1>8. ASSUME NEW m \in S PROVE f[m] + 1 \in 1..N /\ o[f[m] + 1] = m
  <2>1. f[m] \in 0..(N - 1)
    BY <1>1
  <2>2. f[m] + 1 \in 1..N /\ (f[m] + 1) - 1 = f[m]
    BY <1>0, <2>1
  <2>3. o[f[m] + 1] \in S /\ f[o[f[m] + 1]] = f[m]
    BY <1>5, <2>2
  <2>4. o[f[m] + 1] = m
    BY <1>3, <2>3
  <2> QED BY <2>2, <2>4
<1>9. ASSUME NEW i \in 1..N, NEW j \in 1..N, i < j PROVE <<o[i], o[j]>> \in less
  <2>1. o[i] \in S /\ o[j] \in S /\ f[o[i]] = i - 1 /\ f[o[j]] = j - 1
    BY <1>5
  <2>2. o[i] # o[j]
    BY <1>7, <1>9
  <2>3. <<o[j], o[i]>> \notin less
    <3>1. ~(j - 1 < i - 1)
      BY <1>0, <1>9
    <3> QED BY <1>2, <2>1, <3>1
  <2> QED BY <2>1, <2>2, <2>3
<1>10. Lists(o, S)
  BY <1>6, <1>7, <1>8 DEF Lists, N
<1>11. \A m \in S : f[m] + 1 = Rank(S, less, m)
  BY DEF f, Rank
<1> QED BY <1>8, <1>9, <1>10, <1>11 DEF o, N

\* The models are finitely many, each at a position of its own.
LEMMA Models ==
    /\ IsFiniteSet(Model)
    /\ \A m \in Model : Position(m) \in Nat
    /\ \A m, n \in Model : Position(m) = Position(n) => m = n
<1>1. Table \in Seq(Model) /\ Len(Table) \in Nat /\ DOMAIN Table = 1..Len(Table)
  BY TableAssumption, LenProperties
<1>2. ASSUME NEW m \in Model PROVE Position(m) \in 1..Len(Table) /\ Table[Position(m)] = m
  <2>1. \E i \in DOMAIN Table : Table[i] = m
    BY DEF Model, Range
  <2> QED BY <1>1, <2>1 DEF Position
<1>3. IsFiniteSet(Model)
  <2>1. IsFiniteSet(1..Len(Table))
    BY <1>1, FS_Interval
  <2>2. Table \in Surjection(1..Len(Table), Model)
    BY <1>1, <1>2, ElementOfSeq DEF Surjection
  <2> QED BY <2>1, <2>2, FS_Surjection
<1> QED BY <1>2, <1>3, <1>1

\* Models sorted by a weak order: each once, none before one it should follow.
LEMMA SortedLists ==
    ASSUME NEW S \in SUBSET Model, NEW before,
           \A x \in S : <<x, x>> \notin before,
           \A x, y, z \in S : <<x, y>> \in before /\ <<y, z>> \in before => <<x, z>> \in before,
           \A x, y, z \in S : <<x, z>> \in before => <<x, y>> \in before \/ <<y, z>> \in before
    PROVE  /\ Lists(Sorted(S, before), S)
           /\ \A i, j \in 1..Cardinality(S) :
                 i < j => <<Sorted(S, before)[j], Sorted(S, before)[i]>> \notin before
<1> DEFINE less == Precedence(before)
<1>0. IsFiniteSet(S)
  BY Models, FS_Subset
<1>1. \A x, y \in S : <<x, y>> \in less <=>
          \/ <<x, y>> \in before
          \/ <<y, x>> \notin before /\ Position(x) < Position(y)
  <2> TAKE x, y \in S
  <2>1. <<x, y>> \in Model \X Model /\ <<x, y>>[1] = x /\ <<x, y>>[2] = y
    OBVIOUS
  <2> QED BY <2>1 DEF Precedence
<1>2. \A x \in S : Position(x) \in Nat
  BY Models
<1> HIDE DEF less
<1>3. ASSUME NEW x \in S PROVE <<x, x>> \notin less
  <2>1. <<x, x>> \notin before /\ ~(Position(x) < Position(x))
    BY <1>2
  <2> QED BY <1>1, <2>1
<1>4. ASSUME NEW x \in S, NEW y \in S, NEW z \in S, <<x, y>> \in less, <<y, z>> \in less
      PROVE  <<x, z>> \in less
  <2>1. CASE <<x, y>> \in before \/ <<y, z>> \in before
    <3>1. <<x, z>> \in before
      BY <1>1, <1>4, <2>1
    <3> QED BY <1>1, <3>1
  <2>2. CASE <<x, y>> \notin before /\ <<y, z>> \notin before
    <3>1. /\ <<y, x>> \notin before /\ Position(x) < Position(y)
          /\ <<z, y>> \notin before /\ Position(y) < Position(z)
      BY <1>1, <1>4, <2>2
    <3>2. <<z, x>> \notin before
      BY <3>1
    <3>3. Position(x) < Position(z)
      BY <1>2, <3>1
    <3> QED BY <1>1, <3>2, <3>3
  <2> QED BY <2>1, <2>2
<1>5. ASSUME NEW x \in S, NEW y \in S PROVE x = y \/ <<x, y>> \in less \/ <<y, x>> \in less
  <2>1. Position(x) = Position(y) => x = y
    BY Models
  <2>2. Position(x) \in Nat /\ Position(y) \in Nat
    BY <1>2
  <2> QED BY <1>1, <2>1, <2>2
<1> DEFINE s == InOrder(S, less)
<1>6. Lists(s, S) /\ \A i, j \in 1..Cardinality(S) : i < j => <<s[i], s[j]>> \in less
  BY <1>0, <1>3, <1>4, <1>5, InOrderLists
<1>7. s = Sorted(S, before)
  BY DEF Sorted, less
<1> HIDE DEF s
<1>8. ASSUME NEW i \in 1..Cardinality(S), NEW j \in 1..Cardinality(S), i < j
      PROVE  <<s[j], s[i]>> \notin before
  <2>1. s[i] \in S /\ s[j] \in S
    BY <1>6, ElementOfSeq DEF Lists
  <2>2. <<s[i], s[j]>> \in less
    BY <1>6, <1>8
  <2> QED BY <1>1, <2>1, <2>2
<1> QED BY <1>6, <1>7, <1>8

\* The smaller and the larger of two numbers.
LEMMA MinMax ==
    ASSUME NEW a \in Int, NEW b \in Int
    PROVE  /\ Min({a, b}) = IF a <= b THEN a ELSE b
           /\ Max({a, b}) = IF a <= b THEN b ELSE a
<1>1. CASE a <= b
  <2>1. \A x \in {a, b} : (\A y \in {a, b} : x <= y) <=> x = a
    BY <1>1
  <2>2. \A x \in {a, b} : (\A y \in {a, b} : x >= y) <=> x = b
    BY <1>1
  <2> QED BY <1>1, <2>1, <2>2 DEF Min, Max
<1>2. CASE ~(a <= b)
  <2>1. \A x \in {a, b} : (\A y \in {a, b} : x <= y) <=> x = b
    BY <1>2
  <2>2. \A x \in {a, b} : (\A y \in {a, b} : x >= y) <=> x = a
    BY <1>2
  <2> QED BY <1>2, <2>1, <2>2 DEF Min, Max
<1> QED BY <1>1, <1>2

\* The first n of a list.
LEMMA PrefixOf ==
    ASSUME NEW S, NEW s \in Seq(S), NEW n \in Nat
    PROVE  /\ Prefix(s, n) \in Seq(S)
           /\ Len(Prefix(s, n)) = IF n <= Len(s) THEN n ELSE Len(s)
           /\ \A i \in 1..Len(Prefix(s, n)) : i \in 1..Len(s) /\ Prefix(s, n)[i] = s[i]
<1> DEFINE k == Min({n, Len(s)})
<1>1. Len(s) \in Nat
  OBVIOUS
<1>2. k \in Nat /\ k <= Len(s) /\ k = IF n <= Len(s) THEN n ELSE Len(s)
  BY <1>1, MinMax
<1>3. Prefix(s, n) = SubSeq(s, 1, k)
  BY DEF Prefix
<1> HIDE DEF k
<1>4. 1 \in Int /\ k \in Int /\ \A i \in 1..k : s[i] \in S
  BY <1>1, <1>2, ElementOfSeq
<1>5. /\ SubSeq(s, 1, k) \in Seq(S) /\ Len(SubSeq(s, 1, k)) = (IF 1 <= k THEN k - 1 + 1 ELSE 0)
      /\ \A i \in 1..(k - 1 + 1) : SubSeq(s, 1, k)[i] = s[1 + i - 1]
  BY <1>4, SubSeqProperties
<1>6. Len(SubSeq(s, 1, k)) = k
  BY <1>2, <1>5
<1>7. ASSUME NEW i \in 1..k PROVE i \in 1..Len(s) /\ SubSeq(s, 1, k)[i] = s[i]
  <2>1. i \in 1..(k - 1 + 1) /\ 1 + i - 1 = i /\ i \in 1..Len(s)
    BY <1>1, <1>2
  <2> QED BY <1>5, <2>1
<1> QED BY <1>2, <1>3, <1>5, <1>6, <1>7

\* One list after the other.
LEMMA ConcatLists ==
    ASSUME NEW A, NEW B, IsFiniteSet(A), IsFiniteSet(B), A \cap B = {},
           NEW a, NEW b, Lists(a, A), Lists(b, B)
    PROVE  Lists(a \o b, A \cup B)
<1> DEFINE S == A \cup B
           c == a \o b
           n == Len(a)
           k == Len(b)
<1>1. /\ a \in Seq(S) /\ b \in Seq(S) /\ n \in Nat /\ k \in Nat
      /\ n = Cardinality(A) /\ k = Cardinality(B)
  <2>1. a \in Seq(A) /\ b \in Seq(B) /\ n = Cardinality(A) /\ k = Cardinality(B)
    BY DEF Lists
  <2>2. \A i \in 1..Len(a) : a[i] \in S
    BY <2>1, ElementOfSeq
  <2>3. \A i \in 1..Len(b) : b[i] \in S
    BY <2>1, ElementOfSeq
  <2>4. A \subseteq S /\ B \subseteq S
    OBVIOUS
  <2> HIDE DEF S
  <2>5. Seq(A) \subseteq Seq(S) /\ Seq(B) \subseteq Seq(S)
    BY <2>4, SeqMonotonic
  <2> QED BY <2>1, <2>5, LenProperties
<1>2. Cardinality(S) = n + k
  <2>1. Cardinality(A \cup B) = Cardinality(A) + Cardinality(B) - Cardinality(A \cap B)
    BY FS_Union
  <2>2. Cardinality(A \cap B) = 0
    BY FS_EmptySet
  <2> QED BY <1>1, <2>1, <2>2
<1>3. /\ c \in Seq(S) /\ Len(c) = n + k
      /\ \A i \in 1..(n + k) : c[i] = IF i <= n THEN a[i] ELSE b[i - n]
  <2> HIDE DEF S
  <2> QED BY <1>1, ConcatProperties
<1>4. /\ \A i \in 1..n : a[i] \in A
      /\ \A i \in 1..k : b[i] \in B
      /\ \A i, j \in 1..n : a[i] = a[j] => i = j
      /\ \A i, j \in 1..k : b[i] = b[j] => i = j
      /\ \A m \in A : \E i \in 1..n : a[i] = m
      /\ \A m \in B : \E i \in 1..k : b[i] = m
  BY ElementOfSeq DEF Lists
<1> HIDE DEF c, n, k
<1>5. ASSUME NEW i \in 1..(n + k), NEW j \in 1..(n + k), c[i] = c[j] PROVE i = j
  <2>0. i \in Int /\ j \in Int
    OBVIOUS
  <2>1. CASE i <= n /\ j <= n
    <3>1. i \in 1..n /\ j \in 1..n /\ a[i] = a[j]
      BY <1>1, <1>3, <1>5, <2>1
    <3> QED BY <1>4, <3>1
  <2>2. CASE ~(i <= n) /\ ~(j <= n)
    <3>1. i - n \in 1..k /\ j - n \in 1..k
      BY <1>1, <2>2
    <3>2. b[i - n] = b[j - n]
      BY <1>3, <1>5, <2>2
    <3>3. i - n = j - n
      BY <1>4, <3>1, <3>2
    <3> QED BY <1>1, <2>0, <3>3
  <2>3. CASE i <= n /\ ~(j <= n)
    <3>1. i \in 1..n /\ j - n \in 1..k
      BY <1>1, <2>3
    <3>2. a[i] = b[j - n]
      BY <1>3, <1>5, <2>3
    <3> QED BY <1>4, <3>1, <3>2
  <2>4. CASE ~(i <= n) /\ j <= n
    <3>1. j \in 1..n /\ i - n \in 1..k
      BY <1>1, <2>4
    <3>2. b[i - n] = a[j]
      BY <1>3, <1>5, <2>4
    <3> QED BY <1>4, <3>1, <3>2
  <2> QED BY <2>1, <2>2, <2>3, <2>4
<1>6. ASSUME NEW m \in S PROVE \E i \in 1..(n + k) : c[i] = m
  <2>1. CASE m \in A
    <3>1. PICK i \in 1..n : a[i] = m
      BY <1>4, <2>1
    <3>2. i \in 1..(n + k) /\ i <= n
      BY <1>1
    <3> QED BY <1>3, <3>1, <3>2
  <2>2. CASE m \in B
    <3>1. PICK i \in 1..k : b[i] = m
      BY <1>4, <2>2
    <3>2. n + i \in 1..(n + k) /\ ~(n + i <= n) /\ (n + i) - n = i
      BY <1>1
    <3>3. c[n + i] = m
      BY <1>3, <3>1, <3>2
    <3> QED BY <3>2, <3>3
  <2> QED BY <2>1, <2>2
<1> QED BY <1>2, <1>3, <1>5, <1>6 DEF Lists, c

-----------------------------------------------------------------------------
\* ORDER BY composite_score DESC.
LEMMA ByScoreLists ==
    ASSUME NEW S \in SUBSET Model
    PROVE  Lists(ByScore(S), S)
<1> DEFINE before == {q \in Model \X Model : Row[q[1]].score > Row[q[2]].score}
<1>1. \A x \in S : Row[x].score \in Int
  BY RowAssumption
<1>2. \A x, y \in S : <<x, y>> \in before <=> Row[x].score > Row[y].score
  OBVIOUS
<1> HIDE DEF before
<1>3. ASSUME NEW x \in S PROVE <<x, x>> \notin before
  <2>1. ~(Row[x].score > Row[x].score)
    BY <1>1
  <2> QED BY <1>2, <2>1
<1>4. ASSUME NEW x \in S, NEW y \in S, NEW z \in S
      PROVE  /\ <<x, y>> \in before /\ <<y, z>> \in before => <<x, z>> \in before
             /\ <<x, z>> \in before => <<x, y>> \in before \/ <<y, z>> \in before
  <2>1. Row[x].score \in Int /\ Row[y].score \in Int /\ Row[z].score \in Int
    BY <1>1
  <2> QED BY <1>2, <2>1
<1>5. Lists(Sorted(S, before), S)
  BY <1>3, <1>4, SortedLists
<1> QED BY <1>5 DEF ByScore, before

\* Tuples of four as Python compares them.
LEMMA AboveTuple ==
    ASSUME NEW a \in [1..4 -> Int], NEW b \in [1..4 -> Int]
    PROVE  Above(a, b) <=> \/ a[1] > b[1]
                           \/ a[1] = b[1] /\ a[2] > b[2]
                           \/ a[1] = b[1] /\ a[2] = b[2] /\ a[3] > b[3]
                           \/ a[1] = b[1] /\ a[2] = b[2] /\ a[3] = b[3] /\ a[4] > b[4]
<1> DEFINE At(i) == a[i] > b[i] /\ \A j \in 1..(i - 1) : a[j] = b[j]
<1>1. 1..4 = {1, 2, 3, 4} /\ 1..(1 - 1) = {} /\ 1..(2 - 1) = {1} /\ 1..(3 - 1) = {1, 2}
      /\ 1..(4 - 1) = {1, 2, 3}
  OBVIOUS
<1>2. Above(a, b) <=> At(1) \/ At(2) \/ At(3) \/ At(4)
  <2>1. Above(a, b) <=> \E i \in {1, 2, 3, 4} : At(i)
    BY <1>1 DEF Above
  <2> HIDE DEF At
  <2> QED BY <2>1
<1>3. At(1) <=> a[1] > b[1]
  BY <1>1
<1>4. At(2) <=> a[1] = b[1] /\ a[2] > b[2]
  BY <1>1
<1>5. At(3) <=> a[1] = b[1] /\ a[2] = b[2] /\ a[3] > b[3]
  BY <1>1
<1>6. At(4) <=> a[1] = b[1] /\ a[2] = b[2] /\ a[3] = b[3] /\ a[4] > b[4]
  BY <1>1
<1> HIDE DEF At
<1> QED BY <1>2, <1>3, <1>4, <1>5, <1>6

\* The latency a model is judged by.
LEMMA LatencyType ==
    ASSUME NEW m \in Model
    PROVE  LatencyOf(m) \in Nat /\ Headroom(m) \in Nat
           /\ Headroom(m) = IF LatencyOf(m) <= 5000 THEN 5000 - LatencyOf(m) ELSE 0
<1>1. LatencyOf(m) \in Nat
  BY RowAssumption DEF LatencyOf
<1>2. 0 \in Int /\ 5000 - LatencyOf(m) \in Int
  BY <1>1
<1>3. Headroom(m) = IF 0 <= 5000 - LatencyOf(m) THEN 5000 - LatencyOf(m) ELSE 0
  BY <1>2, MinMax DEF Headroom
<1> QED BY <1>1, <1>3

\* A model's health columns, and the preferences of a request.
Health == [active : BOOLEAN, healthy : BOOLEAN,
           cooldown : {Null} \cup (-Overdue)..(Cooldown * 2^MaxBackoff),
           failures : 0..Threshold, backoff : 0..MaxBackoff,
           probe : {Null} \cup 0..Oldest, success : {Null} \cup 0..Oldest]

Preferences(p) ==
    p = Null \/ (p.maxLatency \in Nat \cup {Null} /\ p.minContext \in Nat \cup {Null})

\* What the score is made of.
LEMMA Columns ==
    ASSUME TypeOK, NEW m \in Model
    PROVE  /\ Row[m].score \in Int /\ Row[m].contextWindow \in Nat
           /\ LatencyOf(m) \in Nat /\ Headroom(m) \in Nat
           /\ h[m].failures \in Nat /\ h[m].backoff \in Nat /\ h[m].failures + h[m].backoff \in Nat
<1>1. h[m] \in Health
  BY DEF TypeOK, Health
<1>2. h[m].failures \in 0..Threshold /\ h[m].backoff \in 0..MaxBackoff
  BY <1>1 DEF Health
<1>3. Threshold \in Nat /\ MaxBackoff \in Nat
  BY NumbersAssumption
<1>4. h[m].failures \in Nat /\ h[m].backoff \in Nat
  BY <1>2, <1>3
<1> QED BY <1>4, LatencyType, RowAssumption

\* The score is a tuple of four numbers.
LEMMA PreferenceType ==
    ASSUME TypeOK, NEW m \in Model, NEW p, Preferences(p)
    PROVE  /\ PreferenceScore(h, m, p) \in [1..4 -> Int]
           /\ p # Null => /\ Bonus(h, m, p) \in Int
                          /\ PreferenceScore(h, m, p)[1] = Row[m].score * 10000 + Bonus(h, m, p)
                          /\ PreferenceScore(h, m, p)[2] = Row[m].score
                          /\ PreferenceScore(h, m, p)[3] = -LatencyOf(m)
                          /\ PreferenceScore(h, m, p)[4] = Row[m].contextWindow
<1> DEFINE sc == Row[m].score
           ctx == Row[m].contextWindow
           lat == LatencyOf(m)
           room == Headroom(m)
           bad == h[m].failures + h[m].backoff
<1>1. sc \in Int /\ ctx \in Nat /\ lat \in Nat /\ room \in Nat /\ bad \in Nat
  BY Columns
<1>2. CASE p = Null
  <2>1. PreferenceScore(h, m, p) = <<sc * 10000, 0, 0, 0>>
    BY <1>2 DEF PreferenceScore
  <2>2. sc * 10000 \in Int
    BY <1>1
  <2> HIDE DEF sc
  <2> QED BY <1>2, <2>1, <2>2
<1>3. CASE p # Null
  <2>1. Bonus(h, m, p) \in Int
    <3>1. sc * 2000 \in Int /\ room * 100 \in Int /\ ctx * 10 \in Int
          /\ room * 20 - bad * 150000 \in Int /\ room * 20 + ctx - bad * 20000 \in Int
      BY <1>1
    <3>2. \A x \in {-250000, 0} : \A y \in {100000, 0} : \A z \in Int : x + y + z \in Int
      OBVIOUS
    <3> DEFINE x == IF p.maxLatency # Null /\ lat > p.maxLatency THEN -250000 ELSE 0
               y == IF p.minContext # Null /\ ctx >= p.minContext THEN 100000 ELSE 0
               z == CASE p.preference = "quality" -> sc * 2000
                      [] p.preference = "latency" -> room * 100
                      [] p.preference = "context" -> ctx * 10
                      [] p.preference = "reliability" -> room * 20 - bad * 150000
                      [] OTHER -> room * 20 + ctx - bad * 20000
    <3>3. Bonus(h, m, p) = x + y + z
      BY DEF Bonus
    <3> HIDE DEF sc, ctx, lat, room, bad
    <3>4. x \in {-250000, 0} /\ y \in {100000, 0} /\ z \in Int
      <4>1. x \in {-250000, 0} /\ y \in {100000, 0}
        OBVIOUS
      <4>2. z \in Int
        BY <3>1
      <4> QED BY <4>1, <4>2
    <3> HIDE DEF x, y, z
    <3> QED BY <3>2, <3>3, <3>4
  <2>2. PreferenceScore(h, m, p) = <<sc * 10000 + Bonus(h, m, p), sc, -lat, ctx>>
    BY <1>3 DEF PreferenceScore
  <2>3. sc * 10000 + Bonus(h, m, p) \in Int /\ -lat \in Int /\ ctx \in Int
    BY <1>1, <2>1
  <2> HIDE DEF sc, ctx, lat
  <2>4. PreferenceScore(h, m, p) \in [1..4 -> Int]
    BY <1>1, <2>2, <2>3
  <2>5. /\ PreferenceScore(h, m, p)[1] = sc * 10000 + Bonus(h, m, p)
        /\ PreferenceScore(h, m, p)[2] = sc /\ PreferenceScore(h, m, p)[3] = -lat
        /\ PreferenceScore(h, m, p)[4] = ctx
    BY <2>2
  <2> QED BY <2>1, <2>4, <2>5 DEF sc, ctx, lat
<1> QED BY <1>2, <1>3

\* The candidates by preference: each once, none before one with a higher score.
LEMMA ByPreferenceLists ==
    ASSUME TypeOK, NEW S \in SUBSET Model, NEW p, Preferences(p)
    PROVE  /\ Lists(ByPreference(h, S, p), S)
           /\ \A i, j \in 1..Cardinality(S) : i < j =>
                 ~Above(PreferenceScore(h, ByPreference(h, S, p)[j], p),
                        PreferenceScore(h, ByPreference(h, S, p)[i], p))
<1> DEFINE v(m) == PreferenceScore(h, m, p)
           before == {q \in Model \X Model : Above(v(q[1]), v(q[2]))}
           o == Sorted(S, before)
<1>1. \A x \in S : v(x) \in [1..4 -> Int]
  BY PreferenceType
<1>2. \A x, y \in S : <<x, y>> \in before <=> Above(v(x), v(y))
  <2> HIDE DEF v
  <2> QED OBVIOUS
<1>3. ByPreference(h, S, p) = o
  BY DEF ByPreference
<1> HIDE DEF before, v
<1>4. ASSUME NEW x \in S PROVE <<x, x>> \notin before
  <2>1. v(x) \in [1..4 -> Int]
    BY <1>1
  <2>2. ~Above(v(x), v(x))
    BY <2>1, AboveTuple
  <2> QED BY <1>2, <2>2
<1>5. ASSUME NEW x \in S, NEW y \in S, NEW z \in S
      PROVE  /\ <<x, y>> \in before /\ <<y, z>> \in before => <<x, z>> \in before
             /\ <<x, z>> \in before => <<x, y>> \in before \/ <<y, z>> \in before
  <2> DEFINE a == v(x)
             b == v(y)
             c == v(z)
  <2>1. a \in [1..4 -> Int] /\ b \in [1..4 -> Int] /\ c \in [1..4 -> Int]
    BY <1>1
  <2>2. /\ <<x, y>> \in before <=> Above(a, b)
        /\ <<y, z>> \in before <=> Above(b, c)
        /\ <<x, z>> \in before <=> Above(a, c)
    BY <1>2
  <2> HIDE DEF a, b, c
  <2>3. /\ a[1] \in Int /\ a[2] \in Int /\ a[3] \in Int /\ a[4] \in Int
        /\ b[1] \in Int /\ b[2] \in Int /\ b[3] \in Int /\ b[4] \in Int
        /\ c[1] \in Int /\ c[2] \in Int /\ c[3] \in Int /\ c[4] \in Int
    BY <2>1
  <2>4. Above(a, b) <=> \/ a[1] > b[1]
                        \/ a[1] = b[1] /\ a[2] > b[2]
                        \/ a[1] = b[1] /\ a[2] = b[2] /\ a[3] > b[3]
                        \/ a[1] = b[1] /\ a[2] = b[2] /\ a[3] = b[3] /\ a[4] > b[4]
    BY <2>1, AboveTuple
  <2>5. Above(b, c) <=> \/ b[1] > c[1]
                        \/ b[1] = c[1] /\ b[2] > c[2]
                        \/ b[1] = c[1] /\ b[2] = c[2] /\ b[3] > c[3]
                        \/ b[1] = c[1] /\ b[2] = c[2] /\ b[3] = c[3] /\ b[4] > c[4]
    BY <2>1, AboveTuple
  <2>6. Above(a, c) <=> \/ a[1] > c[1]
                        \/ a[1] = c[1] /\ a[2] > c[2]
                        \/ a[1] = c[1] /\ a[2] = c[2] /\ a[3] > c[3]
                        \/ a[1] = c[1] /\ a[2] = c[2] /\ a[3] = c[3] /\ a[4] > c[4]
    BY <2>1, AboveTuple
  <2>7. Above(a, b) /\ Above(b, c) => Above(a, c)
    BY <2>3, <2>4, <2>5, <2>6
  <2>8. Above(a, c) => Above(a, b) \/ Above(b, c)
    BY <2>3, <2>4, <2>5, <2>6
  <2> QED BY <2>2, <2>7, <2>8
<1>6. /\ Lists(o, S)
      /\ \A i, j \in 1..Cardinality(S) : i < j => <<o[j], o[i]>> \notin before
  BY <1>4, <1>5, SortedLists
<1> HIDE DEF o
<1>7. ASSUME NEW i \in 1..Cardinality(S), NEW j \in 1..Cardinality(S), i < j
      PROVE  ~Above(v(o[j]), v(o[i]))
  <2>1. o[i] \in S /\ o[j] \in S
    BY <1>6, ElementOfSeq DEF Lists
  <2> QED BY <1>2, <1>6, <1>7, <2>1
<1> QED BY <1>3, <1>6, <1>7 DEF v

\* The candidates are models, and so finitely many.
LEMMA CandidatesType ==
    ASSUME NEW r
    PROVE  /\ Candidates(h, r) \in SUBSET Model
           /\ IsFiniteSet(Candidates(h, r)) /\ Cardinality(Candidates(h, r)) \in Nat
<1>1. Candidates(h, r) \in SUBSET Model
  BY DEF Candidates, Eligible
<1> QED BY <1>1, Models, FS_Subset, FS_CardinalityType

\* A request's preferences are as they should be.
LEMMA RequestType ==
    ASSUME NEW r \in Request
    PROVE  r.limit \in Nat /\ r.minContext \in Nat /\ Preferences(r.preferences)
BY RequestAssumption DEF Preferences

\* Every candidate has one place in the order pick_candidates makes.
LEMMA OrderedLists ==
    ASSUME TypeOK, NEW r \in Request
    PROVE  Lists(Ordered(h, r), Candidates(h, r))
<1> DEFINE S == Candidates(h, r)
           E == IF r.model = "auto" THEN {} ELSE MatchExplicit(S, r.model)
<1>1. S \in SUBSET Model /\ IsFiniteSet(S) /\ Preferences(r.preferences)
  BY CandidatesType, RequestType
<1>2. Ordered(h, r) = IF E # {} THEN ByScore(E) \o ByScore(S \ E) ELSE ByPreference(h, S, r.preferences)
  BY DEF Ordered
<1>3. E \in SUBSET S
  BY DEF MatchExplicit, Named
<1> HIDE DEF S, E
<1>4. CASE E # {}
  <2>1. E \in SUBSET Model /\ S \ E \in SUBSET Model /\ E \cap (S \ E) = {} /\ E \cup (S \ E) = S
    BY <1>1, <1>3
  <2>2. IsFiniteSet(E) /\ IsFiniteSet(S \ E)
    BY <1>1, <1>3, FS_Subset
  <2>3. Lists(ByScore(E), E) /\ Lists(ByScore(S \ E), S \ E)
    BY <2>1, ByScoreLists
  <2>4. Lists(ByScore(E) \o ByScore(S \ E), E \cup (S \ E))
    BY <2>1, <2>2, <2>3, ConcatLists
  <2> QED BY <1>2, <1>4, <2>1, <2>4 DEF S
<1>5. CASE E = {}
  <2>1. Lists(ByPreference(h, S, r.preferences), S)
    BY <1>1, ByPreferenceLists
  <2> QED BY <1>2, <1>5, <2>1 DEF S
<1> QED BY <1>4, <1>5

\* Is the fallback model a candidate without one of the places?
Missing(r) ==
    /\ r.fallback \in Candidates(h, r)
    /\ \A i \in DOMAIN Prefix(Ordered(h, r), r.limit) : Ordered(h, r)[i] # r.fallback

\* What pick_candidates returns: the first of the order, with the fallback model in the
\* last place if it has no other.
LEMMA Picked ==
    ASSUME TypeOK, NEW r \in Request
    PROVE  /\ PickCandidates(h, r) \in Seq(Candidates(h, r))
           /\ Len(PickCandidates(h, r)) = IF r.limit <= Cardinality(Candidates(h, r))
                                          THEN r.limit ELSE Cardinality(Candidates(h, r))
           /\ Missing(r) => r.limit < Cardinality(Candidates(h, r))
           /\ \A i \in 1..Len(PickCandidates(h, r)) :
                 /\ i \in 1..Len(Ordered(h, r))
                 /\ PickCandidates(h, r)[i] = IF Missing(r) /\ i = r.limit THEN r.fallback
                                              ELSE Ordered(h, r)[i]
<1> DEFINE S == Candidates(h, r)
           N == Cardinality(S)
           o == Ordered(h, r)
           lim == r.limit
           fb == r.fallback
           s == PickCandidates(h, r)
<1>1. S \in SUBSET Model /\ N \in Nat /\ lim \in Nat
  BY CandidatesType, RequestType
<1>2. Lists(o, S)
  BY OrderedLists
<1>3. o \in Seq(S) /\ Len(o) = N
  BY <1>2 DEF Lists
<1>4. s = Prefix(IF Missing(r) THEN InsertFallback(o, fb, lim) ELSE o, lim)
  BY DEF PickCandidates, Missing
<1>m. Missing(r) <=> fb \in S /\ \A i \in DOMAIN Prefix(o, lim) : o[i] # fb
  BY DEF Missing
<1> HIDE DEF S, N, o, lim, fb, s
<1>5. CASE ~Missing(r)
  <2>1. s = Prefix(o, lim)
    BY <1>4, <1>5
  <2>2. /\ s \in Seq(S) /\ Len(s) = (IF lim <= Len(o) THEN lim ELSE Len(o))
        /\ \A i \in 1..Len(s) : i \in 1..Len(o) /\ s[i] = o[i]
    BY <1>1, <1>3, <2>1, PrefixOf
  <2> QED BY <1>3, <1>5, <2>2 DEF S, N, o, lim, fb, s
<1>6. CASE Missing(r)
  <2>1. lim < N
    <3> SUFFICES ASSUME ~(lim < N) PROVE FALSE
      OBVIOUS
    <3>1. PICK i \in 1..Len(o) : o[i] = fb
      BY <1>2, <1>6, <1>m DEF Lists
    <3>2. Prefix(o, lim) \in Seq(S) /\ Len(Prefix(o, lim)) = IF lim <= Len(o) THEN lim ELSE Len(o)
      BY <1>1, <1>3, PrefixOf
    <3>3. Len(Prefix(o, lim)) = Len(o)
      BY <1>1, <1>3, <3>2
    <3>4. i \in DOMAIN Prefix(o, lim)
      BY <3>1, <3>2, <3>3, LenProperties
    <3> QED BY <1>6, <1>m, <3>1, <3>4
  <2> DEFINE k == Max({lim - 1, 0})
             p == Prefix(o, k)
             q == SubSeq(o, k + 1, Len(o))
             t == p \o <<fb>> \o q
  <2>2. k \in Nat /\ k = IF lim = 0 THEN 0 ELSE lim - 1
    <3>1. lim - 1 \in Int /\ 0 \in Int
      BY <1>1
    <3>2. k = IF lim - 1 <= 0 THEN 0 ELSE lim - 1
      BY <3>1, MinMax
    <3> QED BY <1>1, <3>2
  <2>3. s = Prefix(t, lim)
    BY <1>4, <1>6 DEF InsertFallback
  <2> HIDE DEF k
  <2>4. p \in Seq(S) /\ Len(p) = k /\ \A i \in 1..k : p[i] = o[i]
    <3>1. k <= Len(o)
      BY <1>1, <1>3, <2>1, <2>2
    <3>2. /\ p \in Seq(S) /\ Len(p) = (IF k <= Len(o) THEN k ELSE Len(o))
          /\ \A i \in 1..Len(p) : i \in 1..Len(o) /\ p[i] = o[i]
      BY <1>3, <2>2, PrefixOf
    <3> QED BY <3>1, <3>2
  <2>5. q \in Seq(S) /\ Len(q) \in Nat
    <3>1. k + 1 \in Int /\ Len(o) \in Int /\ \A i \in (k + 1)..Len(o) : o[i] \in S
      BY <1>1, <1>3, <2>2, ElementOfSeq
    <3> QED BY <3>1, SubSeqProperties
  <2>6. <<fb>> \in Seq(S) /\ Len(<<fb>>) = 1 /\ <<fb>>[1] = fb
    BY <1>6, <1>m
  <2> DEFINE u == p \o <<fb>>
  <2> HIDE DEF p, q
  <2>7. /\ u \in Seq(S) /\ Len(u) = k + 1
        /\ \A i \in 1..(k + 1) : u[i] = IF i <= k THEN p[i] ELSE <<fb>>[i - k]
    BY <2>4, <2>6, ConcatProperties
  <2> HIDE DEF u
  <2>8. /\ u \o q \in Seq(S) /\ Len(u \o q) = (k + 1) + Len(q)
        /\ \A i \in 1..((k + 1) + Len(q)) : (u \o q)[i] = IF i <= k + 1 THEN u[i] ELSE q[i - (k + 1)]
    BY <2>5, <2>7, ConcatProperties
  <2>9. t = u \o q
    BY DEF u
  <2> HIDE DEF t
  <2>10. /\ s \in Seq(S) /\ Len(s) = (IF lim <= Len(t) THEN lim ELSE Len(t))
         /\ \A i \in 1..Len(s) : i \in 1..Len(t) /\ s[i] = t[i]
    BY <1>1, <2>3, <2>8, <2>9, PrefixOf
  <2>11. Len(s) = lim
    <3>1. lim <= Len(t)
      BY <1>1, <2>2, <2>5, <2>8, <2>9
    <3> QED BY <2>10, <3>1
  <2>12. ASSUME NEW i \in 1..lim PROVE i \in 1..Len(o) /\ s[i] = IF i = lim THEN fb ELSE o[i]
    <3>1. k + 1 = lim /\ i \in 1..((k + 1) + Len(q)) /\ i <= k + 1 /\ i \in 1..(k + 1)
      BY <1>1, <2>2, <2>5
    <3>2. s[i] = u[i]
      BY <2>8, <2>9, <2>10, <2>11, <3>1
    <3>3. CASE i = lim
      <4>1. ~(i <= k) /\ i - k = 1
        BY <1>1, <2>2, <3>1, <3>3
      <4> QED BY <1>1, <1>3, <2>1, <2>6, <2>7, <3>1, <3>2, <3>3, <4>1
    <3>4. CASE i # lim
      <4>1. i <= k /\ i \in 1..k
        BY <1>1, <2>2, <3>1, <3>4
      <4> QED BY <1>1, <1>3, <2>1, <2>4, <2>7, <3>1, <3>2, <3>4, <4>1
    <3> QED BY <3>3, <3>4
  <2> QED BY <1>1, <1>6, <2>1, <2>10, <2>11, <2>12 DEF S, N, o, lim, fb, s
<1> QED BY <1>5, <1>6

\* A candidate can serve the request.
LEMMA CandidateServes ==
    ASSUME TypeOK, NEW r \in Request, NEW m \in Candidates(h, r)
    PROVE  Serves(m, r)
<1> DEFINE eff == EffectiveMinContext(r)
           ctx == Row[m].contextWindow
           p == r.preferences
<1>1. /\ m \in Model /\ h[m].active /\ h[m].healthy /\ r.needs \subseteq Row[m].supports
      /\ h[m].cooldown = Null \/ h[m].cooldown < 0
      /\ ctx >= eff /\ FitsEstimate(m, r)
      /\ Row[m].maxOutput # Null => Row[m].maxOutput >= r.minOutput
  BY DEF Candidates, Eligible
<1>2. ctx \in Nat /\ r.minContext \in Nat
  BY <1>1, RowAssumption, RequestType
<1>3. eff \in Int /\ eff >= r.minContext /\ (p # Null /\ p.minContext # Null => eff >= p.minContext)
  <2>1. CASE p = Null \/ p.minContext = Null
    <3>1. eff = r.minContext
      BY <2>1 DEF EffectiveMinContext
    <3> QED BY <1>2, <2>1, <3>1
  <2>2. CASE p # Null /\ p.minContext # Null
    <3>0. Preferences(p)
      BY RequestType
    <3>1. p.minContext \in Nat
      BY <2>2, <3>0 DEF Preferences
    <3>2. eff = Max({r.minContext, p.minContext})
      BY <2>2 DEF EffectiveMinContext
    <3> DEFINE a == r.minContext
               b == p.minContext
    <3>3. a \in Int /\ b \in Int /\ eff = Max({a, b})
      BY <1>2, <3>1, <3>2
    <3> HIDE DEF a, b, eff
    <3>4. Max({a, b}) = IF a <= b THEN b ELSE a
      BY <3>3, MinMax
    <3>5. eff \in Int /\ eff >= a /\ eff >= b
      BY <3>3, <3>4
    <3> QED BY <3>5 DEF a, b
  <2> QED BY <2>1, <2>2
<1>4. h[m].cooldown \notin 0..(Cooldown * 2^MaxBackoff)
  <2>1. CASE h[m].cooldown = Null
    BY <2>1, NullAssumption
  <2>2. CASE h[m].cooldown < 0
    BY <2>2
  <2> QED BY <1>1, <2>1, <2>2
<1> HIDE DEF eff
<1>5. ctx >= r.minContext /\ (p # Null /\ p.minContext # Null => ctx >= p.minContext)
  <2>1. CASE p # Null /\ p.minContext # Null
    <3>1. p.minContext \in Nat
      BY <2>1, RequestType DEF Preferences
    <3> QED BY <1>1, <1>2, <1>3, <3>1
  <2>2. CASE ~(p # Null /\ p.minContext # Null)
    BY <1>1, <1>2, <1>3, <2>2
  <2> QED BY <2>1, <2>2
<1>6. r.estimate # Null => ctx >= r.estimate[Row[m].tokenizer]
  <2> SUFFICES ASSUME r.estimate # Null PROVE ctx >= r.estimate[Row[m].tokenizer]
    OBVIOUS
  <2> DEFINE est == r.estimate[Row[m].tokenizer]
  <2>1. est \in Nat
    BY <1>1, RequestAssumption
  <2>2. ctx >= Max({eff, est})
    BY <1>1 DEF FitsEstimate, eff
  <2> HIDE DEF est
  <2>3. Max({eff, est}) = IF eff <= est THEN est ELSE eff
    BY <1>3, <2>1, MinMax
  <2>4. ctx >= est
    BY <1>2, <1>3, <2>1, <2>2, <2>3
  <2> QED BY <2>4 DEF est
<1>7. ASSUME NEW n \in {r.minContext}
                \cup (IF r.estimate = Null THEN {} ELSE {r.estimate[Row[m].tokenizer]})
                \cup (IF r.preferences = Null THEN {} ELSE {r.preferences.minContext} \ {Null})
      PROVE  ctx >= n
  BY <1>5, <1>6
<1> QED BY <1>1, <1>4, <1>7 DEF Serves

\* Different models that can serve, as many as there are places or candidates.
LEMMA AllServe == TypeOK => PicksServe
<1> SUFFICES ASSUME TypeOK, NEW r \in Request
             PROVE  LET s == PickCandidates(h, r)
                    IN /\ Len(s) = Min({r.limit, Cardinality(Candidates(h, r))})
                       /\ IsInjective(s)
                       /\ \A m \in Range(s) : Serves(m, r)
    BY DEF PicksServe
<1> DEFINE S == Candidates(h, r)
           N == Cardinality(S)
           o == Ordered(h, r)
           s == PickCandidates(h, r)
<1>1. /\ s \in Seq(S) /\ Len(s) = (IF r.limit <= N THEN r.limit ELSE N)
      /\ Missing(r) => r.limit < N
      /\ \A i \in 1..Len(s) :
            i \in 1..Len(o) /\ s[i] = IF Missing(r) /\ i = r.limit THEN r.fallback ELSE o[i]
  BY Picked
<1>2. N \in Nat /\ r.limit \in Nat
  BY CandidatesType, RequestType
<1>3. Lists(o, S)
  BY OrderedLists
<1>4. o \in Seq(S) /\ Len(o) = N /\ \A i, j \in 1..Len(o) : o[i] = o[j] => i = j
  BY <1>3 DEF Lists
<1>5. Missing(r) => \A i \in 1..r.limit : o[i] # r.fallback
  <2> SUFFICES ASSUME Missing(r), NEW i \in 1..r.limit PROVE o[i] # r.fallback
    OBVIOUS
  <2>1. Prefix(o, r.limit) \in Seq(S)
        /\ Len(Prefix(o, r.limit)) = IF r.limit <= Len(o) THEN r.limit ELSE Len(o)
    <3> HIDE DEF o, S
    <3> QED BY <1>2, <1>4, PrefixOf
  <2>2. DOMAIN Prefix(o, r.limit) = 1..r.limit
    BY <1>1, <1>2, <1>4, <2>1, LenProperties
  <2> QED BY <2>2 DEF Missing
<1>6. Len(s) = Min({r.limit, N})
  <2> HIDE DEF N, s
  <2> QED BY <1>1, <1>2, MinMax
<1> HIDE DEF s, o, N, S
<1>7. DOMAIN s = 1..Len(s) /\ Len(s) \in Nat
  BY <1>1, LenProperties
<1>8. IsInjective(s)
  <2> SUFFICES ASSUME NEW i \in 1..Len(s), NEW j \in 1..Len(s), s[i] = s[j] PROVE i = j
    BY <1>7 DEF IsInjective
  <2>1. i \in 1..Len(o) /\ j \in 1..Len(o)
    BY <1>1
  <2>2. CASE Missing(r)
    <3>1. Len(s) = r.limit
      BY <1>1, <1>2, <2>2
    <3>2. o[i] # r.fallback /\ o[j] # r.fallback
      BY <1>5, <2>2, <3>1
    <3>3. CASE i = r.limit \/ j = r.limit
      BY <1>1, <2>2, <3>2, <3>3
    <3>4. CASE i # r.limit /\ j # r.limit
      BY <1>1, <1>4, <2>1, <3>4
    <3> QED BY <3>3, <3>4
  <2>3. CASE ~Missing(r)
    BY <1>1, <1>4, <2>1, <2>3
  <2> QED BY <2>2, <2>3
<1>9. ASSUME NEW m \in Range(s) PROVE Serves(m, r)
  <2>1. PICK i \in 1..Len(s) : s[i] = m
    BY <1>7 DEF Range
  <2>2. m \in S
    BY <1>1, <2>1, ElementOfSeq
  <2> QED BY <2>2, CandidateServes DEF S
<1> QED BY <1>6, <1>8, <1>9 DEF s, N, S

\* The requested model first, the fallback model somewhere.
LEMMA PlacesKept == TypeOK => RequestedAndFallbackTried
<1> SUFFICES ASSUME TypeOK, NEW r \in Request, r.limit > 0
             PROVE  LET s == PickCandidates(h, r)
                        S == Candidates(h, r)
                        named == IF r.model = "auto" THEN {} ELSE MatchExplicit(S, r.model)
                    IN /\ r.fallback \in S => r.fallback \in Range(s)
                       /\ named # {} /\ (r.limit > 1 \/ r.fallback \notin S) => s[1] \in named
    BY DEF RequestedAndFallbackTried
<1> DEFINE S == Candidates(h, r)
           N == Cardinality(S)
           o == Ordered(h, r)
           s == PickCandidates(h, r)
           E == IF r.model = "auto" THEN {} ELSE MatchExplicit(S, r.model)
<1>1. /\ s \in Seq(S) /\ Len(s) = (IF r.limit <= N THEN r.limit ELSE N)
      /\ Missing(r) => r.limit < N
      /\ \A i \in 1..Len(s) :
            i \in 1..Len(o) /\ s[i] = IF Missing(r) /\ i = r.limit THEN r.fallback ELSE o[i]
  BY Picked
<1>2. N \in Nat /\ r.limit \in Nat /\ S \in SUBSET Model /\ IsFiniteSet(S)
  BY CandidatesType, RequestType
<1>3. DOMAIN s = 1..Len(s) /\ Len(s) \in Nat
  BY <1>1, LenProperties
<1>4. o \in Seq(S) /\ Len(o) = N
  BY OrderedLists DEF Lists
<1>5. E \in SUBSET S
  BY DEF MatchExplicit, Named
<1>6. E # {} => o = ByScore(E) \o ByScore(S \ E)
  BY DEF Ordered
<1>m. Missing(r) <=> r.fallback \in S /\ \A i \in DOMAIN Prefix(o, r.limit) : o[i] # r.fallback
  BY DEF Missing
<1> HIDE DEF s, o, N, S, E
<1>7. ASSUME r.fallback \in S PROVE r.fallback \in Range(s)
  <2>1. CASE Missing(r)
    <3>1. r.limit \in 1..Len(s)
      BY <1>1, <1>2, <2>1
    <3>2. s[r.limit] = r.fallback
      BY <1>1, <2>1, <3>1
    <3> QED BY <1>3, <3>1, <3>2 DEF Range
  <2>2. CASE ~Missing(r)
    <3>1. PICK i \in DOMAIN Prefix(o, r.limit) : o[i] = r.fallback
      BY <1>7, <1>m, <2>2
    <3>2. Prefix(o, r.limit) \in Seq(S)
          /\ Len(Prefix(o, r.limit)) = IF r.limit <= Len(o) THEN r.limit ELSE Len(o)
      BY <1>2, <1>4, PrefixOf
    <3>3. DOMAIN Prefix(o, r.limit) = 1..Len(s)
      BY <1>1, <1>4, <3>2, LenProperties
    <3>4. i \in 1..Len(s) /\ s[i] = r.fallback
      BY <1>1, <2>2, <3>1, <3>3
    <3> QED BY <1>3, <3>4 DEF Range
  <2> QED BY <2>1, <2>2
<1>8. ASSUME E # {}, r.limit > 1 \/ r.fallback \notin S PROVE s[1] \in E
  <2> DEFINE a == ByScore(E)
             b == ByScore(S \ E)
  <2>1. IsFiniteSet(E) /\ E \in SUBSET Model /\ S \ E \in SUBSET Model
    BY <1>2, <1>5, FS_Subset
  <2>2. Cardinality(E) \in Nat /\ Cardinality(E) # 0
    BY <1>8, <2>1, FS_CardinalityType, FS_EmptySet
  <2>3. /\ a \in Seq(E) /\ Len(a) = Cardinality(E)
        /\ b \in Seq(S \ E)
    BY <2>1, ByScoreLists DEF Lists
  <2> HIDE DEF a, b
  <2>4. a[1] \in E /\ 1 \in 1..Len(a)
    BY <2>2, <2>3, ElementOfSeq
  <2>5. a \in Seq(S) /\ b \in Seq(S)
    <3>1. E \subseteq S /\ S \ E \subseteq S
      BY <1>5
    <3>2. Seq(E) \subseteq Seq(S) /\ Seq(S \ E) \subseteq Seq(S)
      BY <3>1, SeqMonotonic
    <3> QED BY <2>3, <3>2
  <2>6. o[1] = a[1] /\ Len(o) > 0
    <3>1. Len(a) \in Nat /\ Len(b) \in Nat
      BY <2>5, LenProperties
    <3>2. /\ Len(a \o b) = Len(a) + Len(b)
          /\ \A i \in 1..(Len(a) + Len(b)) : (a \o b)[i] = IF i <= Len(a) THEN a[i] ELSE b[i - Len(a)]
      BY <2>5, ConcatProperties
    <3>3. 1 \in 1..(Len(a) + Len(b)) /\ 1 <= Len(a)
      BY <2>4, <3>1
    <3>4. o = a \o b
      BY <1>6, <1>8 DEF a, b
    <3> QED BY <3>1, <3>2, <3>3, <3>4
  <2>7. 1 \in 1..Len(s)
    BY <1>1, <1>2, <1>4, <2>6
  <2>8. ~(Missing(r) /\ 1 = r.limit)
    BY <1>8, <1>m, <1>2
  <2>9. s[1] = o[1]
    BY <1>1, <2>7, <2>8
  <2> QED BY <2>4, <2>6, <2>9
<1> QED BY <1>7, <1>8 DEF s, S, E

\* No worse in anything means no smaller a bonus, whatever the client prefers.
LEMMA BonusGrows ==
    ASSUME TypeOK, NEW m \in Model, NEW n \in Model, Dominates(m, n),
           NEW p, Preferences(p), p # Null
    PROVE  Bonus(h, m, p) >= Bonus(h, n, p)
<1> DEFINE sc(k) == Row[k].score
           ctx(k) == Row[k].contextWindow
           lat(k) == LatencyOf(k)
           room(k) == Headroom(k)
           bad(k) == h[k].failures + h[k].backoff
           x(k) == IF p.maxLatency # Null /\ lat(k) > p.maxLatency THEN -250000 ELSE 0
           y(k) == IF p.minContext # Null /\ ctx(k) >= p.minContext THEN 100000 ELSE 0
           z(k) == CASE p.preference = "quality" -> sc(k) * 2000
                     [] p.preference = "latency" -> room(k) * 100
                     [] p.preference = "context" -> ctx(k) * 10
                     [] p.preference = "reliability" -> room(k) * 20 - bad(k) * 150000
                     [] OTHER -> room(k) * 20 + ctx(k) - bad(k) * 20000
<1>1. /\ sc(m) \in Int /\ ctx(m) \in Nat /\ lat(m) \in Nat /\ room(m) \in Nat /\ bad(m) \in Nat
      /\ sc(n) \in Int /\ ctx(n) \in Nat /\ lat(n) \in Nat /\ room(n) \in Nat /\ bad(n) \in Nat
  BY Columns
<1>2. /\ sc(m) >= sc(n) /\ lat(m) <= lat(n) /\ ctx(m) >= ctx(n) /\ bad(m) <= bad(n)
  BY DEF Dominates
<1>3. /\ room(m) = (IF lat(m) <= 5000 THEN 5000 - lat(m) ELSE 0)
      /\ room(n) = (IF lat(n) <= 5000 THEN 5000 - lat(n) ELSE 0)
  BY LatencyType
<1>4. /\ Bonus(h, m, p) = x(m) + y(m) + z(m)
      /\ Bonus(h, n, p) = x(n) + y(n) + z(n)
  BY DEF Bonus
<1>5. p.maxLatency \in Nat \cup {Null} /\ p.minContext \in Nat \cup {Null}
  BY DEF Preferences
<1> HIDE DEF sc, ctx, lat, room, bad
<1>6. room(m) >= room(n)
  BY <1>1, <1>2, <1>3
<1>7. x(m) \in Int /\ x(n) \in Int /\ x(m) >= x(n)
  <2>1. CASE p.maxLatency = Null
    BY <2>1
  <2>2. CASE p.maxLatency \in Nat
    BY <1>1, <1>2, <2>2
  <2> QED BY <1>5, <2>1, <2>2
<1>8. y(m) \in Int /\ y(n) \in Int /\ y(m) >= y(n)
  <2>1. CASE p.minContext = Null
    BY <2>1
  <2>2. CASE p.minContext \in Nat
    BY <1>1, <1>2, <2>2
  <2> QED BY <1>5, <2>1, <2>2
<1>9. z(m) \in Int /\ z(n) \in Int /\ z(m) >= z(n)
  <2> DEFINE q == p.preference
  <2>1. CASE q = "quality"
    <3>1. z(m) = sc(m) * 2000 /\ z(n) = sc(n) * 2000
      BY <2>1
    <3> HIDE DEF z
    <3> QED BY <1>1, <1>2, <3>1
  <2>2. CASE q = "latency"
    <3>1. z(m) = room(m) * 100 /\ z(n) = room(n) * 100
      BY <2>2
    <3> HIDE DEF z
    <3> QED BY <1>1, <1>6, <3>1
  <2>3. CASE q = "context"
    <3>1. z(m) = ctx(m) * 10 /\ z(n) = ctx(n) * 10
      BY <2>3
    <3> HIDE DEF z
    <3> QED BY <1>1, <1>2, <3>1
  <2>4. CASE q = "reliability"
    <3>1. /\ z(m) = room(m) * 20 - bad(m) * 150000
          /\ z(n) = room(n) * 20 - bad(n) * 150000
      BY <2>4
    <3> HIDE DEF z
    <3> QED BY <1>1, <1>2, <1>6, <3>1
  <2>5. CASE q \notin {"quality", "latency", "context", "reliability"}
    <3>1. /\ z(m) = room(m) * 20 + ctx(m) - bad(m) * 20000
          /\ z(n) = room(n) * 20 + ctx(n) - bad(n) * 20000
      BY <2>5
    <3> HIDE DEF z
    <3> QED BY <1>1, <1>2, <1>6, <3>1
  <2> QED BY <2>1, <2>2, <2>3, <2>4, <2>5
<1> HIDE DEF x, y, z
<1> QED BY <1>4, <1>7, <1>8, <1>9

\* And so a higher score.
LEMMA BetterIsAbove ==
    ASSUME TypeOK, NEW m \in Model, NEW n \in Model, Dominates(m, n),
           NEW p, Preferences(p), p # Null
    PROVE  Above(PreferenceScore(h, m, p), PreferenceScore(h, n, p))
<1> DEFINE a == PreferenceScore(h, m, p)
           b == PreferenceScore(h, n, p)
           u == Bonus(h, m, p)
           v == Bonus(h, n, p)
<1>1. u >= v
  BY BonusGrows
<1>2. /\ a \in [1..4 -> Int] /\ u \in Int
      /\ a[1] = Row[m].score * 10000 + u /\ a[2] = Row[m].score
      /\ a[3] = -LatencyOf(m) /\ a[4] = Row[m].contextWindow
  BY PreferenceType
<1>3. /\ b \in [1..4 -> Int] /\ v \in Int
      /\ b[1] = Row[n].score * 10000 + v /\ b[2] = Row[n].score
      /\ b[3] = -LatencyOf(n) /\ b[4] = Row[n].contextWindow
  BY PreferenceType
<1>4. /\ Row[m].score \in Int /\ Row[m].contextWindow \in Nat /\ LatencyOf(m) \in Nat
      /\ Row[n].score \in Int /\ Row[n].contextWindow \in Nat /\ LatencyOf(n) \in Nat
  BY Columns
<1>5. /\ Row[m].score >= Row[n].score /\ LatencyOf(m) <= LatencyOf(n)
      /\ Row[m].contextWindow >= Row[n].contextWindow
      /\ \/ Row[m].score > Row[n].score \/ LatencyOf(m) < LatencyOf(n)
         \/ Row[m].contextWindow > Row[n].contextWindow
  BY DEF Dominates
<1> HIDE DEF a, b, u, v
<1>6. Above(a, b) <=> \/ a[1] > b[1]
                      \/ a[1] = b[1] /\ a[2] > b[2]
                      \/ a[1] = b[1] /\ a[2] = b[2] /\ a[3] > b[3]
                      \/ a[1] = b[1] /\ a[2] = b[2] /\ a[3] = b[3] /\ a[4] > b[4]
  BY <1>2, <1>3, AboveTuple
<1>7. \/ a[1] > b[1]
      \/ a[1] = b[1] /\ a[2] > b[2]
      \/ a[1] = b[1] /\ a[2] = b[2] /\ a[3] > b[3]
      \/ a[1] = b[1] /\ a[2] = b[2] /\ a[3] = b[3] /\ a[4] > b[4]
  BY <1>1, <1>2, <1>3, <1>4, <1>5
<1> QED BY <1>6, <1>7 DEF a, b

\* No model before, or instead of, a better one.
LEMMA BetterBefore == TypeOK => BetterFirst
<1> SUFFICES ASSUME TypeOK, NEW r \in Request, r.preferences # Null,
                    MatchExplicit(Candidates(h, r), r.model) = {},
                    NEW i \in DOMAIN PickCandidates(h, r), PickCandidates(h, r)[i] # r.fallback,
                    NEW m \in Candidates(h, r), Dominates(m, PickCandidates(h, r)[i])
             PROVE  \E j \in 1..(i - 1) : PickCandidates(h, r)[j] = m
    BY DEF BetterFirst
<1> DEFINE S == Candidates(h, r)
           N == Cardinality(S)
           o == Ordered(h, r)
           s == PickCandidates(h, r)
           p == r.preferences
<1>1. /\ s \in Seq(S) /\ Len(s) = (IF r.limit <= N THEN r.limit ELSE N)
      /\ \A k \in 1..Len(s) :
            k \in 1..Len(o) /\ s[k] = IF Missing(r) /\ k = r.limit THEN r.fallback ELSE o[k]
  BY Picked
<1>2. N \in Nat /\ r.limit \in Nat /\ S \in SUBSET Model /\ Preferences(p)
  BY CandidatesType, RequestType
<1>3. o = ByPreference(h, S, p)
  BY DEF Ordered
<1>4. /\ Lists(o, S)
      /\ \A k, j \in 1..N : k < j => ~Above(PreferenceScore(h, o[j], p), PreferenceScore(h, o[k], p))
  BY <1>2, <1>3, ByPreferenceLists
<1>5. i \in 1..Len(s)
  BY <1>1, LenProperties
<1>6. s[i] # r.fallback /\ Dominates(m, s[i]) /\ m \in S /\ p # Null
  OBVIOUS
<1> HIDE DEF S, N, o, s, p
<1>l. Lists(o, S)
  BY <1>4
<1>7. o \in Seq(S) /\ Len(o) = N
  BY <1>l DEF Lists, N
<1>8. PICK k \in 1..Len(o) : o[k] = m
  BY <1>l, <1>6 DEF Lists
<1>9. s[i] = o[i] /\ i \in 1..N /\ k \in 1..N /\ o[i] \in Model /\ o[k] \in Model
  BY <1>1, <1>2, <1>5, <1>6, <1>7, <1>8, ElementOfSeq
<1>10. Dominates(o[k], o[i])
  BY <1>6, <1>8, <1>9
<1>11. Above(PreferenceScore(h, o[k], p), PreferenceScore(h, o[i], p))
  BY <1>2, <1>6, <1>9, <1>10, BetterIsAbove
<1>12. k # i
  <2> SUFFICES ASSUME k = i PROVE FALSE
    OBVIOUS
  <2>1. Dominates(m, m)
    BY <1>8, <1>10
  <2>2. Row[m].score \in Int /\ Row[m].contextWindow \in Nat /\ LatencyOf(m) \in Nat
    BY <1>2, <1>6, Columns
  <2> QED BY <2>1, <2>2 DEF Dominates
<1>13. ~(i < k)
  BY <1>4, <1>9, <1>11
<1>14. k \in 1..(i - 1)
  BY <1>9, <1>12, <1>13
<1>15. k \in 1..Len(s) /\ k # r.limit
  BY <1>1, <1>2, <1>5, <1>14
<1>16. s[k] = m
  BY <1>1, <1>8, <1>15
<1> QED BY <1>14, <1>16 DEF s

-----------------------------------------------------------------------------
\* A list without its repetitions: what has none in front stands where it stood.
LEMMA DistinctOf ==
    ASSUME NEW S, NEW s \in Seq(S)
    PROVE  /\ Distinct(s) \in Seq(S)
           /\ \A i, j \in 1..Len(Distinct(s)) : Distinct(s)[i] = Distinct(s)[j] => i = j
           /\ \A n \in 0..Len(s) :
                 (\A i, j \in 1..n : s[i] = s[j] => i = j) =>
                    n <= Len(Distinct(s)) /\ \A i \in 1..n : Distinct(s)[i] = s[i]
<1> DEFINE first == {i \in 1..Len(s) : \A j \in 1..(i - 1) : s[j] # s[i]}
           less == {q \in first \X first : q[1] < q[2]}
           at == InOrder(first, less)
           N == Cardinality(first)
           d == [k \in 1..Len(at) |-> s[at[k]]]
<1>1. Distinct(s) = d
  BY DEF Distinct
<1>2. Len(s) \in Nat /\ first \in SUBSET (1..Len(s))
  OBVIOUS
<1>3. \A i \in first : i \in Nat
  BY <1>2
<1>4. \A x, y \in first : <<x, y>> \in less <=> x < y
  OBVIOUS
<1>5. ASSUME NEW i \in first, NEW j \in first, s[i] = s[j] PROVE i = j
  <2>1. i \in Nat /\ j \in Nat /\ i >= 1 /\ j >= 1
    BY <1>2
  <2>2. ~(i \in 1..(j - 1)) /\ ~(j \in 1..(i - 1))
    BY <1>5
  <2> QED BY <2>1, <2>2
<1>6. IsFiniteSet(first) /\ N \in Nat
  <2>1. IsFiniteSet(1..Len(s))
    BY <1>2, FS_Interval
  <2> HIDE DEF first
  <2> QED BY <1>2, <2>1, FS_Subset, FS_CardinalityType
<1>7. ASSUME NEW n \in 0..Len(s), \A i, j \in 1..n : s[i] = s[j] => i = j, NEW i \in 1..n
      PROVE  i \in first
  <2>1. i \in 1..Len(s) /\ \A j \in 1..(i - 1) : j \in 1..n /\ j # i
    BY <1>2
  <2> QED BY <1>7, <2>1
<1> HIDE DEF first, less
<1>8. ASSUME NEW x \in first PROVE <<x, x>> \notin less
  <2>1. ~(x < x)
    BY <1>3
  <2> QED BY <1>4, <2>1
<1>9. ASSUME NEW x \in first, NEW y \in first, NEW z \in first
      PROVE  /\ <<x, y>> \in less /\ <<y, z>> \in less => <<x, z>> \in less
             /\ x = y \/ <<x, y>> \in less \/ <<y, x>> \in less
  <2>1. x \in Nat /\ y \in Nat /\ z \in Nat
    BY <1>3
  <2> QED BY <1>4, <2>1
<1>10. /\ Lists(at, first)
       /\ \A m \in first : Rank(first, less, m) \in 1..N /\ at[Rank(first, less, m)] = m
  BY <1>6, <1>8, <1>9, InOrderLists
<1> HIDE DEF at
<1>11. at \in Seq(first) /\ Len(at) = N /\ \A i, j \in 1..N : at[i] = at[j] => i = j
  BY <1>10 DEF Lists
<1>12. \A i \in 1..N : at[i] \in first
  BY <1>11, ElementOfSeq
<1>13. d \in Seq(S) /\ Len(d) = N /\ \A i \in 1..N : d[i] = s[at[i]]
  <2>1. \A i \in 1..N : s[at[i]] \in S
    BY <1>2, <1>12, ElementOfSeq
  <2>2. d \in [1..N -> S] /\ DOMAIN d = 1..N
    BY <1>11, <2>1
  <2>3. \A i \in 1..N : d[i] = s[at[i]]
    BY <1>11
  <2> HIDE DEF d, N
  <2>4. d \in Seq(S)
    BY <1>6, <2>2, SeqDef
  <2>5. Len(d) = N
    BY <1>6, <2>2, <2>4, LenProperties
  <2> QED BY <2>3, <2>4, <2>5
<1> HIDE DEF d, N
<1>14. \A i, j \in 1..Len(d) : d[i] = d[j] => i = j
  BY <1>5, <1>11, <1>12, <1>13
<1>15. ASSUME NEW n \in 0..Len(s), \A i, j \in 1..n : s[i] = s[j] => i = j
       PROVE  n <= Len(d) /\ \A i \in 1..n : d[i] = s[i]
  <2>1. ASSUME NEW i \in 1..n PROVE i \in 1..N /\ at[i] = i
    <3> DEFINE below == {k \in first : <<k, i>> \in less}
    <3>1. i \in first
      BY <1>7, <1>15
    <3>2. \A k \in first : k < i => k \in 1..(i - 1)
      BY <1>2
    <3>3. \A k \in 1..(i - 1) : k \in first /\ k < i
      <4> SUFFICES ASSUME NEW k \in 1..(i - 1) PROVE k \in first /\ k < i
        OBVIOUS
      <4>1. k \in 1..n /\ k < i
        BY <1>2
      <4> QED BY <1>7, <1>15, <4>1
    <3>4. below = 1..(i - 1)
      BY <1>4, <3>1, <3>2, <3>3
    <3>5. Cardinality(1..(i - 1)) = i - 1
      <4>1. 1 \in Int /\ i - 1 \in Int /\ i >= 1
        BY <1>2
      <4>2. Cardinality(1..(i - 1)) = IF 1 > i - 1 THEN 0 ELSE (i - 1) - 1 + 1
        BY <4>1, FS_Interval
      <4> QED BY <4>1, <4>2
    <3>6. Rank(first, less, i) = Cardinality(below) + 1
      BY DEF Rank
    <3> HIDE DEF below
    <3>7. Rank(first, less, i) = i
      BY <1>2, <3>4, <3>5, <3>6
    <3> QED BY <1>10, <3>1, <3>7
  <2>2. n <= N
    <3>1. CASE n = 0
      BY <1>6, <3>1
    <3>2. CASE n # 0
      <4>1. n \in 1..n
        BY <1>2, <3>2
      <4> QED BY <1>6, <2>1, <4>1
    <3> QED BY <3>1, <3>2
  <2> QED BY <1>13, <2>1, <2>2
<1> QED BY <1>1, <1>13, <1>14, <1>15

\* A cooldown that is over has an end.
LEMMA ExpiredType ==
    ASSUME TypeOK
    PROVE  Expired \in SUBSET Model /\ \A m \in Expired : h[m].cooldown \in Int
<1>1. Expired \in SUBSET Model
  BY DEF Expired
<1>2. ASSUME NEW m \in Expired PROVE h[m].cooldown \in Int
  <2>1. h[m].cooldown # Null
    BY DEF Expired
  <2>2. h[m] \in Health
    BY <1>1 DEF TypeOK, Health
  <2>3. h[m].cooldown \in {Null} \cup (-Overdue)..(Cooldown * 2^MaxBackoff)
    BY <2>2 DEF Health
  <2> QED BY <2>1, <2>3
<1> QED BY <1>1, <1>2

\* The first bucket of a run: models out of their cooldown, those longest out first, and
\* all of them if the limit allows.
LEMMA CooldownRowsOf ==
    ASSUME TypeOK
    PROVE  /\ CooldownRows \in Seq(Expired) /\ Len(CooldownRows) <= MaxProbes
           /\ \A i, j \in 1..Len(CooldownRows) : CooldownRows[i] = CooldownRows[j] => i = j
           /\ \A m \in Expired : \/ \E i \in 1..Len(CooldownRows) : CooldownRows[i] = m
                                 \/ /\ Len(CooldownRows) = MaxProbes
                                    /\ \A i \in 1..Len(CooldownRows) :
                                          h[CooldownRows[i]].cooldown <= h[m].cooldown
<1> DEFINE before == {q \in Expired \X Expired :
                        \/ h[q[1]].cooldown < h[q[2]].cooldown
                        \/ /\ h[q[1]].cooldown = h[q[2]].cooldown
                           /\ Row[q[1]].score > Row[q[2]].score}
           o == Sorted(Expired, before)
           a == Prefix(o, MaxProbes)
<1>1. Expired \in SUBSET Model /\ \A x \in Expired : h[x].cooldown \in Int /\ Row[x].score \in Int
  BY ExpiredType, RowAssumption
<1>2. \A x, y \in Expired : <<x, y>> \in before <=>
          \/ h[x].cooldown < h[y].cooldown
          \/ h[x].cooldown = h[y].cooldown /\ Row[x].score > Row[y].score
  OBVIOUS
<1>3. CooldownRows = a
  BY DEF CooldownRows
<1> HIDE DEF before
<1>4. ASSUME NEW x \in Expired PROVE <<x, x>> \notin before
  <2>1. ~(h[x].cooldown < h[x].cooldown) /\ ~(Row[x].score > Row[x].score)
    BY <1>1
  <2> QED BY <1>2, <2>1
<1>5. ASSUME NEW x \in Expired, NEW y \in Expired, NEW z \in Expired
      PROVE  /\ <<x, y>> \in before /\ <<y, z>> \in before => <<x, z>> \in before
             /\ <<x, z>> \in before => <<x, y>> \in before \/ <<y, z>> \in before
  <2>1. /\ h[x].cooldown \in Int /\ h[y].cooldown \in Int /\ h[z].cooldown \in Int
        /\ Row[x].score \in Int /\ Row[y].score \in Int /\ Row[z].score \in Int
    BY <1>1
  <2> QED BY <1>2, <2>1
<1>6. /\ Lists(o, Expired)
      /\ \A i, j \in 1..Cardinality(Expired) : i < j => <<o[j], o[i]>> \notin before
  BY <1>1, <1>4, <1>5, SortedLists
<1> HIDE DEF o
<1>7. /\ o \in Seq(Expired) /\ Len(o) = Cardinality(Expired)
      /\ \A i, j \in 1..Len(o) : o[i] = o[j] => i = j
      /\ \A m \in Expired : \E i \in 1..Len(o) : o[i] = m
  BY <1>6 DEF Lists
<1>8. MaxProbes \in Nat /\ Len(o) \in Nat
  BY <1>7, NumbersAssumption
<1>9. /\ a \in Seq(Expired) /\ Len(a) = (IF MaxProbes <= Len(o) THEN MaxProbes ELSE Len(o))
      /\ \A i \in 1..Len(a) : i \in 1..Len(o) /\ a[i] = o[i]
  BY <1>7, <1>8, PrefixOf
<1> HIDE DEF a
<1>10. Len(a) <= MaxProbes /\ \A i, j \in 1..Len(a) : a[i] = a[j] => i = j
  BY <1>7, <1>8, <1>9
<1>11. ASSUME NEW m \in Expired, ~\E i \in 1..Len(a) : a[i] = m
       PROVE  Len(a) = MaxProbes /\ \A i \in 1..Len(a) : h[a[i]].cooldown <= h[m].cooldown
  <2>1. PICK j \in 1..Len(o) : o[j] = m
    BY <1>7
  <2>2. ~(j \in 1..Len(a))
    BY <1>9, <1>11, <2>1
  <2>3. Len(a) = MaxProbes
    BY <1>8, <1>9, <2>2
  <2>4. ASSUME NEW i \in 1..Len(a) PROVE h[a[i]].cooldown <= h[m].cooldown
    <3>1. i \in 1..Len(o) /\ a[i] = o[i] /\ i < j
      BY <1>8, <1>9, <2>2
    <3>2. <<m, a[i]>> \notin before
      BY <1>6, <1>7, <2>1, <3>1
    <3>3. a[i] \in Expired
      BY <1>9, ElementOfSeq
    <3>4. ~(h[m].cooldown < h[a[i]].cooldown)
      BY <1>2, <3>2, <3>3
    <3>5. h[m].cooldown \in Int /\ h[a[i]].cooldown \in Int
      BY <1>1, <3>3
    <3> QED BY <3>4, <3>5
  <2> QED BY <2>3, <2>4
<1> QED BY <1>3, <1>9, <1>10, <1>11

\* The models of a run are probed in turn.
LEMMA InTurn == TypeOK => ProbesInTurn
<1> SUFFICES ASSUME TypeOK PROVE ProbesInTurn
    OBVIOUS
<1> DEFINE a == CooldownRows
           b == NeverProbedRows
           c == StaleRows
           l == (a \o b) \o c
           d == Distinct(l)
           M == Max({MaxProbes, 1})
           s == Prefix(d, M)
<1>1. s = SelectProbeCandidates
  BY DEF SelectProbeCandidates, Select
<1>2. /\ a \in Seq(Expired) /\ Len(a) <= MaxProbes
      /\ \A i, j \in 1..Len(a) : a[i] = a[j] => i = j
      /\ \A m \in Expired : \/ \E i \in 1..Len(a) : a[i] = m
                            \/ /\ Len(a) = MaxProbes
                               /\ \A i \in 1..Len(a) : h[a[i]].cooldown <= h[m].cooldown
  BY CooldownRowsOf
<1>3. MaxProbes \in Nat /\ TopStale \in Nat
  BY NumbersAssumption
<1>4. M \in Nat /\ M = IF MaxProbes = 0 THEN 1 ELSE MaxProbes
  <2>1. MaxProbes \in Int /\ 1 \in Int
    BY <1>3
  <2>2. M = IF MaxProbes <= 1 THEN 1 ELSE MaxProbes
    BY <2>1, MinMax
  <2> QED BY <1>3, <2>2
<1>5. b \in Seq(Model) /\ c \in Seq(Model)
  <2>1. NeverProbed \in SUBSET Model /\ Stale \in SUBSET Model
    BY DEF NeverProbed, Stale
  <2>2. ByScore(NeverProbed) \in Seq(NeverProbed) /\ ByScore(Stale) \in Seq(Stale)
    BY <2>1, ByScoreLists DEF Lists
  <2>3. b \in Seq(NeverProbed) /\ c \in Seq(Stale)
    BY <1>3, <2>2, PrefixOf DEF NeverProbedRows, StaleRows
  <2> QED BY <2>1, <2>3, SeqMonotonic
<1>6. a \in Seq(Model)
  BY <1>2, ExpiredType, SeqMonotonic
<1> HIDE DEF a, b, c, M
<1>7. l \in Seq(Model) /\ Len(a) \in Nat /\ Len(a) <= Len(l) /\ \A i \in 1..Len(a) : l[i] = a[i]
  <2>1. Len(a) \in Nat /\ Len(b) \in Nat /\ Len(c) \in Nat
    BY <1>5, <1>6, LenProperties
  <2> DEFINE e == a \o b
  <2>2. /\ e \in Seq(Model) /\ Len(e) = Len(a) + Len(b)
        /\ \A i \in 1..(Len(a) + Len(b)) : e[i] = IF i <= Len(a) THEN a[i] ELSE b[i - Len(a)]
    BY <1>5, <1>6, ConcatProperties
  <2> HIDE DEF e
  <2>e. e \in Seq(Model) /\ c \in Seq(Model)
    BY <1>5, <2>2
  <2>3. /\ e \o c \in Seq(Model) /\ Len(e \o c) = Len(e) + Len(c)
        /\ \A i \in 1..(Len(e) + Len(c)) : (e \o c)[i] = IF i <= Len(e) THEN e[i] ELSE c[i - Len(e)]
    BY <2>e, ConcatProperties
  <2>4. l = e \o c
    BY DEF e
  <2> HIDE DEF l
  <2>5. ASSUME NEW i \in 1..Len(a) PROVE l[i] = a[i]
    <3>1. i <= Len(a) /\ i \in 1..(Len(a) + Len(b)) /\ i <= Len(e) /\ i \in 1..(Len(e) + Len(c))
      BY <2>1, <2>2
    <3> QED BY <2>2, <2>3, <2>4, <3>1
  <2> QED BY <2>1, <2>2, <2>3, <2>4, <2>5
<1> HIDE DEF l
<1>8. /\ d \in Seq(Model)
      /\ \A i, j \in 1..Len(d) : d[i] = d[j] => i = j
      /\ Len(a) <= Len(d) /\ \A i \in 1..Len(a) : d[i] = a[i]
  <2>1. Len(a) \in 0..Len(l) /\ \A i, j \in 1..Len(a) : l[i] = l[j] => i = j
    <3>1. Len(l) \in Nat
      BY <1>7, LenProperties
    <3> QED BY <1>2, <1>7, <3>1
  <2> QED BY <1>7, <2>1, DistinctOf
<1> HIDE DEF d
<1>9. /\ s \in Seq(Model) /\ Len(s) = (IF M <= Len(d) THEN M ELSE Len(d))
      /\ \A i \in 1..Len(s) : i \in 1..Len(d) /\ s[i] = d[i]
  BY <1>4, <1>8, PrefixOf
<1> HIDE DEF s
<1>10. Len(d) \in Nat /\ Len(s) \in Nat /\ DOMAIN s = 1..Len(s)
  BY <1>8, <1>9, LenProperties
<1>11. IsInjective(s) /\ Len(s) <= M
  BY <1>4, <1>8, <1>9, <1>10 DEF IsInjective
<1>12. ASSUME MaxProbes > 0, NEW m \in Expired \ Range(s), NEW n \in Range(s)
       PROVE  n \in Expired /\ h[n].cooldown <= h[m].cooldown
  <2>1. Len(a) <= Len(s)
    BY <1>2, <1>3, <1>4, <1>7, <1>8, <1>9, <1>10
  <2>2. \A i \in 1..Len(a) : i \in 1..Len(s) /\ s[i] = a[i]
    BY <1>7, <1>8, <1>9, <1>10, <2>1
  <2>3. ~\E i \in 1..Len(a) : a[i] = m
    BY <1>10, <2>2 DEF Range
  <2>4. Len(a) = MaxProbes /\ \A i \in 1..Len(a) : h[a[i]].cooldown <= h[m].cooldown
    BY <1>2, <2>3
  <2>5. PICK i \in 1..Len(s) : s[i] = n
    BY <1>10 DEF Range
  <2>6. i \in 1..Len(a)
    BY <1>3, <1>4, <1>10, <1>11, <1>12, <2>4
  <2>7. n = a[i]
    BY <2>2, <2>5, <2>6
  <2> QED BY <1>2, <2>4, <2>6, <2>7, ElementOfSeq
<1> QED BY <1>1, <1>11, <1>12 DEF ProbesInTurn, M

-----------------------------------------------------------------------------
\* The bounds of the columns are numbers.
LEMMA Bounds ==
    /\ Overdue \in Nat /\ Oldest \in Nat /\ Threshold \in Nat /\ MaxBackoff \in Nat
    /\ Cooldown * 2^MaxBackoff \in Nat
    /\ \A n \in 0..MaxBackoff : Cooldown * 2^n \in 0..(Cooldown * 2^MaxBackoff)
<1>1. Overdue \in Nat
  BY Models, FS_CardinalityType DEF Overdue
<1>2. Oldest \in Nat /\ Threshold \in Nat /\ MaxBackoff \in Nat /\ Cooldown \in Nat
  BY NumbersAssumption DEF Oldest
<1>3. ASSUME NEW c \in Nat, NEW a \in Nat, NEW b \in Nat, a <= b
      PROVE  c * a \in Nat /\ c * b \in Nat /\ c * a <= c * b
  <2>1. PICK d \in Nat : b = a + d
    <3>1. b - a \in Nat /\ b = a + (b - a)
      BY <1>3
    <3> QED BY <3>1
  <2>2. c * b = c * a + c * d /\ c * a \in Nat /\ c * d \in Nat
    BY <2>1
  <2> QED BY <2>2
<1>4. ASSUME NEW n \in 0..MaxBackoff PROVE Cooldown * 2^n \in 0..(Cooldown * 2^MaxBackoff)
  <2> DEFINE a == 2^n
             b == 2^MaxBackoff
  <2>1. a \in Nat /\ b \in Nat /\ a <= b
    <3>1. MaxBackoff \in 0..MaxBackoff
      BY <1>2
    <3> QED BY <3>1, PowersAssumption
  <2> HIDE DEF a, b
  <2>2. Cooldown * a \in Nat /\ Cooldown * b \in Nat /\ Cooldown * a <= Cooldown * b
    BY <1>2, <1>3, <2>1
  <2>3. Cooldown * a \in 0..(Cooldown * b)
    BY <2>2
  <2> QED BY <2>3 DEF a, b
<1>5. Cooldown * 2^MaxBackoff \in Nat
  <2>1. MaxBackoff \in 0..MaxBackoff
    BY <1>2
  <2>2. 2^MaxBackoff \in Nat
    BY <2>1, PowersAssumption
  <2> QED BY <1>2, <2>2
<1> QED BY <1>1, <1>2, <1>4, <1>5

\* A row's columns.
LEMMA RowColumns ==
    ASSUME NEW row \in Health
    PROVE  /\ row.failures \in 0..Threshold /\ row.backoff \in 0..MaxBackoff
           /\ row.cooldown # Null => row.cooldown \in (-Overdue)..(Cooldown * 2^MaxBackoff)
           /\ row.probe # Null => row.probe \in 0..Oldest
           /\ row.success # Null => row.success \in 0..Oldest
BY DEF Health

\* mark_failure keeps the columns within their bounds.
LEMMA FailureKeeps ==
    ASSUME NEW row \in Health
    PROVE  MarkFailure(row) \in Health
<1> DEFINE next == Min({row.backoff + 1, MaxBackoff})
           fails == Min({row.failures + 1, Threshold})
           top == Cooldown * 2^MaxBackoff
           cool == Cooldown * 2^next
           ok == row.healthy /\ row.failures + 1 < Threshold
<1>1. row.failures \in 0..Threshold /\ row.backoff \in 0..MaxBackoff
  BY RowColumns
<1>2. /\ Overdue \in Nat /\ Oldest \in Nat /\ Threshold \in Nat /\ MaxBackoff \in Nat /\ top \in Nat
      /\ \A n \in 0..MaxBackoff : Cooldown * 2^n \in 0..top
  BY Bounds
<1>3. next \in 0..MaxBackoff
  <2>1. row.backoff + 1 \in Int /\ MaxBackoff \in Int
    BY <1>1, <1>2
  <2>2. next = IF row.backoff + 1 <= MaxBackoff THEN row.backoff + 1 ELSE MaxBackoff
    BY <2>1, MinMax
  <2> HIDE DEF next
  <2> QED BY <1>1, <1>2, <2>2
<1>4. fails \in 0..Threshold
  <2>1. row.failures + 1 \in Int /\ Threshold \in Int
    BY <1>1, <1>2
  <2>2. fails = IF row.failures + 1 <= Threshold THEN row.failures + 1 ELSE Threshold
    BY <2>1, MinMax
  <2> HIDE DEF fails
  <2> QED BY <1>1, <1>2, <2>2
<1>5. cool \in 0..top
  BY <1>2, <1>3
<1>6. ok \in BOOLEAN
  OBVIOUS
<1>7. MarkFailure(row) = [row EXCEPT !.failures = fails, !.backoff = next, !.cooldown = cool,
                                     !.healthy = ok]
  BY DEF MarkFailure
<1> HIDE DEF next, fails, top, cool, ok
<1>8. cool \in {Null} \cup (-Overdue)..top
  BY <1>2, <1>5
<1> QED BY <1>3, <1>4, <1>6, <1>7, <1>8 DEF Health, top

\* And so does mark_success.
LEMMA SuccessKeeps ==
    ASSUME NEW row \in Health, NEW probe \in BOOLEAN
    PROVE  MarkSuccess(row, probe) \in Health
<1>1. Oldest \in Nat /\ Threshold \in Nat /\ MaxBackoff \in Nat
  BY Bounds
<1>2. 0 \in 0..Oldest /\ 0 \in 0..Threshold /\ 0 \in 0..MaxBackoff
  BY <1>1
<1> QED BY <1>2 DEF Health, MarkSuccess

\* And the time that passes.
LEMMA TimeKeeps ==
    ASSUME NEW row \in Health
    PROVE  Elapsed(row) \in Health
<1> DEFINE top == Cooldown * 2^MaxBackoff
           cool == IF row.cooldown = Null THEN row.cooldown ELSE Max({row.cooldown - 1, -Overdue})
           prb == IF row.probe = Null THEN row.probe ELSE Min({row.probe + 1, Oldest})
           suc == IF row.success = Null THEN row.success ELSE Min({row.success + 1, Oldest})
<1>1. /\ row.cooldown # Null => row.cooldown \in (-Overdue)..top
      /\ row.probe # Null => row.probe \in 0..Oldest
      /\ row.success # Null => row.success \in 0..Oldest
  BY RowColumns
<1>2. Overdue \in Nat /\ Oldest \in Nat /\ top \in Nat
  BY Bounds
<1>3. Elapsed(row) = [row EXCEPT !.cooldown = cool, !.probe = prb, !.success = suc]
  BY DEF Elapsed
<1> HIDE DEF top
<1>4. cool \in {Null} \cup (-Overdue)..top
  <2>1. CASE row.cooldown = Null
    BY <2>1
  <2>2. CASE row.cooldown # Null
    <3>1. row.cooldown - 1 \in Int /\ -Overdue \in Int
      BY <1>1, <1>2, <2>2
    <3>2. Max({row.cooldown - 1, -Overdue})
             = IF row.cooldown - 1 <= -Overdue THEN -Overdue ELSE row.cooldown - 1
      BY <3>1, MinMax
    <3>3. cool = IF row.cooldown - 1 <= -Overdue THEN -Overdue ELSE row.cooldown - 1
      BY <2>2, <3>2
    <3> HIDE DEF cool
    <3> QED BY <1>1, <1>2, <2>2, <3>3
  <2> QED BY <2>1, <2>2
<1>5. ASSUME NEW a \in 0..Oldest PROVE Min({a + 1, Oldest}) \in 0..Oldest
  <2>1. a + 1 \in Int /\ Oldest \in Int
    BY <1>2
  <2>2. Min({a + 1, Oldest}) = IF a + 1 <= Oldest THEN a + 1 ELSE Oldest
    BY <2>1, MinMax
  <2> QED BY <1>2, <2>2
<1>6. prb \in {Null} \cup 0..Oldest /\ suc \in {Null} \cup 0..Oldest
  BY <1>1, <1>5
<1> HIDE DEF cool, prb, suc
<1> QED BY <1>3, <1>4, <1>6 DEF Health, top

\* A batch of probes on rows within their bounds leaves them there.
LEMMA BatchKeeps ==
    ASSUME NEW t \in [Model -> Health], NEW chosen, NEW missing, NEW answering
    PROVE  ProbeBatch(t, chosen, missing, answering) \in [Model -> Health]
<1>1. ASSUME NEW m \in Model
      PROVE  /\ t[m] \in Health /\ MarkSuccess(t[m], TRUE) \in Health /\ MarkFailure(t[m]) \in Health
             /\ [t[m] EXCEPT !.active = FALSE] \in Health
  <2>1. [t[m] EXCEPT !.active = FALSE] \in Health
    BY DEF Health
  <2> QED BY <2>1, SuccessKeeps, FailureKeeps
<1> QED BY <1>1 DEF ProbeBatch

\* No step takes a column out of its bounds.
LEMMA TypeStep == TypeOK /\ [Next]_vars => TypeOK'
<1> SUFFICES ASSUME TypeOK, [Next]_vars PROVE TypeOK'
    OBVIOUS
<1>1. h \in [Model -> Health] /\ runs \in {0, 1}
  BY DEF TypeOK, Health
<1>2. ASSUME NEW r \in Traffic, Route(r) PROVE h' \in [Model -> Health] /\ runs' \in {0, 1}
  <2> DEFINE picked == PickCandidates(h, r)
  <2>1. PICK failing \in 0..Len(picked) :
            h' = [m \in Model |->
                    IF \E i \in 1..failing : picked[i] = m THEN MarkFailure(h[m])
                    ELSE IF failing < Len(picked) /\ picked[failing + 1] = m
                    THEN MarkSuccess(h[m], FALSE) ELSE h[m]]
    BY <1>2 DEF Route
  <2>2. \A m \in Model : /\ h[m] \in Health /\ MarkFailure(h[m]) \in Health
                         /\ MarkSuccess(h[m], FALSE) \in Health
    BY <1>1, SuccessKeeps, FailureKeeps
  <2> HIDE DEF picked
  <2>3. h' \in [Model -> Health]
    BY <2>1, <2>2
  <2> QED BY <1>1, <1>2, <2>3 DEF Route
<1>3. ASSUME HealthRun PROVE h' \in [Model -> Health] /\ runs' \in {0, 1}
  <2>1. PICK missing \in SUBSET Reloaded, answering \in SUBSET Range(SelectProbeCandidates) :
            h' = [m \in Model |->
                     Elapsed(ProbeBatch(h, Range(SelectProbeCandidates), missing, answering)[m])]
    BY <1>3 DEF HealthRun
  <2> DEFINE t == ProbeBatch(h, Range(SelectProbeCandidates), missing, answering)
  <2>2. t \in [Model -> Health]
    BY <1>1, BatchKeeps
  <2>3. h' = [m \in Model |-> Elapsed(t[m])]
    BY <2>1
  <2> HIDE DEF t
  <2>4. \A m \in Model : Elapsed(t[m]) \in Health
    BY <2>2, TimeKeeps
  <2>5. h' \in [Model -> Health]
    BY <2>3, <2>4
  <2>6. runs' = 1 - runs
    BY <1>3 DEF HealthRun
  <2> QED BY <1>1, <2>5, <2>6
<1>4. ASSUME DiscoveryPipeline PROVE h' \in [Model -> Health] /\ runs' \in {0, 1}
  <2>1. PICK dropped \in SUBSET Optional :
          \E missing \in SUBSET Reloaded,
             answering \in SUBSET Range(SelectBootstrapCandidates(Discovered(Model \ dropped))) :
             h' = ProbeBatch(Discovered(Model \ dropped),
                             Range(SelectBootstrapCandidates(Discovered(Model \ dropped))),
                             missing, answering)
    BY <1>4 DEF DiscoveryPipeline
  <2> DEFINE t == Discovered(Model \ dropped)
  <2>2. PICK missing, answering :
            h' = ProbeBatch(t, Range(SelectBootstrapCandidates(t)), missing, answering)
    BY <2>1
  <2>3. t \in [Model -> Health]
    <3>1. ASSUME NEW m \in Model
          PROVE  /\ [h[m] EXCEPT !.active = TRUE, !.healthy = TRUE] \in Health
                 /\ [h[m] EXCEPT !.active = FALSE] \in Health
      BY <1>1 DEF Health
    <3> QED BY <3>1 DEF Discovered
  <2> HIDE DEF t
  <2>4. h' \in [Model -> Health]
    BY <2>2, <2>3, BatchKeeps
  <2> QED BY <1>1, <1>4, <2>4 DEF DiscoveryPipeline
<1>5. CASE UNCHANGED vars
  BY <1>5 DEF TypeOK, vars
<1>6. CASE Next
  <2>1. h' \in [Model -> Health] /\ runs' \in {0, 1}
    BY <1>2, <1>3, <1>4, <1>6 DEF Next
  <2> QED BY <2>1 DEF TypeOK, Health
<1> QED BY <1>5, <1>6

\* The rows discovery makes are within their bounds.
LEMMA TypeInit == Init => TypeOK
<1> SUFFICES ASSUME Init PROVE TypeOK
    OBVIOUS
<1>1. Oldest \in Nat /\ Threshold \in Nat /\ MaxBackoff \in Nat
  BY Bounds
<1>2. NewRow \in Health
  BY <1>1 DEF NewRow, Health
<1>3. h \in [Model -> Health] /\ runs \in {0, 1}
  BY <1>2 DEF Init
<1> QED BY <1>3 DEF TypeOK, Health

\* The health columns and what is chosen from them: every request gets as many models as
\* pick_candidates has room or candidates for, all different, all able to serve it, the
\* named one first and the fallback one among them.
THEOREM RoutingServes == Spec => []RoutingInv
<1>1. TypeOK => RoutingInv
  BY AllServe, PlacesKept DEF RoutingInv
<1> QED BY <1>1, TypeInit, TypeStep, PTL DEF Spec

\* Under no preference of the client does _preference_score put a model before, or
\* pick_candidates take it instead of, one that is better.
THEOREM BetterModelsFirst == Spec => []BetterFirst
BY BetterBefore, TypeInit, TypeStep, PTL DEF Spec

\* _select_probe_candidates keeps to its limit, repeats nothing and serves the models out
\* of their cooldown in the order in which they came out of it.
THEOREM ProbeTurns == Spec => []ProbesInTurn
BY InTurn, TypeInit, TypeStep, PTL DEF Spec

-----------------------------------------------------------------------------
\* TokenizerPreload.  The futures whose callback a caller is about to attach.
Attaching ==
    {f \in Future : \E c \in Caller : asking[c].at = "attach" /\ asking[c].future = f}

FutureRecord == [state : State, hint : Hint \cup {None}, pool : Pool \cup {NoPool},
                 value : {None, "tokenizer"}, attached : BOOLEAN, cleared : BOOLEAN]
AskingRecord == [at : {"idle", "schedule", "attach"}, hint : Hint \cup {None},
                 future : Future \cup {None}]

PoolInv == executor = NoPool => made <= MaxStops

AskingInv ==
    \A c \in Caller :
        /\ asking[c].at = "schedule" => asking[c].hint \in Hint
        /\ asking[c].at = "attach" => asking[c].future \in Future

HintInv == \A f \in Future : future[f].state # "over" => future[f].hint \in Hint

EntryInv ==
    \A w \in Hint : futures[w] # None =>
        /\ future[futures[w]].state # "over"
        /\ future[futures[w]].hint = w
        /\ ~future[futures[w]].cleared
        /\ future[futures[w]].attached \/ futures[w] \in Attaching

CurrentInv ==
    \A f \in Future :
        Unfinished(f) /\ ~future[f].cleared => futures[future[f].hint] = f

LoadsInv == PreloadTypeOK /\ PoolInv /\ AskingInv /\ HintInv /\ EntryInv /\ CurrentInv

-----------------------------------------------------------------------------
\* At the start nothing is asked for and no future is in use.
LEMMA LoadsInit == PreloadInit => LoadsInv
BY StopsAssumption, NoneAssumption
   DEF PreloadInit, LoadsInv, PreloadTypeOK, PoolInv, AskingInv, HintInv, EntryInv, CurrentInv, NoFuture,
       Idle, State, Pool, NoPool, Unfinished

\* schedule_tokenizer_preload() puts a future that nothing refers to into its hint's
\* entry, and the load that had the entry before, if any, is done.
LEMMA SubmitStep ==
    ASSUME LoadsInv, NEW c \in Caller, NEW w \in Hint, NEW f \in Unused,
           asking[c].at = "schedule", ~UnderWay(w), Submit(c, w, f),
           UNCHANGED <<cache, stopping>>
    PROVE  LoadsInv'
<1> USE StopsAssumption, NoneAssumption
<1>0. f \in Future /\ future[f].state = "over" /\ \A k \in Hint : futures[k] # f
  BY DEF Unused, Range, LoadsInv, PreloadTypeOK
<1> DEFINE pool == IF executor = NoPool THEN made + 1 ELSE executor
<1>1. pool \in Pool /\ executor' = pool /\ made' \in 0..(MaxStops + 1)
  BY DEF Submit, LoadsInv, PreloadTypeOK, PoolInv, Pool, NoPool
<1> DEFINE new == [NoFuture EXCEPT !.state = "pending", !.hint = w, !.pool = pool]
           asks == [Idle EXCEPT !.at = "attach", !.future = f]
<1>2. /\ future' = [future EXCEPT ![f] = new]
      /\ new \in FutureRecord
      /\ new.state = "pending" /\ new.hint = w /\ ~new.cleared
  BY <1>1 DEF Submit, NoFuture, FutureRecord, State
<1>3. /\ asking' = [asking EXCEPT ![c] = asks]
      /\ asks \in AskingRecord
      /\ asks.at = "attach" /\ asks.future = f
  BY <1>0 DEF Submit, Idle, AskingRecord
<1>4. futures' = [futures EXCEPT ![w] = f]
  BY DEF Submit
<1> HIDE DEF pool, new, asks
<1>5. PreloadTypeOK'
  BY <1>0, <1>1, <1>2, <1>3, <1>4 DEF LoadsInv, PreloadTypeOK, FutureRecord, AskingRecord
<1>6. PoolInv' /\ AskingInv' /\ HintInv'
  BY <1>0, <1>1, <1>2, <1>3 DEF LoadsInv, PreloadTypeOK, PoolInv, AskingInv, HintInv, Pool, NoPool
<1>7. EntryInv'
  <2> SUFFICES ASSUME NEW k \in Hint, futures'[k] # None
               PROVE  /\ future'[futures'[k]].state # "over"
                      /\ future'[futures'[k]].hint = k
                      /\ ~future'[futures'[k]].cleared
                      /\ future'[futures'[k]].attached \/ futures'[k] \in Attaching'
    BY DEF EntryInv
  <2>1. CASE k = w
    <3>1. futures'[k] = f /\ f \in Attaching'
      BY <2>1, <1>0, <1>3, <1>4 DEF LoadsInv, PreloadTypeOK, Attaching
    <3> QED BY <2>1, <3>1, <1>0, <1>2 DEF LoadsInv, PreloadTypeOK, Attaching
  <2>2. CASE k # w
    <3>1. futures'[k] = futures[k] /\ futures[k] \in Future \ {f}
      BY <2>2, <1>0, <1>4 DEF LoadsInv, PreloadTypeOK
    <3>2. future'[futures[k]] = future[futures[k]]
      BY <3>1, <1>2 DEF LoadsInv, PreloadTypeOK
    <3>3. futures[k] \in Attaching => futures'[k] \in Attaching'
      BY <3>1, <1>3 DEF LoadsInv, PreloadTypeOK, Attaching
    <3> QED BY <3>1, <3>2, <3>3 DEF LoadsInv, EntryInv
  <2> QED BY <2>1, <2>2
<1>8. CurrentInv'
  <2> SUFFICES ASSUME NEW g \in Future, Unfinished(g)', ~future'[g].cleared
               PROVE  futures'[future'[g].hint] = g
    BY DEF CurrentInv
  <2>1. CASE g = f
    BY <2>1, <1>0, <1>2, <1>4 DEF LoadsInv, PreloadTypeOK
  <2>2. CASE g # f
    <3>1. future'[g] = future[g]
      BY <2>2, <1>0, <1>2 DEF LoadsInv, PreloadTypeOK
    <3>2. Unfinished(g) /\ ~future[g].cleared
      BY <3>1 DEF Unfinished
    <3>3. futures[future[g].hint] = g /\ future[g].hint \in Hint
      BY <3>2 DEF LoadsInv, CurrentInv, HintInv, Unfinished
    <3>4. future[g].hint # w
      BY <3>2, <3>3 DEF UnderWay, IsDone, Unfinished
    <3> QED BY <3>1, <3>3, <3>4, <1>4 DEF LoadsInv, PreloadTypeOK
  <2> QED BY <2>1, <2>2
<1> QED BY <1>5, <1>6, <1>7, <1>8 DEF LoadsInv

\* A future that moves on from one state in which it is not over to another, and keeps
\* its hint, its callback and its mark, changes nothing for the tables.
LEMMA ProgressStep ==
    ASSUME LoadsInv, PreloadTypeOK',
           \A f \in Future :
              /\ future'[f].hint = future[f].hint
              /\ future'[f].attached = future[f].attached
              /\ future'[f].cleared = future[f].cleared
              /\ future'[f].state = "over" <=> future[f].state = "over"
              /\ Unfinished(f)' => Unfinished(f),
           UNCHANGED <<futures, executor, made, asking>>
    PROVE  LoadsInv'
<1>1. PoolInv' /\ AskingInv' /\ HintInv'
  BY DEF LoadsInv, PoolInv, AskingInv, HintInv
<1>2. EntryInv'
  BY DEF LoadsInv, PreloadTypeOK, EntryInv, Attaching
<1>3. CurrentInv'
  BY DEF LoadsInv, CurrentInv
<1> QED BY <1>1, <1>2, <1>3 DEF LoadsInv

-----------------------------------------------------------------------------
\* Every step of a caller, of a thread of the pool, of a callback or of a shutdown
\* keeps the tables sound.
LEMMA LoadsStep == LoadsInv /\ [PreloadNext]_preloadVars => LoadsInv'
<1> SUFFICES ASSUME LoadsInv, [PreloadNext]_preloadVars PROVE LoadsInv'
    OBVIOUS
<1> USE StopsAssumption, NoneAssumption
<1>1. ASSUME NEW c \in Caller, NEW w \in Hint, LoadTokenizer(c, w) \/ Discover(c, w)
      PROVE  LoadsInv'
  <2>1. /\ asking[c].at = "idle"
        /\ asking' = [asking EXCEPT ![c] = [Idle EXCEPT !.at = "schedule", !.hint = w]]
        /\ UNCHANGED <<cache, futures, executor, made, future, stopping>>
    BY <1>1 DEF LoadTokenizer, Discover, Idle
  <2> DEFINE asks == [Idle EXCEPT !.at = "schedule", !.hint = w]
  <2>0. asks \in AskingRecord /\ asks.at = "schedule" /\ asks.hint = w
    BY DEF Idle, AskingRecord
  <2> HIDE DEF asks
  <2>2. PreloadTypeOK' /\ PoolInv' /\ AskingInv' /\ HintInv' /\ CurrentInv'
    BY <2>0, <2>1 DEF LoadsInv, PreloadTypeOK, PoolInv, AskingInv, HintInv, CurrentInv, Unfinished,
         AskingRecord, asks
  <2>3. Attaching \subseteq Attaching'
    BY <2>1 DEF LoadsInv, PreloadTypeOK, Attaching
  <2>4. EntryInv'
    BY <2>1, <2>3 DEF LoadsInv, EntryInv
  <2> QED BY <2>2, <2>4 DEF LoadsInv
<1>2. ASSUME NEW c \in Caller, Schedule(c) PROVE LoadsInv'
  <2>0. asking[c].at = "schedule" /\ asking[c].hint \in Hint
    BY <1>2 DEF Schedule, LoadsInv, AskingInv
  <2>1. CASE cache[asking[c].hint] # "absent" \/ UnderWay(asking[c].hint)
    <3>1. /\ asking' = [asking EXCEPT ![c] = [at |-> "idle", hint |-> None, future |-> None]]
          /\ UNCHANGED <<cache, futures, executor, made, future, stopping>>
      BY <1>2, <2>1 DEF Schedule, Idle
    <3>2. PreloadTypeOK' /\ PoolInv' /\ AskingInv' /\ HintInv' /\ CurrentInv'
      BY <3>1 DEF LoadsInv, PreloadTypeOK, PoolInv, AskingInv, HintInv, CurrentInv, Unfinished
    <3>3. Attaching \subseteq Attaching'
      BY <2>0, <3>1 DEF LoadsInv, PreloadTypeOK, Attaching
    <3>4. EntryInv'
      BY <3>1, <3>3 DEF LoadsInv, EntryInv
    <3> QED BY <3>2, <3>4 DEF LoadsInv
  <2>2. CASE ~(cache[asking[c].hint] # "absent" \/ UnderWay(asking[c].hint))
    <3>1. PICK f \in Unused : Submit(c, asking[c].hint, f)
      BY <1>2, <2>2 DEF Schedule
    <3> QED BY <1>2, <2>0, <2>2, <3>1, SubmitStep DEF Schedule
  <2> QED BY <2>1, <2>2
<1>3. ASSUME NEW c \in Caller, Attach(c) PROVE LoadsInv'
  <2> DEFINE f == asking[c].future
  <2>1. /\ asking[c].at = "attach" /\ f \in Future
        /\ future' = [future EXCEPT ![f] = [future[f] EXCEPT !.attached = TRUE]]
        /\ asking' = [asking EXCEPT ![c] = [at |-> "idle", hint |-> None, future |-> None]]
        /\ UNCHANGED <<cache, futures, executor, made, stopping>>
    BY <1>3 DEF Attach, Idle, LoadsInv, AskingInv
  <2>2. PreloadTypeOK'
    <3>1. \A g \in FutureRecord : [g EXCEPT !.attached = TRUE] \in FutureRecord
      BY DEF FutureRecord
    <3>2. future[f] \in FutureRecord
      BY <2>1 DEF LoadsInv, PreloadTypeOK, FutureRecord
    <3> QED BY <2>1, <3>1, <3>2 DEF LoadsInv, PreloadTypeOK, FutureRecord
  <2>3. PoolInv' /\ AskingInv' /\ HintInv'
    BY <2>1 DEF LoadsInv, PreloadTypeOK, PoolInv, AskingInv, HintInv
  <2>4. /\ \A g \in Future : /\ future'[g].state = future[g].state
                             /\ future'[g].hint = future[g].hint
                             /\ future'[g].cleared = future[g].cleared
                             /\ future[g].attached => future'[g].attached
        /\ future'[f].attached
    BY <2>1 DEF LoadsInv, PreloadTypeOK
  <2>5. Attaching \ {f} \subseteq Attaching'
    BY <2>1 DEF LoadsInv, PreloadTypeOK, Attaching
  <2>6. EntryInv'
    <3> HIDE DEF f
    <3>1. ASSUME NEW w \in Hint, futures[w] # None
          PROVE  /\ future'[futures[w]].state # "over"
                 /\ future'[futures[w]].hint = w
                 /\ ~future'[futures[w]].cleared
                 /\ future'[futures[w]].attached \/ futures[w] \in Attaching'
      <4>1. futures[w] \in Future
        BY <3>1 DEF LoadsInv, PreloadTypeOK
      <4>2. future[futures[w]].attached \/ futures[w] \in Attaching
        BY <3>1 DEF LoadsInv, EntryInv
      <4> QED BY <2>4, <2>5, <3>1, <4>1, <4>2 DEF LoadsInv, EntryInv
    <3>2. futures' = futures
      BY <2>1
    <3> QED BY <3>1, <3>2 DEF EntryInv
  <2>7. CurrentInv'
    BY <2>1, <2>4 DEF LoadsInv, CurrentInv, Unfinished
  <2> QED BY <2>2, <2>3, <2>6, <2>7 DEF LoadsInv
<1>4. ASSUME NEW f \in Future, Start(f) \/ LoadSucceeds(f) \/ LoadFails(f) \/ SetResult(f)
      PROVE  LoadsInv'
  <2>1. /\ Unfinished(f)
        /\ \E s \in State \ {"over", "pending"}, v \in {None, "tokenizer"} :
              future' = [future EXCEPT ![f] = [future[f] EXCEPT !.state = s, !.value = v]]
        /\ cache' \in [Hint -> {"tokenizer", "absent"}]
        /\ UNCHANGED <<futures, executor, made, asking, stopping>>
    <3>1. CASE Start(f)
      <4>1. future' = [future EXCEPT ![f] = [future[f] EXCEPT !.state = "running",
                                                              !.value = future[f].value]]
        BY <3>1 DEF Start, LoadsInv, PreloadTypeOK
      <4> QED BY <3>1, <4>1 DEF Start, LoadsInv, PreloadTypeOK, State, Unfinished
    <3>2. CASE LoadSucceeds(f)
      <4>1. future' = [future EXCEPT ![f] = [future[f] EXCEPT !.state = "loaded",
                                                              !.value = "tokenizer"]]
        BY <3>2 DEF LoadSucceeds, LoadsInv, PreloadTypeOK
      <4> QED BY <3>2, <4>1 DEF LoadSucceeds, LoadsInv, PreloadTypeOK, State, Unfinished
    <3>3. CASE LoadFails(f)
      <4>1. future' = [future EXCEPT ![f] = [future[f] EXCEPT !.state = "failed",
                                                              !.value = future[f].value]]
        BY <3>3 DEF LoadFails, LoadsInv, PreloadTypeOK
      <4> QED BY <3>3, <4>1 DEF LoadFails, LoadsInv, PreloadTypeOK, State, Unfinished
    <3>4. CASE SetResult(f)
      <4>1. future' = [future EXCEPT ![f] = [future[f] EXCEPT !.state = "finished",
                                                              !.value = future[f].value]]
        BY <3>4 DEF SetResult, LoadsInv, PreloadTypeOK
      <4> QED BY <3>4, <4>1 DEF SetResult, LoadsInv, PreloadTypeOK, State, Unfinished
    <3> QED BY <1>4, <3>1, <3>2, <3>3, <3>4
  <2>2. PICK s \in State \ {"over", "pending"}, v \in {None, "tokenizer"} :
           future' = [future EXCEPT ![f] = [future[f] EXCEPT !.state = s, !.value = v]]
    BY <2>1
  <2>3. PreloadTypeOK'
    <3>1. \A g \in FutureRecord : [g EXCEPT !.state = s, !.value = v] \in FutureRecord
      BY DEF FutureRecord
    <3>2. future[f] \in FutureRecord
      BY DEF LoadsInv, PreloadTypeOK, FutureRecord
    <3> QED BY <2>1, <2>2, <3>1, <3>2 DEF LoadsInv, PreloadTypeOK, FutureRecord
  <2>4. \A g \in Future :
           /\ future'[g].hint = future[g].hint
           /\ future'[g].attached = future[g].attached
           /\ future'[g].cleared = future[g].cleared
           /\ future'[g].state = "over" <=> future[g].state = "over"
           /\ Unfinished(g)' => Unfinished(g)
    BY <2>1, <2>2 DEF LoadsInv, PreloadTypeOK, State, Unfinished
  <2> QED BY <2>1, <2>3, <2>4, ProgressStep
<1>5. ASSUME NEW f \in Future, Complete(f) PROVE LoadsInv'
  <2> DEFINE w == future[f].hint
  <2>1. /\ future[f].state \in {"finished", "cancelled"}
        /\ future' = [future EXCEPT ![f] = NoFuture]
        /\ UNCHANGED <<executor, made, asking, stopping>>
    BY <1>5 DEF Complete
  <2>2. w \in Hint
    BY <2>1 DEF LoadsInv, HintInv
  <2>3. futures' = IF futures[w] = f THEN [futures EXCEPT ![w] = None] ELSE futures
    BY <1>5 DEF Complete
  <2>4. cache' \in [Hint -> {"tokenizer", "absent"}]
    BY <1>5, <2>2 DEF Complete, LoadsInv, PreloadTypeOK
  <2>5. PreloadTypeOK'
    BY <2>1, <2>2, <2>3, <2>4 DEF LoadsInv, PreloadTypeOK, NoFuture, State, NoPool
  <2>6. PoolInv' /\ AskingInv' /\ HintInv'
    BY <2>1 DEF LoadsInv, PreloadTypeOK, PoolInv, AskingInv, HintInv, NoFuture
  <2>7. \A k \in Hint : futures'[k] # None => futures'[k] = futures[k] /\ futures[k] \in Future \ {f}
    BY <2>2, <2>3 DEF LoadsInv, PreloadTypeOK, EntryInv
  <2>8. EntryInv'
    <3> SUFFICES ASSUME NEW k \in Hint, futures'[k] # None
                 PROVE  /\ future'[futures'[k]].state # "over"
                        /\ future'[futures'[k]].hint = k
                        /\ ~future'[futures'[k]].cleared
                        /\ future'[futures'[k]].attached \/ futures'[k] \in Attaching'
      BY DEF EntryInv
    <3>1. future'[futures[k]] = future[futures[k]] /\ futures'[k] = futures[k]
      BY <2>1, <2>7 DEF LoadsInv, PreloadTypeOK
    <3>2. futures[k] \in Attaching => futures'[k] \in Attaching'
      BY <2>1, <3>1 DEF Attaching
    <3> QED BY <2>7, <3>1, <3>2 DEF LoadsInv, EntryInv
  <2>9. CurrentInv'
    <3> SUFFICES ASSUME NEW g \in Future, Unfinished(g)', ~future'[g].cleared
                 PROVE  futures'[future'[g].hint] = g
      BY DEF CurrentInv
    <3>1. g # f /\ future'[g] = future[g]
      BY <2>1 DEF LoadsInv, PreloadTypeOK, Unfinished, NoFuture
    <3>2. futures[future[g].hint] = g /\ future[g].hint \in Hint
      BY <3>1 DEF LoadsInv, CurrentInv, HintInv, Unfinished
    <3> QED BY <2>2, <2>3, <3>1, <3>2 DEF LoadsInv, PreloadTypeOK
  <2> QED BY <2>5, <2>6, <2>8, <2>9 DEF LoadsInv
<1>6. CASE Stop
  <2>1. PreloadTypeOK' /\ PoolInv'
    BY <1>6 DEF Stop, LoadsInv, PreloadTypeOK, PoolInv, NoPool
  <2>2. \A f \in Future : Unfinished(f)' => Unfinished(f)
    BY <1>6 DEF Stop, Unfinished
  <2>3. AskingInv' /\ HintInv' /\ EntryInv' /\ CurrentInv'
    BY <1>6, <2>2 DEF Stop, LoadsInv, AskingInv, HintInv, EntryInv, CurrentInv, Attaching
  <2> QED BY <2>1, <2>3 DEF LoadsInv
<1>7. CASE Clear
  <2>1. PreloadTypeOK' /\ PoolInv' /\ AskingInv'
    <3>1. ASSUME NEW f \in Future
          PROVE  [future[f] EXCEPT !.cleared = @ \/ f \in Range(futures)] \in FutureRecord
      <4>1. future[f] \in FutureRecord
        BY DEF LoadsInv, PreloadTypeOK, FutureRecord
      <4> DEFINE b == future[f].cleared \/ f \in Range(futures)
      <4>2. b \in BOOLEAN
        OBVIOUS
      <4> HIDE DEF b
      <4>3. [future[f] EXCEPT !.cleared = b] \in FutureRecord
        BY <4>1, <4>2 DEF FutureRecord
      <4> QED BY <4>3 DEF b
    <3> QED BY <1>7, <3>1
            DEF Clear, LoadsInv, PreloadTypeOK, PoolInv, AskingInv, NoPool, FutureRecord
  <2>2. HintInv' /\ EntryInv'
    BY <1>7 DEF Clear, LoadsInv, PreloadTypeOK, HintInv, EntryInv
  <2>3. CurrentInv'
    <3> SUFFICES ASSUME NEW f \in Future, Unfinished(f)', ~future'[f].cleared PROVE FALSE
      BY DEF CurrentInv
    <3>1. Unfinished(f) /\ ~future[f].cleared /\ f \notin Range(futures)
      BY <1>7 DEF Clear, LoadsInv, PreloadTypeOK, Unfinished
    <3>2. future[f].hint \in Hint /\ futures[future[f].hint] = f
      BY <3>1 DEF LoadsInv, HintInv, CurrentInv, Unfinished
    <3> QED BY <3>1, <3>2 DEF LoadsInv, PreloadTypeOK, Range
  <2> QED BY <2>1, <2>2, <2>3 DEF LoadsInv
<1>8. CASE ShutDown
  <2>1. PreloadTypeOK'
    BY <1>8 DEF ShutDown, LoadsInv, PreloadTypeOK, State
  <2>2. \A g \in Future :
           /\ future'[g].hint = future[g].hint
           /\ future'[g].attached = future[g].attached
           /\ future'[g].cleared = future[g].cleared
           /\ future'[g].state = "over" <=> future[g].state = "over"
           /\ Unfinished(g)' => Unfinished(g)
    BY <1>8 DEF ShutDown, LoadsInv, PreloadTypeOK, Unfinished
  <2> QED BY <1>8, <2>1, <2>2, ProgressStep DEF ShutDown
<1>9. CASE UNCHANGED preloadVars
  BY <1>9 DEF preloadVars, LoadsInv, PreloadTypeOK, PoolInv, AskingInv, HintInv, EntryInv, CurrentInv,
       Attaching, Unfinished
<1> QED BY <1>1, <1>2, <1>3, <1>4, <1>5, <1>6, <1>7, <1>8, <1>9 DEF PreloadNext

-----------------------------------------------------------------------------
\* However callers, threads of the pool, callbacks, shutdowns and clearings of the
\* cache interleave (_load_hf_tokenizer() to shutdown_tokenizer_preloads() of
\* src/tokens.py): no hint has two loads under way unless the tables were cleared
\* between them, an entry of the table names a load of its own hint whose callback
\* will run and remove it, and the cache holds tokenizers only.
THEOREM LoadsSound == PreloadSpec => []PreloadInv
<1>1. LoadsInv => PreloadInv
  <2> SUFFICES ASSUME LoadsInv PROVE PreloadInv
      OBVIOUS
  <2>1. NoDuplicateLoads
    BY DEF LoadsInv, CurrentInv, NoDuplicateLoads
  <2>2. EntriesWillGo
    BY DEF LoadsInv, EntryInv, EntriesWillGo, Attaching
  <2> QED BY <2>1, <2>2 DEF PreloadInv, LoadsInv
<1> QED BY <1>1, LoadsInit, LoadsStep, PTL DEF PreloadSpec
==============================================================================
