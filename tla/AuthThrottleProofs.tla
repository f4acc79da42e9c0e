-------------------------- MODULE AuthThrottleProofs --------------------------
(***************************************************************************)
(* Proofs about AuthThrottle, for any finite set of clients, any limit, any  *)
(* window and any max_entries.  The first lemmas say what the operations of  *)
(* FailureThrottle do to a well-formed OrderedDict: to its entries, to its   *)
(* length and to the order of use.  Then the histories: an open window counts *)
(* every failure since its start (so a block is earned), and the failures    *)
(* from before its start all belong to one window that began more than a     *)
(* window ago, so at most Limit - 1 of them are still in the history.        *)
(***************************************************************************)
EXTENDS AuthThrottle, FiniteSetTheorems, SequenceTheorems, TLAPS

Well(es) ==
    /\ es \in Seq(Entry)
    /\ \A i, j \in DOMAIN es : es[i].client = es[j].client => i = j

Holds(es, e) == \E i \in DOMAIN es : es[i] = e

\* Whoever is behind Watched in the order of use is in cs.
BehindIn(es, cs) ==
    \A i, j \in DOMAIN es : es[i].client = Watched /\ i < j => es[j].client \in cs

\* The failures after the tick of the last eviction.
Since(fs, g) == {f \in fs : f[1] < g}

\* What an open window e of Watched says of the failures.
Counted(e, fs, g) ==
    /\ e.count <= Cardinality({f \in fs : f[1] <= e.age})
    /\ Cardinality({f \in Since(fs, g) : f[1] <= e.age}) <= e.count
    /\ Cardinality({f \in Since(fs, g) : f[1] < e.age}) <= e.count - 1
    /\ Cardinality({f \in Since(fs, g) : f[1] > e.age}) <= Limit - 1

\* What is known of them while no window is open.
Closed(fs, g) ==
    /\ Cardinality(Since(fs, g)) <= Limit - 1
    /\ \A f \in Since(fs, g) : f[1] # 0

CountInv ==
    /\ \A e \in Entry : Holds(entries, e) /\ e.client = Watched /\ e.age < Window =>
           Counted(e, failures, evicted)
    /\ (\A e \in Entry : Holds(entries, e) /\ e.client = Watched => e.age = Window) =>
           Closed(failures, evicted)

IndInv == TypeOK /\ CountInv /\ BehindIn(entries, later)

-------------------------------------------------------------------------------
\* The operations on the entries

\* The place of a client's entry.
LEMMA IndexAt ==
    ASSUME NEW es, Well(es), NEW c, Known(es, c)
    PROVE  /\ IndexOf(es, c) \in 1..Len(es)
           /\ es[IndexOf(es, c)].client = c
           /\ EntryOf(es, c) \in Entry
           /\ EntryOf(es, c).client = c
           /\ Holds(es, EntryOf(es, c))
<1>1. DOMAIN es = 1..Len(es)  BY DEF Well
<1>2. IndexOf(es, c) \in DOMAIN es /\ es[IndexOf(es, c)].client = c
    BY DEF Known, IndexOf
<1>. QED  BY <1>1, <1>2 DEF Well, EntryOf, Holds

\* A client has one entry.
LEMMA OneEntry ==
    ASSUME NEW es, Well(es), NEW e, Holds(es, e)
    PROVE  Known(es, e.client) /\ EntryOf(es, e.client) = e
<1>1. PICK i \in DOMAIN es : es[i] = e  BY DEF Holds
<1>2. Known(es, e.client)  BY <1>1 DEF Known
<1>3. IndexOf(es, e.client) \in DOMAIN es /\ es[IndexOf(es, e.client)].client = e.client
    BY <1>2 DEF Known, IndexOf
<1>4. IndexOf(es, e.client) = i  BY <1>1, <1>3 DEF Well
<1>. QED  BY <1>1, <1>2, <1>4 DEF EntryOf

\* Taking an entry out moves those after it up by one.
LEMMA OthersAt ==
    ASSUME NEW es, Well(es), NEW c, Known(es, c)
    PROVE  LET r == Others(es, c)
               n == IndexOf(es, c)
           IN /\ r \in Seq(Entry)
              /\ Len(r) = Len(es) - 1
              /\ \A i \in 1..Len(r) : r[i] = IF i < n THEN es[i] ELSE es[i + 1]
<1>. DEFINE n == IndexOf(es, c)
            s == SubSeq(es, 1, n - 1)
            t == SubSeq(es, n + 1, Len(es))
<1>1. n \in 1..Len(es)  BY IndexAt
<1>. HIDE DEF n
<1>2. es \in Seq(Entry) /\ Len(es) \in Nat  BY DEF Well
<1>3. s \in Seq(Entry) /\ Len(s) = n - 1 /\ \A i \in 1..(n - 1) : s[i] = es[i]
    BY <1>1, <1>2
<1>4. t \in Seq(Entry) /\ Len(t) = Len(es) - n /\ \A i \in 1..(Len(es) - n) : t[i] = es[n + i]
    <2>1. \A i \in (n + 1)..Len(es) : es[i] \in Entry  BY <1>1, <1>2
    <2>2. t \in Seq(Entry)  BY <2>1, <1>1, <1>2
    <2>3. Len(t) = Len(es) - n  BY <1>1, <1>2
    <2>4. ASSUME NEW i \in 1..(Len(es) - n)  PROVE t[i] = es[n + i]  BY <1>1, <1>2
    <2>. QED  BY <2>2, <2>3, <2>4
<1>. HIDE DEF s, t
<1>5. Others(es, c) = s \o t  BY DEF Others, RemoveAt, n, s, t
<1>6. s \o t \in Seq(Entry) /\ Len(s \o t) = Len(es) - 1
    <2>1. s \o t \in Seq(Entry) /\ Len(s \o t) = Len(s) + Len(t)
        BY <1>3, <1>4, ConcatProperties
    <2>. QED  BY <2>1, <1>1, <1>2, <1>3, <1>4
<1>7. ASSUME NEW i \in 1..(Len(es) - 1)
      PROVE  (s \o t)[i] = IF i < n THEN es[i] ELSE es[i + 1]
    <2>1. CASE i < n  BY <2>1, <1>1, <1>2, <1>3, <1>4
    <2>2. CASE ~(i < n)
        <3>1. (s \o t)[i] = t[i - (n - 1)]  BY <2>2, <1>1, <1>2, <1>3, <1>4
        <3>2. i - (n - 1) \in 1..(Len(es) - n)  BY <2>2, <1>1, <1>2
        <3>3. n + (i - (n - 1)) = i + 1  BY <1>1, <1>2
        <3>. QED  BY <2>2, <3>1, <3>2, <3>3, <1>4
    <2>. QED  BY <2>1, <2>2
<1>. QED  BY <1>5, <1>6, <1>7 DEF n

\* OrderedDict.pop(): what is left, and in which order.
LEMMA OthersWell ==
    ASSUME NEW es, Well(es), NEW c
    PROVE  LET r == Others(es, c)
           IN /\ Well(r)
              /\ Len(r) <= Len(es)
              /\ Known(es, c) => Len(r) = Len(es) - 1
              /\ \A i \in DOMAIN r : r[i].client # c
              /\ \A e : Holds(r, e) <=> Holds(es, e) /\ e.client # c
              /\ \A cs : BehindIn(es, cs) => BehindIn(r, cs)
<1>. DEFINE r == Others(es, c)
            n == IndexOf(es, c)
<1>0. DOMAIN es = 1..Len(es) /\ Len(es) \in Nat  BY DEF Well
<1>1. CASE ~Known(es, c)
    <2>1. r = es  BY <1>1 DEF Others
    <2>. HIDE DEF r
    <2>2. \A i \in DOMAIN es : es[i].client # c  BY <1>1 DEF Known
    <2>3. \A e : Holds(es, e) => e.client # c  BY <2>2 DEF Holds
    <2>4. /\ Well(es)
          /\ Len(es) <= Len(es)
          /\ \A e : Holds(es, e) <=> Holds(es, e) /\ e.client # c
          /\ \A cs : BehindIn(es, cs) => BehindIn(es, cs)
        BY <2>3, <1>0
    <2>5. Others(es, c) = es  BY <2>1 DEF r
    <2>. QED  BY ONLY <1>1, <2>2, <2>4, <2>5
<1>2. CASE Known(es, c)
    <2>1. n \in 1..Len(es) /\ es[n].client = c  BY <1>2, IndexAt
    <2>2. /\ r \in Seq(Entry)
          /\ Len(r) = Len(es) - 1
          /\ \A i \in 1..Len(r) : r[i] = IF i < n THEN es[i] ELSE es[i + 1]
        BY <1>2, OthersAt
    <2>. HIDE DEF r, n
    <2>3. DOMAIN r = 1..Len(r)  BY <2>2
    <2>. DEFINE at(i) == IF i < n THEN i ELSE i + 1
    <2>4. \A i \in DOMAIN r : at(i) \in DOMAIN es /\ at(i) # n /\ r[i] = es[at(i)]
        BY <2>1, <2>2, <2>3, <1>0
    <2>5. \A i, j \in DOMAIN r : (at(i) = at(j) => i = j) /\ (i < j => at(i) < at(j))
        BY <2>1, <2>3, <2>2, <1>0
    <2>6. \A j \in DOMAIN es : j # n => \E i \in DOMAIN r : at(i) = j
        <3>. SUFFICES ASSUME NEW j \in DOMAIN es, j # n  PROVE \E i \in DOMAIN r : at(i) = j
            OBVIOUS
        <3>1. CASE j < n
            <4>1. j \in DOMAIN r /\ at(j) = j  BY <3>1, <2>1, <2>2, <2>3, <1>0
            <4>. QED  BY <4>1
        <3>2. CASE j > n
            <4>1. j - 1 \in DOMAIN r /\ at(j - 1) = j  BY <3>2, <2>1, <2>2, <2>3, <1>0
            <4>. QED  BY <4>1
        <3>. QED  BY <3>1, <3>2, <2>1, <1>0
    <2>. HIDE DEF at
    <2>7. \A i \in DOMAIN r : r[i].client # c
        BY <2>4, <2>1, <1>0 DEF Well
    <2>8. Well(r)  BY <2>2, <2>4, <2>5 DEF Well
    <2>9. \A e : Holds(r, e) <=> Holds(es, e) /\ e.client # c
        <3>. TAKE e
        <3>1. Holds(r, e) => Holds(es, e) /\ e.client # c  BY <2>4, <2>7 DEF Holds
        <3>2. ASSUME Holds(es, e), e.client # c  PROVE Holds(r, e)
            <4>1. PICK j \in DOMAIN es : es[j] = e  BY <3>2 DEF Holds
            <4>2. j # n  BY <4>1, <3>2, <2>1
            <4>3. PICK i \in DOMAIN r : at(i) = j  BY <4>2, <2>6
            <4>. QED  BY <4>1, <4>3, <2>4 DEF Holds
        <3>. QED  BY <3>1, <3>2
    <2>10. \A cs : BehindIn(es, cs) => BehindIn(r, cs)
        BY <2>4, <2>5 DEF BehindIn
    <2>. QED  BY <2>2, <2>7, <2>8, <2>9, <2>10, <1>0 DEF r
<1>. QED  BY <1>1, <1>2

\* OrderedDict.move_to_end(), or a new entry at the end.
LEMMA MovedWell ==
    ASSUME NEW es, Well(es), NEW c, NEW e \in Entry, e.client = c
    PROVE  LET r == Append(Others(es, c), e)
           IN /\ Well(r)
              /\ Len(r) <= Len(es) + 1
              /\ Known(es, c) => Len(r) = Len(es)
              /\ \A x : Holds(r, x) <=> x = e \/ (Holds(es, x) /\ x.client # c)
              /\ \A cs : BehindIn(es, cs) => BehindIn(r, cs \cup {c})
              /\ c = Watched => BehindIn(r, {})
<1>. DEFINE o == Others(es, c)
            r == Append(o, e)
<1>1. /\ Well(o)
      /\ Len(o) <= Len(es)
      /\ Known(es, c) => Len(o) = Len(es) - 1
      /\ \A i \in DOMAIN o : o[i].client # c
      /\ \A x : Holds(o, x) <=> Holds(es, x) /\ x.client # c
      /\ \A cs : BehindIn(es, cs) => BehindIn(o, cs)
    BY OthersWell
<1>. HIDE DEF o
<1>2. o \in Seq(Entry) /\ Len(o) \in Nat /\ DOMAIN o = 1..Len(o) /\ Len(es) \in Nat
    BY <1>1 DEF Well
<1>3. /\ r \in Seq(Entry)
      /\ Len(r) = Len(o) + 1
      /\ DOMAIN r = 1..(Len(o) + 1)
      /\ \A i \in 1..Len(o) : r[i] = o[i]
      /\ r[Len(o) + 1] = e
    BY <1>2
<1>. HIDE DEF r
<1>4. \A i \in DOMAIN r : i = Len(o) + 1 \/ (i \in DOMAIN o /\ r[i] = o[i] /\ i < Len(o) + 1)
    BY <1>2, <1>3
<1>5. \A i \in DOMAIN o : i \in DOMAIN r /\ r[i] = o[i]
    BY <1>2, <1>3
<1>6. Len(o) + 1 \in DOMAIN r  BY <1>2, <1>3
<1>7. Well(r)
    <2>. SUFFICES ASSUME NEW i \in DOMAIN r, NEW j \in DOMAIN r, r[i].client = r[j].client
                  PROVE  i = j
        BY <1>3 DEF Well
    <2>1. CASE i = Len(o) + 1  BY <2>1, <1>1, <1>3, <1>4
    <2>2. CASE j = Len(o) + 1  BY <2>2, <1>1, <1>3, <1>4
    <2>3. CASE i # Len(o) + 1 /\ j # Len(o) + 1
        BY <2>3, <1>1, <1>4 DEF Well
    <2>. QED  BY <2>1, <2>2, <2>3
<1>8. \A x : Holds(r, x) <=> x = e \/ (Holds(es, x) /\ x.client # c)
    <2>. TAKE x
    <2>1. Holds(r, x) => x = e \/ Holds(o, x)  BY <1>3, <1>4 DEF Holds
    <2>2. x = e \/ Holds(o, x) => Holds(r, x)  BY <1>3, <1>5, <1>6 DEF Holds
    <2>. QED  BY <2>1, <2>2, <1>1
<1>9. ASSUME NEW cs, BehindIn(o, cs)  PROVE BehindIn(r, cs \cup {c})
    <2>. SUFFICES ASSUME NEW i \in DOMAIN r, NEW j \in DOMAIN r, r[i].client = Watched, i < j
                  PROVE  r[j].client \in cs \cup {c}
        BY DEF BehindIn
    <2>1. CASE j = Len(o) + 1  BY <2>1, <1>3
    <2>2. CASE j # Len(o) + 1
        <3>1. j \in DOMAIN o /\ r[j] = o[j] /\ j < Len(o) + 1  BY <2>2, <1>4
        <3>2. i # Len(o) + 1  BY <3>1, <1>2
        <3>3. i \in DOMAIN o /\ r[i] = o[i]  BY <3>2, <1>4
        <3>. QED  BY <3>1, <3>3, <1>9 DEF BehindIn
    <2>. QED  BY <2>1, <2>2
<1>10. ASSUME c = Watched  PROVE BehindIn(r, {})
    <2>. SUFFICES ASSUME NEW i \in DOMAIN r, NEW j \in DOMAIN r, r[i].client = Watched, i < j
                  PROVE  FALSE
        BY DEF BehindIn
    <2>1. i # Len(o) + 1  BY <1>2, <1>3
    <2>. QED  BY <2>1, <1>1, <1>4, <1>10
<1>11. Len(r) <= Len(es) + 1 /\ (Known(es, c) => Len(r) = Len(es))
    BY <1>1, <1>2, <1>3
<1>12. \A cs : BehindIn(es, cs) => BehindIn(r, cs \cup {c})
    BY <1>1, <1>9
<1>. QED  BY <1>7, <1>8, <1>10, <1>11, <1>12 DEF r, o

\* retry_after(): every entry stays but an expired one of the client, and the client's
\* is the most recently used one.
LEMMA LookedAtWell ==
    ASSUME NEW es, Well(es), NEW c
    PROVE  LET r == LookedAt(es, c)
           IN /\ Well(r)
              /\ Len(r) <= Len(es)
              /\ \A x : Holds(r, x) <=> Holds(es, x) /\ (x.client = c => x.age < Window)
              /\ \A cs : BehindIn(es, cs) => BehindIn(r, cs \cup {c})
              /\ c = Watched => BehindIn(r, {})
<1>. DEFINE o == Others(es, c)
            e == EntryOf(es, c)
<1>1. CASE Known(es, c) /\ e.age < Window
    <2>1. e \in Entry /\ e.client = c /\ Holds(es, e)  BY <1>1, IndexAt
    <2>2. LookedAt(es, c) = Append(Others(es, c), e)  BY <1>1 DEF LookedAt
    <2>3. \A x : Holds(es, x) /\ x.client = c => x = e  BY OneEntry
    <2>. HIDE DEF e
    <2>. DEFINE r == Append(Others(es, c), e)
    <2>4. /\ Well(r)
          /\ Known(es, c) => Len(r) = Len(es)
          /\ \A x : Holds(r, x) <=> x = e \/ (Holds(es, x) /\ x.client # c)
          /\ \A cs : BehindIn(es, cs) => BehindIn(r, cs \cup {c})
          /\ c = Watched => BehindIn(r, {})
        BY <2>1, MovedWell
    <2>. HIDE DEF r
    <2>5. LookedAt(es, c) = r  BY <2>2 DEF r
    <2>6. \A x : Holds(r, x) <=> Holds(es, x) /\ (x.client = c => x.age < Window)
        <3>. TAKE x
        <3>1. CASE x.client = c  BY <3>1, <1>1, <2>1, <2>3, <2>4
        <3>2. CASE x.client # c  BY <3>2, <2>1, <2>4
        <3>. QED  BY <3>1, <3>2
    <2>7. Len(r) <= Len(es)
        <3>1. Len(es) \in Nat  BY DEF Well
        <3>. QED  BY <3>1, <2>4, <1>1
    <2>. QED  BY <2>4, <2>5, <2>6, <2>7
<1>2. CASE ~(Known(es, c) /\ e.age < Window)
    <2>1. LookedAt(es, c) = o  BY <1>2 DEF LookedAt
    <2>2. /\ Well(o)
          /\ Len(o) <= Len(es)
          /\ \A i \in DOMAIN o : o[i].client # c
          /\ \A x : Holds(o, x) <=> Holds(es, x) /\ x.client # c
          /\ \A cs : BehindIn(es, cs) => BehindIn(o, cs)
        BY OthersWell
    <2>3. \A x : Holds(es, x) /\ x.client = c => Known(es, c) /\ x = e  BY OneEntry
    <2>. HIDE DEF o, e
    <2>4. \A x : Holds(o, x) <=> Holds(es, x) /\ (x.client = c => x.age < Window)
        BY <1>2, <2>2, <2>3
    <2>5. \A cs : BehindIn(o, cs) => BehindIn(o, cs \cup {c})  BY DEF BehindIn
    <2>6. c = Watched => BehindIn(o, {})  BY <2>2 DEF BehindIn
    <2>. QED  BY <2>1, <2>2, <2>4, <2>5, <2>6
<1>. QED  BY <1>1, <1>2

\* The least recently used entry makes room.
LEMMA TailWell ==
    ASSUME NEW es, Well(es), Len(es) > 1
    PROVE  /\ Well(Tail(es))
           /\ Len(Tail(es)) = Len(es) - 1
           /\ \A x : Holds(Tail(es), x) <=> Holds(es, x) /\ x # es[1]
           /\ \A cs : BehindIn(es, cs) => BehindIn(Tail(es), cs)
           /\ Holds(Tail(es), es[Len(es)])
<1>. DEFINE r == Tail(es)
<1>1. es \in Seq(Entry) /\ Len(es) \in Nat /\ DOMAIN es = 1..Len(es)  BY DEF Well
<1>2. /\ r \in Seq(Entry)
      /\ Len(r) = Len(es) - 1
      /\ DOMAIN r = 1..(Len(es) - 1)
      /\ \A i \in 1..(Len(es) - 1) : r[i] = es[i + 1]
    BY <1>1
<1>. HIDE DEF r
<1>3. \A i \in DOMAIN r : i + 1 \in DOMAIN es /\ i + 1 # 1 /\ r[i] = es[i + 1]
    BY <1>1, <1>2
<1>4. \A i, j \in DOMAIN r : (i < j => i + 1 < j + 1) /\ (i + 1 = j + 1 => i = j)
    BY <1>1, <1>2
<1>5. Well(r)  BY <1>2, <1>3, <1>4 DEF Well
<1>6. ASSUME NEW j \in DOMAIN es, j # 1  PROVE Holds(r, es[j])
    <2>1. j - 1 \in DOMAIN r /\ (j - 1) + 1 = j  BY <1>1, <1>2, <1>6
    <2>. QED  BY <2>1, <1>3 DEF Holds
<1>7. \A x : Holds(r, x) <=> Holds(es, x) /\ x # es[1]
    <2>. TAKE x
    <2>1. ASSUME Holds(r, x)  PROVE Holds(es, x) /\ x # es[1]
        <3>1. PICK i \in DOMAIN r : r[i] = x  BY <2>1 DEF Holds
        <3>2. i + 1 \in DOMAIN es /\ es[i + 1] = x /\ i + 1 # 1  BY <3>1, <1>3
        <3>3. 1 \in DOMAIN es  BY <1>1
        <3>. QED  BY <3>2, <3>3 DEF Holds, Well
    <2>2. ASSUME Holds(es, x), x # es[1]  PROVE Holds(r, x)
        BY <2>2, <1>6 DEF Holds
    <2>. QED  BY <2>1, <2>2
<1>8. \A cs : BehindIn(es, cs) => BehindIn(r, cs)  BY <1>3, <1>4 DEF BehindIn
<1>9. Holds(r, es[Len(es)])
    <2>1. Len(es) \in DOMAIN es /\ Len(es) # 1  BY <1>1
    <2>. QED  BY <2>1, <1>6
<1>. QED  BY <1>2, <1>5, <1>7, <1>8, <1>9 DEF r

\* Whose entry is the first of n has all the others behind it, each a client of its own.
LEMMA ManyBehind ==
    ASSUME NEW es, Well(es), NEW cs, IsFiniteSet(cs), BehindIn(es, cs),
           Len(es) > 1, es[1].client = Watched
    PROVE  Cardinality(cs) >= Len(es) - 1
<1>. DEFINE k == Len(es) - 1
            f == [i \in 1..k |-> es[i + 1].client]
<1>1. es \in Seq(Entry) /\ Len(es) \in Nat /\ DOMAIN es = 1..Len(es)  BY DEF Well
<1>2. k \in Nat  BY <1>1
<1>3. \A i \in 1..k : f[i] \in cs
    <2>. TAKE i \in 1..k
    <2>1. 1 \in DOMAIN es /\ i + 1 \in DOMAIN es /\ 1 < i + 1  BY <1>1
    <2>. QED  BY <2>1 DEF BehindIn
<1>4. f \in Injection(1..k, cs)
    <2>1. f \in [1..k -> cs]  BY <1>3
    <2>2. ASSUME NEW i \in 1..k, NEW j \in 1..k, f[i] = f[j]  PROVE i = j
        <3>1. i + 1 \in DOMAIN es /\ j + 1 \in DOMAIN es  BY <1>1
        <3>2. i + 1 = j + 1  BY <3>1, <2>2 DEF Well
        <3>. QED  BY <3>2, <1>1
    <2>. QED  BY <2>1, <2>2 DEF Injection, IsInjective
<1>5. IsFiniteSet(1..k) /\ Cardinality(1..k) = k  BY <1>2, FS_Interval
<1>6. Cardinality(1..k) <= Cardinality(cs)  BY <1>4, <1>5, FS_Injection
<1>7. Cardinality(cs) \in Nat  BY FS_CardinalityType
<1>. QED  BY <1>2, <1>5, <1>6, <1>7

\* What fail() writes.
NewEntry(es, c) ==
    IF Known(es, c) /\ EntryOf(es, c).age < Window
    THEN [EntryOf(es, c) EXCEPT !.count = AtMost(@ + 1, Limit)]
    ELSE [client |-> c, count |-> 1, age |-> 0]

\* Its window goes on, or a new one starts.
LEMMA NewEntryOpen ==
    ASSUME NEW es, Well(es), NEW c \in Client
    PROVE  /\ NewEntry(es, c) \in Entry
           /\ NewEntry(es, c).client = c
           /\ NewEntry(es, c).age < Window
<1>0. Limit \in Nat \ {0} /\ Window \in Nat \ {0}  BY ThrottleAssumption
<1>1. CASE Known(es, c) /\ EntryOf(es, c).age < Window
    <2>. DEFINE e == EntryOf(es, c)
                n == AtMost(e.count + 1, Limit)
    <2>1. e \in Entry /\ e.client = c  BY <1>1, IndexAt
    <2>2. NewEntry(es, c) = [e EXCEPT !.count = n]  BY <1>1 DEF NewEntry
    <2>. HIDE DEF e
    <2>3. n \in 1..Limit  BY <2>1, <1>0 DEF AtMost, Entry
    <2>. HIDE DEF n
    <2>. QED  BY <2>1, <2>2, <2>3, <1>1 DEF Entry, e
<1>2. CASE ~(Known(es, c) /\ EntryOf(es, c).age < Window)
    <2>1. NewEntry(es, c) = [client |-> c, count |-> 1, age |-> 0]  BY <1>2 DEF NewEntry
    <2>2. 1 \in 1..Limit /\ 0 \in 0..Window /\ 0 < Window  BY <1>0
    <2>. QED  BY <2>1, <2>2 DEF Entry
<1>. QED  BY <1>1, <1>2

\* fail(): the client's entry is the new one; another's may go, and the one that goes has
\* max_entries clients behind it.
LEMMA FailWell ==
    ASSUME NEW es, Well(es), Len(es) <= MaxEntries, NEW c \in Client
    PROVE  LET r == Fail(es, c)
           IN /\ Well(r)
              /\ Len(r) <= MaxEntries
              /\ Holds(r, NewEntry(es, c))
              /\ \A x : Holds(r, x) => x = NewEntry(es, c) \/ (Holds(es, x) /\ x.client # c)
              /\ \A cs : BehindIn(es, cs) => BehindIn(r, cs \cup {c})
              /\ c = Watched => BehindIn(r, {})
              /\ \A x, cs : /\ IsFiniteSet(cs)
                            /\ BehindIn(es, cs)
                            /\ Holds(es, x)
                            /\ x.client = Watched
                            /\ x.client # c
                            /\ ~Holds(r, x)
                            => Cardinality(cs \cup {c}) >= MaxEntries
<1>. DEFINE e == NewEntry(es, c)
            all == Append(Others(es, c), e)
            r == IF Len(all) > MaxEntries THEN Tail(all) ELSE all
<1>0. MaxEntries \in Nat \ {0} /\ Len(es) \in Nat  BY ThrottleAssumption DEF Well
<1>1. Fail(es, c) = r  BY DEF Fail, NewEntry
<1>2. e \in Entry /\ e.client = c  BY NewEntryOpen
<1>. HIDE DEF e
<1>3. /\ Well(all)
      /\ Len(all) <= Len(es) + 1
      /\ Known(es, c) => Len(all) = Len(es)
      /\ \A x : Holds(all, x) <=> x = e \/ (Holds(es, x) /\ x.client # c)
      /\ \A cs : BehindIn(es, cs) => BehindIn(all, cs \cup {c})
      /\ c = Watched => BehindIn(all, {})
    BY <1>2, MovedWell
<1>4. Len(all) \in Nat /\ all \in Seq(Entry) /\ DOMAIN all = 1..Len(all)  BY <1>3 DEF Well
<1>5. Len(all) >= 1 /\ all[Len(all)] = e
    <2>1. Others(es, c) \in Seq(Entry)  BY OthersWell DEF Well
    <2>. QED  BY <2>1
<1>. HIDE DEF all
<1>6. CASE ~(Len(all) > MaxEntries)
    <2>1. r = all  BY <1>6
    <2>2. Len(all) <= MaxEntries  BY <1>6, <1>4, <1>0
    <2>. HIDE DEF r
    <2>3. \A x : Holds(es, x) /\ x.client # c => Holds(r, x)  BY <2>1, <1>3
    <2>. QED  BY <2>1, <2>2, <2>3, <1>1, <1>3 DEF e
<1>7. CASE Len(all) > MaxEntries
    <2>1. r = Tail(all)  BY <1>7
    <2>. HIDE DEF r
    <2>2. Len(all) = MaxEntries + 1 /\ Len(all) > 1
        <3>1. Len(all) <= Len(es) + 1 /\ Len(all) \in Nat  BY <1>3, <1>4
        <3>. QED  BY <3>1, <1>7, <1>0
    <2>3. /\ Well(r)
          /\ Len(r) = Len(all) - 1
          /\ \A x : Holds(r, x) <=> Holds(all, x) /\ x # all[1]
          /\ \A cs : BehindIn(all, cs) => BehindIn(r, cs)
          /\ Holds(r, all[Len(all)])
        BY <2>1, <2>2, <1>3, TailWell
    <2>4. ASSUME NEW x, NEW cs, IsFiniteSet(cs), BehindIn(es, cs), Holds(es, x),
                 x.client = Watched, x.client # c, ~Holds(r, x)
          PROVE  Cardinality(cs \cup {c}) >= MaxEntries
        <3>1. Holds(all, x)  BY <2>4, <1>3
        <3>2. all[1].client = Watched  BY <3>1, <2>3, <2>4
        <3>3. IsFiniteSet(cs \cup {c})  BY <2>4, FS_AddElement
        <3>4. BehindIn(all, cs \cup {c})  BY <2>4, <1>3
        <3>5. Cardinality(cs \cup {c}) >= Len(all) - 1
            BY <3>2, <3>3, <3>4, <2>2, <1>3, ManyBehind
        <3>. QED  BY <3>5, <2>2, <1>0
    <2>5. Len(r) <= MaxEntries  BY <2>2, <2>3, <1>0
    <2>6. Holds(r, e)  BY <2>3, <1>5
    <2>7. \A x : Holds(r, x) => x = e \/ (Holds(es, x) /\ x.client # c)  BY <2>3, <1>3
    <2>8. \A cs : BehindIn(es, cs) => BehindIn(r, cs \cup {c})  BY <2>3, <1>3
    <2>9. c = Watched => BehindIn(r, {})  BY <2>3, <1>3
    <2>10. \A x, cs : /\ IsFiniteSet(cs)
                     /\ BehindIn(es, cs)
                     /\ Holds(es, x)
                     /\ x.client = Watched
                     /\ x.client # c
                     /\ ~Holds(r, x)
                     => Cardinality(cs \cup {c}) >= MaxEntries
        BY <2>4
    <2>. HIDE DEF r
    <2>. QED  BY <1>1, <2>3, <2>5, <2>6, <2>7, <2>8, <2>9, <2>10 DEF e
<1>. QED  BY <1>6, <1>7

\* A request of another client touches Watched's entry only to evict it.
LEMMA AttemptOther ==
    ASSUME NEW es, Well(es), Len(es) <= MaxEntries, NEW c \in Client, c # Watched,
           NEW valid \in BOOLEAN, NEW cs, IsFiniteSet(cs), BehindIn(es, cs)
    PROVE  LET r == Attempt(es, c, valid).entries
           IN /\ Well(r)
              /\ Len(r) <= MaxEntries
              /\ BehindIn(r, cs \cup {c})
              /\ \A x : x.client = Watched /\ Holds(r, x) => Holds(es, x)
              /\ \A x : x.client = Watched /\ Holds(es, x) /\ ~Holds(r, x) =>
                     Cardinality(cs \cup {c}) >= MaxEntries
<1>. DEFINE look == LookedAt(es, c)
<1>0. MaxEntries \in Nat /\ Len(es) \in Nat  BY ThrottleAssumption DEF Well
<1>1. /\ Well(look)
      /\ Len(look) <= Len(es)
      /\ \A x : Holds(look, x) <=> Holds(es, x) /\ (x.client = c => x.age < Window)
      /\ BehindIn(look, cs \cup {c})
    BY LookedAtWell
<1>. HIDE DEF look
<1>2. Len(look) <= MaxEntries
    <2>1. Len(look) \in Nat /\ Len(look) <= Len(es)  BY <1>1 DEF Well
    <2>. QED  BY <2>1, <1>0
<1>3. \A x : x.client = Watched => (Holds(look, x) <=> Holds(es, x))  BY <1>1
<1>4. IsFiniteSet(cs \cup {c})  BY FS_AddElement
<1>5. (cs \cup {c}) \cup {c} = cs \cup {c}  OBVIOUS
<1>6. CASE Blocks(es, c)
    <2>1. Attempt(es, c, valid).entries = look  BY <1>6 DEF Attempt, look
    <2>. QED  BY <2>1, <1>1, <1>2, <1>3
<1>7. CASE ~Blocks(es, c) /\ valid
    <2>. DEFINE r == Others(look, c)
    <2>1. Attempt(es, c, valid).entries = r  BY <1>7 DEF Attempt, look, Reset
    <2>2. /\ Well(r)
          /\ Len(r) <= Len(look)
          /\ \A x : Holds(r, x) <=> Holds(look, x) /\ x.client # c
          /\ BehindIn(r, cs \cup {c})
        BY <1>1, OthersWell
    <2>. HIDE DEF r
    <2>3. Len(r) <= MaxEntries
        <3>1. Len(r) \in Nat /\ Len(look) \in Nat /\ Len(r) <= Len(look)  BY <1>1, <2>2 DEF Well
        <3>. QED  BY <3>1, <1>2, <1>0
    <2>4. \A x : x.client = Watched => (Holds(r, x) <=> Holds(es, x))  BY <2>2, <1>3
    <2>. QED  BY <2>1, <2>2, <2>3, <2>4
<1>8. CASE ~Blocks(es, c) /\ ~valid
    <2>. DEFINE f == Fail(look, c)
                r == LookedAt(f, c)
    <2>1. Attempt(es, c, valid).entries = r  BY <1>8 DEF Attempt, look
    <2>2. /\ Well(f)
          /\ Len(f) <= MaxEntries
          /\ \A x : Holds(f, x) => x = NewEntry(look, c) \/ (Holds(look, x) /\ x.client # c)
          /\ BehindIn(f, (cs \cup {c}) \cup {c})
          /\ \A x : Holds(look, x) /\ x.client = Watched /\ x.client # c /\ ~Holds(f, x) =>
                 Cardinality((cs \cup {c}) \cup {c}) >= MaxEntries
        BY <1>1, <1>2, <1>4, FailWell
    <2>3. NewEntry(look, c).client = c  BY <1>1, NewEntryOpen
    <2>. HIDE DEF f
    <2>4. /\ Well(r)
          /\ Len(r) <= Len(f)
          /\ \A x : Holds(r, x) <=> Holds(f, x) /\ (x.client = c => x.age < Window)
          /\ BehindIn(r, ((cs \cup {c}) \cup {c}) \cup {c})
        BY <2>2, LookedAtWell
    <2>. HIDE DEF r
    <2>5. Len(r) <= MaxEntries
        <3>1. Len(r) \in Nat /\ Len(f) \in Nat /\ Len(r) <= Len(f) /\ Len(f) <= MaxEntries
            BY <2>2, <2>4 DEF Well
        <3>. QED  BY <3>1, <1>0
    <2>6. BehindIn(r, cs \cup {c})  BY <2>4, <1>5
    <2>7. \A x : x.client = Watched /\ Holds(r, x) => Holds(es, x)
        BY <2>2, <2>3, <2>4, <1>3
    <2>8. \A x : x.client = Watched /\ Holds(es, x) /\ ~Holds(r, x) =>
              Cardinality(cs \cup {c}) >= MaxEntries
        BY <2>2, <2>4, <1>3, <1>5
    <2>. QED  BY <2>1, <2>4, <2>5, <2>6, <2>7, <2>8
<1>. QED  BY <1>6, <1>7, <1>8

\* A client's own request never evicts its entry: it is blocked and stays as it is, is
\* let in and forgotten, or fails and is counted.
LEMMA AttemptWatched ==
    ASSUME NEW es, Well(es), Len(es) <= MaxEntries, NEW valid \in BOOLEAN
    PROVE  LET r == Attempt(es, Watched, valid).entries
               status == Attempt(es, Watched, valid).status
           IN /\ Well(r)
              /\ Len(r) <= MaxEntries
              /\ BehindIn(r, {})
              /\ Blocks(es, Watched) =>
                     /\ status = 429
                     /\ \A x : x.client = Watched => (Holds(r, x) <=> Holds(es, x))
              /\ ~Blocks(es, Watched) /\ valid =>
                     /\ status = 200
                     /\ \A x : Holds(r, x) => x.client # Watched
              /\ ~Blocks(es, Watched) /\ ~valid =>
                     /\ status # 200
                     /\ \A x : x.client = Watched =>
                            (Holds(r, x) <=> x = NewEntry(LookedAt(es, Watched), Watched))
<1>. DEFINE look == LookedAt(es, Watched)
<1>0. MaxEntries \in Nat /\ Len(es) \in Nat  BY ThrottleAssumption DEF Well
<1>1. /\ Well(look)
      /\ Len(look) <= Len(es)
      /\ \A x : Holds(look, x) <=> Holds(es, x) /\ (x.client = Watched => x.age < Window)
      /\ BehindIn(look, {})
    BY LookedAtWell
<1>2. Watched \in Client  BY WatchedAssumption
<1>. HIDE DEF look
<1>3. Len(look) <= MaxEntries
    <2>1. Len(look) \in Nat /\ Len(look) <= Len(es)  BY <1>1 DEF Well
    <2>. QED  BY <2>1, <1>0
<1>6. CASE Blocks(es, Watched)
    <2>1. Attempt(es, Watched, valid) = [entries |-> look, status |-> 429]
        BY <1>6 DEF Attempt, look
    <2>2. \A x : x.client = Watched /\ Holds(es, x) => x.age < Window
        BY <1>6, OneEntry DEF Blocks
    <2>. QED  BY <2>1, <2>2, <1>1, <1>3, <1>6
<1>7. CASE ~Blocks(es, Watched) /\ valid
    <2>. DEFINE r == Others(look, Watched)
    <2>1. Attempt(es, Watched, valid) = [entries |-> r, status |-> 200]
        BY <1>7 DEF Attempt, look, Reset
    <2>2. /\ Well(r)
          /\ Len(r) <= Len(look)
          /\ \A x : Holds(r, x) <=> Holds(look, x) /\ x.client # Watched
          /\ BehindIn(r, {})
        BY <1>1, OthersWell
    <2>. HIDE DEF r
    <2>3. Len(r) <= MaxEntries
        <3>1. Len(r) \in Nat /\ Len(look) \in Nat /\ Len(r) <= Len(look)  BY <1>1, <2>2 DEF Well
        <3>. QED  BY <3>1, <1>3, <1>0
    <2>. QED  BY <2>1, <2>2, <2>3, <1>7
<1>8. CASE ~Blocks(es, Watched) /\ ~valid
    <2>. DEFINE f == Fail(look, Watched)
                r == LookedAt(f, Watched)
                e == NewEntry(look, Watched)
    <2>1. /\ Attempt(es, Watched, valid).entries = r
          /\ Attempt(es, Watched, valid).status # 200
        <3>1. Attempt(es, Watched, valid) =
                  [entries |-> r, status |-> IF Blocks(f, Watched) THEN 429 ELSE 401]
            BY <1>8 DEF Attempt, look
        <3>. QED  BY <3>1
    <2>2. /\ Well(f)
          /\ Len(f) <= MaxEntries
          /\ Holds(f, e)
          /\ \A x : Holds(f, x) => x = e \/ (Holds(look, x) /\ x.client # Watched)
        BY <1>1, <1>2, <1>3, FailWell
    <2>3. e.client = Watched /\ e.age < Window  BY <1>1, <1>2, NewEntryOpen
    <2>. HIDE DEF f, e
    <2>4. /\ Well(r)
          /\ Len(r) <= Len(f)
          /\ \A x : Holds(r, x) <=> Holds(f, x) /\ (x.client = Watched => x.age < Window)
          /\ BehindIn(r, {})
        BY <2>2, LookedAtWell
    <2>. HIDE DEF r
    <2>5. Len(r) <= MaxEntries
        <3>1. Len(r) \in Nat /\ Len(f) \in Nat /\ Len(r) <= Len(f) /\ Len(f) <= MaxEntries
            BY <2>2, <2>4 DEF Well
        <3>. QED  BY <3>1, <1>0
    <2>6. \A x : x.client = Watched => (Holds(r, x) <=> x = e)
        BY <2>2, <2>3, <2>4
    <2>7. e = NewEntry(LookedAt(es, Watched), Watched)  BY DEF e, look
    <2>. QED  BY <2>1, <2>4, <2>5, <2>6, <2>7, <1>8
<1>. QED  BY <1>6, <1>7, <1>8

-------------------------------------------------------------------------------
\* The history of failures

\* The history is finite, and a part of it is no larger than the whole.
LEMMA FailuresFinite ==
    ASSUME NEW T \in SUBSET Failure
    PROVE  /\ IsFiniteSet(T)
           /\ Cardinality(T) \in Nat
           /\ \A S \in SUBSET T : Cardinality(S) <= Cardinality(T)
<1>1. Window \in Nat \ {0} /\ Limit \in Nat \ {0}  BY ThrottleAssumption
<1>2. IsFiniteSet(Age)  BY <1>1, FS_Interval DEF Age
<1>3. IsFiniteSet(1..FailureCap)  BY <1>1, FS_Interval DEF FailureCap
<1>4. IsFiniteSet(Failure)  BY <1>2, <1>3, FS_Product DEF Failure
<1>5. IsFiniteSet(T)  BY <1>4, FS_Subset
<1>. QED  BY <1>5, FS_Subset, FS_CardinalityType

\* A set of failures whose ages move by one keeps its size.
LEMMA Moved ==
    ASSUME NEW S \in SUBSET Failure, NEW T \in SUBSET Failure, NEW d \in {-1, 1},
           \A f \in S : <<f[1] + d, f[2]>> \in T
    PROVE  Cardinality(S) <= Cardinality(T)
<1>. DEFINE m == [f \in S |-> <<f[1] + d, f[2]>>]
<1>1. m \in [S -> T]  OBVIOUS
<1>2. ASSUME NEW f \in S, NEW h \in S, m[f] = m[h]  PROVE f = h
    <2>1. f[1] \in Int /\ h[1] \in Int /\ f = <<f[1], f[2]>> /\ h = <<h[1], h[2]>>
        <3>1. Window \in Nat  BY ThrottleAssumption
        <3>. QED  BY <3>1 DEF Failure, Age
    <2>2. f[1] + d = h[1] + d /\ f[2] = h[2]  BY <1>2
    <2>3. f[1] = h[1]  BY <2>1, <2>2
    <2>. QED  BY <2>1, <2>2, <2>3
<1>3. m \in Injection(S, T)  BY <1>1, <1>2 DEF Injection, IsInjective
<1>4. IsFiniteSet(T)  BY FailuresFinite
<1>. QED  BY <1>3, <1>4, FS_Injection

\* One failure more, or already as many as can be told apart.
LEMMA OneMore ==
    ASSUME NEW fs \in SUBSET Failure
    PROVE  LET w == WithFailure(fs)
           IN /\ w \in SUBSET Failure
              /\ \/ \E n \in Failure : n \notin fs /\ n[1] = 0 /\ w = fs \cup {n}
                 \/ w = fs /\ Cardinality({f \in fs : f[1] = 0}) >= 2 * Limit
<1>. DEFINE free == {f \in Failure : f[1] = 0 /\ f \notin fs}
<1>1. CASE free # {}
    <2>. DEFINE n == CHOOSE f \in free : TRUE
    <2>1. n \in free  BY <1>1
    <2>2. WithFailure(fs) = fs \cup {n}  BY <1>1 DEF WithFailure
    <2>. HIDE DEF n
    <2>. QED  BY <2>1, <2>2
<1>2. CASE free = {}
    <2>1. WithFailure(fs) = fs  BY <1>2 DEF WithFailure
    <2>. DEFINE Z == {f \in fs : f[1] = 0}
                m == [i \in 1..FailureCap |-> <<0, i>>]
    <2>2. \A i \in 1..FailureCap : <<0, i>> \in Z
        <3>. TAKE i \in 1..FailureCap
        <3>1. 0 \in Age  BY ThrottleAssumption DEF Age
        <3>2. <<0, i>> \in Failure  BY <3>1 DEF Failure
        <3>3. <<0, i>>[1] = 0  OBVIOUS
        <3>. QED  BY <3>2, <3>3, <1>2
    <2>3. m \in Injection(1..FailureCap, Z)
        <3>1. m \in [1..FailureCap -> Z]  BY <2>2
        <3>2. ASSUME NEW i \in 1..FailureCap, NEW j \in 1..FailureCap, m[i] = m[j]  PROVE i = j
            BY <3>2
        <3>. QED  BY <3>1, <3>2 DEF Injection, IsInjective
    <2>4. IsFiniteSet(Z) /\ Cardinality(Z) \in Nat  BY FailuresFinite
    <2>. HIDE DEF Z, m
    <2>5. Cardinality(1..FailureCap) <= Cardinality(Z)  BY <2>3, <2>4, FS_Injection
    <2>6. Limit \in Nat \ {0} /\ FailureCap = 2 * Limit  BY ThrottleAssumption DEF FailureCap
    <2>7. Cardinality(1..FailureCap) = FailureCap
        <3>1. FailureCap \in Int /\ FailureCap >= 1  BY <2>6
        <3>. QED  BY <3>1, FS_Interval
    <2>8. Cardinality(Z) >= 2 * Limit  BY <2>4, <2>5, <2>6, <2>7
    <2>. QED  BY <2>1, <2>8 DEF Z
<1>. QED  BY <1>1, <1>2

\* Adding an element to a part of the history.
LEMMA PartGrows ==
    ASSUME NEW S \in SUBSET Failure, NEW n \in Failure, NEW T \in SUBSET (S \cup {n})
    PROVE  /\ Cardinality(T) <= Cardinality(S) + 1
           /\ n \notin S /\ T = S \cup {n} => Cardinality(T) = Cardinality(S) + 1
<1>1. IsFiniteSet(S) /\ Cardinality(S) \in Nat  BY FailuresFinite
<1>2. /\ IsFiniteSet(S \cup {n})
      /\ Cardinality(S \cup {n}) = IF n \in S THEN Cardinality(S) ELSE Cardinality(S) + 1
    BY <1>1, FS_AddElement
<1>3. Cardinality(T) <= Cardinality(S \cup {n}) /\ Cardinality(T) \in Nat
    <2>1. S \cup {n} \in SUBSET Failure /\ T \in SUBSET Failure  OBVIOUS
    <2>. QED  BY <2>1, FailuresFinite
<1>4. Cardinality(T) <= Cardinality(S) + 1  BY <1>1, <1>2, <1>3
<1>5. ASSUME n \notin S, T = S \cup {n}  PROVE Cardinality(T) = Cardinality(S) + 1
    BY <1>2, <1>5
<1>. QED  BY <1>4, <1>5

\* A failure within an open window below the limit.
LEMMA CountedUp ==
    ASSUME NEW fs \in SUBSET Failure, NEW g \in 0..Window, NEW e \in Entry, NEW n \in Entry,
           Counted(e, fs, g), e.count < Limit, n.age = e.age, n.count = e.count + 1
    PROVE  Counted(n, WithFailure(fs), g)
<1>. DEFINE a == e.age
            k == e.count
            w == WithFailure(fs)
<1>0. a \in 0..Window /\ k \in 1..Limit /\ Limit \in Nat \ {0} /\ Window \in Nat
    BY ThrottleAssumption DEF Entry
<1>1. /\ k <= Cardinality({f \in fs : f[1] <= a})
      /\ Cardinality({f \in Since(fs, g) : f[1] <= a}) <= k
      /\ Cardinality({f \in Since(fs, g) : f[1] < a}) <= k - 1
      /\ Cardinality({f \in Since(fs, g) : f[1] > a}) <= Limit - 1
    BY DEF Counted
<1>2. n.age = a /\ n.count = k + 1 /\ k < Limit  OBVIOUS
<1>3. /\ w \in SUBSET Failure
      /\ \/ \E m \in Failure : m \notin fs /\ m[1] = 0 /\ w = fs \cup {m}
         \/ w = fs /\ Cardinality({f \in fs : f[1] = 0}) >= 2 * Limit
    BY OneMore
<1>. HIDE DEF a, k, w
<1>4. /\ Cardinality({f \in fs : f[1] <= a}) \in Nat
      /\ Cardinality({f \in Since(fs, g) : f[1] <= a}) \in Nat
      /\ Cardinality({f \in Since(fs, g) : f[1] < a}) \in Nat
      /\ Cardinality({f \in Since(fs, g) : f[1] > a}) \in Nat
    BY FailuresFinite DEF Since
<1>5. CASE \E m \in Failure : m \notin fs /\ m[1] = 0 /\ w = fs \cup {m}
    <2>1. PICK m \in Failure : m \notin fs /\ m[1] = 0 /\ w = fs \cup {m}  BY <1>5
    <2>2. m[1] <= a /\ ~(m[1] > a)  BY <2>1, <1>0
    <2>. DEFINE A == {f \in fs : f[1] <= a}
                B == {f \in Since(fs, g) : f[1] <= a}
                C == {f \in Since(fs, g) : f[1] < a}
    <2>3. {f \in w : f[1] <= a} = A \cup {m} /\ m \notin A  BY <2>1, <2>2
    <2>4. {f \in Since(w, g) : f[1] <= a} \in SUBSET (B \cup {m})  BY <2>1 DEF Since
    <2>5. {f \in Since(w, g) : f[1] < a} \in SUBSET (C \cup {m})  BY <2>1 DEF Since
    <2>6. {f \in Since(w, g) : f[1] > a} = {f \in Since(fs, g) : f[1] > a}
        BY <2>1, <2>2 DEF Since
    <2>7. A \in SUBSET Failure /\ B \in SUBSET Failure /\ C \in SUBSET Failure  BY DEF Since
    <2>. HIDE DEF A, B, C
    <2>8. Cardinality({f \in w : f[1] <= a}) = Cardinality(A) + 1
        BY <2>3, <2>7, PartGrows
    <2>9. Cardinality({f \in Since(w, g) : f[1] <= a}) <= Cardinality(B) + 1
        BY <2>4, <2>7, PartGrows
    <2>10. Cardinality({f \in Since(w, g) : f[1] < a}) <= Cardinality(C) + 1
        BY <2>5, <2>7, PartGrows
    <2>11. /\ {f \in Since(w, g) : f[1] <= a} \in SUBSET Failure
           /\ {f \in Since(w, g) : f[1] < a} \in SUBSET Failure
        BY <1>3 DEF Since
    <2>12. /\ Cardinality({f \in Since(w, g) : f[1] <= a}) \in Nat
           /\ Cardinality({f \in Since(w, g) : f[1] < a}) \in Nat
        BY <2>11, FailuresFinite
    <2>13. k + 1 <= Cardinality({f \in w : f[1] <= a})
        BY <2>8, <1>0, <1>1, <1>4 DEF A
    <2>14. Cardinality({f \in Since(w, g) : f[1] <= a}) <= k + 1
        BY <2>9, <2>12, <1>0, <1>1, <1>4 DEF B
    <2>15. Cardinality({f \in Since(w, g) : f[1] < a}) <= (k + 1) - 1
        BY <2>10, <2>12, <1>0, <1>1, <1>4 DEF C
    <2>. QED  BY <2>13, <2>14, <2>15, <2>6, <1>1, <1>2 DEF Counted, w
<1>6. CASE w = fs /\ Cardinality({f \in fs : f[1] = 0}) >= 2 * Limit
    <2>. DEFINE Z == {f \in fs : f[1] = 0}
                A == {f \in fs : f[1] <= a}
    <2>1. Z \in SUBSET A /\ A \in SUBSET Failure  BY <1>0
    <2>2. Cardinality(Z) <= Cardinality(A)  BY <2>1, FailuresFinite
    <2>3. Z \in SUBSET Failure  OBVIOUS
    <2>4. Cardinality(Z) \in Nat /\ Cardinality(A) \in Nat  BY <2>1, <2>3, FailuresFinite
    <2>5. Cardinality(Z) >= 2 * Limit  BY <1>6
    <2>. HIDE DEF Z, A
    <2>6. k + 1 <= Cardinality(A)  BY <2>2, <2>4, <2>5, <1>0
    <2>7. Cardinality({f \in Since(fs, g) : f[1] <= a}) <= k + 1  BY <1>0, <1>1, <1>4
    <2>8. Cardinality({f \in Since(fs, g) : f[1] < a}) <= (k + 1) - 1  BY <1>0, <1>1, <1>4
    <2>. QED  BY <2>6, <2>7, <2>8, <1>1, <1>2, <1>6 DEF Counted, w, A
<1>. QED  BY <1>3, <1>5, <1>6

\* The failure that opens a window.
LEMMA CountedFirst ==
    ASSUME NEW fs \in SUBSET Failure, NEW g \in 0..Window, NEW n \in Entry,
           Closed(fs, g), n.age = 0, n.count = 1
    PROVE  Counted(n, WithFailure(fs), g)
<1>. DEFINE w == WithFailure(fs)
<1>0. Limit \in Nat \ {0} /\ Window \in Nat  BY ThrottleAssumption
<1>1. Cardinality(Since(fs, g)) <= Limit - 1 /\ \A f \in Since(fs, g) : f[1] # 0
    BY DEF Closed
<1>2. /\ w \in SUBSET Failure
      /\ \/ \E m \in Failure : m \notin fs /\ m[1] = 0 /\ w = fs \cup {m}
         \/ w = fs /\ Cardinality({f \in fs : f[1] = 0}) >= 2 * Limit
    BY OneMore
<1>. HIDE DEF w
<1>3. \A f \in Failure : f[1] \in Nat  BY <1>0 DEF Failure, Age
<1>. DEFINE A == {f \in w : f[1] <= 0}
            B == {f \in Since(w, g) : f[1] <= 0}
            C == {f \in Since(w, g) : f[1] < 0}
            D == {f \in Since(w, g) : f[1] > 0}
<1>4. /\ A \in SUBSET Failure /\ B \in SUBSET Failure /\ C \in SUBSET Failure
      /\ D \in SUBSET Failure /\ Since(fs, g) \in SUBSET Failure
    BY <1>2 DEF Since
<1>5. IsFiniteSet(A) /\ Cardinality(A) \in Nat /\ Cardinality(B) \in Nat
      /\ Cardinality(D) \in Nat /\ Cardinality(Since(fs, g)) \in Nat
    BY <1>4, FailuresFinite
<1>6. C = {}  BY <1>2, <1>3 DEF Since
<1>7. D \in SUBSET Since(fs, g)  BY <1>2, <1>3 DEF Since
<1>8. Cardinality(D) <= Limit - 1
    <2>1. Cardinality(D) <= Cardinality(Since(fs, g))  BY <1>4, <1>7, FailuresFinite
    <2>. QED  BY <2>1, <1>0, <1>1, <1>5
<1>9. A # {}
    <2>1. CASE \E m \in Failure : m \notin fs /\ m[1] = 0 /\ w = fs \cup {m}
        BY <2>1
    <2>2. CASE w = fs /\ Cardinality({f \in fs : f[1] = 0}) >= 2 * Limit
        <3>1. {f \in fs : f[1] = 0} # {}
            <4>1. ~(0 >= 2 * Limit)  BY <1>0
            <4>. QED  BY <4>1, <2>2, FS_EmptySet
        <3>. QED  BY <3>1, <2>2
    <2>. QED  BY <2>1, <2>2, <1>2
<1>10. 1 <= Cardinality(A)
    <2>1. Cardinality(A) # 0  BY <1>5, <1>9, FS_EmptySet
    <2>. QED  BY <2>1, <1>5
<1>11. Cardinality(B) <= 1
    <2>1. CASE \E m \in Failure : m \notin fs /\ m[1] = 0 /\ w = fs \cup {m}
        <3>1. PICK m \in Failure : m[1] = 0 /\ w = fs \cup {m}  BY <2>1
        <3>2. B \in SUBSET ({} \cup {m})  BY <3>1, <1>1, <1>3 DEF Since
        <3>3. Cardinality(B) <= Cardinality({}) + 1
            <4>1. {} \in SUBSET Failure  OBVIOUS
            <4>. QED  BY <4>1, <3>2, PartGrows
        <3>4. Cardinality({}) = 0  BY FS_EmptySet
        <3>. QED  BY <3>3, <3>4, <1>5
    <2>2. CASE w = fs
        <3>1. B = {}  BY <2>2, <1>1, <1>3 DEF Since
        <3>. QED  BY <3>1, FS_EmptySet
    <2>. QED  BY <2>1, <2>2, <1>2
<1>12. Cardinality(C) <= 1 - 1  BY <1>6, FS_EmptySet
<1>. QED  BY <1>8, <1>10, <1>11, <1>12 DEF Counted, w

\* The history one tick later.
Older(fs) == {f \in Failure : f[1] # 0 /\ <<f[1] - 1, f[2]>> \in fs}

\* A failure of the older history was one, and stays one unless it gets too old.
LEMMA OlderAges ==
    ASSUME NEW fs \in SUBSET Failure, NEW g \in 0..Window
    PROVE  /\ Older(fs) \in SUBSET Failure
           /\ \A f \in Older(fs) : f[1] # 0 /\ f[1] \in 1..(Window - 1)
           /\ \A f \in Older(fs) : <<f[1] + (-1), f[2]>> \in fs
           /\ \A f \in Since(Older(fs), AtMost(g + 1, Window)) :
                  <<f[1] + (-1), f[2]>> \in Since(fs, g)
           /\ \A f \in fs : f[1] + 1 < Window => <<f[1] + 1, f[2]>> \in Older(fs)
<1>0. Window \in Nat \ {0} /\ g \in Nat  BY ThrottleAssumption
<1>1. Older(fs) \in SUBSET Failure  BY DEF Older
<1>2. \A f \in Failure : f[1] \in 0..(Window - 1) /\ f[2] \in 1..FailureCap
    BY DEF Failure, Age
<1>3. \A f \in Older(fs) : f[1] # 0 /\ f[1] \in 1..(Window - 1)
    BY <1>0, <1>1, <1>2 DEF Older
<1>4. \A f \in Older(fs) : <<f[1] + (-1), f[2]>> \in fs
    <2>. TAKE f \in Older(fs)
    <2>1. f[1] - 1 = f[1] + (-1)  BY <1>3
    <2>2. <<f[1] - 1, f[2]>> \in fs  BY DEF Older
    <2>. QED  BY <2>1, <2>2
<1>5. ASSUME NEW f \in Since(Older(fs), AtMost(g + 1, Window))
      PROVE  <<f[1] + (-1), f[2]>> \in Since(fs, g)
    <2>1. f \in Older(fs) /\ f[1] < AtMost(g + 1, Window)  BY DEF Since
    <2>2. f[1] \in 1..(Window - 1)  BY <2>1, <1>3
    <2>3. f[1] + (-1) < g  BY <2>1, <2>2, <1>0 DEF AtMost
    <2>4. <<f[1] + (-1), f[2]>> \in fs  BY <2>1, <1>4
    <2>5. <<f[1] + (-1), f[2]>>[1] = f[1] + (-1)  OBVIOUS
    <2>. QED  BY <2>3, <2>4, <2>5 DEF Since
<1>6. ASSUME NEW f \in fs, f[1] + 1 < Window  PROVE <<f[1] + 1, f[2]>> \in Older(fs)
    <2>1. f[1] \in 0..(Window - 1) /\ f[2] \in 1..FailureCap  BY <1>2
    <2>2. f[1] + 1 \in Age /\ f[1] + 1 # 0 /\ (f[1] + 1) - 1 = f[1]
        BY <2>1, <1>0, <1>6 DEF Age
    <2>3. f = <<f[1], f[2]>>  BY DEF Failure
    <2>4. <<f[1] + 1, f[2]>> \in Failure  BY <2>1, <2>2 DEF Failure
    <2>. QED  BY <2>2, <2>3, <2>4 DEF Older
<1>. QED  BY <1>1, <1>3, <1>4, <1>5, <1>6

\* A window that stays open for another tick.
LEMMA CountedOlder ==
    ASSUME NEW fs \in SUBSET Failure, NEW g \in 0..Window, NEW e \in Entry, NEW n \in Entry,
           Counted(e, fs, g), n.count = e.count, n.age = e.age + 1, n.age < Window
    PROVE  Counted(n, Older(fs), AtMost(g + 1, Window))
<1>. DEFINE a == e.age
            k == e.count
            o == Older(fs)
            h == AtMost(g + 1, Window)
<1>0. a \in 0..Window /\ k \in 1..Limit /\ Limit \in Nat \ {0} /\ Window \in Nat
    BY ThrottleAssumption DEF Entry
<1>1. /\ k <= Cardinality({f \in fs : f[1] <= a})
      /\ Cardinality({f \in Since(fs, g) : f[1] <= a}) <= k
      /\ Cardinality({f \in Since(fs, g) : f[1] < a}) <= k - 1
      /\ Cardinality({f \in Since(fs, g) : f[1] > a}) <= Limit - 1
    BY DEF Counted
<1>2. n.age = a + 1 /\ n.count = k /\ a + 1 < Window  OBVIOUS
<1>3. /\ o \in SUBSET Failure
      /\ \A f \in o : f[1] # 0 /\ f[1] \in 1..(Window - 1)
      /\ \A f \in Since(o, h) : <<f[1] + (-1), f[2]>> \in Since(fs, g)
      /\ \A f \in fs : f[1] + 1 < Window => <<f[1] + 1, f[2]>> \in o
    BY OlderAges
<1>4. \A f \in Failure : f[1] \in 0..(Window - 1)  BY DEF Failure, Age
<1>. HIDE DEF a, k, o, h
<1>. DEFINE A(x) == {f \in x : f[1] <= a}
            A1 == {f \in o : f[1] <= a + 1}
            B == {f \in Since(fs, g) : f[1] <= a}
            B1 == {f \in Since(o, h) : f[1] <= a + 1}
            C == {f \in Since(fs, g) : f[1] < a}
            C1 == {f \in Since(o, h) : f[1] < a + 1}
            D == {f \in Since(fs, g) : f[1] > a}
            D1 == {f \in Since(o, h) : f[1] > a + 1}
<1>5. /\ A(fs) \in SUBSET Failure /\ A1 \in SUBSET Failure
      /\ B \in SUBSET Failure /\ B1 \in SUBSET Failure
      /\ C \in SUBSET Failure /\ C1 \in SUBSET Failure
      /\ D \in SUBSET Failure /\ D1 \in SUBSET Failure
    BY <1>3 DEF Since
<1>6. /\ Cardinality(A(fs)) \in Nat /\ Cardinality(A1) \in Nat
      /\ Cardinality(B) \in Nat /\ Cardinality(B1) \in Nat
      /\ Cardinality(C) \in Nat /\ Cardinality(C1) \in Nat
      /\ Cardinality(D) \in Nat /\ Cardinality(D1) \in Nat
    BY <1>5, FailuresFinite
<1>7. Since(o, h) \in SUBSET o  BY DEF Since
<1>8. \A f \in A(fs) : <<f[1] + 1, f[2]>> \in A1
    <2>. TAKE f \in A(fs)
    <2>1. f \in fs /\ f[1] <= a /\ f[1] \in 0..(Window - 1)  BY <1>4
    <2>2. f[1] + 1 < Window /\ f[1] + 1 <= a + 1  BY <2>1, <1>0, <1>2
    <2>3. <<f[1] + 1, f[2]>> \in o  BY <2>1, <2>2, <1>3
    <2>4. <<f[1] + 1, f[2]>>[1] = f[1] + 1  OBVIOUS
    <2>. QED  BY <2>2, <2>3, <2>4
<1>9. \A f \in Since(o, h) : /\ <<f[1] + (-1), f[2]>> \in Since(fs, g)
                             /\ <<f[1] + (-1), f[2]>>[1] = f[1] + (-1)
                             /\ f[1] \in 1..(Window - 1)
    BY <1>3, <1>7
<1>10. \A f \in B1 : <<f[1] + (-1), f[2]>> \in B
    <2>. TAKE f \in B1
    <2>0. f \in Since(o, h) /\ f[1] <= a + 1  OBVIOUS
    <2>1. f[1] \in 1..(Window - 1)  BY <2>0, <1>9
    <2>2. f[1] + (-1) <= a  BY <2>0, <2>1, <1>0
    <2>. QED  BY <2>0, <2>2, <1>9
<1>11. \A f \in C1 : <<f[1] + (-1), f[2]>> \in C
    <2>. TAKE f \in C1
    <2>0. f \in Since(o, h) /\ f[1] < a + 1  OBVIOUS
    <2>1. f[1] \in 1..(Window - 1)  BY <2>0, <1>9
    <2>2. f[1] + (-1) < a  BY <2>0, <2>1, <1>0
    <2>. QED  BY <2>0, <2>2, <1>9
<1>12. \A f \in D1 : <<f[1] + (-1), f[2]>> \in D
    <2>. TAKE f \in D1
    <2>0. f \in Since(o, h) /\ f[1] > a + 1  OBVIOUS
    <2>1. f[1] \in 1..(Window - 1)  BY <2>0, <1>9
    <2>2. f[1] + (-1) > a  BY <2>0, <2>1, <1>0
    <2>. QED  BY <2>0, <2>2, <1>9
<1>13. Cardinality(A(fs)) <= Cardinality(A1)  BY <1>5, <1>8, Moved
<1>14. Cardinality(B1) <= Cardinality(B)  BY <1>5, <1>10, Moved
<1>15. Cardinality(C1) <= Cardinality(C)  BY <1>5, <1>11, Moved
<1>16. Cardinality(D1) <= Cardinality(D)  BY <1>5, <1>12, Moved
<1>17. k <= Cardinality(A1)
    <2>1. k <= Cardinality(A(fs))  BY <1>1
    <2>. HIDE DEF A, A1
    <2>. QED  BY <2>1, <1>6, <1>13, <1>0
<1>18. Cardinality(B1) <= k
    <2>1. Cardinality(B) <= k  BY <1>1
    <2>. HIDE DEF B, B1
    <2>. QED  BY <2>1, <1>6, <1>14, <1>0
<1>19. Cardinality(C1) <= k - 1
    <2>1. Cardinality(C) <= k - 1  BY <1>1
    <2>. HIDE DEF C, C1
    <2>. QED  BY <2>1, <1>6, <1>15, <1>0
<1>20. Cardinality(D1) <= Limit - 1
    <2>1. Cardinality(D) <= Limit - 1  BY <1>1
    <2>. HIDE DEF D, D1
    <2>. QED  BY <2>1, <1>6, <1>16, <1>0
<1>. QED  BY <1>2, <1>17, <1>18, <1>19, <1>20 DEF Counted, o, h

\* A window that ends, or has ended: at least its first failure leaves the history.
LEMMA ClosedOlder ==
    ASSUME NEW fs \in SUBSET Failure, NEW g \in 0..Window,
           \/ Closed(fs, g)
           \/ \E e \in Entry : Counted(e, fs, g) /\ e.age = Window - 1
    PROVE  Closed(Older(fs), AtMost(g + 1, Window))
<1>. DEFINE o == Older(fs)
            h == AtMost(g + 1, Window)
            S == Since(o, h)
<1>0. Limit \in Nat \ {0} /\ Window \in Nat \ {0}  BY ThrottleAssumption
<1>1. /\ o \in SUBSET Failure
      /\ \A f \in o : f[1] # 0 /\ f[1] \in 1..(Window - 1)
      /\ \A f \in S : <<f[1] + (-1), f[2]>> \in Since(fs, g)
    BY OlderAges
<1>. HIDE DEF o, h
<1>2. S \in SUBSET o /\ S \in SUBSET Failure  BY <1>1 DEF Since
<1>3. Cardinality(S) \in Nat  BY <1>2, FailuresFinite
<1>4. CASE Closed(fs, g)
    <2>1. Since(fs, g) \in SUBSET Failure  BY DEF Since
    <2>2. Cardinality(S) <= Cardinality(Since(fs, g))  BY <2>1, <1>1, <1>2, Moved
    <2>3. Cardinality(Since(fs, g)) \in Nat  BY <2>1, FailuresFinite
    <2>4. Cardinality(Since(fs, g)) <= Limit - 1  BY <1>4 DEF Closed
    <2>. HIDE DEF S
    <2>5. Cardinality(S) <= Limit - 1  BY <2>2, <2>3, <2>4, <1>0, <1>3
    <2>. QED  BY <2>5, <1>1, <1>2 DEF Closed, S, o, h
<1>5. CASE \E e \in Entry : Counted(e, fs, g) /\ e.age = Window - 1
    <2>1. PICK e \in Entry : Counted(e, fs, g) /\ e.age = Window - 1  BY <1>5
    <2>. DEFINE C == {f \in Since(fs, g) : f[1] < Window - 1}
    <2>2. C \in SUBSET Failure  BY DEF Since
    <2>3. \A f \in S : <<f[1] + (-1), f[2]>> \in C
        <3>. TAKE f \in S
        <3>1. f[1] \in 1..(Window - 1)  BY <1>1, <1>2
        <3>2. f[1] + (-1) < Window - 1  BY <3>1, <1>0
        <3>3. <<f[1] + (-1), f[2]>>[1] = f[1] + (-1)  OBVIOUS
        <3>. QED  BY <3>2, <3>3, <1>1
    <2>4. Cardinality(S) <= Cardinality(C)  BY <2>2, <2>3, <1>2, Moved
    <2>5. Cardinality(C) \in Nat  BY <2>2, FailuresFinite
    <2>6. Cardinality(C) <= e.count - 1  BY <2>1 DEF Counted
    <2>7. e.count \in 1..Limit  BY DEF Entry
    <2>. HIDE DEF S, C
    <2>8. Cardinality(S) <= Limit - 1  BY <2>4, <2>5, <2>6, <2>7, <1>0, <1>3
    <2>. QED  BY <2>8, <1>1, <1>2 DEF Closed, S, o, h
<1>. QED  BY <1>4, <1>5

-------------------------------------------------------------------------------
\* The invariant

\* A tick changes nothing but the ages.
LEMMA ElapseWell ==
    ASSUME NEW es, Well(es)
    PROVE  LET r == Elapse(es)
           IN /\ Well(r)
              /\ Len(r) = Len(es)
              /\ \A cs : BehindIn(es, cs) => BehindIn(r, cs)
              /\ \A n : Holds(r, n) => \E e \in Entry :
                     Holds(es, e) /\ n = [e EXCEPT !.age = AtMost(e.age + 1, Window)]
              /\ \A e : Holds(es, e) => Holds(r, [e EXCEPT !.age = AtMost(e.age + 1, Window)])
<1>. DEFINE aged(e) == [e EXCEPT !.age = AtMost(e.age + 1, Window)]
            r == [i \in 1..Len(es) |-> aged(es[i])]
<1>1. es \in Seq(Entry) /\ Len(es) \in Nat /\ DOMAIN es = 1..Len(es)  BY DEF Well
<1>2. Elapse(es) = r  BY <1>1 DEF Elapse
<1>3. \A e \in Entry : aged(e) \in Entry /\ aged(e).client = e.client
    <2>. TAKE e \in Entry
    <2>. DEFINE n == AtMost(e.age + 1, Window)
    <2>1. n \in 0..Window  BY ThrottleAssumption DEF Entry, AtMost
    <2>. HIDE DEF n
    <2>2. [e EXCEPT !.age = n] \in Entry /\ [e EXCEPT !.age = n].client = e.client
        BY <2>1 DEF Entry
    <2>. QED  BY <2>2 DEF n
<1>. HIDE DEF aged
<1>4. \A i \in 1..Len(es) : es[i] \in Entry  BY <1>1
<1>5. r \in Seq(Entry) /\ Len(r) = Len(es) /\ DOMAIN r = 1..Len(es)
    <2>1. r \in [1..Len(es) -> Entry]  BY <1>3, <1>4
    <2>. QED  BY <2>1, <1>1
<1>6. \A i \in DOMAIN es : r[i] = aged(es[i]) /\ r[i].client = es[i].client
    BY <1>1, <1>3, <1>4
<1>. HIDE DEF r
<1>7. Well(r)  BY <1>1, <1>5, <1>6 DEF Well
<1>8. \A cs : BehindIn(es, cs) => BehindIn(r, cs)  BY <1>1, <1>5, <1>6 DEF BehindIn
<1>9. \A n : Holds(r, n) => \E e \in Entry : Holds(es, e) /\ n = aged(e)
    BY <1>1, <1>4, <1>5, <1>6 DEF Holds
<1>10. \A e : Holds(es, e) => Holds(r, aged(e))
    BY <1>1, <1>5, <1>6 DEF Holds
<1>. QED  BY <1>2, <1>5, <1>7, <1>8, <1>9, <1>10 DEF aged

\* At the start nobody has failed.
LEMMA ThrottleInit == Init => IndInv
<1>. SUFFICES ASSUME Init  PROVE IndInv
    OBVIOUS
<1>0. Limit \in Nat \ {0} /\ Window \in Nat \ {0} /\ MaxEntries \in Nat \ {0}
    BY ThrottleAssumption
<1>1. entries = <<>> /\ failures = {} /\ evicted = Window /\ later = Client \ {Watched}
    BY DEF Init
<1>2. entries \in Seq(Entry) /\ Len(entries) = 0 /\ DOMAIN entries = {}
    BY <1>1
<1>3. TypeOK  BY <1>0, <1>1, <1>2 DEF TypeOK
<1>4. Since(failures, evicted) = {}  BY <1>1 DEF Since
<1>5. Closed(failures, evicted)
    <2>1. Cardinality({}) <= Limit - 1  BY <1>0, FS_EmptySet
    <2>. QED  BY <2>1, <1>4 DEF Closed
<1>6. CountInv  BY <1>2, <1>5 DEF CountInv, Holds
<1>7. BehindIn(entries, later)  BY <1>2 DEF BehindIn
<1>. QED  BY <1>3, <1>6, <1>7 DEF IndInv

\* Watched is open when it has an entry whose window is not over.
LEMMA OpenHolds ==
    ASSUME NEW es, Well(es)
    PROVE  Watched \in Open(es) <=>
               \E e \in Entry : Holds(es, e) /\ e.client = Watched /\ e.age < Window
<1>1. \A i \in DOMAIN es : es[i] \in Entry  BY DEF Well
<1>. QED  BY <1>1 DEF Open, Holds

\* A request of Watched.
LEMMA TryWatched ==
    ASSUME IndInv, NEW valid \in BOOLEAN, Try(Watched, valid)
    PROVE  IndInv' /\ UNCHANGED evicted
<1>. DEFINE answer == Attempt(entries, Watched, valid)
            look == LookedAt(entries, Watched)
            n == NewEntry(look, Watched)
<1>0. Limit \in Nat \ {0} /\ Window \in Nat \ {0} /\ MaxEntries \in Nat \ {0}
    BY ThrottleAssumption
<1>1. /\ Well(entries)
      /\ Len(entries) <= MaxEntries
      /\ failures \in SUBSET Failure
      /\ evicted \in 0..Window
    BY DEF IndInv, TypeOK, Well
<1>2. /\ \A e \in Entry : Holds(entries, e) /\ e.client = Watched /\ e.age < Window =>
             Counted(e, failures, evicted)
      /\ (\A e \in Entry : Holds(entries, e) /\ e.client = Watched => e.age = Window) =>
             Closed(failures, evicted)
    BY DEF IndInv, CountInv
<1>3. /\ entries' = answer.entries
      /\ later' = {}
      /\ failures' = IF answer.status = 200 THEN {}
                     ELSE IF ~Blocks(entries, Watched) /\ ~valid THEN WithFailure(failures)
                     ELSE failures
      /\ evicted' = evicted
    BY DEF Try
<1>4. /\ Well(answer.entries)
      /\ Len(answer.entries) <= MaxEntries
      /\ BehindIn(answer.entries, {})
      /\ Blocks(entries, Watched) =>
             /\ answer.status = 429
             /\ \A x : x.client = Watched => (Holds(answer.entries, x) <=> Holds(entries, x))
      /\ ~Blocks(entries, Watched) /\ valid =>
             /\ answer.status = 200
             /\ \A x : Holds(answer.entries, x) => x.client # Watched
      /\ ~Blocks(entries, Watched) /\ ~valid =>
             /\ answer.status # 200
             /\ \A x : x.client = Watched => (Holds(answer.entries, x) <=> x = n)
    BY <1>1, AttemptWatched
<1>5. /\ Well(look)
      /\ \A x : Holds(look, x) <=> Holds(entries, x) /\ (x.client = Watched => x.age < Window)
    BY <1>1, LookedAtWell
<1>. HIDE DEF answer
<1>6. failures' \in SUBSET Failure  BY <1>1, <1>3, OneMore
<1>7. TypeOK'
    <2>1. Well(entries') /\ Len(entries') <= MaxEntries  BY <1>3, <1>4
    <2>. QED  BY <2>1, <1>1, <1>3, <1>6 DEF TypeOK, Well
<1>8. BehindIn(entries, later)'  BY <1>3, <1>4 DEF BehindIn
<1>9. CountInv'
    <2>1. CASE Blocks(entries, Watched)
        <3>1. failures' = failures  BY <2>1, <1>3, <1>4
        <3>2. \A x : x.client = Watched => (Holds(entries', x) <=> Holds(entries, x))
            BY <2>1, <1>3, <1>4
        <3>. QED  BY <3>1, <3>2, <1>2, <1>3 DEF CountInv
    <2>2. CASE ~Blocks(entries, Watched) /\ valid
        <3>1. failures' = {}  BY <2>2, <1>3, <1>4
        <3>2. \A x : Holds(entries', x) => x.client # Watched  BY <2>2, <1>3, <1>4
        <3>3. Since({}, evicted) = {}  BY DEF Since
        <3>4. Closed({}, evicted)
            <4>1. Cardinality({}) <= Limit - 1  BY <1>0, FS_EmptySet
            <4>. QED  BY <4>1, <3>3 DEF Closed
        <3>. QED  BY <3>1, <3>2, <3>4, <1>3 DEF CountInv
    <2>3. CASE ~Blocks(entries, Watched) /\ ~valid
        <3>1. failures' = WithFailure(failures)  BY <2>3, <1>3, <1>4
        <3>2. \A x : x.client = Watched => (Holds(entries', x) <=> x = n)
            BY <2>3, <1>3, <1>4
        <3>3. n \in Entry /\ n.client = Watched /\ n.age < Window
            BY <1>5, WatchedAssumption, NewEntryOpen
        <3>4. Counted(n, WithFailure(failures), evicted)
            <4>1. CASE Known(look, Watched) /\ EntryOf(look, Watched).age < Window
                <5>. DEFINE e == EntryOf(look, Watched)
                <5>1. e \in Entry /\ e.client = Watched /\ Holds(look, e)
                    BY <4>1, <1>5, IndexAt
                <5>2. n = [e EXCEPT !.count = AtMost(e.count + 1, Limit)]  BY <4>1 DEF NewEntry
                <5>. HIDE DEF e
                <5>3. Holds(entries, e) /\ e.age < Window  BY <5>1, <1>5
                <5>4. Known(entries, Watched) /\ EntryOf(entries, Watched) = e
                    BY <5>1, <5>3, <1>1, OneEntry
                <5>5. e.count \in 1..Limit /\ e.count # Limit
                    BY <5>1, <5>3, <5>4, <2>3 DEF Blocks, Entry
                <5>6. e.count < Limit /\ AtMost(e.count + 1, Limit) = e.count + 1
                    BY <5>5, <1>0 DEF AtMost
                <5>7. n.age = e.age /\ n.count = e.count + 1  BY <5>1, <5>2, <5>6 DEF Entry
                <5>8. Counted(e, failures, evicted)  BY <5>1, <5>3, <1>2
                <5>. HIDE DEF n
                <5>. QED  BY <5>1, <5>6, <5>7, <5>8, <3>3, <1>1, CountedUp
            <4>2. CASE ~(Known(look, Watched) /\ EntryOf(look, Watched).age < Window)
                <5>1. n = [client |-> Watched, count |-> 1, age |-> 0]  BY <4>2 DEF NewEntry
                <5>2. \A e \in Entry : Holds(entries, e) /\ e.client = Watched => e.age = Window
                    <6>. SUFFICES ASSUME NEW e \in Entry, Holds(entries, e), e.client = Watched,
                                         e.age # Window
                                  PROVE  FALSE
                        OBVIOUS
                    <6>1. e.age < Window  BY <1>0 DEF Entry
                    <6>2. Holds(look, e)  BY <6>1, <1>5
                    <6>. QED  BY <6>1, <6>2, <4>2, <1>5, OneEntry
                <5>3. Closed(failures, evicted)  BY <5>2, <1>2
                <5>4. n.age = 0 /\ n.count = 1  BY <5>1
                <5>. HIDE DEF n
                <5>. QED  BY <5>3, <5>4, <3>3, <1>1, CountedFirst
            <4>. QED  BY <4>1, <4>2
        <3>. HIDE DEF n
        <3>5. \A e \in Entry : Holds(entries', e) /\ e.client = Watched /\ e.age < Window =>
                  Counted(e, failures', evicted')
            BY <3>1, <3>2, <3>4, <1>3
        <3>6. ~(\A e \in Entry : Holds(entries', e) /\ e.client = Watched => e.age = Window)
            <4>1. Holds(entries', n)  BY <3>2, <3>3
            <4>2. n.age # Window  BY <3>3, <1>0 DEF Entry
            <4>. QED  BY <4>1, <4>2, <3>3
        <3>. QED  BY <3>5, <3>6 DEF CountInv
    <2>. QED  BY <2>1, <2>2, <2>3
<1>. QED  BY <1>3, <1>7, <1>8, <1>9 DEF IndInv

\* A request of another client.
LEMMA TryOther ==
    ASSUME IndInv, NEW c \in Client, c # Watched, NEW valid \in BOOLEAN, Try(c, valid)
    PROVE  IndInv' /\ (evicted # 0 /\ evicted' = 0 => Cardinality(later') >= MaxEntries)
<1>. DEFINE es == Attempt(entries, c, valid).entries
            gone == Watched \in Open(entries) \ Open(es)
<1>0. Limit \in Nat \ {0} /\ Window \in Nat \ {0} /\ MaxEntries \in Nat \ {0}
    BY ThrottleAssumption
<1>1. /\ Well(entries)
      /\ Len(entries) <= MaxEntries
      /\ failures \in SUBSET Failure
      /\ evicted \in 0..Window
      /\ later \subseteq Client \ {Watched}
      /\ BehindIn(entries, later)
    BY DEF IndInv, TypeOK, Well
<1>2. /\ \A e \in Entry : Holds(entries, e) /\ e.client = Watched /\ e.age < Window =>
             Counted(e, failures, evicted)
      /\ (\A e \in Entry : Holds(entries, e) /\ e.client = Watched => e.age = Window) =>
             Closed(failures, evicted)
    BY DEF IndInv, CountInv
<1>3. /\ entries' = es
      /\ later' = later \cup {c}
      /\ evicted' = IF gone THEN 0 ELSE evicted
      /\ failures' = failures
    BY DEF Try
<1>4. IsFiniteSet(later)  BY <1>1, WatchedAssumption, FS_Subset
<1>5. /\ Well(es)
      /\ Len(es) <= MaxEntries
      /\ BehindIn(es, later \cup {c})
      /\ \A x : x.client = Watched /\ Holds(es, x) => Holds(entries, x)
      /\ \A x : x.client = Watched /\ Holds(entries, x) /\ ~Holds(es, x) =>
             Cardinality(later \cup {c}) >= MaxEntries
    BY <1>1, <1>4, AttemptOther
<1>6. Watched \in Open(entries) <=>
          \E e \in Entry : Holds(entries, e) /\ e.client = Watched /\ e.age < Window
    BY <1>1, OpenHolds
<1>7. Watched \in Open(es) <=>
          \E e \in Entry : Holds(es, e) /\ e.client = Watched /\ e.age < Window
    BY <1>5, OpenHolds
<1>. HIDE DEF es
<1>8. TypeOK'
    <2>1. evicted' \in 0..Window  BY <1>0, <1>1, <1>3
    <2>2. later' \subseteq Client \ {Watched}  BY <1>1, <1>3
    <2>. QED  BY <2>1, <2>2, <1>1, <1>3, <1>5 DEF TypeOK, Well
<1>9. BehindIn(entries, later)'  BY <1>3, <1>5 DEF BehindIn
<1>10. CASE gone
    <2>1. evicted' = 0  BY <1>3, <1>10
    <2>2. Since(failures, 0) = {}
        <3>1. \A f \in Failure : ~(f[1] < 0)  BY <1>0 DEF Failure, Age
        <3>. QED  BY <3>1, <1>1 DEF Since
    <2>3. Closed(failures, 0)
        <3>1. Cardinality({}) <= Limit - 1  BY <1>0, FS_EmptySet
        <3>. QED  BY <3>1, <2>2 DEF Closed
    <2>4. CountInv'  BY <2>1, <2>3, <1>3, <1>7, <1>10 DEF CountInv
    <2>5. PICK e \in Entry : Holds(entries, e) /\ e.client = Watched /\ e.age < Window
        BY <1>6, <1>10
    <2>6. ~Holds(es, e)  BY <2>5, <1>7, <1>10
    <2>7. Cardinality(later') >= MaxEntries  BY <2>5, <2>6, <1>3, <1>5
    <2>. QED  BY <2>4, <2>7, <1>8, <1>9 DEF IndInv
<1>11. CASE ~gone
    <2>1. evicted' = evicted  BY <1>3, <1>11
    <2>2. \A e \in Entry : Holds(es, e) /\ e.client = Watched /\ e.age < Window =>
              Counted(e, failures, evicted)
        BY <1>2, <1>5
    <2>3. ASSUME \A e \in Entry : Holds(es, e) /\ e.client = Watched => e.age = Window
          PROVE  Closed(failures, evicted)
        <3>1. \A e \in Entry : e.age < Window => e.age # Window  BY <1>0 DEF Entry
        <3>2. Watched \notin Open(es)  BY <3>1, <2>3, <1>7
        <3>3. Watched \notin Open(entries)  BY <3>2, <1>11
        <3>4. \A e \in Entry : e.age < Window \/ e.age = Window  BY <1>0 DEF Entry
        <3>. QED  BY <3>3, <3>4, <1>2, <1>6
    <2>4. CountInv'  BY <2>1, <2>2, <2>3, <1>3 DEF CountInv
    <2>. QED  BY <2>1, <2>4, <1>8, <1>9 DEF IndInv
<1>. QED  BY <1>10, <1>11

\* Time passes.
LEMMA TickStep ==
    ASSUME IndInv, Tick
    PROVE  IndInv' /\ evicted' # 0
<1>0. Limit \in Nat \ {0} /\ Window \in Nat \ {0} /\ MaxEntries \in Nat \ {0}
    BY ThrottleAssumption
<1>1. /\ Well(entries)
      /\ Len(entries) <= MaxEntries
      /\ failures \in SUBSET Failure
      /\ evicted \in 0..Window
      /\ later \subseteq Client \ {Watched}
      /\ BehindIn(entries, later)
    BY DEF IndInv, TypeOK, Well
<1>2. /\ \A e \in Entry : Holds(entries, e) /\ e.client = Watched /\ e.age < Window =>
             Counted(e, failures, evicted)
      /\ (\A e \in Entry : Holds(entries, e) /\ e.client = Watched => e.age = Window) =>
             Closed(failures, evicted)
    BY DEF IndInv, CountInv
<1>. DEFINE es == Elapse(entries)
            fs == Older(failures)
            g == AtMost(evicted + 1, Window)
            aged(e) == [e EXCEPT !.age = AtMost(e.age + 1, Window)]
<1>3. entries' = es /\ failures' = fs /\ evicted' = g /\ later' = later
    BY DEF Tick, Older
<1>4. /\ Well(es)
      /\ Len(es) = Len(entries)
      /\ BehindIn(es, later)
      /\ \A n : Holds(es, n) => \E e \in Entry : Holds(entries, e) /\ n = aged(e)
      /\ \A e : Holds(entries, e) => Holds(es, aged(e))
    BY <1>1, ElapseWell
<1>5. fs \in SUBSET Failure  BY <1>1, OlderAges
<1>6. g \in 0..Window /\ g # 0  BY <1>0, <1>1 DEF AtMost
<1>7. \A e \in Entry : /\ aged(e) \in Entry
                       /\ aged(e).client = e.client
                       /\ aged(e).count = e.count
                       /\ aged(e).age = AtMost(e.age + 1, Window)
    <2>. TAKE e \in Entry
    <2>. DEFINE a == AtMost(e.age + 1, Window)
    <2>1. a \in 0..Window  BY <1>0 DEF Entry, AtMost
    <2>. HIDE DEF a
    <2>2. /\ [e EXCEPT !.age = a] \in Entry
          /\ [e EXCEPT !.age = a].client = e.client
          /\ [e EXCEPT !.age = a].count = e.count
          /\ [e EXCEPT !.age = a].age = a
        BY <2>1 DEF Entry
    <2>. QED  BY <2>2 DEF a
<1>. HIDE DEF aged, es, fs, g
<1>8. TypeOK'
    <2>1. Len(es) <= MaxEntries  BY <1>1, <1>4
    <2>. QED  BY <2>1, <1>1, <1>3, <1>4, <1>5, <1>6 DEF TypeOK, Well
<1>9. BehindIn(entries, later)'  BY <1>3, <1>4 DEF BehindIn
<1>10. \A e \in Entry : e.age \in 0..Window  BY DEF Entry
<1>11. ASSUME NEW n \in Entry, Holds(es, n), n.client = Watched, n.age < Window
       PROVE  Counted(n, fs, g)
    <2>1. PICK e \in Entry : Holds(entries, e) /\ n = aged(e)  BY <1>4, <1>11
    <2>2. e.client = Watched /\ n.count = e.count /\ n.age = AtMost(e.age + 1, Window)
        BY <2>1, <1>7, <1>11
    <2>3. n.age = e.age + 1 /\ e.age < Window  BY <2>2, <1>0, <1>10, <1>11 DEF AtMost
    <2>4. Counted(e, failures, evicted)  BY <2>1, <2>2, <2>3, <1>2
    <2>. QED  BY <2>2, <2>3, <2>4, <1>1, <1>11, CountedOlder DEF fs, g
<1>12. ASSUME \A n \in Entry : Holds(es, n) /\ n.client = Watched => n.age = Window
       PROVE  Closed(fs, g)
    <2>1. ASSUME NEW e \in Entry, Holds(entries, e), e.client = Watched
          PROVE  e.age = Window \/ e.age = Window - 1
        <3>1. aged(e).age = Window  BY <2>1, <1>4, <1>7, <1>12
        <3>2. AtMost(e.age + 1, Window) = Window  BY <3>1, <1>7
        <3>. QED  BY <3>2, <1>0, <1>10 DEF AtMost
    <2>2. CASE \A e \in Entry : Holds(entries, e) /\ e.client = Watched => e.age = Window
        <3>1. Closed(failures, evicted)  BY <2>2, <1>2
        <3>. QED  BY <3>1, <1>1, ClosedOlder DEF fs, g
    <2>3. CASE ~(\A e \in Entry : Holds(entries, e) /\ e.client = Watched => e.age = Window)
        <3>1. PICK e \in Entry : Holds(entries, e) /\ e.client = Watched /\ e.age # Window
            BY <2>3
        <3>2. e.age = Window - 1  BY <3>1, <2>1
        <3>3. e.age < Window  BY <3>2, <1>0
        <3>4. Counted(e, failures, evicted)  BY <3>1, <3>3, <1>2
        <3>. QED  BY <3>2, <3>4, <1>1, ClosedOlder DEF fs, g
    <2>. QED  BY <2>2, <2>3
<1>13. CountInv'  BY <1>3, <1>11, <1>12 DEF CountInv
<1>. QED  BY <1>3, <1>6, <1>8, <1>9, <1>13 DEF IndInv

\* What the invariant says of blocks and of the failures a client gets.
LEMMA IndInvThrottle == IndInv => ThrottleInv
<1>. SUFFICES ASSUME IndInv  PROVE BlockEarned /\ FailuresBounded
    BY DEF ThrottleInv, IndInv
<1>0. Limit \in Nat \ {0} /\ Window \in Nat \ {0}  BY ThrottleAssumption
<1>1. Well(entries) /\ failures \in SUBSET Failure  BY DEF IndInv, TypeOK, Well
<1>2. /\ \A e \in Entry : Holds(entries, e) /\ e.client = Watched /\ e.age < Window =>
             Counted(e, failures, evicted)
      /\ (\A e \in Entry : Holds(entries, e) /\ e.client = Watched => e.age = Window) =>
             Closed(failures, evicted)
    BY DEF IndInv, CountInv
<1>3. Cardinality(failures) \in Nat  BY <1>1, FailuresFinite
<1>4. BlockEarned
    <2>. SUFFICES ASSUME Blocks(entries, Watched)  PROVE Cardinality(failures) >= Limit
        BY DEF BlockEarned, RecentFailures
    <2>. DEFINE e == EntryOf(entries, Watched)
    <2>1. Known(entries, Watched) /\ e.age < Window /\ e.count = Limit  BY DEF Blocks
    <2>2. e \in Entry /\ e.client = Watched /\ Holds(entries, e)  BY <2>1, <1>1, IndexAt
    <2>. HIDE DEF e
    <2>3. Counted(e, failures, evicted)  BY <2>1, <2>2, <1>2
    <2>. DEFINE A == {f \in failures : f[1] <= e.age}
    <2>4. Limit <= Cardinality(A)  BY <2>1, <2>3 DEF Counted
    <2>5. Cardinality(A) <= Cardinality(failures) /\ Cardinality(A) \in Nat
        BY <1>1, FailuresFinite
    <2>. HIDE DEF A
    <2>. QED  BY <2>4, <2>5, <1>0, <1>3
<1>5. FailuresBounded
    <2>. SUFFICES ASSUME evicted = Window  PROVE Cardinality(failures) <= 2 * Limit - 1
        BY DEF FailuresBounded, RecentFailures
    <2>1. Since(failures, evicted) = failures
        <3>1. \A f \in Failure : f[1] < Window  BY <1>0 DEF Failure, Age
        <3>. QED  BY <3>1, <1>1 DEF Since
    <2>2. CASE \A e \in Entry : Holds(entries, e) /\ e.client = Watched => e.age = Window
        <3>1. Cardinality(failures) <= Limit - 1  BY <2>1, <2>2, <1>2 DEF Closed
        <3>. QED  BY <3>1, <1>0, <1>3
    <2>3. CASE ~(\A e \in Entry : Holds(entries, e) /\ e.client = Watched => e.age = Window)
        <3>1. PICK e \in Entry : Holds(entries, e) /\ e.client = Watched /\ e.age # Window
            BY <2>3
        <3>2. e.age \in 0..Window /\ e.count \in 1..Limit  BY DEF Entry
        <3>3. e.age < Window  BY <3>1, <3>2, <1>0
        <3>4. Counted(e, failures, evicted)  BY <3>1, <3>3, <1>2
        <3>. DEFINE B == {f \in failures : f[1] <= e.age}
                    D == {f \in failures : f[1] > e.age}
        <3>5. Cardinality(B) <= e.count /\ Cardinality(D) <= Limit - 1
            BY <3>4, <2>1 DEF Counted
        <3>6. failures = B \cup D /\ B \cap D = {}
            <4>1. \A f \in Failure : f[1] \in Nat  BY <1>0 DEF Failure, Age
            <4>. QED  BY <4>1, <3>2, <1>1
        <3>7. /\ IsFiniteSet(B) /\ Cardinality(B) \in Nat
              /\ IsFiniteSet(D) /\ Cardinality(D) \in Nat
            BY <1>1, FailuresFinite
        <3>. HIDE DEF B, D
        <3>8. Cardinality(failures) = Cardinality(B) + Cardinality(D)
            <4>1. Cardinality(B \cap D) = 0  BY <3>6, FS_EmptySet
            <4>2. Cardinality(B \cup D) = Cardinality(B) + Cardinality(D) - Cardinality(B \cap D)
                BY <3>7, FS_Union
            <4>. QED  BY <4>1, <4>2, <3>6, <3>7
        <3>. QED  BY <3>2, <3>5, <3>7, <3>8, <1>0
    <2>. QED  BY <2>2, <2>3
<1>. QED  BY <1>4, <1>5

\* Every step keeps the invariant.
LEMMA ThrottleStep ==
    ASSUME IndInv, [Next]_vars
    PROVE  IndInv' /\ (evicted # 0 /\ evicted' = 0 => Cardinality(later') >= MaxEntries)
<1>1. ASSUME NEW c \in Client, NEW valid \in BOOLEAN, Try(c, valid)
      PROVE  IndInv' /\ (evicted # 0 /\ evicted' = 0 => Cardinality(later') >= MaxEntries)
    <2>1. CASE c = Watched  BY <2>1, <1>1, TryWatched
    <2>2. CASE c # Watched  BY <2>2, <1>1, TryOther
    <2>. QED  BY <2>1, <2>2
<1>2. CASE Tick  BY <1>2, TickStep
<1>3. CASE UNCHANGED vars
    <2>1. entries' = entries /\ failures' = failures /\ evicted' = evicted /\ later' = later
        BY <1>3 DEF vars
    <2>. QED  BY <2>1 DEF IndInv, TypeOK, CountInv, BehindIn
<1>. QED  BY <1>1, <1>2, <1>3 DEF Next

-------------------------------------------------------------------------------
\* For any limit, window, max_entries and any clients: the throttle stays within its
\* bound, no client is blocked without Limit failures in the window, and one whose entry
\* is not evicted gets at most 2 * Limit - 1 attempts looked at within a window
\* (security_throttle.py:38-65).
THEOREM ThrottleSound == Spec => []ThrottleInv
<1>1. Init => IndInv  BY ThrottleInit
<1>2. IndInv /\ [Next]_vars => IndInv'  BY ThrottleStep
<1>3. IndInv => ThrottleInv  BY IndInvThrottle
<1>. QED  BY <1>1, <1>2, <1>3, PTL DEF Spec

\* For any of them: an open window is evicted only when max_entries other clients have
\* tried since its client did (security_throttle.py:64-65).
THEOREM LeastRecentEvicted == Spec => EvictsLeastRecent
<1>1. Init => IndInv  BY ThrottleInit
<1>2. IndInv /\ [Next]_vars => IndInv'  BY ThrottleStep
<1>3. IndInv /\ [Next]_vars =>
          [evicted # 0 /\ evicted' = 0 => Cardinality(later') >= MaxEntries]_vars
    BY ThrottleStep
<1>. QED  BY <1>1, <1>2, <1>3, PTL DEF Spec, EvictsLeastRecent
===============================================================================
