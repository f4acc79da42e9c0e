-------------------------- MODULE ModelHealthProofs --------------------------
(***************************************************************************)
(* Proofs about the health columns, the probe budget and the reloads of the  *)
(* registry, for any models, providers, budgets and batches and a queue of  *)
(* any length.  Three inductive invariants: IndInv relates the counters of a *)
(* row to the marks still queued for it; BudgetInv relates what a running    *)
(* batch remembers to the rows, the queue and the requests it has reserved;  *)
(* RegistryInv follows two reloads through the registry they both rebuild.    *)
(***************************************************************************)
EXTENDS ModelHealth, FiniteSetTheorems, SequenceTheorems, TLAPS

-------------------------------------------------------------------------------
\* Sequences of writes

\* What a write carries.
LEMMA WriteFields ==
    ASSUME NEW w \in Write
    PROVE  /\ w.op \in {"failure", "success", "upsert", "active", "deactivate", "probe"}
           /\ w.op \in {"failure", "success", "upsert", "active"} => w.model \in Model
           /\ w.op = "failure" => w.backoff \in 0..MaxBackoff /\ w.until \in Nat \ {0}
           /\ w.op = "active" => w.on \in BOOLEAN
           /\ w.op = "deactivate" => w.models \in SUBSET Model
           /\ w.op = "probe" =>
                 w.by \in Batcher /\ w.provider \in Provider /\ w.day \in Day
BY DEF Write

\* What the handlers put on the queue.
LEMMA WriteTypes ==
    /\ \A m \in Model : /\ [op |-> "success", model |-> m] \in Write
                        /\ [op |-> "upsert", model |-> m] \in Write
    /\ \A m \in Model, b \in 0..MaxBackoff, u \in Nat \ {0} :
          [op |-> "failure", model |-> m, backoff |-> b, until |-> u] \in Write
    /\ \A m \in Model, on \in BOOLEAN : [op |-> "active", model |-> m, on |-> on] \in Write
    /\ \A ms \in SUBSET Model : [op |-> "deactivate", models |-> ms] \in Write
    /\ \A b \in Batcher, p \in Provider, d \in Day :
          [op |-> "probe", by |-> b, provider |-> p, day |-> d] \in Write
BY DEF Write

\* The queue after a handler has put s on it.
LEMMA Extended ==
    ASSUME queue \in Seq(Write), NEW s \in Seq(Write), queue' = queue \o s
    PROVE  /\ queue' \in Seq(Write)
           /\ Len(queue) \in Nat /\ Len(s) \in Nat /\ Len(queue') = Len(queue) + Len(s)
           /\ DOMAIN queue = 1..Len(queue) /\ DOMAIN queue' = 1..(Len(queue) + Len(s))
           /\ DOMAIN queue \subseteq DOMAIN queue'
           /\ \A i \in 1..Len(queue) : queue'[i] = queue[i]
           /\ \A i \in 1..Len(s) : queue'[Len(queue) + i] = s[i]
           /\ \A i \in DOMAIN queue' :
                 i \in DOMAIN queue \/ \E k \in 1..Len(s) : i = Len(queue) + k
<1>1. Len(queue) \in Nat /\ Len(s) \in Nat /\ DOMAIN queue = 1..Len(queue)
  BY LenProperties
<1>2. /\ queue' \in Seq(Write) /\ Len(queue') = Len(queue) + Len(s)
      /\ \A i \in 1..(Len(queue) + Len(s)) :
            queue'[i] = IF i <= Len(queue) THEN queue[i] ELSE s[i - Len(queue)]
  BY ConcatProperties
<1>3. DOMAIN queue' = 1..(Len(queue) + Len(s))
  BY <1>2, LenProperties
<1>4. \A i \in 1..Len(s) : queue'[Len(queue) + i] = s[i]
  BY <1>1, <1>2
<1>5. \A i \in DOMAIN queue' :
         i \in DOMAIN queue \/ \E k \in 1..Len(s) : i = Len(queue) + k
  <2> SUFFICES ASSUME NEW i \in 1..(Len(queue) + Len(s)), i \notin 1..Len(queue)
               PROVE  \E k \in 1..Len(s) : i = Len(queue) + k
    BY <1>1, <1>3
  <2>1. i - Len(queue) \in 1..Len(s) /\ i = Len(queue) + (i - Len(queue))
    BY <1>1
  <2> QED BY <2>1
<1>6. DOMAIN queue \subseteq DOMAIN queue'
  BY <1>1, <1>3
<1> QED BY <1>1, <1>2, <1>3, <1>4, <1>5, <1>6

\* The queue after the writer has taken the first write off it.
LEMMA Popped ==
    ASSUME queue \in Seq(Write), queue # <<>>, queue' = Tail(queue)
    PROVE  /\ Head(queue) = queue[1] /\ Head(queue) \in Write
           /\ queue' \in Seq(Write)
           /\ Len(queue) \in Nat /\ Len(queue) >= 1 /\ Len(queue') = Len(queue) - 1
           /\ DOMAIN queue = 1..Len(queue) /\ DOMAIN queue' = 1..(Len(queue) - 1)
           /\ \A i \in 1..(Len(queue) - 1) : queue'[i] = queue[i + 1]
<1>1. Len(queue) \in Nat /\ Len(queue) >= 1 /\ DOMAIN queue = 1..Len(queue)
  BY LenProperties, EmptySeq
<1>2. /\ Head(queue) \in Write /\ queue' \in Seq(Write) /\ Len(queue') = Len(queue) - 1
      /\ \A i \in 1..Len(queue') : queue'[i] = queue[i + 1]
  BY HeadTailProperties
<1> QED BY <1>1, <1>2, LenProperties

\* Positions on the queue move by one when the writer takes a write off it; how many
\* there are does not change.
LEMMA ShiftCardinality ==
    ASSUME NEW n \in Nat, NEW S \in SUBSET (2..n), NEW T \in SUBSET Nat,
           \A i \in Nat : i \in T <=> i + 1 \in S
    PROVE  IsFiniteSet(S) /\ IsFiniteSet(T) /\ Cardinality(T) = Cardinality(S)
<1> DEFINE f == [i \in S |-> i - 1]
<1>1. IsFiniteSet(S)
  <2>1. IsFiniteSet(2..n)
    BY FS_Interval
  <2> QED BY <2>1, FS_Subset
<1>2. f \in Bijection(S, T)
  <2>1. f \in [S -> T]
    <3> SUFFICES ASSUME NEW i \in S PROVE i - 1 \in T
      OBVIOUS
    <3>1. i - 1 \in Nat /\ (i - 1) + 1 = i
      OBVIOUS
    <3> QED BY <3>1
  <2>2. f \in Injection(S, T)
    <3>1. \A i, j \in S : i - 1 = j - 1 => i = j
      OBVIOUS
    <3>2. \A i, j \in S : f[i] = f[j] => i = j
      BY <3>1
    <3> QED BY <2>1, <3>2 DEF Injection, IsInjective
  <2>3. \A j \in T : \E i \in S : f[i] = j
    <3> TAKE j \in T
    <3>1. j + 1 \in S /\ f[j + 1] = j
      OBVIOUS
    <3> QED BY <3>1
  <2>4. f \in Surjection(S, T)
    BY <2>1, <2>3 DEF Surjection
  <2> QED BY <2>2, <2>4 DEF Bijection
<1> HIDE DEF f
<1>3. ExistsBijection(S, T)
  BY <1>2 DEF ExistsBijection
<1> QED BY <1>1, <1>3, FS_Bijection

\* The orders in which a set is gone through: every member comes up.
LEMMA SetToSeqOnto ==
    ASSUME NEW S, IsFiniteSet(S)
    PROVE  /\ Cardinality(S) \in Nat
           /\ SetToSeq(S) \in [1..Cardinality(S) -> S]
           /\ \A x \in S : \E i \in 1..Cardinality(S) : SetToSeq(S)[i] = x
<1>1. Cardinality(S) \in Nat /\ ExistsBijection(1..Cardinality(S), S)
  BY FS_CardinalityType
<1>2. \E f \in [1..Cardinality(S) -> S] : IsInjective(f)
  BY <1>1 DEF ExistsBijection, Bijection, Injection
<1>3. SetToSeq(S) \in [1..Cardinality(S) -> S] /\ IsInjective(SetToSeq(S))
  BY <1>2 DEF SetToSeq
<1>4. SetToSeq(S) \in Injection(1..Cardinality(S), S)
  BY <1>3 DEF Injection
<1>5. Cardinality(1..Cardinality(S)) = Cardinality(S)
  BY <1>1, FS_Interval
<1>6. SetToSeq(S) \in Surjection(1..Cardinality(S), S)
  BY <1>4, <1>5, FS_Injection
<1> QED BY <1>1, <1>3, <1>6 DEF Surjection

\* The writes of a gating and of a discovery: none is a mark or a probe.
LEMMA DeactivateAllType ==
    ASSUME NEW ps \in SUBSET Provider
    PROVE  /\ DeactivateAll(ps) \in Seq(Write)
           /\ \A i \in 1..Len(DeactivateAll(ps)) : DeactivateAll(ps)[i].op = "deactivate"
           /\ \A p \in ps : \E i \in 1..Len(DeactivateAll(ps)) :
                 DeactivateAll(ps)[i].models = ModelsOf(p)
           /\ ps = {} => DeactivateAll(ps) = <<>>
<1>1. IsFiniteSet(ps)
  BY ModelHealthAssumption, FS_Subset
<1>2. /\ Cardinality(ps) \in Nat /\ SetToSeq(ps) \in [1..Cardinality(ps) -> ps]
      /\ \A p \in ps : \E i \in 1..Cardinality(ps) : SetToSeq(ps)[i] = p
  BY <1>1, SetToSeqOnto
<1>3. \A i \in 1..Cardinality(ps) :
         [op |-> "deactivate", models |-> ModelsOf(SetToSeq(ps)[i])] \in Write
  BY <1>2, WriteTypes DEF ModelsOf
<1>4. DeactivateAll(ps) \in [1..Cardinality(ps) -> Write]
  BY <1>3 DEF DeactivateAll
<1>5. DeactivateAll(ps) \in Seq(Write) /\ Len(DeactivateAll(ps)) = Cardinality(ps)
  <2>1. DeactivateAll(ps) \in Seq(Write)
    BY <1>2, <1>4, SeqDef
  <2> QED BY <1>2, <1>4, <2>1, LenProperties
<1>6. \A i \in 1..Cardinality(ps) :
         /\ DeactivateAll(ps)[i].op = "deactivate"
         /\ DeactivateAll(ps)[i].models = ModelsOf(SetToSeq(ps)[i])
  BY DEF DeactivateAll
<1>7. ps = {} => DeactivateAll(ps) = <<>>
  <2> SUFFICES ASSUME ps = {} PROVE DeactivateAll(ps) = <<>>
    OBVIOUS
  <2>1. Cardinality(ps) = 0
    BY FS_EmptySet
  <2> QED BY <1>5, <2>1
<1>8. \A p \in ps : \E i \in 1..Len(DeactivateAll(ps)) :
         DeactivateAll(ps)[i].models = ModelsOf(p)
  BY <1>2, <1>5, <1>6
<1> QED BY <1>5, <1>6, <1>7, <1>8

\* What discovery enqueues: upserts and nothing else.
LEMMA UpsertsType ==
    ASSUME NEW ms \in SUBSET Model
    PROVE  /\ Upserts(ms) \in Seq(Write)
           /\ \A i \in 1..Len(Upserts(ms)) : Upserts(ms)[i].op = "upsert"
<1>1. IsFiniteSet(ms)
  BY ModelHealthAssumption, FS_Subset
<1>2. Cardinality(ms) \in Nat /\ SetToSeq(ms) \in [1..Cardinality(ms) -> ms]
  BY <1>1, SetToSeqOnto
<1>3. \A i \in 1..Cardinality(ms) : [op |-> "upsert", model |-> SetToSeq(ms)[i]] \in Write
  BY <1>2, WriteTypes
<1>4. Upserts(ms) \in [1..Cardinality(ms) -> Write]
  BY <1>3 DEF Upserts
<1>5. Upserts(ms) \in Seq(Write) /\ Len(Upserts(ms)) = Cardinality(ms)
  <2>1. Upserts(ms) \in Seq(Write)
    BY <1>2, <1>4, SeqDef
  <2> QED BY <1>2, <1>4, <2>1, LenProperties
<1>6. \A i \in 1..Cardinality(ms) : Upserts(ms)[i].op = "upsert"
  BY DEF Upserts
<1> QED BY <1>5, <1>6

-------------------------------------------------------------------------------
\* The marks of a model on the queue

IsMark(w, m) == w.op \in {"failure", "success"} /\ w.model = m

\* The marks of a model that wait in the queue, and how many follow its last reset.
LEMMA MarksFinite ==
    ASSUME queue \in Seq(Write), NEW m \in Model
    PROVE  /\ Marks(m) \in SUBSET (1..Len(queue))
           /\ IsFiniteSet(SinceReset(m)) /\ Cardinality(SinceReset(m)) \in Nat
<1>1. Len(queue) \in Nat /\ DOMAIN queue = 1..Len(queue)
  BY LenProperties
<1>2. IsFiniteSet(1..Len(queue)) /\ SinceReset(m) \in SUBSET (1..Len(queue))
  BY <1>1, FS_Interval DEF SinceReset, Marks
<1>3. IsFiniteSet(SinceReset(m))
  BY <1>2, FS_Subset
<1> QED BY <1>1, <1>3, FS_CardinalityType DEF Marks

\* Writes that are no marks of a model leave its count alone.
LEMMA MarksKept ==
    ASSUME queue \in Seq(Write), NEW s \in Seq(Write), queue' = queue \o s,
           NEW m \in Model, \A i \in 1..Len(s) : ~IsMark(s[i], m)
    PROVE  /\ Marks(m)' = Marks(m) /\ Resets(m)' = Resets(m)
           /\ SinceReset(m)' = SinceReset(m)
<1>1. /\ DOMAIN queue = 1..Len(queue) /\ DOMAIN queue \subseteq DOMAIN queue'
      /\ \A i \in 1..Len(queue) : queue'[i] = queue[i]
      /\ \A i \in 1..Len(s) : queue'[Len(queue) + i] = s[i]
      /\ \A i \in DOMAIN queue' :
            i \in DOMAIN queue \/ \E k \in 1..Len(s) : i = Len(queue) + k
  BY Extended
<1>2. Marks(m)' = Marks(m)
  BY <1>1 DEF Marks, IsMark
<1>3. \A i \in Marks(m) : queue'[i] = queue[i]
  BY <1>1 DEF Marks
<1>4. Resets(m)' = Resets(m)
  BY <1>2, <1>3 DEF Resets
<1> QED BY <1>2, <1>4 DEF SinceReset

\* A failure that is enqueued counts one more.
LEMMA MarksFailure ==
    ASSUME queue \in Seq(Write), NEW s \in Seq(Write), queue' = queue \o s,
           NEW m \in Model, Len(s) >= 1, s[1].op = "failure", s[1].model = m,
           \A i \in 2..Len(s) : ~IsMark(s[i], m)
    PROVE  /\ Resets(m)' = Resets(m)
           /\ Cardinality(SinceReset(m)') = Cardinality(SinceReset(m)) + 1
<1> DEFINE n == Len(queue) + 1
<1>1. /\ Len(queue) \in Nat /\ Len(s) \in Nat
      /\ DOMAIN queue = 1..Len(queue) /\ DOMAIN queue' = 1..(Len(queue) + Len(s))
      /\ \A i \in 1..Len(queue) : queue'[i] = queue[i]
      /\ \A i \in 1..Len(s) : queue'[Len(queue) + i] = s[i]
      /\ \A i \in DOMAIN queue' :
            i \in DOMAIN queue \/ \E k \in 1..Len(s) : i = Len(queue) + k
  BY Extended
<1>2. /\ n \in DOMAIN queue' /\ queue'[n] = s[1] /\ n \notin DOMAIN queue
      /\ DOMAIN queue \subseteq DOMAIN queue'
  BY <1>1
<1>3. \A i \in DOMAIN queue' : i \in DOMAIN queue \/ i = n \/ ~IsMark(queue'[i], m)
  <2> SUFFICES ASSUME NEW k \in 1..Len(s), k # 1 PROVE ~IsMark(queue'[Len(queue) + k], m)
    BY <1>1
  <2> QED BY <1>1
<1>4. Marks(m)' = Marks(m) \cup {n}
  BY <1>1, <1>2, <1>3 DEF Marks, IsMark
<1>5. \A i \in Marks(m) : queue'[i] = queue[i]
  BY <1>1 DEF Marks
<1>6. Resets(m)' = Resets(m)
  BY <1>2, <1>4, <1>5 DEF Resets
<1>7. \A j \in Resets(m) : j < n
  BY <1>1 DEF Resets, Marks
<1>8. SinceReset(m)' = SinceReset(m) \cup {n} /\ n \notin SinceReset(m)
  BY <1>2, <1>4, <1>6, <1>7 DEF SinceReset, Marks
<1> HIDE DEF n
<1> QED BY <1>6, <1>8, MarksFinite, FS_AddElement

\* A success that is enqueued starts the count anew.
LEMMA MarksSuccess ==
    ASSUME queue \in Seq(Write), NEW s \in Seq(Write), queue' = queue \o s,
           NEW m \in Model, Len(s) >= 1, s[1].op = "success", s[1].model = m,
           \A i \in 2..Len(s) : ~IsMark(s[i], m)
    PROVE  Resets(m)' # {} /\ Cardinality(SinceReset(m)') = 0
<1> DEFINE n == Len(queue) + 1
<1>1. /\ Len(queue) \in Nat /\ Len(s) \in Nat
      /\ DOMAIN queue = 1..Len(queue) /\ DOMAIN queue' = 1..(Len(queue) + Len(s))
      /\ \A i \in 1..Len(s) : queue'[Len(queue) + i] = s[i]
      /\ \A i \in DOMAIN queue' :
            i \in DOMAIN queue \/ \E k \in 1..Len(s) : i = Len(queue) + k
  BY Extended
<1>2. n \in DOMAIN queue' /\ queue'[n] = s[1]
  BY <1>1
<1>3. \A i \in DOMAIN queue' : i \in DOMAIN queue \/ i = n \/ ~IsMark(queue'[i], m)
  <2> SUFFICES ASSUME NEW k \in 1..Len(s), k # 1 PROVE ~IsMark(queue'[Len(queue) + k], m)
    BY <1>1
  <2> QED BY <1>1
<1>4. n \in Resets(m)'
  BY <1>2 DEF Resets, Marks
<1>5. \A i \in Marks(m)' : ~(n < i)
  BY <1>1, <1>3 DEF Marks, IsMark
<1>6. SinceReset(m)' = {}
  BY <1>4, <1>5 DEF SinceReset
<1> QED BY <1>4, <1>6, FS_EmptySet

\* What the writer takes from the queue is counted no longer, unless a reset behind it
\* had already seen to that.
LEMMA MarksPopped ==
    ASSUME queue \in Seq(Write), queue # <<>>, queue' = Tail(queue), NEW m \in Model
    PROVE  /\ Resets(m)' = {} <=> Resets(m) \subseteq {1}
           /\ 1 \in Resets(m) <=> IsMark(Head(queue), m) /\ Head(queue).op = "success"
           /\ Cardinality(SinceReset(m)') =
                 IF IsMark(Head(queue), m) /\ Resets(m) = {}
                 THEN Cardinality(SinceReset(m)) - 1 ELSE Cardinality(SinceReset(m))
           /\ Marks(m) = {} => Marks(m)' = {} /\ ~IsMark(Head(queue), m)
<1>1. /\ Head(queue) = queue[1] /\ Len(queue) \in Nat /\ Len(queue) >= 1
      /\ DOMAIN queue = 1..Len(queue) /\ DOMAIN queue' = 1..(Len(queue) - 1)
      /\ \A i \in 1..(Len(queue) - 1) : queue'[i] = queue[i + 1]
  BY Popped
<1>2. \A i \in Nat : i \in Marks(m)' <=> i >= 1 /\ i + 1 \in Marks(m)
  BY <1>1 DEF Marks
<1>3. \A i \in Nat : i \in Resets(m)' <=> i >= 1 /\ i + 1 \in Resets(m)
  <2>1. \A i \in Nat : i >= 1 /\ i + 1 \in Marks(m) => queue'[i] = queue[i + 1]
    BY <1>1 DEF Marks
  <2> QED BY <1>2, <2>1 DEF Resets
<1>4. /\ Marks(m) \in SUBSET (1..Len(queue)) /\ Resets(m) \in SUBSET (1..Len(queue))
      /\ Marks(m)' \in SUBSET Nat /\ Resets(m)' \in SUBSET Nat
  BY <1>1 DEF Marks, Resets
<1>5. Resets(m)' = {} <=> Resets(m) \subseteq {1}
  <2>1. ASSUME Resets(m)' = {}, NEW k \in Resets(m) PROVE k = 1
    <3>1. k \in Nat /\ k >= 1 /\ k - 1 \in Nat
      BY <1>1, <1>4
    <3>2. k - 1 >= 1 => k - 1 \in Resets(m)'
      BY <1>3, <3>1
    <3> QED BY <2>1, <3>1, <3>2
  <2>2. ASSUME Resets(m) \subseteq {1}, NEW k \in Resets(m)' PROVE FALSE
    <3>1. k \in Nat /\ k >= 1 /\ k + 1 \in Resets(m)
      BY <1>3, <1>4, <2>2
    <3> QED BY <2>2, <3>1
  <2> QED BY <2>1, <2>2
<1>6. 1 \in Resets(m) <=> IsMark(Head(queue), m) /\ Head(queue).op = "success"
  BY <1>1 DEF Resets, Marks, IsMark
<1> DEFINE S == SinceReset(m) \ {1}
           T == SinceReset(m)'
<1>7. \A i \in Nat : i \in T <=> i + 1 \in S
  <2> TAKE i \in Nat
  <2>1. ASSUME i \in T PROVE i + 1 \in S
    <3>1. i >= 1 /\ i + 1 \in Marks(m) /\ \A j \in Resets(m)' : j < i
      BY <1>2, <2>1 DEF SinceReset
    <3>2. ASSUME NEW k \in Resets(m) PROVE k < i + 1
      <4>1. k \in Nat /\ k >= 1 /\ k - 1 \in Nat /\ (k - 1) + 1 = k
        BY <1>1, <1>4
      <4>2. k - 1 >= 1 => k - 1 \in Resets(m)'
        BY <1>3, <4>1
      <4> QED BY <3>1, <4>1, <4>2
    <3> QED BY <3>1, <3>2 DEF SinceReset
  <2>2. ASSUME i + 1 \in S PROVE i \in T
    <3>1. i >= 1 /\ i + 1 \in Marks(m) /\ \A k \in Resets(m) : k < i + 1
      BY <2>2 DEF SinceReset
    <3>2. ASSUME NEW j \in Resets(m)' PROVE j < i
      <4>1. j \in Nat /\ j + 1 \in Resets(m)
        BY <1>3, <1>4
      <4> QED BY <3>1, <4>1
    <3> QED BY <1>2, <3>1, <3>2 DEF SinceReset
  <2> QED BY <2>1, <2>2
<1>8. S \in SUBSET (2..Len(queue)) /\ T \in SUBSET Nat
  BY <1>1, <1>4 DEF SinceReset
<1>9. 1 \in SinceReset(m) <=> IsMark(Head(queue), m) /\ Resets(m) = {}
  <2>1. \A j \in Resets(m) : ~(j < 1)
    BY <1>1, <1>4
  <2> QED BY <1>1, <2>1 DEF SinceReset, Marks, IsMark
<1>10. Cardinality(S) = IF 1 \in SinceReset(m) THEN Cardinality(SinceReset(m)) - 1
                        ELSE Cardinality(SinceReset(m))
  BY MarksFinite, FS_RemoveElement
<1> HIDE DEF S, T
<1>11. Cardinality(T) = Cardinality(S)
  BY <1>1, <1>7, <1>8, ShiftCardinality
<1>12. Marks(m) = {} => Marks(m)' = {} /\ ~IsMark(Head(queue), m)
  <2>1. Marks(m)' \subseteq Nat
    BY <1>4
  <2> QED BY <1>1, <1>2, <2>1 DEF Marks, IsMark
<1> QED BY <1>5, <1>6, <1>9, <1>10, <1>11, <1>12 DEF T

-------------------------------------------------------------------------------
\* Types, permits

Usage == UNION {[P -> Nat] : P \in SUBSET Provider}

BatchRecord == [state : {"idle", "running"}, day : Day, usage : Usage,
                free : 0..Concurrency]

Row == [known : BOOLEAN, active : BOOLEAN, healthy : BOOLEAN, failures : Nat,
        backoff : 0..MaxBackoff, cooldown : Nat]

TypeInv ==
    /\ TypeOK
    /\ batch \in [Batcher -> BatchRecord]
    /\ streak \in [Model -> Nat]

Live == {"new", "reserved", "sent"}
Sent(b) == {m \in Model : probe[b][m] = "sent"}

\* Every permit is free or held by a probe on its way; only a batch that runs has
\* probes that are not over.
PermitInv ==
    /\ \A b \in Batcher : batch[b].free + Cardinality(Sent(b)) = Concurrency
    /\ \A b \in Batcher, m \in Model : probe[b][m] \in Live => batch[b].state = "running"

\* The day the clock shows.
LEMMA TodayType ==
    ASSUME now \in 0..MaxTime
    PROVE  Today \in Day /\ Today \in Nat
BY ModelHealthAssumption DEF Today, Day

\* A batch sends finitely many probes.
LEMMA SentFinite ==
    ASSUME NEW b \in Batcher
    PROVE  IsFiniteSet(Sent(b)) /\ Cardinality(Sent(b)) \in Nat
<1>1. IsFiniteSet(Sent(b))
  BY ModelHealthAssumption, FS_Subset DEF Sent
<1> QED BY <1>1, FS_CardinalityType

\* What budget_usage holds for a provider, before and after the batch looks at it.
LEMMA UsageType ==
    ASSUME TypeInv, NEW b \in Batcher, NEW p \in Provider
    PROVE  UsageSeen(b, p) \in Nat
<1>1. batch[b].usage \in Usage /\ batch[b].day \in Day
  BY DEF TypeInv, BatchRecord
<1>2. PICK P \in SUBSET Provider : batch[b].usage \in [P -> Nat]
  BY <1>1 DEF Usage
<1>3. ProbeUsage(p, batch[b].day) \in Nat
  <2>1. \A c \in Batcher : probeRows[c][p][batch[b].day] \in Nat
    BY <1>1 DEF TypeInv, TypeOK
  <2> QED BY <2>1 DEF ProbeUsage, Batcher
<1> QED BY <1>1, <1>2, <1>3 DEF UsageSeen

\* A batch's own count of a provider's probes changes, and nothing else of it.
LEMMA RememberType ==
    ASSUME TypeInv, NEW b \in Batcher, NEW p \in Provider, NEW n \in Nat,
           batch' = Remember(b, p, n)
    PROVE  /\ batch' \in [Batcher -> BatchRecord]
           /\ \A c \in Batcher : /\ batch'[c].state = batch[c].state
                                 /\ batch'[c].day = batch[c].day
                                 /\ batch'[c].free = batch[c].free
                                 /\ c # b => batch'[c].usage = batch[c].usage
           /\ DOMAIN batch'[b].usage = DOMAIN batch[b].usage \union {p}
           /\ batch'[b].usage[p] = n
           /\ \A q \in DOMAIN batch[b].usage : q # p => batch'[b].usage[q] = batch[b].usage[q]
<1> DEFINE u == batch[b].usage
           v == [q \in DOMAIN u \union {p} |-> IF q = p THEN n ELSE u[q]]
<1>1. batch \in [Batcher -> BatchRecord] /\ batch[b] \in BatchRecord
  BY DEF TypeInv
<1>2. u \in Usage /\ batch[b].day \in Day
  BY <1>1 DEF BatchRecord
<1>3. PICK P \in SUBSET Provider : u \in [P -> Nat]
  BY <1>2 DEF Usage
<1>4. v \in [P \union {p} -> Nat]
  BY <1>3
<1>5. v \in Usage
  BY <1>4 DEF Usage
<1>7. batch' = [batch EXCEPT ![b].usage = v]
  BY DEF Remember
<1>8. DOMAIN v = DOMAIN u \union {p} /\ v[p] = n /\ \A q \in DOMAIN u : q # p => v[q] = u[q]
  OBVIOUS
<1> HIDE DEF u, v
<1>9. /\ batch' \in [Batcher -> BatchRecord]
      /\ batch'[b].usage = v
      /\ \A c \in Batcher : /\ batch'[c].state = batch[c].state
                            /\ batch'[c].day = batch[c].day
                            /\ batch'[c].free = batch[c].free
                            /\ c # b => batch'[c].usage = batch[c].usage
  BY <1>1, <1>5, <1>7 DEF BatchRecord
<1> QED BY <1>8, <1>9 DEF u

\* A batch that begins, and none.
LEMMA BatchTypes ==
    /\ NoBatch \in BatchRecord /\ NoBatch.state = "idle"
    /\ NoBatch.free = Concurrency /\ NoBatch.usage = [p \in {} |-> 0]
    /\ \A d \in Day : /\ NewBatch(d) \in BatchRecord /\ NewBatch(d).state = "running"
                      /\ NewBatch(d).day = d /\ NewBatch(d).free = Concurrency
                      /\ NewBatch(d).usage = [p \in {} |-> 0]
<1>1. [q \in {} |-> 0] \in Usage
  <2>1. [q \in {} |-> 0] \in [{} -> Nat]
    OBVIOUS
  <2> QED BY <2>1 DEF Usage
<1>2. Concurrency \in 0..Concurrency /\ 0 \in Day
  BY ModelHealthAssumption, TodayType DEF Day
<1> DEFINE u == [q \in {} |-> 0]
<1> HIDE DEF u
<1>3. \A d : NewBatch(d) = [state |-> "running", day |-> d, usage |-> u, free |-> Concurrency]
  BY DEF NewBatch, u
<1>4. NoBatch = [NewBatch(0) EXCEPT !.state = "idle"]
  BY DEF NoBatch
<1> QED BY <1>1, <1>2, <1>3, <1>4 DEF BatchRecord, u

\* What else happens to the record of a batch.
LEMMA BatchSet ==
    ASSUME TypeInv, NEW b \in Batcher
    PROVE  /\ \A d \in Day : [batch EXCEPT ![b] = NewBatch(d)] \in [Batcher -> BatchRecord]
           /\ [batch EXCEPT ![b] = NoBatch] \in [Batcher -> BatchRecord]
           /\ \A f \in 0..Concurrency :
                 [batch EXCEPT ![b].free = f] \in [Batcher -> BatchRecord]
<1>1. batch \in [Batcher -> BatchRecord]
  BY DEF TypeInv
<1>2. \A f \in 0..Concurrency : [batch EXCEPT ![b].free = f] \in [Batcher -> BatchRecord]
  BY <1>1 DEF BatchRecord
<1> QED BY <1>1, <1>2, BatchTypes

ReloadRecord == [conf : Config, todo : SUBSET Provider]

\* A reload has somebody to visit.
LEMMA ReloadSet ==
    ASSUME reload \in [Who -> ReloadRecord], NEW who \in Who, NEW ps \in SUBSET Provider,
           reload' = [reload EXCEPT ![who].todo = ps]
    PROVE  /\ reload' \in [Who -> ReloadRecord]
           /\ reload'[who].todo = ps /\ reload'[who].conf = reload[who].conf
           /\ \A w \in Who : w # who => reload'[w] = reload[w]
<1>1. reload[who] \in ReloadRecord
  OBVIOUS
<1> DEFINE r == [reload[who] EXCEPT !.todo = ps]
<1>2. r \in ReloadRecord /\ r.todo = ps /\ r.conf = reload[who].conf
  BY <1>1 DEF ReloadRecord
<1>3. reload' = [reload EXCEPT ![who] = r]
  OBVIOUS
<1> HIDE DEF r
<1> QED BY <1>2, <1>3

\* A reload changes the registry: the other one forgets what is no longer in it.
LEMMA ReloadForgotten ==
    ASSUME reload \in [Who -> ReloadRecord], NEW who \in Who,
           NEW ps \in SUBSET Provider, NEW qs \in SUBSET Provider,
           reload' = [Forgotten(who, qs) EXCEPT ![who].todo = ps]
    PROVE  /\ reload' \in [Who -> ReloadRecord]
           /\ reload'[who].todo = ps /\ reload'[who].conf = reload[who].conf
           /\ \A w \in Who : w # who =>
                 /\ reload'[w].conf = reload[w].conf
                 /\ reload'[w].todo = IF gater[w] = "sync" THEN reload[w].todo \ qs
                                      ELSE reload[w].todo
<1> DEFINE F == Forgotten(who, qs)
           r == [reload[who] EXCEPT !.todo = ps]
           g(w) == [reload[w] EXCEPT !.todo = reload[w].todo \ qs]
<1>1. \A w \in Who : reload[w] \in ReloadRecord
  OBVIOUS
<1>2. r \in ReloadRecord /\ r.todo = ps /\ r.conf = reload[who].conf
  BY <1>1 DEF ReloadRecord
<1>3. ASSUME NEW w \in Who
      PROVE  /\ g(w) \in ReloadRecord /\ g(w).todo = reload[w].todo \ qs
             /\ g(w).conf = reload[w].conf
  <2>1. reload[w] \in ReloadRecord /\ reload[w].todo \ qs \in SUBSET Provider
    BY <1>1 DEF ReloadRecord
  <2> QED BY <2>1 DEF ReloadRecord
<1>4. F = [w \in Who |-> IF w # who /\ gater[w] = "sync" THEN g(w) ELSE reload[w]]
  BY DEF Forgotten, At
<1> HIDE DEF g
<1>5. F \in [Who -> ReloadRecord]
  BY <1>1, <1>3, <1>4
<1>6. F[who] = reload[who]
  BY <1>4
<1>7. \A w \in Who : w # who => F[w] = IF gater[w] = "sync" THEN g(w) ELSE reload[w]
  BY <1>4
<1>8. reload' = [F EXCEPT ![who] = r]
  BY <1>6
<1> HIDE DEF F, r
<1> QED BY <1>2, <1>3, <1>5, <1>7, <1>8

\* What the writer does to the rows of the models table.
LEMMA Applied ==
    ASSUME TypeInv, WriterApply
    PROVE  /\ models' \in [Model -> Row]
           /\ \A m \in Model :
                 /\ models'[m].known =
                       (models[m].known \/ (Head(queue).op = "upsert" /\ Head(queue).model = m))
                 /\ models[m].known =>
                       /\ models'[m].failures =
                             IF ~IsMark(Head(queue), m) THEN models[m].failures
                             ELSE IF Head(queue).op = "success" THEN 0
                             ELSE models[m].failures + 1
                       /\ (models'[m].cooldown = NULL) =
                             IF ~IsMark(Head(queue), m) THEN models[m].cooldown = NULL
                             ELSE Head(queue).op = "success"
                       /\ models'[m].healthy =
                             IF Head(queue).op = "upsert" /\ Head(queue).model = m THEN TRUE
                             ELSE IF ~IsMark(Head(queue), m) THEN models[m].healthy
                             ELSE IF Head(queue).op = "success" THEN TRUE
                             ELSE models[m].healthy /\ models[m].failures + 1 < Threshold
                 /\ ~models[m].known =>
                       /\ models'[m].known => models'[m] = NewRow
                       /\ ~models'[m].known /\ ~models[m].active => ~models'[m].active
                 /\ models'[m].active /\ ~models[m].active =>
                       Head(queue).op \in {"active", "upsert"}
<1> DEFINE w == Head(queue)
           k == w.model
<1>1. w \in Write
  BY Popped DEF WriterApply, TypeInv, TypeOK
<1>2. models \in [Model -> Row]
  BY DEF TypeInv, TypeOK, Row
<1>3. NULL = 0 /\ MaxBackoff \in Nat /\ 0 \in 0..MaxBackoff /\ Threshold \in Nat
  BY ModelHealthAssumption DEF NULL
<1>4. CASE w.op = "failure"
  <2>1. k \in Model /\ w.backoff \in 0..MaxBackoff /\ w.until \in Nat \ {0}
    BY <1>1, <1>4, WriteFields
  <2> DEFINE r == ApplyFailure(models[k], w)
  <2>2. /\ r \in Row /\ r.known = models[k].known /\ r.active = models[k].active
        /\ r.failures = models[k].failures + 1 /\ r.cooldown # 0
        /\ r.healthy = (models[k].healthy /\ models[k].failures + 1 < Threshold)
    <3>1. models[k] \in Row
      BY <1>2, <2>1
    <3> HIDE DEF w, k
    <3> DEFINE row == models[k]
               f == row.failures + 1
               h == row.healthy /\ f < Threshold
    <3>2. f \in Nat /\ h \in BOOLEAN
      BY <1>3, <3>1 DEF Row
    <3>3. r = [row EXCEPT !.failures = f, !.backoff = w.backoff, !.cooldown = w.until,
                          !.healthy = h]
      BY DEF ApplyFailure
    <3> HIDE DEF f, h, r
    <3>4. r \in Row
      BY <2>1, <3>1, <3>2, <3>3 DEF Row
    <3>5. /\ r.known = models[k].known /\ r.active = models[k].active
          /\ r.failures = f /\ r.cooldown # 0 /\ r.healthy = h
      BY <2>1, <3>1, <3>3 DEF Row
    <3> QED BY <3>4, <3>5 DEF f, h
  <2>3. models' = [models EXCEPT ![k] = IF models[k].known THEN r ELSE models[k]]
    BY <1>4 DEF WriterApply, Update
  <2> HIDE DEF r, w
  <2> QED BY <1>2, <1>3, <1>4, <2>1, <2>2, <2>3 DEF IsMark, Row, w
<1>5. CASE w.op = "success"
  <2>1. k \in Model
    BY <1>1, <1>5, WriteFields
  <2> DEFINE r == ApplySuccess(models[k])
  <2>2. /\ r \in Row /\ r.known = models[k].known /\ r.active = models[k].active
        /\ r.failures = 0 /\ r.cooldown = 0 /\ r.healthy = TRUE
    <3>1. models[k] \in Row
      BY <1>2, <2>1
    <3> HIDE DEF w, k
    <3>2. r \in Row
      BY <1>3, <3>1 DEF ApplySuccess, Row
    <3> QED BY <1>3, <3>1, <3>2 DEF ApplySuccess, Row
  <2>3. models' = [models EXCEPT ![k] = IF models[k].known THEN r ELSE models[k]]
    BY <1>5 DEF WriterApply, Update
  <2> HIDE DEF r, w
  <2> QED BY <1>2, <1>3, <1>5, <2>1, <2>2, <2>3 DEF IsMark, Row, w
<1>6. CASE w.op = "active"
  <2>1. k \in Model /\ w.on \in BOOLEAN
    BY <1>1, <1>6, WriteFields
  <2> DEFINE r == [models[k] EXCEPT !.active = w.on]
  <2>2. /\ r \in Row /\ r.known = models[k].known /\ r.healthy = models[k].healthy
        /\ r.failures = models[k].failures /\ r.cooldown = models[k].cooldown
    BY <1>2, <1>3, <2>1 DEF Row
  <2>3. models' = [models EXCEPT ![k] = IF models[k].known THEN r ELSE models[k]]
    BY <1>6 DEF WriterApply, Update
  <2> HIDE DEF r, w
  <2> QED BY <1>2, <1>3, <1>6, <2>1, <2>2, <2>3 DEF IsMark, Row, w
<1>7. CASE w.op = "upsert"
  <2>1. k \in Model
    BY <1>1, <1>7, WriteFields
  <2> DEFINE r == ApplyUpsert(models[k])
  <2>2. /\ r \in Row /\ r.known = TRUE /\ r.healthy = TRUE
        /\ models[k].known =>
              r.failures = models[k].failures /\ r.cooldown = models[k].cooldown
        /\ ~models[k].known => r = NewRow
    <3>1. models[k] \in Row
      BY <1>2, <2>1
    <3> HIDE DEF w, k
    <3>2. r \in Row
      BY <1>3, <3>1 DEF ApplyUpsert, NewRow, Row
    <3> QED BY <1>3, <3>1, <3>2 DEF ApplyUpsert, NewRow, Row
  <2>3. models' = [models EXCEPT ![k] = r]
    BY <1>7 DEF WriterApply
  <2> HIDE DEF r, w
  <2> QED BY <1>2, <1>3, <1>7, <2>1, <2>2, <2>3 DEF IsMark, Row, w
<1>8. CASE w.op = "deactivate"
  <2>1. models' = Deactivate(w.models)
    BY <1>8 DEF WriterApply
  <2>2. models' \in [Model -> Row]
    BY <1>2, <2>1 DEF Deactivate, Row
  <2>3. \A m \in Model : /\ models'[m].known = models[m].known
                         /\ models'[m].failures = models[m].failures
                         /\ models'[m].cooldown = models[m].cooldown
                         /\ models'[m].healthy = models[m].healthy
                         /\ models'[m].active => models[m].active
    BY <1>2, <2>1 DEF Deactivate, Row
  <2> HIDE DEF w
  <2> QED BY <1>2, <1>3, <1>8, <2>2, <2>3 DEF IsMark, Row, w
<1>9. CASE w.op = "probe"
  <2>1. models' = models
    BY <1>9 DEF WriterApply
  <2> HIDE DEF w
  <2> QED BY <1>2, <1>3, <1>9, <2>1 DEF IsMark, Row, w
<1> QED BY <1>1, <1>4, <1>5, <1>6, <1>7, <1>8, <1>9, WriteFields

\* The writes of mark_failure() and mark_success(), alone or before the row of a probe.
LEMMA MarkWrites ==
    ASSUME TypeInv, NEW m \in Model
    PROVE  /\ FailureWrites(m) \in Seq(Write)
           /\ SuccessWrites(m) \in Seq(Write)
           /\ Len(SuccessWrites(m)) = 1
           /\ SuccessWrites(m)[1].op = "success" /\ SuccessWrites(m)[1].model = m
           /\ ~models[m].known => FailureWrites(m) = <<>>
           /\ models[m].known =>
                 /\ Len(FailureWrites(m)) = 1
                 /\ FailureWrites(m)[1].op = "failure" /\ FailureWrites(m)[1].model = m
<1> DEFINE level == NextBackoff(models[m])
           until == now + Cooldown * 2 ^ level
           row == [op |-> "failure", model |-> m, backoff |-> level, until |-> until]
<1>1. now \in Nat /\ MaxBackoff \in Nat /\ models[m].backoff \in 0..MaxBackoff
      /\ ProviderOf[m] \in Provider
  BY ModelHealthAssumption DEF TypeInv, TypeOK
<1>2. level \in 0..MaxBackoff
  BY <1>1 DEF NextBackoff
<1>3. Cooldown * 2 ^ level \in Nat \ {0}
  BY <1>2, CooldownAssumption
<1> HIDE DEF level
<1>4. until \in Nat \ {0}
  <2> DEFINE c == Cooldown * 2 ^ level
  <2>1. c \in Nat \ {0}
    BY <1>3
  <2> HIDE DEF c
  <2>2. now + c \in Nat \ {0}
    BY <1>1, <2>1
  <2> QED BY <2>2 DEF c
<1> HIDE DEF until
<1>5. row \in Write
  BY <1>2, <1>4, WriteTypes
<1>6. models[m].known => FailureWrites(m) = <<row>>
  BY DEF FailureWrites, level, until
<1>7. row.op = "failure" /\ row.model = m
  OBVIOUS
<1> HIDE DEF row
<1>8. ~models[m].known => FailureWrites(m) = <<>>
  BY DEF FailureWrites
<1>9. FailureWrites(m) \in Seq(Write)
  <2>1. <<row>> \in Seq(Write) /\ <<>> \in Seq(Write)
    BY <1>5
  <2> QED BY <1>6, <1>8, <2>1
<1>10. models[m].known =>
          /\ Len(FailureWrites(m)) = 1
          /\ FailureWrites(m)[1].op = "failure" /\ FailureWrites(m)[1].model = m
  BY <1>6, <1>7
<1>11. /\ SuccessWrites(m) \in Seq(Write) /\ Len(SuccessWrites(m)) = 1
       /\ SuccessWrites(m)[1].op = "success" /\ SuccessWrites(m)[1].model = m
  <2> DEFINE w == [op |-> "success", model |-> m]
  <2>1. w \in Write /\ w.op = "success" /\ w.model = m /\ SuccessWrites(m) = <<w>>
    BY WriteTypes DEF SuccessWrites
  <2> HIDE DEF w
  <2> QED BY <2>1
<1> QED BY <1>8, <1>9, <1>10, <1>11

\* The request_log row of a probe.
LEMMA ProbeRowType ==
    ASSUME TypeInv, NEW b \in Batcher, NEW m \in Model
    PROVE  /\ ProbeRow(b, m) \in Write /\ ProbeRow(b, m).op = "probe" /\ ProbeRow(b, m).by = b
           /\ ProbeRow(b, m).provider = ProviderOf[m] /\ ProbeRow(b, m).day = Today
<1>1. Today \in Day /\ ProviderOf[m] \in Provider
  BY TodayType, ModelHealthAssumption DEF TypeInv, TypeOK
<1> QED BY <1>1, WriteTypes DEF ProbeRow

\* The end of a probe: its mark, then its row of the request log.
LEMMA ProbeWrites ==
    ASSUME TypeInv, NEW b \in Batcher, NEW m \in Model, NEW s \in Seq(Write)
    PROVE  /\ s \o <<ProbeRow(b, m)>> \in Seq(Write)
           /\ Len(s \o <<ProbeRow(b, m)>>) = Len(s) + 1
           /\ \A i \in 1..Len(s) : (s \o <<ProbeRow(b, m)>>)[i] = s[i]
           /\ (s \o <<ProbeRow(b, m)>>)[Len(s) + 1] = ProbeRow(b, m)
           /\ (queue \o s) \o <<ProbeRow(b, m)>> = queue \o (s \o <<ProbeRow(b, m)>>)
           /\ (queue \o s) \o <<ProbeRow(b, m)>> \in Seq(Write)
<1> DEFINE r == <<ProbeRow(b, m)>>
<1>1. r \in Seq(Write) /\ Len(r) = 1 /\ r[1] = ProbeRow(b, m)
  BY ProbeRowType
<1>2. queue \in Seq(Write)
  BY DEF TypeInv, TypeOK
<1> HIDE DEF r
<1>3. /\ s \o r \in Seq(Write) /\ Len(s) \in Nat /\ Len(s \o r) = Len(s) + 1
      /\ \A i \in 1..(Len(s) + 1) : (s \o r)[i] = IF i <= Len(s) THEN s[i] ELSE r[i - Len(s)]
  BY <1>1, ConcatProperties, LenProperties
<1>4. /\ \A i \in 1..Len(s) : (s \o r)[i] = s[i]
      /\ (s \o r)[Len(s) + 1] = ProbeRow(b, m)
  BY <1>1, <1>3
<1>5. (queue \o s) \o r = queue \o (s \o r)
  BY <1>1, <1>2, ConcatAssociative
<1>6. (queue \o s) \o r \in Seq(Write)
  BY <1>2, <1>3, <1>5, ConcatProperties
<1> QED BY <1>3, <1>4, <1>5, <1>6 DEF r

-------------------------------------------------------------------------------
\* Types are kept

BatchesTyped ==
    \A b \in Batcher : /\ batch[b].state \in {"idle", "running"}
                    /\ batch[b].day \in Day
                    /\ batch[b].free \in 0..Concurrency

\* Every step keeps the types.
LEMMA TypeKept ==
    ASSUME TypeInv, PermitInv, Next
    PROVE  TypeInv'
<1> USE ModelHealthAssumption DEF TypeInv, TypeOK, configVars, pipelineVars, probeVars, At, Go
<1>1. CASE WriterApply
  <2>1. queue' \in Seq(Write) /\ Head(queue) \in Write
    BY <1>1, Popped DEF WriterApply
  <2> DEFINE w == Head(queue)
  <2>2. models' \in [Model -> Row]
    BY <1>1, Applied
  <2>3. probeRows' \in [Batcher -> [Provider -> [Day -> Nat]]]
    <3>1. CASE w.op = "probe"
      <4>1. probeRows' = [probeRows EXCEPT ![w.by][w.provider][w.day] = @ + 1]
        BY <1>1, <3>1 DEF WriterApply
      <4>2. w.by \in Batcher /\ w.provider \in Provider /\ w.day \in Day
        BY <2>1, <3>1, WriteFields
      <4> HIDE DEF w
      <4> QED BY <4>1, <4>2
    <3> QED BY <1>1, <3>1 DEF WriterApply
  <2>4. UNCHANGED <<now, configVars, gater, pipelineVars, probeVars, used, streak>>
    BY <1>1 DEF WriterApply
  <2> QED BY <2>1, <2>2, <2>3, <2>4 DEF Row
<1>2. ASSUME NEW m \in Model, RequestFails(m) PROVE TypeInv'
  <2>1. queue' \in Seq(Write)
    BY <1>2, MarkWrites, Extended DEF RequestFails
  <2>2. streak' \in [Model -> Nat]
    BY <1>2 DEF RequestFails, CountFailure
  <2> QED BY <1>2, <2>1, <2>2 DEF RequestFails
<1>3. ASSUME NEW m \in Model, RequestSucceeds(m) PROVE TypeInv'
  <2>1. queue' \in Seq(Write)
    BY <1>3, MarkWrites, Extended DEF RequestSucceeds
  <2> QED BY <1>3, <2>1 DEF RequestSucceeds, CountSuccess
<1>4. ASSUME NEW who \in Who, FlushReturns(who) PROVE TypeInv'
  BY <1>4 DEF FlushReturns
<1>5. ASSUME NEW who \in Who, GateRead(who) PROVE TypeInv'
  <2>1. Gated(who) \in SUBSET Provider
    BY DEF Gated
  <2> QED BY <1>5, <2>1 DEF GateRead
<1>6. ASSUME NEW who \in Who, GateWrite(who) PROVE TypeInv'
  <2>1. reload[who].todo \in SUBSET Provider
    OBVIOUS
  <2>2. DeactivateAll(reload[who].todo) \in Seq(Write)
    BY <2>1, DeactivateAllType
  <2>3. reload' \in [Who -> ReloadRecord]
    <3>1. reload' = [reload EXCEPT ![who].todo = {}] /\ {} \in SUBSET Provider
      BY <1>6 DEF GateWrite
    <3>2. reload \in [Who -> ReloadRecord]
      BY DEF ReloadRecord
    <3> QED BY <3>1, <3>2, ReloadSet
  <2>4. queue' \in Seq(Write)
    BY <1>6, <2>2, Extended DEF GateWrite
  <2>5. gater[who] \in {"gate0", "gate"}
    BY <1>6 DEF GateWrite
  <2>6. gater' \in [Who -> {"free", "drain", "flush", "clear", "register", "sync", "apply0",
                          "gate0", "flushed0", "apply", "gate", "flushed", "read"}]
    <3>1. CASE gater[who] = "gate0"
      BY <1>6, <3>1 DEF GateWrite
    <3>2. CASE gater[who] = "gate"
      BY <1>6, <3>2 DEF GateWrite
    <3> QED BY <2>5, <3>1, <3>2
  <2> QED BY <1>6, <2>3, <2>4, <2>6 DEF GateWrite, ReloadRecord
<1>7. ASSUME NEW who \in Who, RecomputeReadiness(who) PROVE TypeInv'
  BY <1>7 DEF RecomputeReadiness
<1>8. ASSUME NEW m \in Model, NEW on \in BOOLEAN, AdminSetActive(m, on) PROVE TypeInv'
  <2>1. queue' \in Seq(Write)
    BY <1>8, WriteTypes DEF AdminSetActive
  <2> QED BY <1>8, <2>1 DEF AdminSetActive
<1>9. ASSUME NEW conf \in Configs, AdminStore(conf) PROVE TypeInv'
  BY <1>9 DEF AdminStore, ReadStored
<1>10. CASE AdminRefresh
  BY <1>10 DEF AdminRefresh, ReadStored
<1>11. CASE RefreshBegin
  BY <1>11 DEF RefreshBegin, ReadStored
<1>12. ASSUME NEW who \in Who, ClearRegistry(who) PROVE TypeInv'
  <2>1. reload' \in [Who -> [conf : Config, todo : SUBSET Provider]]
    BY <1>12, ReloadForgotten DEF ClearRegistry, ReloadRecord
  <2> QED BY <1>12, <2>1 DEF ClearRegistry
<1>13. ASSUME NEW who \in Who, NEW p \in Provider, Register(who, p) PROVE TypeInv'
  <2>1. reload' \in [Who -> [conf : Config, todo : SUBSET Provider]]
    <3>1. reload[who].todo \ {p} \in SUBSET Provider /\ {p} \in SUBSET Provider
      OBVIOUS
    <3>2. Forgotten(who, {p})[who].todo = reload[who].todo
      BY DEF Forgotten
    <3>3. reload' = [Forgotten(who, {p}) EXCEPT ![who].todo = reload[who].todo \ {p}]
      BY <1>13, <3>2 DEF Register
    <3> QED BY <3>1, <3>3, ReloadForgotten DEF ReloadRecord
  <2>2. /\ registry' \subseteq present' /\ keys' \subseteq present' /\ present' \subseteq Provider
    BY <1>13 DEF Register
  <2> QED BY <1>13, <2>1, <2>2 DEF Register
<1>14. ASSUME NEW who \in Who, SyncBegin(who) PROVE TypeInv'
  <2>1. reload' \in [Who -> ReloadRecord]
    BY <1>14, ReloadSet DEF SyncBegin, ReloadRecord
  <2> QED BY <1>14, <2>1 DEF SyncBegin, ReloadRecord
<1>15. ASSUME NEW who \in Who, NEW p \in Provider, SyncProvider(who, p) PROVE TypeInv'
  BY <1>15 DEF SyncProvider
<1>16. ASSUME NEW who \in Who, Publish(who) PROVE TypeInv'
  <2>1. settings' \in SUBSET Provider
    BY <1>16 DEF Publish, Config
  <2> QED BY <1>16, <2>1 DEF Publish
<1>17. ASSUME NEW r \in Runner, NEW enabled \in SUBSET Provider, DiscoveryBegin(r, enabled)
       PROVE  TypeInv'
  BY <1>17 DEF DiscoveryBegin
<1>18. ASSUME NEW r \in Runner, NEW p \in Provider, NEW seen \in SUBSET ModelsOf(p),
              DiscoverModels(r, p, seen)
       PROVE  TypeInv'
  <2> DEFINE rest == <<[op |-> "deactivate", models |-> ModelsOf(p) \ seen]>>
  <2>1. Upserts(seen) \in Seq(Write)
    BY UpsertsType DEF ModelsOf
  <2>2. rest \in Seq(Write)
    BY WriteTypes DEF ModelsOf
  <2>3. queue' = (queue \o Upserts(seen)) \o rest
    BY <1>18 DEF DiscoverModels
  <2> HIDE DEF rest
  <2>4. queue' \in Seq(Write)
    BY <2>1, <2>2, <2>3, ConcatProperties
  <2> QED BY <1>18, <2>4 DEF DiscoverModels
<1>19. ASSUME NEW r \in Runner, DiscoverRaises(r) PROVE TypeInv'
  BY <1>19 DEF DiscoverRaises
<1>20. ASSUME NEW r \in Runner, DiscoveryDone(r) PROVE TypeInv'
  BY <1>20 DEF DiscoveryDone
<1>21. ASSUME NEW r \in Runner, BootstrapSkips(r) PROVE TypeInv'
  BY <1>21 DEF BootstrapSkips
<1>22. ASSUME NEW b \in Batcher, NEW due \in SUBSET Model, BatchStart(b, due) PROVE TypeInv'
  <2>1. batch' \in [Batcher -> BatchRecord]
    BY <1>22, TodayType, BatchSet DEF BatchStart
  <2>2. probe' \in [Batcher -> [Model -> {"none", "new", "reserved", "sent", "done"}]]
    BY <1>22 DEF BatchStart
  <2>3. BatchesTyped'
    BY <2>1 DEF BatchesTyped, BatchRecord
  <2> QED BY <1>22, <2>1, <2>2, <2>3 DEF BatchStart, BatchesTyped
<1>23. ASSUME NEW b \in Batcher, NEW m \in Model, ProbeSkipped(b, m) PROVE TypeInv'
  BY <1>23 DEF ProbeSkipped
<1>24. ASSUME NEW b \in Batcher, NEW m \in Model, ProbeUnroutable(b, m) PROVE TypeInv'
  <2>1. queue' \in Seq(Write)
    <3>1. [op |-> "active", model |-> m, on |-> FALSE] \in Write
      BY WriteTypes
    <3> QED BY <1>24, <3>1 DEF ProbeUnroutable
  <2>2. probe' \in [Batcher -> [Model -> {"none", "new", "reserved", "sent", "done"}]]
    BY <1>24 DEF ProbeUnroutable
  <2> QED BY <1>24, <2>1, <2>2 DEF ProbeUnroutable
<1>25. ASSUME NEW b \in Batcher, NEW m \in Model, ProbeOverBudget(b, m) PROVE TypeInv'
  <2>1. batch' = Remember(b, ProviderOf[m], UsageSeen(b, ProviderOf[m]))
    BY <1>25 DEF ProbeOverBudget
  <2>2. batch' \in [Batcher -> BatchRecord]
    <3>1. ProviderOf[m] \in Provider
      OBVIOUS
    <3>2. UsageSeen(b, ProviderOf[m]) \in Nat
      BY <3>1, UsageType
    <3> QED BY <2>1, <3>1, <3>2, RememberType
  <2>3. probe' \in [Batcher -> [Model -> {"none", "new", "reserved", "sent", "done"}]]
    BY <1>25 DEF ProbeOverBudget
  <2>4. BatchesTyped'
    BY <2>2 DEF BatchesTyped, BatchRecord
  <2> QED BY <1>25, <2>2, <2>3, <2>4 DEF ProbeOverBudget, BatchesTyped
<1>26. ASSUME NEW b \in Batcher, NEW m \in Model, ProbeReserve(b, m) PROVE TypeInv'
  <2>1. batch' = Remember(b, ProviderOf[m], UsageSeen(b, ProviderOf[m]) + 1)
    BY <1>26 DEF ProbeReserve
  <2>2. batch' \in [Batcher -> BatchRecord]
    <3>1. ProviderOf[m] \in Provider
      OBVIOUS
    <3>2. UsageSeen(b, ProviderOf[m]) + 1 \in Nat
      BY <3>1, UsageType
    <3> QED BY <2>1, <3>1, <3>2, RememberType
  <2>3. probe' \in [Batcher -> [Model -> {"none", "new", "reserved", "sent", "done"}]]
    BY <1>26 DEF ProbeReserve
  <2>4. BatchesTyped'
    BY <2>2 DEF BatchesTyped, BatchRecord
  <2> QED BY <1>26, <2>2, <2>3, <2>4 DEF ProbeReserve, BatchesTyped
<1>27. ASSUME NEW b \in Batcher, NEW m \in Model, ProbeSend(b, m) PROVE TypeInv'
  <2>1. batch' \in [Batcher -> BatchRecord]
    <3>1. batch[b].free - 1 \in 0..Concurrency
      BY <1>27 DEF ProbeSend
    <3> QED BY <1>27, <3>1, BatchSet DEF ProbeSend
  <2>2. probe' \in [Batcher -> [Model -> {"none", "new", "reserved", "sent", "done"}]]
    BY <1>27 DEF ProbeSend
  <2>3. BatchesTyped'
    BY <2>1 DEF BatchesTyped, BatchRecord
  <2> QED BY <1>27, <2>1, <2>2, <2>3 DEF ProbeSend, BatchesTyped
<1>28. ASSUME NEW b \in Batcher, NEW m \in Model, NEW ok \in BOOLEAN, ProbeEnds(b, m, ok)
       PROVE  TypeInv'
  <2>1. queue' \in Seq(Write)
    BY <1>28, MarkWrites, ProbeWrites DEF ProbeEnds
  <2>2. batch[b].free + 1 \in 0..Concurrency
    <3>1. m \in Sent(b)
      BY <1>28 DEF ProbeEnds, Sent
    <3>2. Cardinality(Sent(b)) \in Nat \ {0}
      BY <3>1, SentFinite, FS_EmptySet
    <3>3. batch[b].free \in Nat /\ batch[b].free + Cardinality(Sent(b)) = Concurrency
      BY DEF PermitInv
    <3> QED BY <3>2, <3>3
  <2>3. batch' \in [Batcher -> BatchRecord]
    BY <1>28, <2>2, BatchSet DEF ProbeEnds
  <2>4. probe' \in [Batcher -> [Model -> {"none", "new", "reserved", "sent", "done"}]]
    BY <1>28 DEF ProbeEnds
  <2>5. BatchesTyped'
    BY <2>3 DEF BatchesTyped, BatchRecord
  <2>6. streak' \in [Model -> Nat]
    BY <1>28 DEF ProbeEnds, CountSuccess, CountFailure
  <2> QED BY <1>28, <2>1, <2>3, <2>4, <2>5, <2>6 DEF ProbeEnds, BatchesTyped
<1>29. ASSUME NEW b \in Batcher, BatchEnd(b) PROVE TypeInv'
  <2>1. batch' \in [Batcher -> BatchRecord]
    BY <1>29, BatchSet DEF BatchEnd
  <2>2. BatchesTyped'
    BY <2>1 DEF BatchesTyped, BatchRecord
  <2>3. probe' \in [Batcher -> [Model -> {"none", "new", "reserved", "sent", "done"}]]
    BY <1>29 DEF BatchEnd
  <2> QED BY <1>29, <2>1, <2>2, <2>3 DEF BatchEnd, BatchesTyped
<1>30. CASE Tick
  BY <1>30 DEF Tick
<1> HIDE DEF TypeInv, TypeOK
<1> QED BY <1>1, <1>2, <1>3, <1>4, <1>5, <1>6, <1>7, <1>8, <1>9, <1>10, <1>11, <1>12,
           <1>13, <1>14, <1>15, <1>16, <1>17, <1>18, <1>19, <1>20, <1>21, <1>22, <1>23,
           <1>24, <1>25, <1>26, <1>27, <1>28, <1>29, <1>30
        DEF Next, Gating, Reload, Discovery, Probing

-------------------------------------------------------------------------------
\* Permits are kept

Phase == {"none", "new", "reserved", "sent", "done"}

\* Only a batch moves permits and probes.
LEMMA OnlyProbing ==
    ASSUME Next
    PROVE  UNCHANGED <<batch, probe>> \/ \E b \in Batcher : Probing(b)
BY DEF Next, WriterApply, RequestFails, RequestSucceeds, Gating, FlushReturns, GateRead,
       GateWrite, RecomputeReadiness, AdminSetActive, AdminStore, AdminRefresh, RefreshBegin,
       Reload, ClearRegistry, Register, SyncBegin, SyncProvider, Publish, Discovery,
       DiscoveryBegin, DiscoverModels, DiscoverRaises, DiscoveryDone, BootstrapSkips, Tick,
       probeVars

\* Every step keeps the semaphore's count, and a probe starts only for an active model.
LEMMA PermitKept ==
    ASSUME TypeInv, PermitInv, Next
    PROVE  /\ PermitInv'
           /\ \A b \in Batcher, m \in Model :
                 probe'[b][m] \in Live => probe[b][m] \in Live \/ models[m].active
<1> DEFINE Goal == /\ PermitInv'
                   /\ \A b \in Batcher, m \in Model :
                         probe'[b][m] \in Live => probe[b][m] \in Live \/ models[m].active
<1>1. CASE UNCHANGED <<batch, probe>>
  BY <1>1 DEF PermitInv, Sent
<1>2. ASSUME NEW b \in Batcher, Probing(b) PROVE Goal
  <2> USE DEF Live
  <2>1. batch \in [Batcher -> BatchRecord] /\ probe \in [Batcher -> [Model -> Phase]]
    BY DEF TypeInv, TypeOK, Phase
  <2>2. ASSUME NEW due \in SUBSET Model, BatchStart(b, due) PROVE Goal
    <3>1. /\ batch[b].state = "idle" /\ \A m \in due : models[m].active
          /\ batch' = [batch EXCEPT ![b] = NewBatch(Today)]
          /\ probe' = [probe EXCEPT ![b] = [m \in Model |-> IF m \in due THEN "new" ELSE "none"]]
      BY <2>2 DEF BatchStart
    <3>2. \A c \in Batcher :
             /\ batch'[c].free = IF c = b THEN Concurrency ELSE batch[c].free
             /\ batch'[c].state = IF c = b THEN "running" ELSE batch[c].state
      BY <2>1, <3>1, TodayType, BatchTypes DEF TypeInv, TypeOK
    <3>3. \A c \in Batcher, m \in Model :
             probe'[c][m] = IF c = b THEN IF m \in due THEN "new" ELSE "none" ELSE probe[c][m]
      BY <3>1 DEF TypeInv, TypeOK
    <3>4. \A c \in Batcher : Sent(c)' = IF c = b THEN {} ELSE Sent(c)
      BY <3>1, <3>3 DEF Sent
    <3>5. \A c \in Batcher : (batch[c].free + Cardinality(Sent(c)) = Concurrency)'
      <4> TAKE c \in Batcher
      <4>1. Concurrency + Cardinality({}) = Concurrency
        BY FS_EmptySet, ModelHealthAssumption
      <4>2. CASE c = b
        BY <3>2, <3>4, <4>1, <4>2
      <4>3. CASE c # b
        BY <3>2, <3>4, <4>3 DEF PermitInv
      <4> QED BY <4>2, <4>3
    <3>6. \A c \in Batcher, n \in Model : probe'[c][n] \in Live => batch'[c].state = "running"
      BY <3>2, <3>3 DEF PermitInv
    <3>7. \A c \in Batcher, n \in Model :
             probe'[c][n] \in Live => probe[c][n] \in Live \/ models[n].active
      BY <3>1, <3>2, <3>3, <3>4
    <3> QED BY <3>5, <3>6, <3>7 DEF PermitInv
  <2>3. ASSUME NEW m \in Model, NEW v \in {"done", "reserved"},
               probe[b][m] = "new", probe' = [probe EXCEPT ![b][m] = v],
               \A c \in Batcher : batch'[c].free = batch[c].free /\ batch'[c].state = batch[c].state
        PROVE  Goal
    <3>1. \A c \in Batcher, n \in Model :
             probe'[c][n] = IF c = b /\ n = m THEN v ELSE probe[c][n]
      BY <2>1, <2>3
    <3>2. \A c \in Batcher : Sent(c)' = Sent(c)
      BY <2>3, <3>1 DEF Sent
    <3> QED BY <2>3, <3>1, <3>2 DEF PermitInv
  <2>4. ASSUME NEW m \in Model, ProbeSkipped(b, m) \/ ProbeUnroutable(b, m) PROVE Goal
    BY <2>3, <2>4 DEF ProbeSkipped, ProbeUnroutable
  <2>5. ASSUME NEW m \in Model, ProbeOverBudget(b, m) \/ ProbeReserve(b, m) PROVE Goal
    <3> DEFINE p == ProviderOf[m]
    <3>1. p \in Provider
      BY ModelHealthAssumption
    <3>2. UsageSeen(b, p) \in Nat
      BY <3>1, UsageType
    <3>3. PICK n \in Nat : batch' = Remember(b, p, n)
      BY <2>5, <3>2 DEF ProbeOverBudget, ProbeReserve
    <3> HIDE DEF p
    <3>4. \A c \in Batcher : batch'[c].free = batch[c].free /\ batch'[c].state = batch[c].state
      BY <3>1, <3>3, RememberType
    <3> QED BY <2>3, <2>5, <3>4 DEF ProbeOverBudget, ProbeReserve
  <2>6. ASSUME NEW m \in Model, ProbeSend(b, m) PROVE Goal
    <3>1. /\ probe[b][m] = "reserved" /\ probe' = [probe EXCEPT ![b][m] = "sent"]
          /\ batch' = [batch EXCEPT ![b].free = batch[b].free - 1] /\ batch[b].free > 0
      BY <2>6 DEF ProbeSend
    <3>2. \A c \in Batcher, n \in Model :
             probe'[c][n] = IF c = b /\ n = m THEN "sent" ELSE probe[c][n]
      BY <2>1, <3>1
    <3>3. /\ Sent(b)' = Sent(b) \cup {m} /\ m \notin Sent(b)
          /\ \A c \in Batcher : c # b => Sent(c)' = Sent(c)
      BY <3>1, <3>2 DEF Sent
    <3>4. Cardinality(Sent(b)') = Cardinality(Sent(b)) + 1 /\ Cardinality(Sent(b)) \in Nat
      BY <3>3, SentFinite, FS_AddElement
    <3>5. \A c \in Batcher : /\ batch'[c].free = IF c = b THEN batch[b].free - 1 ELSE batch[c].free
                             /\ batch'[c].state = batch[c].state
                             /\ batch[c].free \in Nat
      BY <2>1, <3>1, ModelHealthAssumption DEF BatchRecord
    <3>6. \A c \in Batcher : (batch[c].free + Cardinality(Sent(c)) = Concurrency)'
      <4> TAKE c \in Batcher
      <4>1. batch[c].free + Cardinality(Sent(c)) = Concurrency
        BY DEF PermitInv
      <4>2. CASE c = b
        BY <3>4, <3>5, <4>1, <4>2
      <4>3. CASE c # b
        BY <3>3, <3>5, <4>1, <4>3
      <4> QED BY <4>2, <4>3
    <3>7. \A c \in Batcher, n \in Model : probe'[c][n] \in Live => batch'[c].state = "running"
      BY <3>1, <3>2, <3>3, <3>4, <3>5 DEF PermitInv
    <3>8. \A c \in Batcher, n \in Model :
             probe'[c][n] \in Live => probe[c][n] \in Live \/ models[n].active
      BY <3>1, <3>2, <3>3, <3>4, <3>5
    <3> QED BY <3>6, <3>7, <3>8 DEF PermitInv
  <2>7. ASSUME NEW m \in Model, NEW ok \in BOOLEAN, ProbeEnds(b, m, ok) PROVE Goal
    <3>1. /\ probe[b][m] = "sent" /\ probe' = [probe EXCEPT ![b][m] = "done"]
          /\ batch' = [batch EXCEPT ![b].free = batch[b].free + 1]
      BY <2>7 DEF ProbeEnds
    <3>2. \A c \in Batcher, n \in Model :
             probe'[c][n] = IF c = b /\ n = m THEN "done" ELSE probe[c][n]
      BY <2>1, <3>1
    <3>3. /\ Sent(b)' = Sent(b) \ {m} /\ m \in Sent(b)
          /\ \A c \in Batcher : c # b => Sent(c)' = Sent(c)
      BY <3>1, <3>2 DEF Sent
    <3>4. Cardinality(Sent(b)') = Cardinality(Sent(b)) - 1 /\ Cardinality(Sent(b)) \in Nat
      BY <3>3, SentFinite, FS_RemoveElement
    <3>5. \A c \in Batcher : /\ batch'[c].free = IF c = b THEN batch[b].free + 1 ELSE batch[c].free
                             /\ batch'[c].state = batch[c].state
                             /\ batch[c].free \in Nat
      BY <2>1, <3>1, ModelHealthAssumption DEF BatchRecord
    <3>6. \A c \in Batcher : (batch[c].free + Cardinality(Sent(c)) = Concurrency)'
      <4> TAKE c \in Batcher
      <4>1. batch[c].free + Cardinality(Sent(c)) = Concurrency
        BY DEF PermitInv
      <4>2. CASE c = b
        BY <3>4, <3>5, <4>1, <4>2
      <4>3. CASE c # b
        BY <3>3, <3>5, <4>1, <4>3
      <4> QED BY <4>2, <4>3
    <3>7. \A c \in Batcher, n \in Model : probe'[c][n] \in Live => batch'[c].state = "running"
      BY <3>1, <3>2, <3>3, <3>4, <3>5 DEF PermitInv
    <3>8. \A c \in Batcher, n \in Model :
             probe'[c][n] \in Live => probe[c][n] \in Live \/ models[n].active
      BY <3>1, <3>2, <3>3, <3>4, <3>5
    <3> QED BY <3>6, <3>7, <3>8 DEF PermitInv
  <2>8. ASSUME BatchEnd(b) PROVE Goal
    <3>1. /\ batch' = [batch EXCEPT ![b] = NoBatch]
          /\ probe' = [probe EXCEPT ![b] = [m \in Model |-> "none"]]
      BY <2>8 DEF BatchEnd
    <3>2. \A c \in Batcher :
             /\ batch'[c].free = IF c = b THEN Concurrency ELSE batch[c].free
             /\ c # b => batch'[c].state = batch[c].state
      BY <2>1, <3>1, BatchTypes
    <3>3. \A c \in Batcher, m \in Model :
             probe'[c][m] = IF c = b THEN "none" ELSE probe[c][m]
      BY <3>1 DEF TypeInv, TypeOK
    <3>4. \A c \in Batcher : Sent(c)' = IF c = b THEN {} ELSE Sent(c)
      BY <3>3 DEF Sent
    <3>5. \A c \in Batcher : (batch[c].free + Cardinality(Sent(c)) = Concurrency)'
      <4> TAKE c \in Batcher
      <4>1. Concurrency + Cardinality({}) = Concurrency
        BY FS_EmptySet, ModelHealthAssumption
      <4>2. CASE c = b
        BY <3>2, <3>4, <4>1, <4>2
      <4>3. CASE c # b
        BY <3>2, <3>4, <4>3 DEF PermitInv
      <4> QED BY <4>2, <4>3
    <3>6. \A c \in Batcher, n \in Model : probe'[c][n] \in Live => batch'[c].state = "running"
      BY <3>2, <3>3 DEF PermitInv
    <3>7. \A c \in Batcher, n \in Model :
             probe'[c][n] \in Live => probe[c][n] \in Live \/ models[n].active
      BY <3>3
    <3> QED BY <3>5, <3>6, <3>7 DEF PermitInv
  <2> QED BY <1>2, <2>2, <2>4, <2>5, <2>6, <2>7, <2>8 DEF Probing
<1> QED BY <1>1, <1>2, OnlyProbing

-------------------------------------------------------------------------------
\* Who puts what on the queue

Plain == {"active", "upsert", "deactivate"}

\* The steps that are no request, no end of a probe and not the writer's: what they
\* put on the queue marks no model and logs no probe.
Bystander ==
    /\ models' = models /\ streak' = streak /\ probeRows' = probeRows
    /\ \E s \in Seq(Write) :
          queue' = queue \o s /\ \A i \in 1..Len(s) : s[i].op \in Plain

\* The steps by what they do to the marks: four kinds, the last of which does nothing.
LEMMA QueueSteps ==
    ASSUME TypeInv, Next
    PROVE  \/ WriterApply
           \/ \E m \in Model : RequestFails(m) \/ RequestSucceeds(m)
           \/ \E b \in Batcher, m \in Model, ok \in BOOLEAN : ProbeEnds(b, m, ok)
           \/ Bystander
<1>1. ASSUME models' = models, streak' = streak, probeRows' = probeRows, queue' = queue
      PROVE  Bystander
  <2>1. <<>> \in Seq(Write) /\ queue = queue \o <<>> /\ Len(<<>>) = 0
    BY ConcatEmptySeq DEF TypeInv, TypeOK
  <2>2. \A i \in 1..Len(<<>>) : <<>>[i].op \in Plain
    BY <2>1
  <2> QED BY <1>1, <2>1, <2>2 DEF Bystander
<1>2. ASSUME NEW w \in Write, w.op \in Plain, queue' = queue \o <<w>>,
             models' = models, streak' = streak, probeRows' = probeRows
      PROVE  Bystander
  <2>1. <<w>> \in Seq(Write) /\ \A i \in 1..Len(<<w>>) : <<w>>[i].op \in Plain
    BY <1>2
  <2> QED BY <1>2, <2>1 DEF Bystander
<1>3. ASSUME NEW who \in Who, GateWrite(who) PROVE Bystander
  <2> DEFINE ps == reload[who].todo
  <2>1. ps \in SUBSET Provider
    BY DEF TypeInv, TypeOK
  <2>2. queue' = queue \o DeactivateAll(ps)
    BY <1>3 DEF GateWrite
  <2> HIDE DEF ps
  <2>3. /\ DeactivateAll(ps) \in Seq(Write)
        /\ \A i \in 1..Len(DeactivateAll(ps)) : DeactivateAll(ps)[i].op \in Plain
    BY <2>1, DeactivateAllType DEF Plain
  <2> QED BY <1>3, <2>2, <2>3 DEF Bystander, GateWrite
<1>4. ASSUME NEW m \in Model, NEW on \in BOOLEAN, AdminSetActive(m, on) PROVE Bystander
  <2> DEFINE w == [op |-> "active", model |-> m, on |-> on]
  <2>1. w \in Write /\ w.op \in Plain /\ queue' = Append(queue, w)
    BY <1>4, WriteTypes DEF AdminSetActive, Plain
  <2> HIDE DEF w
  <2>2. queue' = queue \o <<w>>
    BY <2>1, AppendIsConcat DEF TypeInv, TypeOK
  <2> QED BY <1>2, <1>4, <2>1, <2>2 DEF AdminSetActive
<1>5. ASSUME NEW b \in Batcher, NEW m \in Model, ProbeUnroutable(b, m) PROVE Bystander
  <2> DEFINE w == [op |-> "active", model |-> m, on |-> FALSE]
  <2>1. w \in Write /\ w.op \in Plain /\ queue' = Append(queue, w)
    BY <1>5, WriteTypes DEF ProbeUnroutable, Plain
  <2> HIDE DEF w
  <2>2. queue' = queue \o <<w>>
    BY <2>1, AppendIsConcat DEF TypeInv, TypeOK
  <2> QED BY <1>2, <1>5, <2>1, <2>2 DEF ProbeUnroutable
<1>6. ASSUME NEW r \in Runner, NEW p \in Provider, NEW seen \in SUBSET ModelsOf(p),
             DiscoverModels(r, p, seen)
      PROVE  Bystander
  <2> DEFINE w == [op |-> "deactivate", models |-> ModelsOf(p) \ seen]
             u == Upserts(seen)
             s == u \o <<w>>
  <2>1. w \in Write /\ w.op \in Plain /\ queue' = (queue \o u) \o <<w>>
    BY <1>6, WriteTypes DEF DiscoverModels, Plain, ModelsOf
  <2>2. u \in Seq(Write) /\ \A i \in 1..Len(u) : u[i].op \in Plain
    BY UpsertsType DEF Plain, ModelsOf
  <2> HIDE DEF w, u
  <2>3. <<w>> \in Seq(Write) /\ Len(<<w>>) = 1 /\ <<w>>[1] = w
    BY <2>1
  <2>4. /\ s \in Seq(Write) /\ Len(u) \in Nat /\ Len(s) = Len(u) + 1
        /\ \A i \in 1..(Len(u) + 1) : s[i] = IF i <= Len(u) THEN u[i] ELSE <<w>>[i - Len(u)]
    BY <2>2, <2>3, ConcatProperties, LenProperties
  <2>5. queue' = queue \o s
    BY <2>1, <2>2, <2>3, ConcatAssociative DEF TypeInv, TypeOK
  <2>6. \A i \in 1..Len(s) : s[i].op \in Plain
    <3> SUFFICES ASSUME NEW i \in 1..(Len(u) + 1) PROVE s[i].op \in Plain
      BY <2>4
    <3>1. CASE i <= Len(u)
      BY <2>2, <2>4, <3>1
    <3>2. CASE i = Len(u) + 1
      BY <2>1, <2>3, <2>4, <3>2
    <3> QED BY <2>4, <3>1, <3>2
  <2> QED BY <1>6, <2>4, <2>5, <2>6 DEF Bystander, DiscoverModels
<1>7. ASSUME NEW who \in Who, FlushReturns(who) \/ GateRead(who) \/ RecomputeReadiness(who)
      PROVE  Bystander
  BY <1>1, <1>7 DEF FlushReturns, GateRead, RecomputeReadiness
<1>8. ASSUME \/ \E conf \in Configs : AdminStore(conf)
             \/ AdminRefresh \/ RefreshBegin \/ Tick
      PROVE  Bystander
  BY <1>1, <1>8 DEF AdminStore, AdminRefresh, RefreshBegin, Tick
<1>9. ASSUME NEW who \in Who, Reload(who) PROVE Bystander
  BY <1>1, <1>9 DEF Reload, ClearRegistry, Register, SyncBegin, SyncProvider, Publish
<1>10. ASSUME NEW r \in Runner,
              \/ \E enabled \in SUBSET Provider : DiscoveryBegin(r, enabled)
              \/ DiscoverRaises(r) \/ DiscoveryDone(r) \/ BootstrapSkips(r)
       PROVE  Bystander
  BY <1>1, <1>10 DEF DiscoveryBegin, DiscoverRaises, DiscoveryDone, BootstrapSkips
<1>11. ASSUME NEW b \in Batcher, NEW due \in SUBSET Model, BatchStart(b, due) PROVE Bystander
  BY <1>1, <1>11 DEF BatchStart
<1>12. ASSUME NEW b \in Batcher, NEW m \in Model,
              \/ ProbeSkipped(b, m) \/ ProbeOverBudget(b, m)
              \/ ProbeReserve(b, m) \/ ProbeSend(b, m)
       PROVE  Bystander
  BY <1>1, <1>12 DEF ProbeSkipped, ProbeOverBudget, ProbeReserve, ProbeSend
<1>13. ASSUME NEW b \in Batcher, BatchEnd(b) PROVE Bystander
  BY <1>1, <1>13 DEF BatchEnd
<1> QED BY <1>3, <1>4, <1>5, <1>6, <1>7, <1>8, <1>9, <1>10, <1>11, <1>12, <1>13
        DEF Next, Gating, Discovery, Probing

-------------------------------------------------------------------------------
\* The health columns

\* Only a model with a row is active, is probed or has failures to count: a mark of
\* a model without a row would be lost on the writer and counted by the history.
KnownInv ==
    /\ \A m \in Model : models[m].active => models[m].known
    /\ \A m \in Model : ~models[m].known => streak[m] = 0 /\ Marks(m) = {}
    /\ \A b \in Batcher, m \in Model : probe[b][m] \in Live => models[m].known

IndInv == TypeInv /\ PermitInv /\ KnownInv /\ FailuresExact /\ HealthEarned

\* A request or a probe of model m ends: its mark is the first write, and the only one.
LEMMA MarkedStep ==
    ASSUME TypeInv, KnownInv, FailuresExact, HealthEarned,
           NEW m \in Model, models[m].known, models' = models,
           NEW s \in Seq(Write), queue' = queue \o s, Len(s) >= 1,
           s[1].model = m, s[1].op \in {"failure", "success"},
           \A n \in Model : \A i \in 2..Len(s) : ~IsMark(s[i], n),
           streak' = IF s[1].op = "success" THEN CountSuccess(m) ELSE CountFailure(m)
    PROVE  /\ FailuresExact' /\ HealthEarned'
           /\ \A n \in Model : ~models'[n].known => streak'[n] = 0 /\ Marks(n)' = {}
<1>1. queue \in Seq(Write) /\ streak \in [Model -> Nat]
  BY DEF TypeInv, TypeOK
<1>2. \A n \in Model : n # m => streak'[n] = streak[n]
  BY <1>1 DEF CountSuccess, CountFailure
<1>3. ASSUME NEW n \in Model, n # m
      PROVE  /\ Marks(n)' = Marks(n) /\ Resets(n)' = Resets(n)
             /\ SinceReset(n)' = SinceReset(n)
  <2>1. \A i \in 1..Len(s) : ~IsMark(s[i], n)
    <3>1. ~IsMark(s[1], n)
      BY <1>3 DEF IsMark
    <3>2. \A i \in 1..Len(s) : i = 1 \/ i \in 2..Len(s)
      BY LenProperties
    <3> QED BY <3>1, <3>2
  <2> QED BY <1>1, <2>1, MarksKept
<1>4. streak'[m] = (IF Resets(m)' = {} THEN models'[m].failures ELSE 0)
                      + Cardinality(SinceReset(m)')
  <2>1. CASE s[1].op = "failure"
    <3>1. /\ Resets(m)' = Resets(m)
          /\ Cardinality(SinceReset(m)') = Cardinality(SinceReset(m)) + 1
      BY <1>1, <2>1, MarksFailure
    <3>2. streak'[m] = streak[m] + 1
      BY <1>1, <2>1 DEF CountFailure
    <3>3. Cardinality(SinceReset(m)) \in Nat /\ models[m].failures \in Nat
      BY <1>1, MarksFinite DEF TypeInv, TypeOK
    <3>4. streak[m] = (IF Resets(m) = {} THEN models[m].failures ELSE 0)
                        + Cardinality(SinceReset(m))
      BY DEF FailuresExact
    <3>5. models'[m].failures = models[m].failures
      OBVIOUS
    <3> DEFINE f == models[m].failures
               c == Cardinality(SinceReset(m))
    <3> HIDE DEF f, c
    <3>6. CASE Resets(m) = {}
      <4>1. streak[m] = f + c
        BY <3>4, <3>6 DEF f, c
      <4>2. streak'[m] = f + (c + 1)
        BY <3>2, <3>3, <4>1 DEF f, c
      <4> QED BY <3>1, <3>5, <3>6, <4>2 DEF f, c
    <3>7. CASE Resets(m) # {}
      <4>1. streak[m] = c
        BY <3>3, <3>4, <3>7 DEF c
      <4>2. streak'[m] = 0 + (c + 1)
        BY <3>2, <3>3, <4>1 DEF c
      <4> QED BY <3>1, <3>7, <4>2 DEF c
    <3> QED BY <3>6, <3>7
  <2>2. CASE s[1].op = "success"
    <3>1. Resets(m)' # {} /\ Cardinality(SinceReset(m)') = 0
      BY <1>1, <2>2, MarksSuccess
    <3>2. streak'[m] = 0
      BY <1>1, <2>2 DEF CountSuccess
    <3> QED BY <3>1, <3>2
  <2> QED BY <2>1, <2>2
<1>5. FailuresExact'
  BY <1>2, <1>3, <1>4 DEF FailuresExact
<1>6. HealthEarned'
  BY DEF HealthEarned
<1>7. \A n \in Model : ~models'[n].known => streak'[n] = 0 /\ Marks(n)' = {}
  BY <1>2, <1>3 DEF KnownInv
<1> QED BY <1>5, <1>6, <1>7

\* The writer takes a mark off the queue exactly when it changes the counter.
LEMMA AppliedStep ==
    ASSUME TypeInv, KnownInv, FailuresExact, HealthEarned, WriterApply
    PROVE  /\ FailuresExact' /\ HealthEarned'
           /\ \A m \in Model : models'[m].active => models'[m].known
           /\ \A m \in Model : ~models'[m].known => streak'[m] = 0 /\ Marks(m)' = {}
           /\ \A m \in Model : models[m].known => models'[m].known
<1> DEFINE w == Head(queue)
           C(m) == Cardinality(SinceReset(m))
<1>1. streak' = streak /\ queue \in Seq(Write) /\ queue # <<>> /\ queue' = Tail(queue)
  BY DEF WriterApply, TypeInv, TypeOK
<1>2. models \in [Model -> Row]
  BY DEF TypeInv, TypeOK, Row
<1>3. ASSUME NEW m \in Model
      PROVE  /\ models'[m].known =>
                   streak'[m] = (IF Resets(m)' = {} THEN models'[m].failures ELSE 0)
                                   + Cardinality(SinceReset(m)')
             /\ models'[m].known =>
                   /\ ~models'[m].healthy => models'[m].failures >= Threshold
                   /\ models'[m].cooldown = NULL <=> models'[m].failures = 0
             /\ models'[m].active => models'[m].known
             /\ ~models'[m].known => streak'[m] = 0 /\ Marks(m)' = {}
             /\ models[m].known => models'[m].known
  <2>1. /\ Resets(m)' = {} <=> Resets(m) \subseteq {1}
        /\ 1 \in Resets(m) <=> IsMark(w, m) /\ w.op = "success"
        /\ Cardinality(SinceReset(m)') = IF IsMark(w, m) /\ Resets(m) = {}
                                         THEN C(m) - 1 ELSE C(m)
        /\ Marks(m) = {} => Marks(m)' = {} /\ ~IsMark(w, m)
    BY <1>1, MarksPopped
  <2>2. C(m) \in Nat /\ models[m].failures \in Nat /\ Threshold \in Nat
    BY <1>1, <1>2, MarksFinite, ModelHealthAssumption DEF Row
  <2>3. CASE ~models[m].known
    <3>1. streak[m] = 0 /\ Marks(m) = {} /\ ~models[m].active
      BY <2>3 DEF KnownInv
    <3>2. Resets(m) = {} /\ SinceReset(m) = {}
      BY <3>1 DEF Resets, SinceReset
    <3>3. C(m) = 0
      BY <3>2, FS_EmptySet
    <3>4. models'[m].known => models'[m] = NewRow
      BY <2>3, Applied
    <3>5. ~models'[m].known => ~models'[m].active
      BY <2>3, <3>1, Applied
    <3>6. NewRow.failures = 0 /\ NewRow.healthy = TRUE /\ NewRow.cooldown = NULL
      BY DEF NewRow
    <3> HIDE DEF C
    <3> QED BY <1>1, <2>1, <2>3, <3>1, <3>2, <3>3, <3>4, <3>5, <3>6
  <2>4. CASE models[m].known
    <3>1. /\ streak[m] = (IF Resets(m) = {} THEN models[m].failures ELSE 0) + C(m)
          /\ ~models[m].healthy => models[m].failures >= Threshold
          /\ models[m].cooldown = NULL <=> models[m].failures = 0
      BY <2>4 DEF FailuresExact, HealthEarned
    <3>2. models'[m].known
      BY <2>4, Applied
    <3> HIDE DEF C
    <3>3. CASE ~IsMark(w, m)
      <4>1. /\ models'[m].failures = models[m].failures
            /\ models'[m].cooldown = NULL <=> models[m].cooldown = NULL
            /\ models'[m].healthy \/ models'[m].healthy = models[m].healthy
        BY <2>4, <3>3, Applied
      <4>2. Resets(m)' = {} <=> Resets(m) = {}
        BY <2>1, <3>3
      <4> QED BY <1>1, <2>1, <2>2, <3>1, <3>2, <3>3, <4>1, <4>2
    <3>4. CASE IsMark(w, m) /\ w.op = "success"
      <4>1. models'[m].failures = 0 /\ models'[m].cooldown = NULL /\ models'[m].healthy
        BY <2>4, <3>4, Applied DEF IsMark
      <4> QED BY <1>1, <2>1, <2>2, <3>1, <3>2, <3>4, <4>1
    <3>5. CASE IsMark(w, m) /\ w.op = "failure"
      <4>1. /\ models'[m].failures = models[m].failures + 1 /\ models'[m].cooldown # NULL
            /\ ~models'[m].healthy => ~models[m].healthy \/ ~(models[m].failures + 1 < Threshold)
        BY <2>4, <3>5, Applied DEF IsMark
      <4>2. Resets(m)' = {} <=> Resets(m) = {}
        BY <2>1, <3>5
      <4> QED BY <1>1, <2>1, <2>2, <3>1, <3>2, <3>5, <4>1, <4>2
    <3> QED BY <3>3, <3>4, <3>5 DEF IsMark
  <2> QED BY <2>3, <2>4
<1> QED BY <1>3 DEF FailuresExact, HealthEarned

\* Every step keeps the invariant about the marks.
LEMMA MarksStep ==
    ASSUME IndInv, Next
    PROVE  IndInv'
<1> USE DEF IndInv
<1>1. TypeInv' /\ PermitInv'
  BY TypeKept, PermitKept
<1>2. \A b \in Batcher, m \in Model :
         probe'[b][m] \in Live => probe[b][m] \in Live \/ models[m].active
  BY PermitKept
<1>3. \A b \in Batcher, m \in Model : probe'[b][m] \in Live => models[m].known
  BY <1>2 DEF KnownInv
<1>4. queue \in Seq(Write)
  BY DEF TypeInv, TypeOK
<1>5. CASE WriterApply
  BY <1>1, <1>3, <1>5, AppliedStep DEF KnownInv
<1>6. ASSUME NEW m \in Model, RequestFails(m) \/ RequestSucceeds(m) PROVE IndInv'
  <2>1. PICK s \in Seq(Write) :
           /\ queue' = queue \o s /\ Len(s) = 1
           /\ s[1].model = m /\ s[1].op \in {"failure", "success"}
           /\ streak' = IF s[1].op = "success" THEN CountSuccess(m) ELSE CountFailure(m)
    <3>1. CASE RequestFails(m)
      <4>1. models[m].known /\ queue' = queue \o FailureWrites(m) /\ streak' = CountFailure(m)
        BY <3>1 DEF RequestFails
      <4>2. /\ FailureWrites(m) \in Seq(Write) /\ Len(FailureWrites(m)) = 1
            /\ FailureWrites(m)[1].model = m /\ FailureWrites(m)[1].op = "failure"
        BY <4>1, MarkWrites
      <4> QED BY <4>1, <4>2
    <3>2. CASE RequestSucceeds(m)
      <4>1. queue' = queue \o SuccessWrites(m) /\ streak' = CountSuccess(m)
        BY <3>2 DEF RequestSucceeds
      <4>2. /\ SuccessWrites(m) \in Seq(Write) /\ Len(SuccessWrites(m)) = 1
            /\ SuccessWrites(m)[1].model = m /\ SuccessWrites(m)[1].op = "success"
        BY MarkWrites
      <4> QED BY <4>1, <4>2
    <3> QED BY <1>6, <3>1, <3>2
  <2>2. models[m].known /\ models' = models
    BY <1>6 DEF RequestFails, RequestSucceeds
  <2>3. \A n \in Model : \A i \in 2..Len(s) : ~IsMark(s[i], n)
    BY <2>1
  <2>4. /\ FailuresExact' /\ HealthEarned'
        /\ \A n \in Model : ~models'[n].known => streak'[n] = 0 /\ Marks(n)' = {}
    <3>1. Len(s) >= 1
      BY <2>1
    <3> QED BY <2>1, <2>2, <2>3, <3>1, MarkedStep
  <2> QED BY <1>1, <1>3, <2>2, <2>4 DEF KnownInv
<1>7. ASSUME NEW b \in Batcher, NEW m \in Model, NEW ok \in BOOLEAN, ProbeEnds(b, m, ok)
      PROVE  IndInv'
  <2> DEFINE t == IF ok THEN SuccessWrites(m) ELSE FailureWrites(m)
             s == t \o <<ProbeRow(b, m)>>
  <2>1. models[m].known /\ models' = models
    BY <1>7 DEF ProbeEnds, KnownInv, Live
  <2>2. /\ t \in Seq(Write) /\ Len(t) = 1
        /\ t[1].model = m /\ t[1].op = IF ok THEN "success" ELSE "failure"
    BY <2>1, MarkWrites
  <2>3. queue' = (queue \o t) \o <<ProbeRow(b, m)>>
    BY <1>7 DEF ProbeEnds
  <2>4. streak' = IF t[1].op = "success" THEN CountSuccess(m) ELSE CountFailure(m)
    BY <1>7, <2>2 DEF ProbeEnds
  <2> HIDE DEF t
  <2>5. /\ s \in Seq(Write) /\ queue' = queue \o s /\ Len(s) = 2
        /\ s[1] = t[1] /\ s[2] = ProbeRow(b, m)
    <3>1. /\ s \in Seq(Write) /\ Len(s) = Len(t) + 1
          /\ \A i \in 1..Len(t) : s[i] = t[i]
          /\ s[Len(t) + 1] = ProbeRow(b, m)
          /\ (queue \o t) \o <<ProbeRow(b, m)>> = queue \o s
      BY <2>2, ProbeWrites
    <3>2. queue' = queue \o s
      BY <2>3, <3>1
    <3> HIDE DEF s
    <3>3. Len(t) = 1 /\ 1 \in 1..Len(t) /\ Len(t) + 1 = 2
      BY <2>2
    <3> QED BY <3>1, <3>2, <3>3
  <2> HIDE DEF s
  <2>6. \A n \in Model : \A i \in 2..Len(s) : ~IsMark(s[i], n)
    BY <2>5, ProbeRowType DEF IsMark
  <2>7. /\ FailuresExact' /\ HealthEarned'
        /\ \A n \in Model : ~models'[n].known => streak'[n] = 0 /\ Marks(n)' = {}
    <3>1. Len(s) >= 1 /\ s[1].model = m /\ s[1].op \in {"failure", "success"}
      BY <2>2, <2>5
    <3>2. streak' = IF s[1].op = "success" THEN CountSuccess(m) ELSE CountFailure(m)
      BY <2>4, <2>5
    <3> QED BY <2>1, <2>5, <2>6, <3>1, <3>2, MarkedStep
  <2> QED BY <1>1, <1>3, <2>1, <2>7 DEF KnownInv
<1>8. CASE Bystander
  <2>1. PICK s \in Seq(Write) :
           queue' = queue \o s /\ \A i \in 1..Len(s) : s[i].op \in Plain
    BY <1>8 DEF Bystander
  <2>2. \A m \in Model : /\ Marks(m)' = Marks(m) /\ Resets(m)' = Resets(m)
                         /\ SinceReset(m)' = SinceReset(m)
    <3> TAKE m \in Model
    <3>1. \A i \in 1..Len(s) : ~IsMark(s[i], m)
      BY <2>1 DEF IsMark, Plain
    <3> QED BY <1>4, <2>1, <3>1, MarksKept
  <2>3. models' = models /\ streak' = streak
    BY <1>8 DEF Bystander
  <2>4. FailuresExact' /\ HealthEarned'
    BY <2>2, <2>3 DEF FailuresExact, HealthEarned
  <2> QED BY <1>1, <1>3, <2>2, <2>3, <2>4 DEF KnownInv
<1> QED BY <1>5, <1>6, <1>7, <1>8, QueueSteps

\* It holds at the start.
LEMMA MarksInit ==
    ASSUME Init
    PROVE  IndInv
<1> USE ModelHealthAssumption DEF Init
<1>1. \A m \in Model :
         /\ models[m] \in Row /\ models[m].failures = 0 /\ models[m].cooldown = 0
         /\ models[m].healthy = TRUE /\ models[m].active = models[m].known
  <2>1. 0 \in 0..MaxBackoff
    OBVIOUS
  <2>2. /\ NewRow \in Row /\ NewRow.failures = 0 /\ NewRow.cooldown = 0
        /\ NewRow.healthy = TRUE /\ NewRow.active = NewRow.known
    BY <2>1 DEF NewRow, Row, NULL
  <2>3. /\ NoRow \in Row /\ NoRow.failures = 0 /\ NoRow.cooldown = 0
        /\ NoRow.healthy = TRUE /\ NoRow.active = NoRow.known
    BY <2>1 DEF NoRow, NewRow, Row, NULL
  <2>4. \A m \in Model : models[m] = NewRow \/ models[m] = NoRow
    OBVIOUS
  <2> QED BY <2>2, <2>3, <2>4
<1>2. /\ \A b \in Batcher : batch[b] = NoBatch
      /\ batch \in [Batcher -> BatchRecord]
  BY BatchTypes
<1>3. TypeInv
  <2>1. models \in [Model -> Row]
    BY <1>1
  <2>2. batch \in [Batcher -> BatchRecord]
    BY <1>2
  <2>3. BatchesTyped
    BY <2>2 DEF BatchesTyped, BatchRecord
  <2>4. probeRows \in [Batcher -> [Provider -> [Day -> Nat]]]
    OBVIOUS
  <2>5. queue \in Seq(Write)
    BY EmptySeq
  <2>6. /\ gater \in [Who -> {"free", "drain", "flush", "clear", "register", "sync", "apply0",
                             "gate0", "flushed0", "apply", "gate", "flushed", "read"}]
        /\ probe \in [Batcher -> [Model -> {"none", "new", "reserved", "sent", "done"}]]
        /\ streak \in [Model -> Nat]
    OBVIOUS
  <2>7. stored \in Config /\ stored.on \subseteq Provider /\ stored.keyed \subseteq Provider
    BY DEF Config
  <2>8. /\ now \in 0..MaxTime /\ settings \subseteq Provider /\ present \subseteq Provider
        /\ registry \subseteq present /\ keys \subseteq present
    BY <2>7
  <2>9. reload \in [Who -> [conf : Config, todo : SUBSET Provider]]
    BY <2>7
  <2>10. /\ pipeline \in [Runner -> {"idle", "reloading", "discovering", "bootstrap"}]
         /\ todo \in [Runner -> SUBSET Provider]
    OBVIOUS
  <2> HIDE DEF Init
  <2>11. TypeOK
    BY <2>1, <2>3, <2>4, <2>5, <2>6, <2>7, <2>8, <2>9, <2>10 DEF TypeOK, Row, BatchesTyped
  <2> QED BY <2>2, <2>6, <2>11 DEF TypeInv
<1>4. PermitInv
  <2>1. \A b \in Batcher : Sent(b) = {}
    BY DEF Sent
  <2>2. Cardinality({}) = 0
    BY FS_EmptySet
  <2>3. \A b \in Batcher : batch[b].free + Cardinality(Sent(b)) = Concurrency
    <3> TAKE b \in Batcher
    <3>1. batch[b].free = Concurrency /\ Concurrency + 0 = Concurrency
      BY <1>2, BatchTypes
    <3> QED BY <2>1, <2>2, <3>1
  <2> QED BY <2>3 DEF PermitInv, Live
<1>5. \A m \in Model : Marks(m) = {} /\ Resets(m) = {} /\ SinceReset(m) = {}
  <2>1. DOMAIN queue = {}
    OBVIOUS
  <2> QED BY <2>1 DEF Marks, Resets, SinceReset
<1>6. KnownInv
  BY <1>1, <1>5 DEF KnownInv, Live
<1>7. FailuresExact
  <2>1. Cardinality({}) = 0
    BY FS_EmptySet
  <2> SUFFICES ASSUME NEW m \in Model
               PROVE  streak[m] = (IF Resets(m) = {} THEN models[m].failures ELSE 0)
                                     + Cardinality(SinceReset(m))
    BY DEF FailuresExact
  <2>2. streak[m] = 0 /\ models[m].failures = 0 /\ Resets(m) = {} /\ SinceReset(m) = {}
    BY <1>1, <1>5
  <2> QED BY <2>1, <2>2
<1>8. HealthEarned
  BY <1>1 DEF HealthEarned, NULL
<1> QED BY <1>3, <1>4, <1>6, <1>7, <1>8 DEF IndInv

\* It does not mind stuttering.
LEMMA MarksStutter ==
    ASSUME IndInv, UNCHANGED vars
    PROVE  IndInv'
<1> USE DEF IndInv, vars
<1>1. TypeInv'
  BY DEF TypeInv, TypeOK
<1>2. PermitInv'
  BY DEF PermitInv, Sent
<1>3. KnownInv'
  BY DEF KnownInv, Marks
<1>4. FailuresExact'
  BY DEF FailuresExact, Marks, Resets, SinceReset
<1>5. HealthEarned'
  BY DEF HealthEarned
<1> QED BY <1>1, <1>2, <1>3, <1>4, <1>5

\* It holds throughout.
LEMMA IndInvHolds == Spec => []IndInv
<1>1. Init => IndInv
  BY MarksInit
<1>2. IndInv /\ [Next]_vars => IndInv'
  BY MarksStep, MarksStutter
<1> QED BY <1>1, <1>2, PTL DEF Spec

\* However far the writer lags behind the requests, probes, discoveries and admin
\* endpoints: once the queue is applied, consecutive_failures is the number of
\* failures since the last success, a model is unhealthy only after Threshold of
\* them, and it has a cooldown exactly while it has failures.
THEOREM HealthSound == Spec => []MarksInv
<1>1. IndInv => MarksInv
  BY DEF IndInv, TypeInv, MarksInv
<1> QED BY <1>1, IndInvHolds, PTL

-------------------------------------------------------------------------------
\* The probe budget of one runner's batches

\* The requests a batch has reserved for a provider and not yet logged.
Outstanding(b, p) ==
    {m \in Model : ProviderOf[m] = p /\ probe[b][m] \in {"reserved", "sent"}}

\* The probes that b's batches sent on a day, applied and queued.
Spent(b, p, d) == probeRows[b][p][d] + Cardinality(QueuedProbes(b, p, d))

\* The running batch b has not looked at provider p.
Untouched(b, p) ==
    /\ Outstanding(b, p) = {}
    /\ \A d \in Day : QueuedProbes(b, p, d) = {}
    /\ \A d \in Day : d > batch[b].day => probeRows[b][p][d] = 0

\* What it remembers of p, and p's budget, cover the probes of b on the day the batch
\* began and on every later one, those it has only reserved included.
Covered(b, p) ==
    \A d \in Day : d >= batch[b].day =>
        /\ Spent(b, p, d) + Cardinality(Outstanding(b, p)) <= batch[b].usage[p]
        /\ Spent(b, p, d) + Cardinality(Outstanding(b, p)) <= Budget[p]

\* No probe is logged in the future, and none is queued once a batch has flushed.
BudgetInv(b) ==
    /\ batch[b].state = "running" => batch[b].day <= Today
    /\ \A p \in Provider, d \in Day : d > Today => Spent(b, p, d) = 0
    /\ batch[b].state = "idle" /\ gater["loop"] # "flush" =>
          \A p \in Provider, d \in Day : QueuedProbes(b, p, d) = {}
    /\ batch[b].state = "running" =>
          \A p \in Provider : IF p \in DOMAIN batch[b].usage THEN Covered(b, p)
                              ELSE Untouched(b, p)
    /\ \A p \in Provider, d \in Day : Spent(b, p, d) <= Budget[p]

IsProbe(w, b, p, d) == w.op = "probe" /\ w.by = b /\ w.provider = p /\ w.day = d

\* The probes that wait in the queue, and the total spent.
LEMMA ProbesFinite ==
    ASSUME TypeInv, NEW b \in Batcher, NEW p \in Provider, NEW d \in Day
    PROVE  /\ QueuedProbes(b, p, d) \in SUBSET (1..Len(queue))
           /\ IsFiniteSet(QueuedProbes(b, p, d)) /\ Cardinality(QueuedProbes(b, p, d)) \in Nat
           /\ probeRows[b][p][d] \in Nat /\ Spent(b, p, d) \in Nat
<1>1. Len(queue) \in Nat /\ DOMAIN queue = 1..Len(queue)
  BY LenProperties DEF TypeInv, TypeOK
<1>2. IsFiniteSet(1..Len(queue)) /\ QueuedProbes(b, p, d) \in SUBSET (1..Len(queue))
  BY <1>1, FS_Interval DEF QueuedProbes
<1>3. IsFiniteSet(QueuedProbes(b, p, d))
  BY <1>2, FS_Subset
<1>4. Cardinality(QueuedProbes(b, p, d)) \in Nat
  BY <1>3, FS_CardinalityType
<1>5. probeRows[b][p][d] \in Nat
  BY DEF TypeInv, TypeOK
<1> QED BY <1>2, <1>3, <1>4, <1>5 DEF Spent

\* A batch has finitely many probes of a provider under way.
LEMMA OutstandingFinite ==
    ASSUME NEW b \in Batcher, NEW p \in Provider
    PROVE  IsFiniteSet(Outstanding(b, p)) /\ Cardinality(Outstanding(b, p)) \in Nat
<1>1. IsFiniteSet(Outstanding(b, p))
  BY ModelHealthAssumption, FS_Subset DEF Outstanding
<1> QED BY <1>1, FS_CardinalityType

\* Writes that are no probes of b leave its queued probes alone.
LEMMA ProbesKept ==
    ASSUME TypeInv, NEW s \in Seq(Write), queue' = queue \o s, NEW b, NEW p, NEW d,
           \A i \in 1..Len(s) : ~IsProbe(s[i], b, p, d)
    PROVE  QueuedProbes(b, p, d)' = QueuedProbes(b, p, d)
<1>1. /\ DOMAIN queue = 1..Len(queue) /\ DOMAIN queue \subseteq DOMAIN queue'
      /\ \A i \in 1..Len(queue) : queue'[i] = queue[i]
      /\ \A i \in 1..Len(s) : queue'[Len(queue) + i] = s[i]
      /\ \A i \in DOMAIN queue' :
            i \in DOMAIN queue \/ \E k \in 1..Len(s) : i = Len(queue) + k
  <2>1. queue \in Seq(Write)
    BY DEF TypeInv, TypeOK
  <2> QED BY <2>1, Extended
<1> QED BY <1>1 DEF QueuedProbes, IsProbe

\* The last write of s, and no other, is the row of a probe.
LEMMA ProbesAdded ==
    ASSUME TypeInv, NEW s \in Seq(Write), queue' = queue \o s, Len(s) >= 1,
           \A i \in 1..(Len(s) - 1) : s[i].op # "probe",
           NEW b \in Batcher, NEW p \in Provider, NEW d \in Day
    PROVE  Cardinality(QueuedProbes(b, p, d)') =
              IF IsProbe(s[Len(s)], b, p, d) THEN Cardinality(QueuedProbes(b, p, d)) + 1
              ELSE Cardinality(QueuedProbes(b, p, d))
<1> DEFINE n == Len(queue) + Len(s)
<1>1. /\ Len(queue) \in Nat /\ Len(s) \in Nat
      /\ DOMAIN queue = 1..Len(queue) /\ DOMAIN queue' = 1..(Len(queue) + Len(s))
      /\ \A i \in 1..Len(queue) : queue'[i] = queue[i]
      /\ \A i \in 1..Len(s) : queue'[Len(queue) + i] = s[i]
      /\ \A i \in DOMAIN queue' :
            i \in DOMAIN queue \/ \E k \in 1..Len(s) : i = Len(queue) + k
  BY Extended DEF TypeInv, TypeOK
<1>2. /\ n \in DOMAIN queue' /\ queue'[n] = s[Len(s)] /\ n \notin DOMAIN queue
      /\ DOMAIN queue \subseteq DOMAIN queue'
  BY <1>1
<1>3. \A i \in DOMAIN queue' : i \in DOMAIN queue \/ i = n \/ queue'[i].op # "probe"
  <2> SUFFICES ASSUME NEW k \in 1..Len(s), k # Len(s) PROVE queue'[Len(queue) + k].op # "probe"
    BY <1>1
  <2> QED BY <1>1
<1>4. QueuedProbes(b, p, d)' =
         IF IsProbe(s[Len(s)], b, p, d) THEN QueuedProbes(b, p, d) \cup {n}
         ELSE QueuedProbes(b, p, d)
  <2>1. /\ QueuedProbes(b, p, d) = {i \in DOMAIN queue : IsProbe(queue[i], b, p, d)}
        /\ QueuedProbes(b, p, d)' = {i \in DOMAIN queue' : IsProbe(queue'[i], b, p, d)}
    BY DEF QueuedProbes, IsProbe
  <2>2. \A i \in DOMAIN queue : i \in DOMAIN queue' /\ queue'[i] = queue[i]
    BY <1>1, <1>2
  <2>3. \A i \in DOMAIN queue' :
           IsProbe(queue'[i], b, p, d) => i \in DOMAIN queue \/ i = n
    BY <1>3 DEF IsProbe
  <2>4. n \in DOMAIN queue' /\ n \notin DOMAIN queue /\ queue'[n] = s[Len(s)]
    BY <1>2
  <2> HIDE DEF n
  <2>5. CASE IsProbe(s[Len(s)], b, p, d)
    BY <2>1, <2>2, <2>3, <2>4, <2>5
  <2>6. CASE ~IsProbe(s[Len(s)], b, p, d)
    BY <2>1, <2>2, <2>3, <2>4, <2>6
  <2> QED BY <2>5, <2>6
<1>5. n \notin QueuedProbes(b, p, d)
  BY <1>2 DEF QueuedProbes
<1> HIDE DEF n
<1> QED BY <1>4, <1>5, ProbesFinite, FS_AddElement

\* A probe that the writer takes is counted in its table instead.
LEMMA ProbesPopped ==
    ASSUME TypeInv, queue # <<>>, queue' = Tail(queue),
           NEW b \in Batcher, NEW p \in Provider, NEW d \in Day
    PROVE  /\ Cardinality(QueuedProbes(b, p, d)') =
                 IF IsProbe(Head(queue), b, p, d) THEN Cardinality(QueuedProbes(b, p, d)) - 1
                 ELSE Cardinality(QueuedProbes(b, p, d))
           /\ QueuedProbes(b, p, d) = {} =>
                 QueuedProbes(b, p, d)' = {} /\ ~IsProbe(Head(queue), b, p, d)
<1> DEFINE Q == QueuedProbes(b, p, d)
           S == Q \ {1}
           T == QueuedProbes(b, p, d)'
<1>1. /\ Head(queue) = queue[1] /\ Len(queue) \in Nat /\ Len(queue) >= 1
      /\ DOMAIN queue = 1..Len(queue) /\ DOMAIN queue' = 1..(Len(queue) - 1)
      /\ \A i \in 1..(Len(queue) - 1) : queue'[i] = queue[i + 1]
  BY Popped DEF TypeInv, TypeOK
<1>2. \A i \in Nat : i \in T <=> i + 1 \in S
  BY <1>1 DEF QueuedProbes
<1>3. S \in SUBSET (2..Len(queue)) /\ T \in SUBSET Nat
  BY <1>1 DEF QueuedProbes
<1>4. 1 \in Q <=> IsProbe(Head(queue), b, p, d)
  BY <1>1 DEF QueuedProbes, IsProbe
<1>5. Cardinality(S) = IF 1 \in Q THEN Cardinality(Q) - 1 ELSE Cardinality(Q)
  BY ProbesFinite, FS_RemoveElement
<1>6. Q = {} => T = {}
  BY <1>2, <1>3
<1> HIDE DEF Q, S, T
<1>7. Cardinality(T) = Cardinality(S)
  BY <1>1, <1>2, <1>3, ShiftCardinality
<1> QED BY <1>4, <1>5, <1>6, <1>7 DEF Q, T

\* What the end of a probe puts on the queue: a mark, and then its row.
LEMMA EndWrites ==
    ASSUME IndInv, NEW b \in Batcher, NEW m \in Model, NEW ok \in BOOLEAN, ProbeEnds(b, m, ok)
    PROVE  \E s \in Seq(Write) : /\ queue' = queue \o s /\ Len(s) >= 1
                                 /\ s[Len(s)] = ProbeRow(b, m)
                                 /\ \A i \in 1..(Len(s) - 1) : s[i].op # "probe"
<1> DEFINE t == IF ok THEN SuccessWrites(m) ELSE FailureWrites(m)
           s == t \o <<ProbeRow(b, m)>>
<1>1. TypeInv
  BY DEF IndInv
<1>2. probe[b][m] = "sent" /\ queue' = (queue \o t) \o <<ProbeRow(b, m)>>
  BY DEF ProbeEnds
<1>3. t \in Seq(Write) /\ \A i \in 1..Len(t) : t[i].op # "probe"
  <2>1. CASE ok
    BY <1>1, <2>1, MarkWrites
  <2>2. CASE ~ok
    <3>1. models[m].known
      BY <1>2 DEF IndInv, KnownInv, Live
    <3> QED BY <1>1, <2>2, <3>1, MarkWrites
  <2> QED BY <2>1, <2>2
<1> HIDE DEF t
<1>4. /\ s \in Seq(Write) /\ Len(t) \in Nat /\ Len(s) = Len(t) + 1
      /\ \A i \in 1..Len(t) : s[i] = t[i]
      /\ s[Len(t) + 1] = ProbeRow(b, m)
      /\ (queue \o t) \o <<ProbeRow(b, m)>> = queue \o s
  BY <1>1, <1>3, ProbeWrites, LenProperties
<1>5. queue' = queue \o s
  BY <1>2, <1>4
<1> HIDE DEF s
<1>6. /\ Len(s) >= 1 /\ s[Len(s)] = ProbeRow(b, m)
      /\ \A i \in 1..(Len(s) - 1) : s[i].op # "probe"
  BY <1>3, <1>4
<1> QED BY <1>4, <1>5, <1>6

\* No step but the end of one of b's probes changes what b has spent.
LEMMA SpentKept ==
    ASSUME IndInv, Next, NEW b \in Batcher, NEW p \in Provider, NEW d \in Day,
           \A m \in Model, ok \in BOOLEAN : ~ProbeEnds(b, m, ok)
    PROVE  /\ Spent(b, p, d)' = Spent(b, p, d)
           /\ QueuedProbes(b, p, d) = {} =>
                 QueuedProbes(b, p, d)' = {} /\ probeRows'[b][p][d] = probeRows[b][p][d]
<1> DEFINE Goal == /\ Spent(b, p, d)' = Spent(b, p, d)
                   /\ QueuedProbes(b, p, d) = {} =>
                         QueuedProbes(b, p, d)' = {} /\ probeRows'[b][p][d] = probeRows[b][p][d]
<1>1. TypeInv /\ queue \in Seq(Write)
  BY DEF IndInv, TypeInv, TypeOK
<1>2. ASSUME probeRows' = probeRows, NEW s \in Seq(Write), queue' = queue \o s,
             \A i \in 1..Len(s) : ~IsProbe(s[i], b, p, d)
      PROVE  Goal
  <2>1. QueuedProbes(b, p, d)' = QueuedProbes(b, p, d)
    BY <1>1, <1>2, ProbesKept
  <2> QED BY <1>2, <2>1 DEF Spent
<1>3. CASE WriterApply
  <2> DEFINE w == Head(queue)
             c == Cardinality(QueuedProbes(b, p, d))
             e == Cardinality(QueuedProbes(b, p, d)')
             r == probeRows[b][p][d]
  <2>1. queue # <<>> /\ queue' = Tail(queue)
    BY <1>3 DEF WriterApply
  <2>2. /\ e = IF IsProbe(w, b, p, d) THEN c - 1 ELSE c
        /\ QueuedProbes(b, p, d) = {} => QueuedProbes(b, p, d)' = {} /\ ~IsProbe(w, b, p, d)
    BY <1>1, <2>1, ProbesPopped
  <2>3. w \in Write
    BY <1>1, <2>1, Popped
  <2>4. probeRows'[b][p][d] = IF IsProbe(w, b, p, d) THEN r + 1 ELSE r
    <3>1. probeRows \in [Batcher -> [Provider -> [Day -> Nat]]]
      BY <1>1 DEF TypeInv, TypeOK
    <3>2. CASE w.op = "probe"
      <4>1. probeRows' = [probeRows EXCEPT ![w.by][w.provider][w.day] = @ + 1]
        BY <1>3, <3>2 DEF WriterApply
      <4>2. w.by \in Batcher /\ w.provider \in Provider /\ w.day \in Day
        BY <2>3, <3>2, WriteFields
      <4> HIDE DEF w
      <4> QED BY <3>1, <3>2, <4>1, <4>2 DEF IsProbe
    <3>3. CASE w.op # "probe"
      BY <1>3, <3>3 DEF WriterApply, IsProbe
    <3> QED BY <3>2, <3>3
  <2>5. c \in Nat /\ r \in Nat
    BY <1>1, ProbesFinite
  <2>6. Spent(b, p, d) = r + c /\ Spent(b, p, d)' = probeRows'[b][p][d] + e
    BY DEF Spent
  <2> HIDE DEF w, c, e, r
  <2>7. Spent(b, p, d)' = Spent(b, p, d)
    BY <2>2, <2>4, <2>5, <2>6
  <2> QED BY <2>2, <2>4, <2>7 DEF r
<1>4. ASSUME NEW m \in Model, RequestFails(m) PROVE Goal
  <2>1. /\ probeRows' = probeRows /\ models[m].known /\ queue' = queue \o FailureWrites(m)
    BY <1>4 DEF RequestFails
  <2>2. /\ FailureWrites(m) \in Seq(Write) /\ Len(FailureWrites(m)) = 1
        /\ FailureWrites(m)[1].op = "failure"
    BY <1>1, <2>1, MarkWrites
  <2>3. \A i \in 1..Len(FailureWrites(m)) : ~IsProbe(FailureWrites(m)[i], b, p, d)
    BY <2>2 DEF IsProbe
  <2> HIDE DEF Goal
  <2> QED BY <1>2, <2>1, <2>2, <2>3
<1>5. ASSUME NEW m \in Model, RequestSucceeds(m) PROVE Goal
  <2>1. /\ probeRows' = probeRows /\ queue' = queue \o SuccessWrites(m)
    BY <1>5 DEF RequestSucceeds
  <2>2. /\ SuccessWrites(m) \in Seq(Write) /\ Len(SuccessWrites(m)) = 1
        /\ SuccessWrites(m)[1].op = "success"
    BY <1>1, MarkWrites
  <2>3. \A i \in 1..Len(SuccessWrites(m)) : ~IsProbe(SuccessWrites(m)[i], b, p, d)
    BY <2>2 DEF IsProbe
  <2> HIDE DEF Goal
  <2> QED BY <1>2, <2>1, <2>2, <2>3
<1>6. ASSUME Bystander PROVE Goal
  <2>1. PICK s \in Seq(Write) :
           queue' = queue \o s /\ \A i \in 1..Len(s) : s[i].op \in Plain
    BY <1>6 DEF Bystander
  <2>2. \A i \in 1..Len(s) : ~IsProbe(s[i], b, p, d)
    BY <2>1 DEF Plain, IsProbe
  <2>3. probeRows' = probeRows /\ queue' = queue \o s
    BY <1>6, <2>1 DEF Bystander
  <2>4. s \in Seq(Write)
    OBVIOUS
  <2> HIDE DEF Goal
  <2> QED BY <1>2, <2>2, <2>3, <2>4
<1>7. ASSUME NEW c \in Batcher, NEW m \in Model, NEW ok \in BOOLEAN, ProbeEnds(c, m, ok)
      PROVE  Goal
  <2>1. c # b /\ probeRows' = probeRows
    BY <1>7 DEF ProbeEnds
  <2>2. PICK s \in Seq(Write) : /\ queue' = queue \o s /\ Len(s) >= 1
                                /\ s[Len(s)] = ProbeRow(c, m)
                                /\ \A i \in 1..(Len(s) - 1) : s[i].op # "probe"
    BY <1>7, EndWrites
  <2>3. ProbeRow(c, m).by = c
    BY <1>1, ProbeRowType
  <2>4. \A i \in 1..Len(s) : i = Len(s) \/ i \in 1..(Len(s) - 1)
    BY LenProperties
  <2>5. \A i \in 1..Len(s) : ~IsProbe(s[i], b, p, d)
    BY <2>1, <2>2, <2>3, <2>4 DEF IsProbe
  <2> HIDE DEF Goal
  <2> QED BY <1>2, <2>1, <2>2, <2>5
<1> QED BY <1>1, <1>3, <1>4, <1>5, <1>6, <1>7, QueueSteps

\* The clock never goes back.
LEMMA TimePasses ==
    ASSUME TypeInv, Next
    PROVE  Today \in Nat /\ Today' \in Nat /\ Today <= Today'
<1>1. now' = now \/ now' = now + 1
  <2>1. CASE WriterApply \/ Tick \/ AdminRefresh \/ RefreshBegin
    BY <2>1 DEF WriterApply, Tick, AdminRefresh, RefreshBegin
  <2>2. ASSUME NEW m \in Model, RequestFails(m) \/ RequestSucceeds(m) PROVE now' = now
    BY <2>2 DEF RequestFails, RequestSucceeds
  <2>3. ASSUME NEW who \in Who, Gating(who) PROVE now' = now
    BY <2>3 DEF Gating, FlushReturns, GateRead, GateWrite, RecomputeReadiness
  <2>4. ASSUME NEW m \in Model, NEW on \in BOOLEAN, AdminSetActive(m, on) PROVE now' = now
    BY <2>4 DEF AdminSetActive
  <2>5. ASSUME NEW conf \in Configs, AdminStore(conf) PROVE now' = now
    BY <2>5 DEF AdminStore
  <2>6. ASSUME NEW who \in Who, Reload(who) PROVE now' = now
    BY <2>6 DEF Reload, ClearRegistry, Register, SyncBegin, SyncProvider, Publish
  <2>7. ASSUME NEW r \in Runner, Discovery(r) PROVE now' = now
    BY <2>7 DEF Discovery, DiscoveryBegin, DiscoverModels, DiscoverRaises, DiscoveryDone,
                BootstrapSkips
  <2>8. ASSUME NEW b \in Batcher, Probing(b) PROVE now' = now
    <3>1. ASSUME NEW m \in Model,
                 \/ ProbeSkipped(b, m) \/ ProbeUnroutable(b, m) \/ ProbeOverBudget(b, m)
                 \/ ProbeReserve(b, m) \/ ProbeSend(b, m)
          PROVE  now' = now
      BY <3>1 DEF ProbeSkipped, ProbeUnroutable, ProbeOverBudget, ProbeReserve, ProbeSend
    <3>2. ASSUME NEW m \in Model, NEW ok \in BOOLEAN, ProbeEnds(b, m, ok) PROVE now' = now
      BY <3>2 DEF ProbeEnds
    <3>3. ASSUME NEW due \in SUBSET Model, BatchStart(b, due) PROVE now' = now
      BY <3>3 DEF BatchStart
    <3>4. CASE BatchEnd(b)
      BY <3>4 DEF BatchEnd
    <3> QED BY <2>8, <3>1, <3>2, <3>3, <3>4 DEF Probing
  <2> QED BY <2>1, <2>2, <2>3, <2>4, <2>5, <2>6, <2>7, <2>8 DEF Next
<1>2. now \in Nat /\ DayLength \in Nat \ {0}
  BY ModelHealthAssumption DEF TypeInv, TypeOK
<1> QED BY <1>1, <1>2 DEF Today

\* The steps of the other thread, and of nobody, leave the event loop where it is.
LEMMA LoopStays ==
    ASSUME TypeInv, NEW who \in Who, who # "loop", Gating(who) \/ Reload(who)
    PROVE  gater'["loop"] = gater["loop"]
<1>1. DOMAIN gater = Who /\ "loop" \in Who
  BY DEF TypeInv, TypeOK, Who
<1>2. \A v : [gater EXCEPT ![who] = v]["loop"] = gater["loop"]
  BY <1>1
<1>3. CASE FlushReturns(who)
  <2> DEFINE v == CASE At(who, "drain") -> "free" [] At(who, "flushed") -> "read"
                    [] OTHER -> "apply"
  <2>1. gater' = [gater EXCEPT ![who] = v]
    BY <1>3 DEF FlushReturns, Go
  <2> HIDE DEF v
  <2> QED BY <1>2, <2>1
<1>4. CASE GateRead(who)
  <2>1. gater' = [gater EXCEPT ![who] = "gate0"] \/ gater' = [gater EXCEPT ![who] = "gate"]
    BY <1>4 DEF GateRead, Go
  <2> QED BY <1>1, <2>1
<1>5. CASE GateWrite(who)
  <2> DEFINE v == CASE At(who, "gate0") -> IF reload[who].todo = {} THEN "apply" ELSE "flushed0"
                    [] At(who, "gate") -> IF reload[who].todo = {} THEN "read" ELSE "flushed"
  <2>1. gater' = [gater EXCEPT ![who] = v]
    BY <1>5 DEF GateWrite, Go
  <2> HIDE DEF v
  <2> QED BY <1>2, <2>1
<1>6. CASE RecomputeReadiness(who)
  BY <1>2, <1>6 DEF RecomputeReadiness, Go
<1>7. CASE Reload(who)
  <2>1. ASSUME NEW p \in Provider, Register(who, p) \/ SyncProvider(who, p)
        PROVE  gater' = gater
    BY <2>1 DEF Register, SyncProvider
  <2>2. CASE ClearRegistry(who)
    <3>1. gater' = [gater EXCEPT ![who] = "register"]
      BY <2>2 DEF ClearRegistry, Go
    <3> QED BY <1>1, <3>1
  <2>3. CASE SyncBegin(who)
    <3>1. gater' = [gater EXCEPT ![who] = "sync"]
      BY <2>3 DEF SyncBegin, Go
    <3> QED BY <1>1, <3>1
  <2>4. CASE Publish(who)
    <3>1. gater' = [gater EXCEPT ![who] = "apply0"]
      BY <2>4 DEF Publish, Go
    <3> QED BY <1>1, <3>1
  <2> QED BY <1>7, <2>1, <2>2, <2>3, <2>4 DEF Reload
<1> QED BY <1>3, <1>4, <1>5, <1>6, <1>7 DEF Gating

\* flush() returns on the event loop only with the queue empty.
LEMMA FlushEmpties ==
    ASSUME TypeInv, Next, gater["loop"] = "flush", gater'["loop"] # "flush"
    PROVE  queue = <<>> /\ queue' = <<>>
<1>1. gater.loop = gater["loop"]
  OBVIOUS
<1>2. gater \in [Who -> {"free", "drain", "flush", "clear", "register", "sync", "apply0",
                       "gate0", "flushed0", "apply", "gate", "flushed", "read"}]
  BY DEF TypeInv, TypeOK
<1>3. FlushReturns("loop")
  <2>1. ASSUME NEW who \in Who, Gating(who) \/ Reload(who) PROVE FlushReturns("loop")
    <3>1. CASE who = "loop"
      <4>1. CASE Gating("loop")
        BY <4>1 DEF Gating, GateRead, GateWrite, RecomputeReadiness, At
      <4>2. CASE Reload("loop")
        BY <4>2 DEF Reload, ClearRegistry, Register, SyncBegin, SyncProvider, Publish, At
      <4> QED BY <2>1, <3>1, <4>1, <4>2
    <3>2. CASE who # "loop"
      BY <2>1, <3>2, LoopStays
    <3> QED BY <3>1, <3>2
  <2>2. ASSUME RefreshBegin PROVE FALSE
    <3>1. gater' = [gater EXCEPT !["thread"] = "clear"]
      BY <2>2 DEF RefreshBegin, Go
    <3> QED BY <1>2, <3>1 DEF Who
  <2>3. ASSUME WriterApply \/ Tick PROVE FALSE
    BY <2>3 DEF WriterApply, Tick
  <2>4. gater.loop # "free"
    BY <1>1
  <2>5. ~\E m \in Model : RequestFails(m) \/ RequestSucceeds(m)
    BY <2>4 DEF RequestFails, RequestSucceeds
  <2>6. ~\E m \in Model, on \in BOOLEAN : AdminSetActive(m, on)
    BY <2>4 DEF AdminSetActive
  <2>7. ~AdminRefresh /\ ~\E conf \in Configs : AdminStore(conf)
    BY <2>4 DEF AdminStore, AdminRefresh
  <2>8. ASSUME NEW r \in Runner, Discovery(r) PROVE FALSE
    BY <2>4, <2>8 DEF Discovery, DiscoveryBegin, DiscoverModels, DiscoverRaises,
                      DiscoveryDone, BootstrapSkips
  <2>9. ASSUME NEW b \in Batcher, Probing(b) PROVE FALSE
    <3>1. ~\E m \in Model :
              \/ ProbeSkipped(b, m) \/ ProbeUnroutable(b, m) \/ ProbeOverBudget(b, m)
              \/ ProbeReserve(b, m) \/ ProbeSend(b, m)
      BY <2>4 DEF ProbeSkipped, ProbeUnroutable, ProbeOverBudget, ProbeReserve, ProbeSend
    <3>2. ~\E m \in Model, ok \in BOOLEAN : ProbeEnds(b, m, ok)
      BY <2>4 DEF ProbeEnds
    <3>3. ~BatchEnd(b) /\ ~\E due \in SUBSET Model : BatchStart(b, due)
      BY <2>4 DEF BatchStart, BatchEnd
    <3> QED BY <2>9, <3>1, <3>2, <3>3 DEF Probing
  <2> QED BY <2>1, <2>2, <2>3, <2>5, <2>6, <2>7, <2>8, <2>9 DEF Next
<1> QED BY <1>3 DEF FlushReturns

\* An empty queue holds no probe.
LEMMA EmptyProbes ==
    ASSUME queue = <<>>, NEW b, NEW p, NEW d
    PROVE  QueuedProbes(b, p, d) = {}
<1>1. DOMAIN queue = {}
  OBVIOUS
<1> QED BY <1>1 DEF QueuedProbes

\* A step that leaves b's batch and its reservations alone: anybody else's, the batches
\* of the others with them, and of b's own those that skip a probe or send it.
LEMMA BudgetIdle ==
    ASSUME IndInv, Next, NEW b \in Batcher, BudgetInv(b),
           batch'[b].state = batch[b].state, batch'[b].day = batch[b].day,
           batch'[b].usage = batch[b].usage,
           \A p \in Provider : Outstanding(b, p)' = Outstanding(b, p)
    PROVE  BudgetInv(b)'
<1>1. TypeInv
  BY DEF IndInv
<1>2. \A m \in Model, ok \in BOOLEAN : ~ProbeEnds(b, m, ok)
  <2> SUFFICES ASSUME NEW m \in Model, NEW ok \in BOOLEAN, ProbeEnds(b, m, ok)
               PROVE  FALSE
    OBVIOUS
  <2>1. probe[b][m] = "sent" /\ probe' = [probe EXCEPT ![b][m] = "done"]
    BY DEF ProbeEnds
  <2>2. probe \in [Batcher -> [Model -> Phase]] /\ ProviderOf[m] \in Provider
    BY <1>1, ModelHealthAssumption DEF TypeInv, TypeOK, Phase
  <2>3. probe'[b][m] = "done"
    BY <2>1, <2>2
  <2>4. m \in Outstanding(b, ProviderOf[m]) /\ m \notin Outstanding(b, ProviderOf[m])'
    BY <2>1, <2>3 DEF Outstanding
  <2> QED BY <2>2, <2>4
<1>3. \A p \in Provider, d \in Day :
         /\ Spent(b, p, d)' = Spent(b, p, d)
         /\ QueuedProbes(b, p, d) = {} =>
               QueuedProbes(b, p, d)' = {} /\ probeRows'[b][p][d] = probeRows[b][p][d]
  BY <1>2, SpentKept
<1>4. Today \in Nat /\ Today' \in Nat /\ Today <= Today'
  BY <1>1, TimePasses
<1>5. batch[b].day \in Nat
  BY <1>1, ModelHealthAssumption DEF TypeInv, TypeOK, Day
<1>6. batch'[b].state = "running" => batch'[b].day <= Today'
  BY <1>4, <1>5 DEF BudgetInv
<1>7. \A p \in Provider, d \in Day : d > Today' => Spent(b, p, d)' = 0
  <2> SUFFICES ASSUME NEW p \in Provider, NEW d \in Day, d > Today' PROVE Spent(b, p, d)' = 0
    OBVIOUS
  <2>1. d > Today
    BY <1>4, ModelHealthAssumption DEF Day
  <2> QED BY <1>3, <2>1 DEF BudgetInv
<1>8. ASSUME batch'[b].state = "idle", gater'["loop"] # "flush",
             NEW p \in Provider, NEW d \in Day
      PROVE  QueuedProbes(b, p, d)' = {}
  <2>1. CASE gater["loop"] = "flush"
    <3>1. queue' = <<>>
      BY <1>1, <1>8, <2>1, FlushEmpties
    <3> QED BY <3>1 DEF QueuedProbes
  <2>2. CASE gater["loop"] # "flush"
    BY <1>3, <1>8, <2>2 DEF BudgetInv
  <2> QED BY <2>1, <2>2
<1>9. ASSUME batch'[b].state = "running", NEW p \in Provider
      PROVE  (IF p \in DOMAIN batch[b].usage THEN Covered(b, p) ELSE Untouched(b, p))'
  <2>1. IF p \in DOMAIN batch[b].usage THEN Covered(b, p) ELSE Untouched(b, p)
    BY <1>9 DEF BudgetInv
  <2>2. CASE p \in DOMAIN batch[b].usage
    BY <1>3, <2>1, <2>2 DEF Covered
  <2>3. CASE p \notin DOMAIN batch[b].usage
    BY <1>3, <2>1, <2>3 DEF Untouched
  <2> QED BY <2>2, <2>3
<1>10. \A p \in Provider, d \in Day : Spent(b, p, d)' <= Budget[p]
  BY <1>3 DEF BudgetInv
<1> QED BY <1>6, <1>7, <1>8, <1>9, <1>10 DEF BudgetInv

\* A step of the running batch b on provider p: what is spent, reserved and remembered
\* changes for p alone.
LEMMA BudgetOf ==
    ASSUME IndInv, Next, Today' = Today, NEW b \in Batcher, NEW p \in Provider, BudgetInv(b),
           batch[b].state = "running", batch'[b].state = "running",
           batch'[b].day = batch[b].day,
           \A q \in Provider \ {p} :
              /\ Outstanding(b, q)' = Outstanding(b, q)
              /\ q \in DOMAIN batch'[b].usage <=> q \in DOMAIN batch[b].usage
              /\ q \in DOMAIN batch[b].usage => batch'[b].usage[q] = batch[b].usage[q]
              /\ \A d \in Day :
                    /\ Spent(b, q, d)' = Spent(b, q, d)
                    /\ QueuedProbes(b, q, d) = {} =>
                          QueuedProbes(b, q, d)' = {} /\ probeRows'[b][q][d] = probeRows[b][q][d],
           \A d \in Day : d > Today => Spent(b, p, d)' = 0,
           p \in DOMAIN batch'[b].usage, Covered(b, p)',
           \A d \in Day : Spent(b, p, d)' <= Budget[p]
    PROVE  BudgetInv(b)'
<1>1. batch'[b].state = "running" => batch'[b].day <= Today'
  BY DEF BudgetInv
<1>2. ASSUME NEW q \in Provider, NEW d \in Day
      PROVE  Spent(b, q, d)' <= Budget[q] /\ (d > Today' => Spent(b, q, d)' = 0)
  <2>1. CASE q = p
    BY <2>1
  <2>2. CASE q # p
    BY <2>2 DEF BudgetInv
  <2> QED BY <2>1, <2>2
<1>3. ASSUME NEW q \in Provider
      PROVE  (IF q \in DOMAIN batch[b].usage THEN Covered(b, q) ELSE Untouched(b, q))'
  <2>1. CASE q = p
    BY <2>1
  <2>2. CASE q # p
    <3>1. IF q \in DOMAIN batch[b].usage THEN Covered(b, q) ELSE Untouched(b, q)
      BY DEF BudgetInv
    <3>2. CASE q \in DOMAIN batch[b].usage
      BY <2>2, <3>1, <3>2 DEF Covered
    <3>3. CASE q \notin DOMAIN batch[b].usage
      BY <2>2, <3>1, <3>3 DEF Untouched
    <3> QED BY <3>2, <3>3
  <2> QED BY <2>1, <2>2
<1> QED BY <1>1, <1>2, <1>3 DEF BudgetInv

\* The budget is looked at, and one request reserved or none.
LEMMA BudgetReserves ==
    ASSUME IndInv, Next, NEW b \in Batcher, BudgetInv(b), NEW m \in Model,
           ProbeOverBudget(b, m) \/ ProbeReserve(b, m)
    PROVE  BudgetInv(b)'
<1> DEFINE p == ProviderOf[m]
           n == UsageSeen(b, p)
<1>1. /\ TypeInv /\ PermitInv /\ batch \in [Batcher -> BatchRecord]
      /\ probe \in [Batcher -> [Model -> Phase]]
  BY DEF IndInv, TypeInv, TypeOK, Phase
<1>2. p \in Provider /\ probe[b][m] = "new" /\ now' = now
  BY ModelHealthAssumption DEF ProbeOverBudget, ProbeReserve
<1>3. n \in Nat /\ Budget[p] \in Nat
  BY <1>1, <1>2, UsageType, ModelHealthAssumption
<1>4. PICK k \in {n, n + 1} :
         /\ batch' = Remember(b, p, k)
         /\ k = n => Budget[p] <= n /\ probe' = [probe EXCEPT ![b][m] = "done"]
         /\ k = n + 1 => n < Budget[p] /\ probe' = [probe EXCEPT ![b][m] = "reserved"]
  BY <1>3 DEF ProbeOverBudget, ProbeReserve
<1>5. /\ batch'[b].state = batch[b].state /\ batch'[b].day = batch[b].day
      /\ DOMAIN batch'[b].usage = DOMAIN batch[b].usage \union {p}
      /\ batch'[b].usage[p] = k
      /\ \A q \in DOMAIN batch[b].usage : q # p => batch'[b].usage[q] = batch[b].usage[q]
  <2>1. k \in Nat
    BY <1>3
  <2> HIDE DEF p, n
  <2> QED BY <1>1, <1>2, <1>4, <2>1, RememberType
<1>6. batch[b].state = "running" /\ Today' = Today
  BY <1>1, <1>2 DEF PermitInv, Live, Today
<1>7. /\ \A q \in Provider \ {p} : Outstanding(b, q)' = Outstanding(b, q)
      /\ k = n => Outstanding(b, p)' = Outstanding(b, p)
      /\ k = n + 1 => Outstanding(b, p)' = Outstanding(b, p) \cup {m} /\ m \notin Outstanding(b, p)
  BY <1>1, <1>2, <1>3, <1>4 DEF Outstanding
<1>8. \A c \in Model, ok \in BOOLEAN : ~ProbeEnds(b, c, ok)
  <2> SUFFICES ASSUME NEW c \in Model, NEW ok \in BOOLEAN, ProbeEnds(b, c, ok)
               PROVE  FALSE
    OBVIOUS
  <2>1. probe[b][c] = "sent" /\ probe' = [probe EXCEPT ![b][c] = "done"]
    BY DEF ProbeEnds
  <2>2. probe'[b][c] = "done" /\ c # m
    BY <1>1, <1>2, <2>1
  <2>3. probe'[b][c] = probe[b][c]
    BY <1>1, <1>4, <2>2
  <2> QED BY <2>1, <2>2, <2>3
<1>9. \A q \in Provider, d \in Day :
         /\ Spent(b, q, d)' = Spent(b, q, d)
         /\ QueuedProbes(b, q, d) = {} =>
               QueuedProbes(b, q, d)' = {} /\ probeRows'[b][q][d] = probeRows[b][q][d]
  BY <1>8, SpentKept
<1>10. batch[b].day \in Day /\ batch[b].day \in Nat /\ Day \subseteq Nat
  BY <1>1, ModelHealthAssumption DEF BatchRecord, Day
<1>11. n = IF p \in DOMAIN batch[b].usage THEN batch[b].usage[p]
           ELSE ProbeUsage(p, batch[b].day)
  BY DEF UsageSeen
<1> HIDE DEF p, n
<1>12. probeRows[b][p][batch[b].day] <= ProbeUsage(p, batch[b].day)
  <2>1. \A c \in Batcher : probeRows[c][p][batch[b].day] \in Nat
    BY <1>1, <1>2, <1>10 DEF TypeInv, TypeOK
  <2>2. /\ probeRows["health"][p][batch[b].day] \in Nat
        /\ probeRows["job"][p][batch[b].day] \in Nat
        /\ probeRows["admin"][p][batch[b].day] \in Nat
    BY <2>1 DEF Batcher
  <2>3. b = "health" \/ b = "job" \/ b = "admin"
    BY DEF Batcher
  <2> QED BY <2>2, <2>3 DEF ProbeUsage
<1>13. ASSUME NEW d \in Day, d >= batch[b].day
       PROVE  /\ Spent(b, p, d) + Cardinality(Outstanding(b, p)) <= n
              /\ Spent(b, p, d) + Cardinality(Outstanding(b, p)) <= Budget[p]
  <2>1. CASE p \in DOMAIN batch[b].usage
    BY <1>2, <1>6, <1>11, <1>13, <2>1 DEF BudgetInv, Covered
  <2>2. CASE p \notin DOMAIN batch[b].usage
    <3>1. Untouched(b, p) /\ Cardinality({}) = 0 /\ Spent(b, p, d) <= Budget[p]
      BY <1>2, <1>6, <2>2, FS_EmptySet DEF BudgetInv
    <3>2. Spent(b, p, d) = probeRows[b][p][d] /\ probeRows[b][p][d] \in Nat
      <4>1. Cardinality(QueuedProbes(b, p, d)) = 0
        BY <3>1 DEF Untouched
      <4>2. probeRows[b][p][d] \in Nat
        BY <1>1, <1>2, ProbesFinite
      <4> QED BY <4>1, <4>2 DEF Spent
    <3>3. d = batch[b].day \/ d > batch[b].day
      BY <1>10, <1>13
    <3>4. probeRows[b][p][d] <= n
      <4>1. CASE d = batch[b].day
        BY <1>11, <1>12, <2>2, <4>1
      <4>2. CASE d > batch[b].day
        BY <1>3, <3>1, <4>2 DEF Untouched
      <4> QED BY <3>3, <4>1, <4>2
    <3>5. Cardinality(Outstanding(b, p)) = 0
      BY <3>1 DEF Untouched
    <3> QED BY <1>3, <3>1, <3>2, <3>4, <3>5
  <2> QED BY <2>1, <2>2
<1>14. ASSUME NEW d \in Day, d >= batch[b].day
       PROVE  /\ Spent(b, p, d)' + Cardinality(Outstanding(b, p)') <= k
              /\ Spent(b, p, d)' + Cardinality(Outstanding(b, p)') <= Budget[p]
  <2>1. Cardinality(Outstanding(b, p)) \in Nat /\ IsFiniteSet(Outstanding(b, p))
    BY <1>2, OutstandingFinite
  <2>2. Spent(b, p, d) \in Nat /\ Spent(b, p, d)' = Spent(b, p, d)
    BY <1>1, <1>2, <1>9, ProbesFinite
  <2>3. CASE k = n
    BY <1>7, <1>13, <1>14, <2>2, <2>3
  <2>4. CASE k = n + 1
    <3>1. Cardinality(Outstanding(b, p)') = Cardinality(Outstanding(b, p)) + 1
      BY <1>7, <2>1, <2>4, FS_AddElement
    <3>2. n < Budget[p] /\ Spent(b, p, d) + Cardinality(Outstanding(b, p)) <= n
      BY <1>4, <1>13, <1>14, <2>4
    <3> QED BY <1>3, <2>1, <2>2, <2>4, <3>1, <3>2
  <2> QED BY <1>4, <2>3, <2>4
<1>15. Covered(b, p)'
  BY <1>5, <1>14 DEF Covered
<1>16. \A d \in Day : d > Today => Spent(b, p, d)' = 0
  BY <1>2, <1>9 DEF BudgetInv
<1>17. \A d \in Day : Spent(b, p, d)' <= Budget[p]
  BY <1>2, <1>9 DEF BudgetInv
<1>18. \A q \in Provider \ {p} :
          /\ Outstanding(b, q)' = Outstanding(b, q)
          /\ q \in DOMAIN batch'[b].usage <=> q \in DOMAIN batch[b].usage
          /\ q \in DOMAIN batch[b].usage => batch'[b].usage[q] = batch[b].usage[q]
          /\ \A d \in Day :
                /\ Spent(b, q, d)' = Spent(b, q, d)
                /\ QueuedProbes(b, q, d) = {} =>
                      QueuedProbes(b, q, d)' = {} /\ probeRows'[b][q][d] = probeRows[b][q][d]
  BY <1>5, <1>7, <1>9
<1>19. p \in DOMAIN batch'[b].usage /\ batch'[b].state = "running"
  BY <1>5, <1>6
<1> QED BY <1>2, <1>5, <1>6, <1>15, <1>16, <1>17, <1>18, <1>19, BudgetOf

\* A probe ends: one request less is reserved and one more is logged, on a day that is
\* not before the one the batch began on.
LEMMA BudgetEnds ==
    ASSUME IndInv, Next, NEW b \in Batcher, BudgetInv(b), NEW m \in Model, NEW ok \in BOOLEAN,
           ProbeEnds(b, m, ok)
    PROVE  BudgetInv(b)'
<1> DEFINE p == ProviderOf[m]
<1>1. /\ TypeInv /\ PermitInv /\ batch \in [Batcher -> BatchRecord]
      /\ probe \in [Batcher -> [Model -> Phase]]
  BY DEF IndInv, TypeInv, TypeOK, Phase
<1>2. /\ probe[b][m] = "sent" /\ probe' = [probe EXCEPT ![b][m] = "done"]
      /\ batch' = [batch EXCEPT ![b].free = batch[b].free + 1]
      /\ probeRows' = probeRows /\ now' = now
  BY DEF ProbeEnds
<1>3. batch[b].state = "running" /\ p \in Provider /\ Today' = Today
  BY <1>1, <1>2, ModelHealthAssumption DEF PermitInv, Live, Today
<1>4. /\ batch'[b].state = batch[b].state /\ batch'[b].day = batch[b].day
      /\ batch'[b].usage = batch[b].usage
  BY <1>1, <1>2 DEF BatchRecord
<1>5. /\ Outstanding(b, p)' = Outstanding(b, p) \ {m} /\ m \in Outstanding(b, p)
      /\ \A q \in Provider \ {p} : Outstanding(b, q)' = Outstanding(b, q)
  BY <1>1, <1>2 DEF Outstanding
<1>6. PICK s \in Seq(Write) : /\ queue' = queue \o s /\ Len(s) >= 1
                              /\ s[Len(s)] = ProbeRow(b, m)
                              /\ \A i \in 1..(Len(s) - 1) : s[i].op # "probe"
  BY EndWrites
<1>7. ASSUME NEW q \in Provider, NEW d \in Day
      PROVE  Cardinality(QueuedProbes(b, q, d)') =
                IF IsProbe(ProbeRow(b, m), b, q, d) THEN Cardinality(QueuedProbes(b, q, d)) + 1
                ELSE Cardinality(QueuedProbes(b, q, d))
  BY <1>1, <1>6, ProbesAdded
<1>8. \A q \in Provider, d \in Day : IsProbe(ProbeRow(b, m), b, q, d) <=> q = p /\ d = Today
  BY <1>1, ProbeRowType DEF IsProbe
<1> HIDE DEF p
<1>9. \A q \in Provider, d \in Day :
         /\ Spent(b, q, d) \in Nat
         /\ Spent(b, q, d)' = IF q = p /\ d = Today THEN Spent(b, q, d) + 1 ELSE Spent(b, q, d)
  <2> TAKE q \in Provider, d \in Day
  <2>1. /\ probeRows[b][q][d] \in Nat /\ Cardinality(QueuedProbes(b, q, d)) \in Nat
        /\ Spent(b, q, d) \in Nat
    BY <1>1, ProbesFinite
  <2>2. /\ Spent(b, q, d) = probeRows[b][q][d] + Cardinality(QueuedProbes(b, q, d))
        /\ Spent(b, q, d)' = probeRows[b][q][d] + Cardinality(QueuedProbes(b, q, d)')
    BY <1>2 DEF Spent
  <2> QED BY <1>7, <1>8, <2>1, <2>2
<1>10. \A q \in Provider \ {p}, d \in Day :
          QueuedProbes(b, q, d) = {} =>
             QueuedProbes(b, q, d)' = {} /\ probeRows'[b][q][d] = probeRows[b][q][d]
  <2> TAKE q \in Provider \ {p}, d \in Day
  <2>1. Cardinality(QueuedProbes(b, q, d)') = Cardinality(QueuedProbes(b, q, d))
    BY <1>7, <1>8
  <2>2. IsFiniteSet(QueuedProbes(b, q, d)')
    <3>1. TypeInv'
      BY TypeKept DEF IndInv
    <3>2. queue' \in Seq(Write)
      BY <3>1 DEF TypeInv, TypeOK
    <3>3. Len(queue') \in Nat /\ DOMAIN queue' = 1..Len(queue')
      BY <3>2, LenProperties
    <3>4. IsFiniteSet(1..Len(queue'))
      BY <3>3, FS_Interval
    <3>5. QueuedProbes(b, q, d)' \in SUBSET (1..Len(queue'))
      BY <3>3 DEF QueuedProbes
    <3> QED BY <3>4, <3>5, FS_Subset
  <2> QED BY <1>2, <2>1, <2>2, FS_EmptySet
<1>11. p \in DOMAIN batch[b].usage /\ Covered(b, p)
  BY <1>3, <1>5 DEF BudgetInv, Untouched
<1>12. /\ Cardinality(Outstanding(b, p)) \in Nat
       /\ Cardinality(Outstanding(b, p)') = Cardinality(Outstanding(b, p)) - 1
       /\ Cardinality(Outstanding(b, p)) >= 1
  <2>1. IsFiniteSet(Outstanding(b, p)) /\ Cardinality(Outstanding(b, p)) \in Nat
    BY <1>3, OutstandingFinite
  <2>2. Cardinality(Outstanding(b, p)') = Cardinality(Outstanding(b, p)) - 1
    BY <1>5, <2>1, FS_RemoveElement
  <2>3. Cardinality(Outstanding(b, p)) # 0
    BY <1>5, <2>1, FS_EmptySet
  <2> QED BY <2>1, <2>2, <2>3
<1>13. Today \in Day /\ batch[b].day <= Today /\ Day \subseteq Nat /\ batch[b].day \in Nat
  <2>1. Today \in Day
    BY <1>1, TodayType DEF TypeInv, TypeOK
  <2>2. batch[b].day <= Today
    BY <1>3 DEF BudgetInv
  <2> QED BY <1>1, <2>1, <2>2, ModelHealthAssumption DEF BatchRecord, Day
<1>14. Budget[p] \in Nat
  BY <1>3, ModelHealthAssumption
<1>15. batch[b].usage[p] \in Nat
  <2>1. UsageSeen(b, p) \in Nat
    BY <1>1, <1>3, UsageType
  <2> QED BY <1>11, <2>1 DEF UsageSeen
<1> DEFINE o == Cardinality(Outstanding(b, p))
           u == batch[b].usage[p]
<1>16. Covered(b, p)'
  <2> SUFFICES ASSUME NEW d \in Day, d >= batch[b].day
               PROVE  /\ Spent(b, p, d)' + Cardinality(Outstanding(b, p)') <= u
                      /\ Spent(b, p, d)' + Cardinality(Outstanding(b, p)') <= Budget[p]
    BY <1>4 DEF Covered
  <2>1. Spent(b, p, d) + o <= u /\ Spent(b, p, d) + o <= Budget[p]
    BY <1>11 DEF Covered
  <2>2. /\ Spent(b, p, d) \in Nat
        /\ Spent(b, p, d)' = Spent(b, p, d) + 1 \/ Spent(b, p, d)' = Spent(b, p, d)
    BY <1>3, <1>9
  <2>3. o \in Nat /\ Cardinality(Outstanding(b, p)') = o - 1 /\ u \in Nat
    BY <1>12, <1>15
  <2> HIDE DEF o, u
  <2> QED BY <1>14, <2>1, <2>2, <2>3
<1>17. \A d \in Day : Spent(b, p, d)' <= Budget[p]
  <2> TAKE d \in Day
  <2>1. CASE d = Today
    <3>1. Spent(b, p, d) + o <= Budget[p]
      BY <1>11, <1>13, <2>1 DEF Covered
    <3>2. Spent(b, p, d)' = Spent(b, p, d) + 1 /\ Spent(b, p, d) \in Nat
      BY <1>3, <1>9, <2>1
    <3>3. o \in Nat /\ o >= 1
      BY <1>12
    <3> HIDE DEF o
    <3> QED BY <1>14, <3>1, <3>2, <3>3
  <2>2. CASE d # Today
    BY <1>3, <1>9, <2>2 DEF BudgetInv
  <2> QED BY <2>1, <2>2
<1>18. \A d \in Day : d > Today => Spent(b, p, d)' = 0
  <2> SUFFICES ASSUME NEW d \in Day, d > Today PROVE Spent(b, p, d)' = 0
    OBVIOUS
  <2>1. d # Today
    BY <1>13
  <2> QED BY <1>3, <1>9, <2>1 DEF BudgetInv
<1>19. \A q \in Provider \ {p} :
          /\ Outstanding(b, q)' = Outstanding(b, q)
          /\ q \in DOMAIN batch'[b].usage <=> q \in DOMAIN batch[b].usage
          /\ q \in DOMAIN batch[b].usage => batch'[b].usage[q] = batch[b].usage[q]
          /\ \A d \in Day :
                /\ Spent(b, q, d)' = Spent(b, q, d)
                /\ QueuedProbes(b, q, d) = {} =>
                      QueuedProbes(b, q, d)' = {} /\ probeRows'[b][q][d] = probeRows[b][q][d]
  BY <1>4, <1>5, <1>9, <1>10
<1>20. p \in DOMAIN batch'[b].usage /\ batch'[b].state = "running"
  BY <1>3, <1>4, <1>11
<1> QED BY <1>3, <1>4, <1>16, <1>17, <1>18, <1>19, <1>20, BudgetOf

\* A batch begins with nothing of its runner's queued, and nothing logged after today.
LEMMA BudgetStarts ==
    ASSUME IndInv, Next, NEW b \in Batcher, BudgetInv(b), NEW due \in SUBSET Model,
           BatchStart(b, due)
    PROVE  BudgetInv(b)'
<1>1. /\ TypeInv /\ batch \in [Batcher -> BatchRecord]
      /\ probe \in [Batcher -> [Model -> Phase]]
  BY DEF IndInv, TypeInv, TypeOK, Phase
<1>2. /\ gater["loop"] = "free" /\ batch[b].state = "idle"
      /\ batch' = [batch EXCEPT ![b] = NewBatch(Today)]
      /\ probe' = [probe EXCEPT ![b] = [m \in Model |-> IF m \in due THEN "new" ELSE "none"]]
      /\ queue' = queue /\ probeRows' = probeRows /\ now' = now
  <2>1. gater.loop = "free" /\ gater.loop = gater["loop"]
    BY DEF BatchStart
  <2> QED BY <2>1 DEF BatchStart
<1>3. Today' = Today /\ Today \in Nat /\ Today \in Day
  BY <1>1, <1>2, TodayType DEF Today, TypeInv, TypeOK
<1>4. /\ batch'[b].state = "running" /\ batch'[b].day = Today
      /\ batch'[b].usage = [q \in {} |-> 0]
  BY <1>1, <1>2, <1>3, BatchTypes
<1>5. \A p \in Provider, d \in Day :
         /\ Spent(b, p, d)' = Spent(b, p, d)
         /\ QueuedProbes(b, p, d)' = QueuedProbes(b, p, d) /\ QueuedProbes(b, p, d) = {}
  BY <1>2 DEF Spent, QueuedProbes, BudgetInv
<1>6. \A p \in Provider : Outstanding(b, p)' = {}
  <2>1. \A m \in Model : probe'[b][m] \in {"new", "none"}
    BY <1>1, <1>2
  <2> QED BY <2>1 DEF Outstanding
<1>7. \A p \in Provider, d \in Day : d > Today => Spent(b, p, d) = 0 /\ probeRows[b][p][d] = 0
  <2> SUFFICES ASSUME NEW p \in Provider, NEW d \in Day, d > Today
               PROVE  Spent(b, p, d) = 0 /\ probeRows[b][p][d] = 0
    OBVIOUS
  <2>1. Spent(b, p, d) = 0
    BY DEF BudgetInv
  <2>2. probeRows[b][p][d] \in Nat /\ Cardinality(QueuedProbes(b, p, d)) \in Nat
    BY <1>1, ProbesFinite
  <2> QED BY <2>1, <2>2 DEF Spent
<1>8. \A p \in Provider : Untouched(b, p)' /\ p \notin DOMAIN batch'[b].usage
  <2>1. DOMAIN batch'[b].usage = {}
    BY <1>4
  <2> QED BY <1>2, <1>4, <1>5, <1>6, <1>7, <2>1 DEF Untouched
<1>9. /\ batch'[b].state = "running" => batch'[b].day <= Today'
      /\ \A p \in Provider, d \in Day : d > Today' => Spent(b, p, d)' = 0
      /\ \A p \in Provider, d \in Day : Spent(b, p, d)' <= Budget[p]
  BY <1>3, <1>4, <1>5, <1>7 DEF BudgetInv
<1> QED BY <1>4, <1>8, <1>9 DEF BudgetInv

\* A batch ends in a flush.
LEMMA BudgetStops ==
    ASSUME IndInv, Next, NEW b \in Batcher, BudgetInv(b), BatchEnd(b)
    PROVE  BudgetInv(b)'
<1>1. /\ TypeInv /\ batch \in [Batcher -> BatchRecord]
      /\ gater \in [Who -> {"free", "drain", "flush", "clear", "register", "sync", "apply0",
                          "gate0", "flushed0", "apply", "gate", "flushed", "read"}]
  BY DEF IndInv, TypeInv, TypeOK
<1>2. /\ batch' = [batch EXCEPT ![b] = NoBatch]
      /\ gater' = [gater EXCEPT !["loop"] = "flush"]
      /\ queue' = queue /\ probeRows' = probeRows /\ now' = now
  BY DEF BatchEnd, Go
<1>3. batch'[b].state = "idle" /\ gater'["loop"] = "flush" /\ Today' = Today
  <2>1. batch'[b].state = "idle"
    BY <1>1, <1>2, BatchTypes
  <2>2. gater'["loop"] = "flush"
    BY <1>1, <1>2 DEF Who
  <2>3. Today' = Today
    BY <1>2 DEF Today
  <2> QED BY <2>1, <2>2, <2>3
<1>4. \A p \in Provider, d \in Day : Spent(b, p, d)' = Spent(b, p, d)
  BY <1>2 DEF Spent, QueuedProbes
<1> QED BY <1>3, <1>4 DEF BudgetInv

\* Every step keeps what every runner spends within the budgets.
LEMMA BudgetStep ==
    ASSUME IndInv, Next, NEW b \in Batcher, BudgetInv(b)
    PROVE  BudgetInv(b)'
<1>1. /\ TypeInv /\ batch \in [Batcher -> BatchRecord]
      /\ probe \in [Batcher -> [Model -> Phase]]
  BY DEF IndInv, TypeInv, TypeOK, Phase
<1>2. CASE UNCHANGED <<batch, probe>>
  <2>1. \A p \in Provider : Outstanding(b, p)' = Outstanding(b, p)
    BY <1>2 DEF Outstanding
  <2> QED BY <1>2, <2>1, BudgetIdle
<1>3. ASSUME NEW c \in Batcher, Probing(c), c # b PROVE BudgetInv(b)'
  <2>1. batch'[b] = batch[b] /\ probe'[b] = probe[b]
    <3>1. ASSUME NEW due \in SUBSET Model, BatchStart(c, due)
          PROVE  batch'[b] = batch[b] /\ probe'[b] = probe[b]
      BY <1>1, <1>3, <3>1 DEF BatchStart
    <3>2. ASSUME BatchEnd(c) PROVE batch'[b] = batch[b] /\ probe'[b] = probe[b]
      BY <1>1, <1>3, <3>2 DEF BatchEnd
    <3>3. ASSUME NEW m \in Model, ProbeSkipped(c, m) \/ ProbeUnroutable(c, m)
          PROVE  batch'[b] = batch[b] /\ probe'[b] = probe[b]
      BY <1>1, <1>3, <3>3 DEF ProbeSkipped, ProbeUnroutable
    <3>4. ASSUME NEW m \in Model, ProbeOverBudget(c, m) \/ ProbeReserve(c, m)
          PROVE  batch'[b] = batch[b] /\ probe'[b] = probe[b]
      BY <1>1, <1>3, <3>4 DEF ProbeOverBudget, ProbeReserve, Remember
    <3>5. ASSUME NEW m \in Model, ProbeSend(c, m)
          PROVE  batch'[b] = batch[b] /\ probe'[b] = probe[b]
      BY <1>1, <1>3, <3>5 DEF ProbeSend
    <3>6. ASSUME NEW m \in Model, NEW ok \in BOOLEAN, ProbeEnds(c, m, ok)
          PROVE  batch'[b] = batch[b] /\ probe'[b] = probe[b]
      BY <1>1, <1>3, <3>6 DEF ProbeEnds
    <3> QED BY <1>3, <3>1, <3>2, <3>3, <3>4, <3>5, <3>6 DEF Probing
  <2>2. \A p \in Provider : Outstanding(b, p)' = Outstanding(b, p)
    BY <2>1 DEF Outstanding
  <2> QED BY <2>1, <2>2, BudgetIdle
<1>4. ASSUME NEW m \in Model, ProbeSkipped(b, m) \/ ProbeUnroutable(b, m) \/ ProbeSend(b, m)
      PROVE  BudgetInv(b)'
  <2>1. batch' = batch \/ batch' = [batch EXCEPT ![b].free = batch[b].free - 1]
    BY <1>4 DEF ProbeSkipped, ProbeUnroutable, ProbeSend
  <2>2. /\ batch'[b].state = batch[b].state /\ batch'[b].day = batch[b].day
        /\ batch'[b].usage = batch[b].usage
    BY <1>1, <2>1 DEF BatchRecord
  <2>3. \/ probe[b][m] = "new" /\ probe' = [probe EXCEPT ![b][m] = "done"]
        \/ probe[b][m] = "reserved" /\ probe' = [probe EXCEPT ![b][m] = "sent"]
    BY <1>4 DEF ProbeSkipped, ProbeUnroutable, ProbeSend
  <2>4. \A p \in Provider : Outstanding(b, p)' = Outstanding(b, p)
    BY <1>1, <2>3 DEF Outstanding
  <2> QED BY <2>2, <2>4, BudgetIdle
<1>5. ASSUME Probing(b) PROVE BudgetInv(b)'
  BY <1>4, <1>5, BudgetStarts, BudgetReserves, BudgetEnds, BudgetStops DEF Probing
<1> QED BY <1>2, <1>3, <1>5, OnlyProbing

\* Nothing is spent at the start.
LEMMA BudgetInit ==
    ASSUME Init, NEW b \in Batcher
    PROVE  BudgetInv(b)
<1>1. \A p \in Provider, d \in Day : QueuedProbes(b, p, d) = {} /\ Cardinality({}) = 0
  BY EmptyProbes, FS_EmptySet DEF Init
<1>2. \A p \in Provider, d \in Day : Spent(b, p, d) = 0
  <2> TAKE p \in Provider, d \in Day
  <2>1. probeRows[b][p][d] = 0
    BY DEF Init
  <2> QED BY <1>1, <2>1 DEF Spent
<1>3. batch[b].state = "idle"
  BY BatchTypes DEF Init
<1>4. \A p \in Provider : Budget[p] \in Nat
  BY ModelHealthAssumption
<1> QED BY <1>1, <1>2, <1>3, <1>4 DEF BudgetInv

BudgetAll == \A b \in Batcher : BudgetInv(b)

\* What the batches of one runner send to a provider in a day - logged and still queued
\* - stays within its budget: for any number of models and permits, whatever batches of
\* other runners overlap, whatever the writer's lag, and also for a batch that runs past
\* midnight.  Nothing more can be promised: each batch reserves from what it read.
THEOREM BudgetsKept == Spec => []BudgetPerRunner
<1>1. Init => BudgetAll
  BY BudgetInit DEF BudgetAll
<1>2. IndInv /\ BudgetAll /\ [Next]_vars => BudgetAll'
  <2>1. ASSUME IndInv, BudgetAll, UNCHANGED vars PROVE BudgetAll'
    BY <2>1 DEF BudgetAll, BudgetInv, vars, Today, Spent, QueuedProbes, Outstanding,
                Covered, Untouched
  <2>2. ASSUME IndInv, BudgetAll, Next PROVE BudgetAll'
    BY <2>2, BudgetStep DEF BudgetAll
  <2> QED BY <2>1, <2>2
<1>3. BudgetAll => BudgetPerRunner
  BY DEF BudgetAll, BudgetInv, BudgetPerRunner, Spent
<1> QED BY <1>1, <1>2, <1>3, IndInvHolds, PTL DEF Spec

-------------------------------------------------------------------------------
\* The registry, between two reloads

\* What is not registered is about to be; what has inference enabled without a key was
\* registered by a reload that has yet to walk the registry, or is walking it.
RegistryInv ==
    \A p \in Provider :
        /\ p \notin present =>
              \E w \in Who : gater[w] = "register" /\ p \in reload[w].todo
        /\ p \in registry \ keys =>
              \E w \in Who : \/ gater[w] = "register" /\ p \notin reload[w].todo
                             \/ gater[w] = "sync" /\ p \in reload[w].todo

\* A step that leaves the registry alone disturbs nobody inside it.
Aside ==
    /\ present' = present /\ keys' = keys /\ registry' = registry
    /\ \A w \in Who : gater[w] \in {"register", "sync"} =>
          gater'[w] = gater[w] /\ reload'[w] = reload[w]

LEMMA AsideKeeps ==
    ASSUME RegistryInv, Aside
    PROVE  RegistryInv'
<1> SUFFICES ASSUME NEW p \in Provider
             PROVE  /\ p \notin present =>
                          \E w \in Who : gater'[w] = "register" /\ p \in reload'[w].todo
                    /\ p \in registry \ keys =>
                          \E w \in Who : \/ gater'[w] = "register" /\ p \notin reload'[w].todo
                                         \/ gater'[w] = "sync" /\ p \in reload'[w].todo
  BY DEF RegistryInv, Aside
<1>1. ASSUME p \notin present
      PROVE  \E w \in Who : gater'[w] = "register" /\ p \in reload'[w].todo
  <2>1. PICK w \in Who : gater[w] = "register" /\ p \in reload[w].todo
    BY <1>1 DEF RegistryInv
  <2> QED BY <2>1 DEF Aside
<1>2. ASSUME p \in registry \ keys
      PROVE  \E w \in Who : \/ gater'[w] = "register" /\ p \notin reload'[w].todo
                            \/ gater'[w] = "sync" /\ p \in reload'[w].todo
  <2>1. PICK w \in Who : \/ gater[w] = "register" /\ p \notin reload[w].todo
                         \/ gater[w] = "sync" /\ p \in reload[w].todo
    BY <1>2 DEF RegistryInv
  <2> QED BY <2>1 DEF Aside
<1> QED BY <1>1, <1>2

\* A caller that is not inside the registry moves, and only its own reload with it.
LEMMA AsideMoves ==
    ASSUME TypeInv, NEW who \in Who, gater[who] \notin {"register", "sync"},
           NEW step, gater' = [gater EXCEPT ![who] = step],
           \A w \in Who : w # who => reload'[w] = reload[w],
           present' = present, keys' = keys, registry' = registry
    PROVE  Aside
<1>1. \A w \in Who : w # who => gater'[w] = gater[w]
  BY DEF TypeInv, TypeOK
<1> QED BY <1>1 DEF Aside

\* Nobody but a reload inside the registry touches it.
LEMMA AsideStep ==
    ASSUME TypeInv, Next, \A who \in Who : ~Reload(who)
    PROVE  Aside
<1>1. reload \in [Who -> ReloadRecord] /\ "loop" \in Who /\ "thread" \in Who
  BY DEF TypeInv, TypeOK, ReloadRecord, Who
<1>2. ASSUME present' = present, keys' = keys, registry' = registry,
             reload' = reload, gater' = gater
      PROVE  Aside
  BY <1>2 DEF Aside
<1>3. CASE WriterApply \/ Tick
  BY <1>2, <1>3 DEF WriterApply, Tick, configVars
<1>4. ASSUME NEW m \in Model, RequestFails(m) \/ RequestSucceeds(m) PROVE Aside
  BY <1>2, <1>4 DEF RequestFails, RequestSucceeds, configVars
<1>5. ASSUME NEW who \in Who, Gating(who) PROVE Aside
  <2>1. CASE FlushReturns(who)
    <3> DEFINE v == CASE At(who, "drain") -> "free" [] At(who, "flushed") -> "read"
                      [] OTHER -> "apply"
    <3>1. gater' = [gater EXCEPT ![who] = v]
      BY <2>1 DEF FlushReturns, Go
    <3> HIDE DEF v
    <3>2. gater[who] \notin {"register", "sync"}
      BY <2>1 DEF FlushReturns
    <3>3. UNCHANGED configVars
      BY <2>1 DEF FlushReturns
    <3> QED BY <3>1, <3>2, <3>3, AsideMoves DEF configVars
  <2>2. CASE GateRead(who)
    <3>1. PICK v : gater' = [gater EXCEPT ![who] = v]
      BY <2>2 DEF GateRead, Go
    <3>2. gater[who] \notin {"register", "sync"}
      BY <2>2 DEF GateRead
    <3>3. reload' = [reload EXCEPT ![who].todo = Gated(who)]
      BY <2>2 DEF GateRead
    <3>4. \A w \in Who : w # who => reload'[w] = reload[w]
      BY <1>1, <3>3
    <3>5. present' = present /\ keys' = keys /\ registry' = registry
      BY <2>2 DEF GateRead
    <3> QED BY <3>1, <3>2, <3>4, <3>5, AsideMoves
  <2>3. CASE GateWrite(who)
    <3> DEFINE v == CASE At(who, "gate0") ->
                           IF reload[who].todo = {} THEN "apply" ELSE "flushed0"
                      [] At(who, "gate") ->
                           IF reload[who].todo = {} THEN "read" ELSE "flushed"
    <3>1. gater' = [gater EXCEPT ![who] = v]
      BY <2>3 DEF GateWrite, Go
    <3> HIDE DEF v
    <3>2. gater[who] \notin {"register", "sync"}
      BY <2>3 DEF GateWrite
    <3>3. reload' = [reload EXCEPT ![who].todo = {}]
      BY <2>3 DEF GateWrite
    <3>4. \A w \in Who : w # who => reload'[w] = reload[w]
      BY <1>1, <3>3
    <3>5. present' = present /\ keys' = keys /\ registry' = registry
      BY <2>3 DEF GateWrite
    <3> QED BY <3>1, <3>2, <3>4, <3>5, AsideMoves
  <2>4. CASE RecomputeReadiness(who)
    <3>1. gater' = [gater EXCEPT ![who] = "free"] /\ UNCHANGED configVars
      BY <2>4 DEF RecomputeReadiness, Go
    <3>2. gater[who] \notin {"register", "sync"}
      BY <2>4 DEF RecomputeReadiness, At
    <3> QED BY <3>1, <3>2, AsideMoves DEF configVars
  <2> QED BY <1>5, <2>1, <2>2, <2>3, <2>4 DEF Gating
<1>6. CASE RefreshBegin
  <2>1. gater' = [gater EXCEPT !["thread"] = "clear"]
    BY <1>6 DEF RefreshBegin, Go
  <2>2. gater["thread"] \notin {"register", "sync"}
    BY <1>6 DEF RefreshBegin, At
  <2>3. reload' = [reload EXCEPT !["thread"] = [conf |-> stored, todo |-> {}]]
    BY <1>6 DEF RefreshBegin, ReadStored
  <2>4. \A w \in Who : w # "thread" => reload'[w] = reload[w]
    BY <1>1, <2>3
  <2>5. present' = present /\ keys' = keys /\ registry' = registry
    BY <1>6 DEF RefreshBegin
  <2> QED BY <1>1, <2>1, <2>2, <2>4, <2>5, AsideMoves
<1>7. ASSUME NEW conf, AdminStore(conf) \/ AdminRefresh PROVE Aside
  <2>1. gater' = [gater EXCEPT !["loop"] = "clear"]
    BY <1>7 DEF AdminStore, AdminRefresh, Go
  <2>2. gater["loop"] \notin {"register", "sync"}
    BY <1>7 DEF AdminStore, AdminRefresh
  <2>3. PICK r : reload' = [reload EXCEPT !["loop"] = r]
    BY <1>7 DEF AdminStore, AdminRefresh, ReadStored
  <2>4. \A w \in Who : w # "loop" => reload'[w] = reload[w]
    BY <1>1, <2>3
  <2>5. present' = present /\ keys' = keys /\ registry' = registry
    BY <1>7 DEF AdminStore, AdminRefresh
  <2> QED BY <1>1, <2>1, <2>2, <2>4, <2>5, AsideMoves
<1>8. ASSUME UNCHANGED configVars, gater["loop"] = "free",
             NEW step, gater' = [gater EXCEPT !["loop"] = step]
      PROVE  Aside
  BY <1>1, <1>8, AsideMoves DEF configVars
<1>9. ASSUME NEW m \in Model, NEW on \in BOOLEAN, AdminSetActive(m, on) PROVE Aside
  BY <1>8, <1>9 DEF AdminSetActive, Go
<1>10. ASSUME NEW r \in Runner, Discovery(r) PROVE Aside
  <2>1. ASSUME NEW enabled \in SUBSET Provider, DiscoveryBegin(r, enabled) PROVE Aside
    BY <1>2, <2>1 DEF DiscoveryBegin, configVars
  <2>2. ASSUME NEW p \in Provider, NEW seen \in SUBSET ModelsOf(p), DiscoverModels(r, p, seen)
        PROVE  Aside
    BY <1>2, <2>2 DEF DiscoverModels, configVars
  <2>3. CASE DiscoverRaises(r)
    BY <1>2, <2>3 DEF DiscoverRaises, configVars
  <2>4. CASE DiscoveryDone(r) \/ BootstrapSkips(r)
    BY <1>8, <2>4 DEF DiscoveryDone, BootstrapSkips, Go
  <2> QED BY <1>10, <2>1, <2>2, <2>3, <2>4 DEF Discovery
<1>11. ASSUME NEW b \in Batcher, Probing(b) PROVE Aside
  <2>1. ASSUME NEW m \in Model,
               \/ ProbeSkipped(b, m) \/ ProbeUnroutable(b, m) \/ ProbeOverBudget(b, m)
               \/ ProbeReserve(b, m) \/ ProbeSend(b, m)
        PROVE  Aside
    BY <1>2, <2>1 DEF ProbeSkipped, ProbeUnroutable, ProbeOverBudget, ProbeReserve,
                      ProbeSend, configVars
  <2>2. ASSUME NEW m \in Model, NEW ok \in BOOLEAN, ProbeEnds(b, m, ok) PROVE Aside
    BY <1>2, <2>2 DEF ProbeEnds, configVars
  <2>3. ASSUME NEW due \in SUBSET Model, BatchStart(b, due) PROVE Aside
    BY <1>2, <2>3 DEF BatchStart, configVars
  <2>4. CASE BatchEnd(b)
    BY <1>8, <2>4 DEF BatchEnd, Go
  <2> QED BY <1>11, <2>1, <2>2, <2>3, <2>4 DEF Probing
<1> QED BY <1>3, <1>4, <1>5, <1>6, <1>7, <1>9, <1>10, <1>11 DEF Next

\* One step of a reload, whatever the other one is doing in the registry.
LEMMA RegistryReload ==
    ASSUME TypeInv, RegistryInv, NEW who \in Who, Reload(who)
    PROVE  RegistryInv'
<1> DEFINE Missing(p) == \E w \in Who : gater[w] = "register" /\ p \in reload[w].todo
           Keyless(p) == \E w \in Who : \/ gater[w] = "register" /\ p \notin reload[w].todo
                                        \/ gater[w] = "sync" /\ p \in reload[w].todo
<1>1. /\ reload \in [Who -> ReloadRecord]
      /\ DOMAIN gater = Who
      /\ present \in SUBSET Provider
      /\ registry \subseteq present
  BY DEF TypeInv, TypeOK, ReloadRecord
<1>2. reload[who].todo \in SUBSET Provider
  BY <1>1 DEF ReloadRecord
<1>3. \A p \in Provider : /\ p \notin present => Missing(p)
                          /\ p \in registry \ keys => Keyless(p)
  BY DEF RegistryInv
<1>4. ASSUME \A p \in Provider : /\ p \notin present' => Missing(p)'
                                 /\ p \in registry' \ keys' => Keyless(p)'
      PROVE  RegistryInv'
  BY <1>4 DEF RegistryInv
<1>5. CASE ClearRegistry(who)
  <2>1. gater' = [gater EXCEPT ![who] = "register"]
    BY <1>5 DEF ClearRegistry, Go
  <2>2. reload' = [Forgotten(who, Provider) EXCEPT ![who].todo = Provider]
    BY <1>5 DEF ClearRegistry
  <2>3. reload'[who].todo = Provider
    BY <1>1, <2>2, ReloadForgotten
  <2>4. gater'[who] = "register" /\ registry' = {}
    BY <1>1, <1>5, <2>1 DEF ClearRegistry
  <2> QED BY <1>4, <2>3, <2>4
<1>6. ASSUME NEW q \in Provider, Register(who, q) PROVE RegistryInv'
  <2>1. reload' = [Forgotten(who, {q}) EXCEPT ![who].todo = reload[who].todo \ {q}]
    <3>1. reload' = [Forgotten(who, {q}) EXCEPT ![who].todo = @ \ {q}]
      BY <1>6 DEF Register
    <3>2. Forgotten(who, {q})[who] = reload[who]
      BY DEF Forgotten
    <3> QED BY <3>1, <3>2
  <2>2. /\ reload'[who].todo = reload[who].todo \ {q}
        /\ \A w \in Who : w # who =>
              reload'[w].todo = IF gater[w] = "sync" THEN reload[w].todo \ {q}
                                ELSE reload[w].todo
    <3> DEFINE qs == {q}
               ps == reload[who].todo \ {q}
    <3>1. /\ qs \in SUBSET Provider /\ ps \in SUBSET Provider
          /\ reload' = [Forgotten(who, qs) EXCEPT ![who].todo = ps]
      BY <1>2, <2>1
    <3> HIDE DEF qs, ps
    <3>2. reload \in [Who -> ReloadRecord]
      BY <1>1
    <3> HIDE DEF Missing, Keyless
    <3>3. reload'[who].todo = ps
      BY <3>1, <3>2, ReloadForgotten
    <3>4. ASSUME NEW w \in Who, w # who
          PROVE  reload'[w].todo = IF gater[w] = "sync" THEN reload[w].todo \ qs
                                   ELSE reload[w].todo
      BY <3>1, <3>2, <3>4, ReloadForgotten
    <3> QED BY <3>3, <3>4 DEF qs, ps
  <2>3. gater[who] = "register" /\ gater' = gater
    BY <1>6 DEF Register, At
  <2>4. /\ present' = present \union {q}
        /\ \A p \in Provider \ {q} : p \in registry' \ keys' => p \in registry \ keys
    BY <1>6 DEF Register
  <2>5. ASSUME NEW p \in Provider, p \notin present' PROVE Missing(p)'
    <3>1. PICK w \in Who : gater[w] = "register" /\ p \in reload[w].todo
      BY <1>3, <2>4, <2>5
    <3> QED BY <2>2, <2>3, <2>4, <2>5, <3>1
  <2>6. ASSUME NEW p \in Provider, p \in registry' \ keys' PROVE Keyless(p)'
    <3>1. CASE p = q
      BY <2>2, <2>3, <3>1
    <3>2. CASE p # q
      <4>1. PICK w \in Who : \/ gater[w] = "register" /\ p \notin reload[w].todo
                             \/ gater[w] = "sync" /\ p \in reload[w].todo
        BY <1>3, <2>4, <2>6, <3>2
      <4> QED BY <2>2, <2>3, <3>2, <4>1
    <3> QED BY <3>1, <3>2
  <2> HIDE DEF Missing, Keyless
  <2> QED BY <1>4, <2>5, <2>6
<1>7. CASE SyncBegin(who)
  <2>1. reload' = [reload EXCEPT ![who].todo = present]
    BY <1>7 DEF SyncBegin
  <2>2. /\ reload'[who].todo = present
        /\ \A w \in Who : w # who => reload'[w] = reload[w]
    BY <1>1, <2>1, ReloadSet
  <2>3. /\ gater[who] = "register" /\ reload[who].todo = {}
        /\ gater' = [gater EXCEPT ![who] = "sync"]
        /\ present' = present /\ keys' = keys /\ registry' = registry
    BY <1>7 DEF SyncBegin, At, Go
  <2>4. ASSUME NEW p \in Provider, p \notin present' PROVE Missing(p)'
    <3>1. PICK w \in Who : gater[w] = "register" /\ p \in reload[w].todo
      BY <1>3, <2>3, <2>4
    <3> QED BY <1>1, <2>2, <2>3, <3>1
  <2>5. ASSUME NEW p \in Provider, p \in registry' \ keys' PROVE Keyless(p)'
    <3>1. gater'[who] = "sync" /\ p \in reload'[who].todo
      BY <1>1, <2>2, <2>3, <2>5
    <3> QED BY <3>1
  <2> HIDE DEF Missing, Keyless
  <2> QED BY <1>4, <2>4, <2>5
<1>8. ASSUME NEW q \in Provider, SyncProvider(who, q) PROVE RegistryInv'
  <2>1. reload' = [reload EXCEPT ![who].todo = reload[who].todo \ {q}]
    BY <1>8 DEF SyncProvider
  <2>2. /\ reload'[who].todo = reload[who].todo \ {q}
        /\ \A w \in Who : w # who => reload'[w] = reload[w]
    <3>1. reload[who].todo \ {q} \in SUBSET Provider
      BY <1>2
    <3> QED BY <1>1, <2>1, <3>1, ReloadSet
  <2>3. /\ gater[who] = "sync" /\ gater' = gater
        /\ present' = present /\ keys' = keys
        /\ registry' \ keys' = (registry \ keys) \ {q}
    BY <1>8 DEF SyncProvider, At
  <2>4. ASSUME NEW p \in Provider, p \notin present' PROVE Missing(p)'
    <3>1. PICK w \in Who : gater[w] = "register" /\ p \in reload[w].todo
      BY <1>3, <2>3, <2>4
    <3> QED BY <2>2, <2>3, <3>1
  <2>5. ASSUME NEW p \in Provider, p \in registry' \ keys' PROVE Keyless(p)'
    <3>1. PICK w \in Who : \/ gater[w] = "register" /\ p \notin reload[w].todo
                           \/ gater[w] = "sync" /\ p \in reload[w].todo
      BY <1>3, <2>3, <2>5
    <3> QED BY <2>2, <2>3, <2>5, <3>1
  <2> HIDE DEF Missing, Keyless
  <2> QED BY <1>4, <2>4, <2>5
<1>9. CASE Publish(who)
  <2>1. /\ gater[who] = "sync" /\ reload[who].todo = {}
        /\ gater' = [gater EXCEPT ![who] = "apply0"]
        /\ present' = present /\ keys' = keys /\ registry' = registry /\ reload' = reload
    BY <1>9 DEF Publish, At, Go
  <2>2. ASSUME NEW p \in Provider, p \notin present' PROVE Missing(p)'
    <3>1. PICK w \in Who : gater[w] = "register" /\ p \in reload[w].todo
      BY <1>3, <2>1, <2>2
    <3> QED BY <1>1, <2>1, <3>1
  <2>3. ASSUME NEW p \in Provider, p \in registry' \ keys' PROVE Keyless(p)'
    <3>1. PICK w \in Who : \/ gater[w] = "register" /\ p \notin reload[w].todo
                           \/ gater[w] = "sync" /\ p \in reload[w].todo
      BY <1>3, <2>1, <2>3
    <3>2. w # who
      BY <2>1, <3>1
    <3> QED BY <1>1, <2>1, <3>1, <3>2
  <2> HIDE DEF Missing, Keyless
  <2> QED BY <1>4, <2>2, <2>3
<1> QED BY <1>5, <1>6, <1>7, <1>8, <1>9 DEF Reload

\* However the loop's reload and the thread's interleave in the registry, once both have
\* left it every provider is registered and inference is enabled for none without a key:
\* for any providers and any sequence of configurations.
THEOREM RegistrySettled == Spec => []RegistrySettles
<1>1. Init => RegistryInv
  BY DEF Init, RegistryInv
<1>2. IndInv /\ RegistryInv /\ [Next]_vars => RegistryInv'
  <2>1. ASSUME RegistryInv, UNCHANGED vars PROVE RegistryInv'
    BY <2>1 DEF RegistryInv, vars
  <2>2. ASSUME IndInv, RegistryInv, Next PROVE RegistryInv'
    BY <2>2, AsideStep, AsideKeeps, RegistryReload DEF IndInv
  <2> QED BY <2>1, <2>2
<1>3. IndInv /\ RegistryInv => RegistrySettles
  BY DEF IndInv, TypeInv, TypeOK, RegistryInv, RegistrySettles
<1> QED BY <1>1, <1>2, <1>3, IndInvHolds, PTL DEF Spec
=============================================================================
