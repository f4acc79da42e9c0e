-------------------------- MODULE ProviderCallProofs --------------------------
(***************************************************************************)
(* Theorems about ProviderCall for any statuses, any number of retries and *)
(* any limit on the size of an event, and for streams of any length cut    *)
(* into chunks in any way.                                                 *)
(*                                                                         *)
(* PathInv says which calls get where and that a call that still goes on   *)
(* has met retryable errors only, fewer than the attempts it has.  SizeInv *)
(* ties pending_bytes, which the code keeps by hand, to the lines it       *)
(* counts, and bounds both by max_sse_event_bytes at all times.  RelayInv  *)
(* says that the buffer is what is unread of the stream from a position at *)
(* which the byte-by-byte reference stands between two lines, with the     *)
(* same pending lines and the same events behind it.                       *)
(***************************************************************************)
EXTENDS ProviderCall, FiniteSetTheorems, SequenceTheorems, TLAPS

Streaming == {"suspended", "lines", "reading", "abandoned"}

PathInv ==
    /\ pc \in Streaming => call.asks = "stream"
    /\ pc \in Streaming \cup {"send", "asked"} => call.key = "set"
    /\ pc # "over" => outcome = "none"
    /\ pc # "over" \/ call.key # "set" =>
          \A i \in 1..Len(errors) : errors[i] \in RETRYABLE
    /\ pc # "over" \/ call.key # "set" =>
          IF call.asks = "stream" THEN Len(errors) = 0 ELSE Len(errors) < MaxRetries

SizeInv ==
    /\ pendingBytes = EventBytes(pending)
    /\ pendingBytes <= MaxEvent
    /\ pc = "reading" => Len(buffer) <= MaxEvent
    /\ \A i \in 1..Len(relayed) : relayed[i] # <<>> /\ EventBytes(relayed[i]) <= MaxEvent

IndInv == TypeOK /\ PathInv /\ RetriesJustified /\ SizeInv

-------------------------------------------------------------------------------
\* Sets of naturals have a least element, so a buffer that holds an LF has a first.
LEMMA FirstLFExists ==
    ASSUME buffer \in Seq(Byte), "LF" \in Range(buffer)
    PROVE  /\ FirstLF \in 1..Len(buffer) /\ buffer[FirstLF] = "LF"
           /\ \A j \in 1..(FirstLF - 1) : buffer[j] # "LF"
<1> DEFINE T == {i \in 1..Len(buffer) : buffer[i] = "LF"}
<1>1. T # {} /\ T \subseteq Nat
  BY DEF Range
<1>2. PICK i \in T : \A j \in T : <<j, i>> \notin OpToRel(<, Nat)
  BY <1>1, WFMin, NatLessThanWellFounded, Zenon
<1>3. \A j \in T : ~(j < i)
  BY <1>2, <1>1 DEF OpToRel
<1>4. \E k \in 1..Len(buffer) : buffer[k] = "LF" /\ \A j \in 1..(k - 1) : buffer[j] # "LF"
  BY <1>3
<1> QED BY <1>4 DEF FirstLF

\* A line without its CR is a line, no longer than before.
LEMMA StripCRType ==
    ASSUME NEW line \in Seq(Byte)
    PROVE  StripCR(line) \in Seq(Byte) /\ Len(StripCR(line)) <= Len(line)
<1>1. CASE line = <<>>
  BY <1>1 DEF StripCR
<1>2. CASE line # <<>>
  <2>1. Len(line) \in Nat \ {0}
    BY <1>2, EmptySeq
  <2> DEFINE k == Len(line) - 1
  <2>3. k \in Int /\ \A i \in 1..k : line[i] \in Byte
    BY <2>1, ElementOfSeq
  <2>4. SubSeq(line, 1, k) \in Seq(Byte) /\ Len(SubSeq(line, 1, k)) = IF 1 <= k THEN k ELSE 0
    <3> HIDE DEF k
    <3> QED BY <2>3, SubSeqProperties
  <2>2. SubSeq(line, 1, Len(line) - 1) \in Seq(Byte)
        /\ Len(SubSeq(line, 1, Len(line) - 1)) <= Len(line)
    BY <2>1, <2>4
  <2> QED BY <2>1, <2>2 DEF StripCR, Front
<1> QED BY <1>1, <1>2

\* A decoded line is as long as the line it comes from.
LEMMA DecodeType ==
    ASSUME NEW line \in Seq(Byte)
    PROVE  Decode(line) \in Seq(Char) /\ Len(Decode(line)) = Len(line)
<1>1. Len(line) \in Nat /\ DOMAIN line = 1..Len(line) /\ \A i \in 1..Len(line) : line[i] \in Char
  BY ElementOfSeq DEF Char
<1>2. Decode(line) \in [1..Len(line) -> Char]
  BY <1>1 DEF Decode, Char
<1>3. Decode(line) \in Seq(Char)
  BY <1>1, <1>2, SeqDef
<1>4. Len(Decode(line)) = Len(line)
  BY <1>1, <1>2, <1>3, LenProperties
<1> QED BY <1>3, <1>4

\* The lines cut from the buffer are lines.
LEMMA LineType ==
    ASSUME buffer \in Seq(Byte), "LF" \in Range(buffer)
    PROVE  /\ StripCR(SubSeq(buffer, 1, FirstLF - 1)) \in Seq(Byte)
           /\ SubSeq(buffer, FirstLF + 1, Len(buffer)) \in Seq(Byte)
<1>1. FirstLF \in 1..Len(buffer) /\ Len(buffer) \in Nat
  BY FirstLFExists
<1>2. /\ SubSeq(buffer, 1, FirstLF - 1) \in Seq(Byte)
      /\ SubSeq(buffer, FirstLF + 1, Len(buffer)) \in Seq(Byte)
  BY <1>1, ElementOfSeq, SubSeqProperties
<1> QED BY <1>2, StripCRType

\* The size of an event is the sum the code keeps: nothing at first, and a line
\* adds its length and one for its end.
LEMMA EventBytesEmpty == EventBytes(<<>>) = 0
<1>1. BytesOf(<<>>) = {}
  BY DEF BytesOf
<1> QED BY <1>1, FS_EmptySet DEF EventBytes

\* An event has finitely many bytes.
LEMMA BytesFinite ==
    ASSUME NEW lines \in Seq(Seq(Char))
    PROVE  IsFiniteSet(BytesOf(lines)) /\ EventBytes(lines) \in Nat
<1>1. Len(lines) \in Nat /\ DOMAIN lines = 1..Len(lines)
  BY LenProperties
<1>2. \A i \in 1..Len(lines) : IsFiniteSet({i} \X (0..Len(lines[i])))
  <2> TAKE i \in 1..Len(lines)
  <2>1. lines[i] \in Seq(Char)
    BY ElementOfSeq
  <2>2. 0 \in Int /\ Len(lines[i]) \in Int
    BY <2>1, LenProperties
  <2>3. IsFiniteSet(0..Len(lines[i]))
    BY <2>2, FS_Interval
  <2>4. IsFiniteSet({i})
    BY FS_Singleton
  <2> QED BY <2>3, <2>4, FS_Product
<1>3. IsFiniteSet(1..Len(lines))
  BY <1>1, FS_Interval
<1> DEFINE F == [i \in 1..Len(lines) |-> {i} \X (0..Len(lines[i]))]
           S == {F[i] : i \in 1..Len(lines)}
<1>4. F \in Surjection(1..Len(lines), S)
  BY DEF Surjection
<1>5. \A T \in S : IsFiniteSet(T)
  BY <1>2
<1>6. UNION S = BytesOf(lines)
  BY <1>1 DEF BytesOf
<1> HIDE DEF F, S
<1>7. IsFiniteSet(S)
  BY <1>3, <1>4, FS_Surjection
<1>8. IsFiniteSet(BytesOf(lines))
  BY <1>5, <1>6, <1>7, FS_UNION
<1> QED BY <1>8, FS_CardinalityType DEF EventBytes

\* A line adds its bytes and its end to an event.
LEMMA EventBytesAppend ==
    ASSUME NEW lines \in Seq(Seq(Char)), NEW line \in Seq(Char)
    PROVE  EventBytes(Append(lines, line)) = EventBytes(lines) + Len(line) + 1
<1> DEFINE n == Len(lines) + 1
           more == Append(lines, line)
           new == {n} \X (0..Len(line))
<1>1. /\ more \in Seq(Seq(Char)) /\ Len(more) = n
      /\ \A i \in 1..Len(lines) : more[i] = lines[i]
      /\ more[n] = line
  BY AppendProperties
<1>2. /\ Len(lines) \in Nat /\ Len(line) \in Nat
      /\ DOMAIN lines = 1..Len(lines) /\ DOMAIN more = 1..n
  BY <1>1, LenProperties
<1>3. DOMAIN more = DOMAIN lines \cup {n} /\ n \notin DOMAIN lines
  BY <1>2
<1> HIDE DEF more
<1>4. BytesOf(more) = BytesOf(lines) \cup new
  BY <1>1, <1>2, <1>3 DEF BytesOf
<1>5. BytesOf(lines) \cap new = {}
  BY <1>3 DEF BytesOf
<1>6. IsFiniteSet(new) /\ Cardinality(new) = Len(line) + 1
  <2>1. IsFiniteSet(0..Len(line)) /\ Cardinality(0..Len(line)) = Len(line) + 1
    BY <1>2, FS_Interval
  <2>2. IsFiniteSet({n}) /\ Cardinality({n}) = 1
    BY FS_Singleton
  <2>3. IsFiniteSet(new) /\ Cardinality(new) = Cardinality({n}) * Cardinality(0..Len(line))
    BY <2>1, <2>2, FS_Product
  <2> QED BY <1>2, <2>1, <2>2, <2>3
<1>7. Cardinality(BytesOf(lines) \cap new) = 0
  BY <1>5, FS_EmptySet
<1> HIDE DEF new
<1>8. Cardinality(BytesOf(lines) \cup new)
        = Cardinality(BytesOf(lines)) + Cardinality(new) - Cardinality(BytesOf(lines) \cap new)
  BY <1>6, BytesFinite, FS_Union
<1>9. Cardinality(BytesOf(lines)) \in Nat
  BY BytesFinite DEF EventBytes
<1> QED BY <1>2, <1>4, <1>6, <1>7, <1>8, <1>9 DEF EventBytes, more

\* So does a line that is decoded first.
LEMMA EventBytesKeep ==
    ASSUME NEW lines \in Seq(Seq(Char)), NEW line \in Seq(Byte)
    PROVE  /\ Append(lines, Decode(line)) \in Seq(Seq(Char))
           /\ Append(lines, Decode(line)) # <<>>
           /\ EventBytes(Append(lines, Decode(line))) = EventBytes(lines) + Len(line) + 1
<1>1. Decode(line) \in Seq(Char) /\ Len(Decode(line)) = Len(line)
  BY DecodeType
<1>2. Append(lines, Decode(line)) \in Seq(Seq(Char)) /\ Append(lines, Decode(line)) # <<>>
  BY <1>1, AppendProperties
<1>3. EventBytes(Append(lines, Decode(line))) = EventBytes(lines) + Len(Decode(line)) + 1
  BY <1>1, EventBytesAppend
<1> QED BY <1>1, <1>2, <1>3

\* A byte takes at most three, the end of a line one: the encoded event stays below three
\* times what was counted.
LEMMA WireBound ==
    ASSUME NEW lines \in Seq(Seq(Char)), lines # <<>>
    PROVE  WireBytes(lines) \in Nat /\ WireBytes(lines) < 3 * EventBytes(lines)
<1> DEFINE B == BytesOf(lines)
           A == B \X (1..3)
           W == {q \in A : q[2] <= Width(lines, q[1])}
           b == <<1, 0>>
           x == <<b, 2>>
           y == <<b, 3>>
<1>1. IsFiniteSet(B) /\ EventBytes(lines) = Cardinality(B) /\ Cardinality(B) \in Nat
  BY BytesFinite DEF EventBytes
<1>2. b \in B
  <2>1. 1 \in DOMAIN lines /\ lines[1] \in Seq(Char)
    BY ElementOfSeq, LenProperties, EmptySeq
  <2>2. 0 \in 0..Len(lines[1])
    BY <2>1, LenProperties
  <2> QED BY <2>1, <2>2 DEF BytesOf
<1>3. Width(lines, b) = 1
  BY DEF Width
<1> HIDE DEF B, b
<1>4. IsFiniteSet(A) /\ Cardinality(A) = 3 * Cardinality(B)
  <2>1. IsFiniteSet(1..3) /\ Cardinality(1..3) = 3
    <3>1. 1 \in Int /\ 3 \in Int /\ ~(1 > 3) /\ (3 - 1) + 1 = 3
      OBVIOUS
    <3> QED BY <3>1, FS_Interval
  <2>2. IsFiniteSet(A) /\ Cardinality(A) = Cardinality(B) * Cardinality(1..3)
    BY <1>1, <2>1, FS_Product
  <2> QED BY <1>1, <2>1, <2>2
<1>5. x \in A /\ y \in A /\ x # y /\ x \notin W /\ y \notin W
  <2>1. x \in A /\ y \in A /\ x # y
    <3>1. 2 \in 1..3 /\ 3 \in 1..3
      OBVIOUS
    <3> QED BY <1>2, <3>1
  <2>2. x[1] = b /\ x[2] = 2 /\ y[1] = b /\ y[2] = 3
    OBVIOUS
  <2> HIDE DEF A, x, y
  <2>3. ~(x[2] <= Width(lines, x[1])) /\ ~(y[2] <= Width(lines, y[1]))
    BY <1>3, <2>2
  <2> QED BY <2>1, <2>3
<1>6. W \subseteq (A \ {x}) \ {y}
  BY <1>5
<1> HIDE DEF A, W, x, y
<1>7. /\ IsFiniteSet(A \ {x}) /\ Cardinality(A \ {x}) = Cardinality(A) - 1
      /\ IsFiniteSet((A \ {x}) \ {y}) /\ Cardinality((A \ {x}) \ {y}) = Cardinality(A) - 1 - 1
  <2>1. IsFiniteSet(A \ {x}) /\ Cardinality(A \ {x}) = Cardinality(A) - 1
    BY <1>4, <1>5, FS_RemoveElement
  <2>2. y \in A \ {x}
    BY <1>5
  <2> QED BY <2>1, <2>2, FS_RemoveElement
<1>8. IsFiniteSet(W) /\ Cardinality(W) <= Cardinality((A \ {x}) \ {y}) /\ Cardinality(W) \in Nat
  BY <1>6, <1>7, FS_Subset, FS_CardinalityType
<1>9. WireBytes(lines) = 1 + Cardinality(W)
  BY DEF WireBytes, W, A, B
<1> QED BY <1>1, <1>4, <1>7, <1>8, <1>9

-------------------------------------------------------------------------------
\* Every error is a category or an exception nobody normalised.
LEMMA ErrorType ==
    ASSUME NEW a \in Adapter, NEW r \in Reply
    PROVE  /\ ErrorOf(a, r) \in Category \cup {"exception"}
           /\ ParseOf(a, r) \in Category \cup {"exception", "result"}
<1>1. CategorizeError(a, r.status, r.hint) \in Category
  BY DEF CategorizeError, Category
<1>2. ErrorOf(a, r) \in Category \cup {"exception"}
  BY <1>1 DEF ErrorOf, Category
<1>3. ParseOf(a, r) \in Category \cup {"exception", "result"}
  BY DEF ParseOf, Category
<1> QED BY <1>2, <1>3

\* A call that ends with the error e, its last, has every retry justified.
LEMMA EndsWithError ==
    ASSUME IndInv, pc # "over", call.key = "set",
           NEW e \in Category \cup {"exception"},
           End(e), errors' = Append(errors, e), call' = call, stream' = stream
    PROVE  IndInv'
<1> USE RetriesAssumption, BoundsAssumption DEF IndInv
<1>1. /\ errors \in Seq(Category \cup {"exception"}) /\ Len(errors) \in Nat
      /\ errors' \in Seq(Category \cup {"exception"}) /\ Len(errors') = Len(errors) + 1
      /\ \A i \in 1..Len(errors) : errors'[i] = errors[i]
      /\ errors'[Len(errors) + 1] = e
  BY AppendProperties DEF TypeOK
<1>2. pc' = "over" /\ outcome' = e /\ client' = FALSE
  BY DEF End
<1>3. UNCHANGED <<call, received, buffer, pending, pendingBytes, eof, relayed>>
  BY DEF stream
<1>4. TypeOK'
  BY <1>1, <1>2, <1>3 DEF TypeOK, Outcome
<1>5. PathInv'
  BY <1>2, <1>3 DEF PathInv, Streaming
<1>6. RetriesJustified'
  <2>1. DOMAIN errors' = 1..(Len(errors) + 1)
    BY <1>1
  <2>2. Len(errors') <= IF call'.asks = "stream" THEN 1 ELSE MaxRetries
    BY <1>1, <1>3 DEF PathInv
  <2>3. \A i \in DOMAIN errors' :
           errors'[i] \notin RETRYABLE => i = Len(errors') /\ outcome' = errors'[i]
    BY <1>1, <1>2, <2>1 DEF PathInv
  <2>4. Last(errors') = outcome'
    BY <1>1, <1>2 DEF Last
  <2> QED BY <2>2, <2>3, <2>4 DEF RetriesJustified
<1>7. SizeInv'
  BY <1>2, <1>3 DEF SizeInv
<1> QED BY <1>4, <1>5, <1>6, <1>7

\* A call that ends with no error of its own.
LEMMA EndsWithout ==
    ASSUME IndInv, NEW o \in {"result", "cancelled"}, pc # "over", End(o),
           UNCHANGED <<call, errors, stream>>
    PROVE  IndInv'
<1> USE RetriesAssumption, BoundsAssumption DEF IndInv
<1>1. pc' = "over" /\ outcome' = o /\ client' = FALSE
  BY DEF End
<1>2. UNCHANGED <<call, errors, received, buffer, pending, pendingBytes, eof, relayed>>
  BY DEF stream
<1>3. TypeOK'
  BY <1>1, <1>2 DEF TypeOK, Outcome
<1>4. PathInv'
  BY <1>1, <1>2 DEF PathInv, Streaming
<1>5. RetriesJustified'
  <2>1. DOMAIN errors = 1..Len(errors)
    BY DEF TypeOK
  <2> QED BY <1>1, <1>2, <2>1 DEF RetriesJustified, PathInv
<1>6. SizeInv'
  BY <1>1, <1>2 DEF SizeInv
<1> QED BY <1>3, <1>4, <1>5, <1>6

\* A request that failed is repeated, or its error is what the caller gets.
LEMMA FailAttemptStep ==
    ASSUME IndInv, pc = "asked", call.asks # "stream",
           NEW e \in Category \cup {"exception"}, FailAttempt(e)
    PROVE  IndInv'
<1>1. CASE MayRetry(e)
  <2> USE RetriesAssumption, BoundsAssumption DEF IndInv
  <2>1. /\ errors \in Seq(Category \cup {"exception"}) /\ Len(errors) \in Nat
        /\ errors' \in Seq(Category \cup {"exception"}) /\ Len(errors') = Len(errors) + 1
        /\ \A i \in 1..Len(errors) : errors'[i] = errors[i]
        /\ errors'[Len(errors) + 1] = e
        /\ DOMAIN errors' = 1..(Len(errors) + 1)
    BY AppendProperties DEF TypeOK, FailAttempt
  <2>2. /\ pc' = "send" /\ client' = FALSE
        /\ UNCHANGED <<call, outcome, received, buffer, pending, pendingBytes, eof, relayed>>
    BY <1>1 DEF FailAttempt, stream
  <2>3. e \in RETRYABLE /\ Len(errors') < MaxRetries
    BY <1>1, <2>1 DEF MayRetry
  <2>4. \A i \in 1..Len(errors') : errors'[i] \in RETRYABLE
    BY <2>1, <2>3 DEF PathInv
  <2>5. TypeOK'
    BY <2>1, <2>2 DEF TypeOK
  <2>6. PathInv'
    BY <2>1, <2>2, <2>3, <2>4 DEF PathInv, Streaming
  <2>7. RetriesJustified'
    BY <2>1, <2>2, <2>3, <2>4 DEF RetriesJustified
  <2>8. SizeInv'
    BY <2>2 DEF SizeInv
  <2> QED BY <2>5, <2>6, <2>7, <2>8
<1>2. CASE ~MayRetry(e)
  <2>1. call.key = "set" /\ pc # "over"
    BY DEF IndInv, PathInv
  <2>2. End(e) /\ errors' = Append(errors, e) /\ call' = call /\ stream' = stream
    BY <1>2 DEF FailAttempt
  <2> QED BY <2>1, <2>2, EndsWithError
<1> QED BY <1>1, <1>2

\* An event is yielded, no larger than the limit.
LEMMA YieldStep ==
    ASSUME IndInv, pc \in {"lines", "reading"},
           NEW lines \in Seq(Seq(Char)), lines # <<>>, EventBytes(lines) <= MaxEvent,
           Yield(lines), buffer' \in Seq(Byte), eof' \in BOOLEAN
    PROVE  IndInv'
<1> USE RetriesAssumption, BoundsAssumption DEF IndInv
<1>1. /\ relayed \in Seq(Seq(Seq(Char))) /\ Len(relayed) \in Nat
      /\ relayed' \in Seq(Seq(Seq(Char))) /\ Len(relayed') = Len(relayed) + 1
      /\ \A i \in 1..Len(relayed) : relayed'[i] = relayed[i]
      /\ relayed'[Len(relayed) + 1] = lines
  BY AppendProperties DEF Yield, TypeOK
<1>2. /\ pending' = <<>> /\ pendingBytes' = 0 /\ pc' = "suspended"
      /\ UNCHANGED <<call, errors, outcome, client, received>>
  BY DEF Yield
<1>3. TypeOK'
  BY <1>1, <1>2 DEF TypeOK
<1>4. PathInv'
  BY <1>2 DEF PathInv, Streaming
<1>5. RetriesJustified'
  BY <1>2 DEF RetriesJustified
<1>6. ASSUME NEW i \in 1..Len(relayed')
      PROVE  relayed'[i] # <<>> /\ EventBytes(relayed'[i]) <= MaxEvent
  <2>1. CASE i \in 1..Len(relayed)
    BY <1>1, <1>6, <2>1 DEF SizeInv
  <2>2. CASE i = Len(relayed) + 1
    BY <1>1, <2>2
  <2> QED BY <1>1, <1>6, <2>1, <2>2
<1>7. SizeInv'
  BY <1>2, <1>6, EventBytesEmpty DEF SizeInv
<1> QED BY <1>3, <1>4, <1>5, <1>7

\* One line of the buffer.
LEMMA LineStep ==
    ASSUME IndInv, pc = "lines", NEW line \in Seq(Byte), NEW rest \in Seq(Byte),
           Line(line, rest)
    PROVE  IndInv'
<1> USE RetriesAssumption, BoundsAssumption
<1>0. pc # "over" /\ call.key = "set"
  BY DEF IndInv, PathInv, Streaming
<1>1. CASE StreamFails("PROVIDER_UNAVAILABLE")
  <2>1. "PROVIDER_UNAVAILABLE" \in Category \cup {"exception"}
    BY DEF Category
  <2> QED BY <1>0, <1>1, <2>1, EndsWithError DEF StreamFails
<1>2. CASE pending # <<>> /\ buffer' = rest /\ eof' = eof /\ Yield(pending)
  <2>1. pending \in Seq(Seq(Char)) /\ EventBytes(pending) <= MaxEvent /\ eof' \in BOOLEAN
    BY <1>2 DEF IndInv, TypeOK, SizeInv
  <2> QED BY <1>2, <2>1, YieldStep
<1>3. CASE buffer' = rest /\ SkipLine
  <2>1. UNCHANGED <<call, pc, errors, outcome, client, received, pending, pendingBytes, eof,
                    relayed>>
    BY <1>3 DEF SkipLine
  <2>2. TypeOK' /\ PathInv'
    BY <1>3, <2>1 DEF IndInv, TypeOK, PathInv, Streaming
  <2>3. RetriesJustified' /\ SizeInv'
    BY <2>1 DEF IndInv, RetriesJustified, SizeInv
  <2> QED BY <2>2, <2>3 DEF IndInv
<1>4. CASE pendingBytes + Len(line) + 1 <= MaxEvent /\ buffer' = rest /\ KeepLine(line)
  <2>1. /\ pending' = Append(pending, Decode(line))
        /\ pendingBytes' = pendingBytes + Len(line) + 1
        /\ UNCHANGED <<call, pc, errors, outcome, client, received, eof, relayed>>
    BY <1>4 DEF KeepLine
  <2>2. pending \in Seq(Seq(Char)) /\ pendingBytes \in Nat /\ Len(line) \in Nat
    BY DEF IndInv, TypeOK
  <2>3. pending' \in Seq(Seq(Char)) /\ EventBytes(pending') = pendingBytes'
    BY <2>1, <2>2, EventBytesKeep DEF IndInv, SizeInv
  <2>4. TypeOK' /\ PathInv'
    BY <1>4, <2>1, <2>2, <2>3 DEF IndInv, TypeOK, PathInv, Streaming
  <2>5. RetriesJustified' /\ SizeInv'
    BY <1>4, <2>1, <2>2, <2>3 DEF IndInv, RetriesJustified, SizeInv
  <2> QED BY <2>4, <2>5 DEF IndInv
<1>5. pendingBytes \in Nat /\ Len(line) \in Nat
  BY DEF IndInv, TypeOK
<1> QED BY <1>1, <1>2, <1>3, <1>4, <1>5 DEF Line

\* The initial states satisfy the invariant: no request was made, nothing is pending.
LEMMA InitInd == Init => IndInv
<1> SUFFICES ASSUME Init PROVE IndInv
    OBVIOUS
<1>0. <<>> \in Seq(Byte) /\ <<>> \in Seq(Seq(Char)) /\ <<>> \in Seq(Seq(Seq(Char)))
      /\ <<>> \in Seq(Category \cup {"exception"}) /\ Len(<<>>) = 0
  BY EmptySeq
<1>1. TypeOK
  BY <1>0 DEF Init, TypeOK, Outcome
<1>4. PathInv
  BY <1>0, RetriesAssumption DEF Init, PathInv, Streaming
<1>2. RetriesJustified
  BY RetriesAssumption DEF Init, RetriesJustified
<1>3. SizeInv
  BY BoundsAssumption, EventBytesEmpty DEF Init, SizeInv
<1> QED BY <1>1, <1>2, <1>3, <1>4 DEF IndInv

\* Every step of the adapter, the provider and the caller keeps the invariant.
LEMMA IndStep == IndInv /\ [Next]_vars => IndInv'
<1> SUFFICES ASSUME IndInv, [Next]_vars PROVE IndInv'
    OBVIOUS
<1> USE RetriesAssumption, BoundsAssumption
<1>t. /\ call \in Call /\ call.adapter \in Adapter
      /\ buffer \in Seq(Byte) /\ pending \in Seq(Seq(Char)) /\ received \in Seq(Byte)
      /\ relayed \in Seq(Seq(Seq(Char))) /\ pendingBytes \in Nat /\ Len(buffer) \in Nat
      /\ "PROVIDER_UNAVAILABLE" \in Category \cup {"exception"}
  BY DEF IndInv, TypeOK, Call, Category
\* The call goes on from one place to the next.
<1>a. ASSUME UNCHANGED <<call, errors, outcome, stream>>, pc' \in Streaming \cup {"send", "asked"},
             client' \in BOOLEAN, pc # "over",
             pc' \in Streaming => call.asks = "stream",
             call.key = "set",
             pc' = "reading" => Len(buffer) <= MaxEvent
      PROVE  IndInv'
  <2>1. UNCHANGED <<call, errors, outcome, received, buffer, pending, pendingBytes, eof, relayed>>
    BY <1>a DEF stream
  <2>2. TypeOK' /\ PathInv'
    BY <1>a, <2>1 DEF IndInv, TypeOK, PathInv, Streaming
  <2>3. RetriesJustified' /\ SizeInv'
    BY <1>a, <2>1 DEF IndInv, RetriesJustified, SizeInv, Streaming
  <2> QED BY <2>2, <2>3 DEF IndInv
<1>1. CASE CheckKey
  <2>1. CASE call.key = "none"
    <3>1. End("AUTH_ERROR") /\ UNCHANGED <<call, errors, received, buffer, pending,
             pendingBytes, eof, relayed>>
      BY <1>1, <2>1 DEF CheckKey, stream
    <3>2. TypeOK'
      BY <3>1 DEF End, IndInv, TypeOK, Outcome, Category
    <3>3. PathInv'
      BY <1>1, <3>1 DEF CheckKey, End, IndInv, PathInv, Streaming
    <3>4. RetriesJustified'
      <4>1. DOMAIN errors = 1..Len(errors)
        BY DEF IndInv, TypeOK
      <4> QED BY <1>1, <2>1, <3>1, <4>1 DEF CheckKey, End, IndInv, PathInv, RetriesJustified
    <3>5. SizeInv'
      BY <3>1 DEF End, IndInv, SizeInv
    <3> QED BY <3>2, <3>3, <3>4, <3>5 DEF IndInv
  <2>4. CASE call.key = "set"
    <3>1. pc' = "send" /\ pc = "start" /\ UNCHANGED <<client, call, errors, outcome, stream>>
      BY <1>1, <2>4 DEF CheckKey
    <3> QED BY <1>a, <2>4, <3>1 DEF IndInv, TypeOK, Streaming
  <2> QED BY <1>t, <2>1, <2>4 DEF Call
<1>2. CASE Send
  BY <1>2, <1>a DEF Send, IndInv, PathInv, Streaming
<1>3. CASE TakeLine
  <2>1. "LF" \in Range(buffer) /\ pc = "lines"
    BY <1>3 DEF TakeLine
  <2>2. /\ StripCR(SubSeq(buffer, 1, FirstLF - 1)) \in Seq(Byte)
        /\ SubSeq(buffer, FirstLF + 1, Len(buffer)) \in Seq(Byte)
    BY <1>t, <2>1, LineType
  <2> QED BY <1>3, <2>1, <2>2, LineStep DEF TakeLine
<1>4. CASE AwaitChunk
  <2>1. call.key = "set" /\ call.asks = "stream" /\ pc = "lines" /\ client \in BOOLEAN
    BY <1>4 DEF AwaitChunk, IndInv, PathInv, Streaming, TypeOK
  <2>2. CASE Len(buffer) > MaxEvent
    <3>1. StreamFails("PROVIDER_UNAVAILABLE")
      BY <1>4, <2>2 DEF AwaitChunk
    <3> QED BY <1>t, <2>1, <3>1, EndsWithError DEF StreamFails
  <2>3. CASE ~(Len(buffer) > MaxEvent)
    <3>1. pc' = "reading" /\ UNCHANGED <<call, errors, outcome, client, stream>>
      BY <1>4, <2>3 DEF AwaitChunk
    <3> QED BY <1>a, <1>t, <2>1, <2>3, <3>1 DEF Streaming
  <2> QED BY <2>2, <2>3
<1>5. ASSUME NEW r \in Reply, Respond(r) PROVE IndInv'
  <2>1. pc = "asked" /\ call.asks # "stream" /\ call.key = "set"
    BY <1>5 DEF Respond, IndInv, PathInv
  <2>2. CASE r.status >= 400 \/ r.body = "oversized"
    BY <1>5, <1>t, <2>1, <2>2, ErrorType, FailAttemptStep DEF Respond
  <2>3. CASE ~(r.status >= 400 \/ r.body = "oversized")
    <3> DEFINE o == ParseOf(call.adapter, r)
    <3>1. o \in Category \cup {"exception", "result"}
      BY <1>t, ErrorType
    <3>2. End(o) /\ (errors' = IF o = "result" THEN errors ELSE Append(errors, o))
          /\ call' = call /\ stream' = stream
      BY <1>5, <2>3 DEF Respond
    <3> HIDE DEF o
    <3>3. CASE o = "result"
      BY <2>1, <3>2, <3>3, EndsWithout
    <3>4. CASE o # "result"
      BY <2>1, <3>1, <3>2, <3>4, EndsWithError
    <3> QED BY <3>3, <3>4
  <2> QED BY <2>2, <2>3
<1>6. CASE RequestBreaks
  BY <1>6, <1>t, FailAttemptStep DEF RequestBreaks
<1>7. ASSUME NEW r \in Reply, OpenStream(r) PROVE IndInv'
  <2>1. pc = "asked" /\ call.asks = "stream" /\ call.key = "set" /\ client \in BOOLEAN
    BY <1>7 DEF OpenStream, IndInv, PathInv, TypeOK
  <2>2. CASE r.status >= 400
    <3> DEFINE e == ErrorOf(call.adapter, r)
    <3>1. e \in Category \cup {"exception"}
      BY <1>t, ErrorType
    <3>2. End(e) /\ errors' = Append(errors, e) /\ call' = call /\ stream' = stream
      BY <1>7, <2>2 DEF OpenStream
    <3> HIDE DEF e
    <3> QED BY <2>1, <3>1, <3>2, EndsWithError
  <2>3. CASE ~(r.status >= 400)
    <3>1. pc' = "suspended" /\ UNCHANGED <<call, errors, outcome, client, stream>>
      BY <1>7, <2>3 DEF OpenStream
    <3> QED BY <1>a, <2>1, <3>1 DEF Streaming
  <2> QED BY <2>2, <2>3
<1>8. CASE OpenBreaks
  <2>1. pc = "asked" /\ call.key = "set"
    BY <1>8 DEF OpenBreaks, IndInv, PathInv
  <2> QED BY <1>8, <2>1, EndsWithError DEF OpenBreaks
<1>9. ASSUME NEW n \in 1..MaxChunk, NEW chunk \in [1..n -> Byte], Receive(chunk)
      PROVE  IndInv'
  <2>1. chunk \in Seq(Byte)
    BY SeqDef
  <2>2. received' \in Seq(Byte) /\ buffer' \in Seq(Byte)
    BY <1>9, <1>t, <2>1, ConcatProperties DEF Receive
  <2>3. /\ pc = "reading" /\ pc' = "lines"
        /\ UNCHANGED <<call, errors, outcome, client, pending, pendingBytes, eof, relayed>>
    BY <1>9 DEF Receive
  <2>4. TypeOK' /\ PathInv'
    BY <2>2, <2>3 DEF IndInv, TypeOK, PathInv, Streaming
  <2>5. RetriesJustified' /\ SizeInv'
    BY <2>3 DEF IndInv, RetriesJustified, SizeInv
  <2> QED BY <2>4, <2>5 DEF IndInv
<1>10. CASE EndOfStream
  <2>1. pc = "reading" /\ call.key = "set" /\ pc # "over"
    BY <1>10 DEF EndOfStream, IndInv, PathInv, Streaming
  <2> DEFINE last == StripCR(buffer)
  <2>2. last \in Seq(Byte) /\ Len(last) \in Nat
    BY <1>t, StripCRType
  <2>3. CASE buffer # <<>> /\ pendingBytes + Len(last) + 1 > MaxEvent
    <3>1. StreamFails("PROVIDER_UNAVAILABLE")
      BY <1>10, <2>3 DEF EndOfStream
    <3> QED BY <1>t, <2>1, <3>1, EndsWithError DEF StreamFails
  <2>4. CASE ~(buffer # <<>> /\ pendingBytes + Len(last) + 1 > MaxEvent)
    <3>1. eof' = TRUE /\ buffer' = <<>>
      BY <1>10, <2>4 DEF EndOfStream
    <3>2. LastEvent \in Seq(Seq(Char)) /\ EventBytes(LastEvent) <= MaxEvent
      <4>1. CASE buffer = <<>>
        BY <1>t, <4>1 DEF LastEvent, IndInv, SizeInv
      <4>2. CASE buffer # <<>>
        <5>1. /\ Append(pending, Decode(last)) \in Seq(Seq(Char))
              /\ EventBytes(Append(pending, Decode(last))) = EventBytes(pending) + Len(last) + 1
          <6> HIDE DEF last
          <6> QED BY <1>t, <2>2, EventBytesKeep
        <5>2. EventBytes(Append(pending, Decode(last))) = pendingBytes + Len(last) + 1
          BY <5>1 DEF IndInv, SizeInv
        <5> QED BY <1>t, <2>2, <2>4, <4>2, <5>1, <5>2 DEF LastEvent
      <4> QED BY <4>1, <4>2
    <3>3. CASE LastEvent # <<>>
      <4>1. Yield(LastEvent) /\ buffer' \in Seq(Byte) /\ eof' \in BOOLEAN
        BY <1>10, <2>4, <3>1, <3>3 DEF EndOfStream
      <4> HIDE DEF last
      <4> QED BY <2>1, <3>2, <3>3, <4>1, YieldStep
    <3>4. CASE LastEvent = <<>>
      <4>1. /\ End("result")
            /\ UNCHANGED <<call, errors, received, pending, pendingBytes, relayed>>
        BY <1>10, <2>4, <3>4 DEF EndOfStream
      <4>2. TypeOK'
        <5>1. buffer' \in Seq(Byte) /\ eof' \in BOOLEAN
          BY <3>1, EmptySeq
        <5>2. pc' = "over" /\ outcome' = "result" /\ client' = FALSE
          BY <4>1 DEF End
        <5> QED BY <4>1, <5>1, <5>2 DEF IndInv, TypeOK, Outcome
      <4>3. PathInv'
        BY <2>1, <4>1 DEF End, IndInv, PathInv, Streaming
      <4>4. RetriesJustified'
        <5>1. DOMAIN errors = 1..Len(errors)
          BY DEF IndInv, TypeOK
        <5> QED BY <2>1, <4>1, <5>1 DEF End, IndInv, PathInv, RetriesJustified
      <4>5. SizeInv'
        BY <4>1 DEF End, IndInv, SizeInv
      <4> QED BY <4>2, <4>3, <4>4, <4>5 DEF IndInv
    <3> QED BY <3>3, <3>4
  <2> QED BY <2>3, <2>4
<1>11. CASE StreamBreaks
  <2>1. pc = "reading" /\ call.key = "set"
    BY <1>11 DEF StreamBreaks, IndInv, PathInv, Streaming
  <2> QED BY <1>t, <1>11, <2>1, EndsWithError DEF StreamBreaks, StreamFails
<1>12. CASE Anext
  <2>1. /\ pc = "suspended" /\ call.key = "set" /\ call.asks = "stream" /\ client \in BOOLEAN
        /\ UNCHANGED <<call, errors, stream>>
    BY <1>12 DEF Anext, IndInv, PathInv, Streaming, TypeOK
  <2>2. CASE eof
    BY <1>12, <2>1, <2>2, EndsWithout DEF Anext
  <2>3. CASE ~eof
    <3>1. pc' = "lines" /\ UNCHANGED <<outcome, client>>
      BY <1>12, <2>3 DEF Anext
    <3> QED BY <1>a, <2>1, <3>1 DEF Streaming
  <2> QED BY <2>2, <2>3
<1>14. CASE Cancel \/ Finalize
  <2>1. pc # "over" /\ End("cancelled") /\ UNCHANGED <<call, errors, stream>>
    BY <1>14 DEF Cancel, Finalize
  <2> QED BY <2>1, EndsWithout
<1>15. CASE Abandon
  <2>1. pc = "suspended" /\ call.asks = "stream" /\ call.key = "set" /\ client \in BOOLEAN
    BY <1>15 DEF Abandon, IndInv, PathInv, Streaming, TypeOK
  <2> QED BY <1>15, <1>a, <2>1 DEF Abandon, Streaming
<1>16. CASE UNCHANGED vars
  <2>1. UNCHANGED <<call, pc, errors, outcome, client, received, buffer, pending, pendingBytes,
                    eof, relayed>>
    BY <1>16 DEF vars, stream
  <2> QED BY <2>1 DEF IndInv, TypeOK, PathInv, RetriesJustified, SizeInv
<1> QED
  BY <1>1, <1>2, <1>3, <1>4, <1>5, <1>6, <1>7, <1>8, <1>9, <1>10, <1>11, <1>12, <1>14,
     <1>15, <1>16
     DEF Next, Proceed, Answer, Incoming, Caller, Done

-------------------------------------------------------------------------------
(* The reference reading.  Its states, one for every byte read, exist and   *)
(* are typed; induction over positions is by least counterexample.          *)

State == [line : Seq(Byte), event : Seq(Seq(Char)), events : Seq(Seq(Seq(Char)))]

\* A set that holds 0 and the successor of each of its elements below n holds 0..n.
LEMMA Induction ==
    ASSUME NEW S, NEW n \in Nat, 0 \in S, \A i \in 0..n : i \in S /\ i < n => i + 1 \in S
    PROVE  \A i \in 0..n : i \in S
<1> DEFINE T == {i \in 0..n : i \notin S}
<1> SUFFICES ASSUME T # {} PROVE FALSE
    OBVIOUS
<1>1. T \subseteq Nat
  OBVIOUS
<1>2. PICK i \in T : \A j \in T : <<j, i>> \notin OpToRel(<, Nat)
  BY <1>1, WFMin, NatLessThanWellFounded, Zenon
<1>3. \A j \in T : ~(j < i)
  BY <1>2, <1>1 DEF OpToRel
<1>4. i \in 0..n /\ i \notin S /\ i # 0
  OBVIOUS
<1>5. i - 1 \in 0..n /\ i - 1 < n /\ i - 1 < i /\ (i - 1) + 1 = i
  BY <1>4
<1>6. i - 1 \in S
  BY <1>3, <1>5
<1> QED BY <1>4, <1>5, <1>6

\* What the reference makes of one byte.
LEMMA ReadByteFields ==
    ASSUME NEW b \in Byte, NEW s \in State
    PROVE  /\ ReadByte(b, s) \in State
           /\ b # "LF" => /\ ReadByte(b, s).line = Append(s.line, b)
                          /\ ReadByte(b, s).event = s.event
                          /\ ReadByte(b, s).events = s.events
           /\ b = "LF" => ReadByte(b, s).line = <<>>
           /\ b = "LF" /\ StripCR(s.line) = <<>> /\ s.event # <<>> =>
                 /\ ReadByte(b, s).event = <<>>
                 /\ ReadByte(b, s).events = Append(s.events, s.event)
           /\ b = "LF" /\ StripCR(s.line) # <<>> /\ StripCR(s.line)[1] # ":" =>
                 /\ ReadByte(b, s).event = Append(s.event, Decode(StripCR(s.line)))
                 /\ ReadByte(b, s).events = s.events
           /\ b = "LF" /\ (IF StripCR(s.line) = <<>> THEN s.event = <<>> ELSE StripCR(s.line)[1] = ":") =>
                 /\ ReadByte(b, s).event = s.event
                 /\ ReadByte(b, s).events = s.events
<1> DEFINE line == StripCR(s.line)
<1>1. /\ s.line \in Seq(Byte) /\ s.event \in Seq(Seq(Char)) /\ s.events \in Seq(Seq(Seq(Char)))
      /\ line \in Seq(Byte)
  BY StripCRType DEF State
<1>2. /\ Append(s.line, b) \in Seq(Byte) /\ Append(s.event, Decode(line)) \in Seq(Seq(Char))
      /\ Append(s.events, s.event) \in Seq(Seq(Seq(Char)))
  BY <1>1, DecodeType, AppendProperties
<1> HIDE DEF line
<1>3. CASE b # "LF"
  <2>1. ReadByte(b, s) = [s EXCEPT !.line = Append(s.line, b)]
    BY <1>3 DEF ReadByte
  <2> QED BY <1>1, <1>2, <1>3, <2>1 DEF State
<1> DEFINE t == ReadByte(b, s)
<1>e. <<>> \in Seq(Byte) /\ <<>> \in Seq(Seq(Char)) /\ line = StripCR(s.line)
  BY EmptySeq DEF line
<1>4. CASE b = "LF" /\ line = <<>> /\ s.event # <<>>
  <2>1. t = [line |-> <<>>, event |-> <<>>, events |-> Append(s.events, s.event)]
    BY <1>4 DEF ReadByte, line
  <2>2. t \in State /\ t.line = <<>> /\ t.event = <<>> /\ t.events = Append(s.events, s.event)
    BY <1>2, <1>e, <2>1 DEF State
  <2> HIDE DEF t
  <2> QED BY <1>4, <1>e, <2>2 DEF t
<1>5. CASE b = "LF" /\ line # <<>> /\ line[1] # ":"
  <2>1. t = [s EXCEPT !.line = <<>>, !.event = Append(s.event, Decode(line))]
    BY <1>5 DEF ReadByte, line
  <2>2. t \in State /\ t.line = <<>> /\ t.event = Append(s.event, Decode(line)) /\ t.events = s.events
    BY <1>1, <1>2, <1>e, <2>1 DEF State
  <2> HIDE DEF t
  <2> QED BY <1>5, <1>e, <2>2 DEF t
<1>6. CASE b = "LF" /\ IF line = <<>> THEN s.event = <<>> ELSE line[1] = ":"
  <2>1. t = [s EXCEPT !.line = <<>>]
    BY <1>6 DEF ReadByte, line
  <2>2. t \in State /\ t.line = <<>> /\ t.event = s.event /\ t.events = s.events
    BY <1>1, <1>2, <1>e, <2>1 DEF State
  <2> HIDE DEF t
  <2> QED BY <1>6, <1>e, <2>2 DEF t
<1> QED BY <1>3, <1>4, <1>5, <1>6

\* r is the reading of the first k bytes.
Reads(bytes, k, r) ==
    /\ r \in [0..k -> State]
    /\ r[0] = [line |-> <<>>, event |-> <<>>, events |-> <<>>]
    /\ \A n \in 1..k : r[n] = ReadByte(bytes[n], r[n - 1])

\* There is a reading of any number of bytes.
LEMMA ReadingExists ==
    ASSUME NEW bytes \in Seq(Byte)
    PROVE  \E r : Reads(bytes, Len(bytes), r)
<1> DEFINE start == [line |-> <<>>, event |-> <<>>, events |-> <<>>]
           S == {k \in Nat : \E r : Reads(bytes, k, r)}
<1>0. Len(bytes) \in Nat /\ start \in State
  BY EmptySeq DEF State
<1>1. 0 \in S
  <2> HIDE DEF start
  <2>1. [n \in 0..0 |-> start] \in [0..0 -> State] /\ [n \in 0..0 |-> start][0] = start
    BY <1>0
  <2>2. Reads(bytes, 0, [n \in 0..0 |-> start])
    BY <2>1 DEF Reads, start
  <2> QED BY <2>2
<1>2. ASSUME NEW k \in 0..Len(bytes), k \in S, k < Len(bytes) PROVE k + 1 \in S
  <2>1. PICK r : Reads(bytes, k, r)
    BY <1>2
  <2> DEFINE s == ReadByte(bytes[k + 1], r[k])
             q == [n \in 0..(k + 1) |-> IF n = k + 1 THEN s ELSE r[n]]
  <2>2. k \in Nat /\ k + 1 \in 1..Len(bytes) /\ bytes[k + 1] \in Byte
    BY <1>0, <1>2, ElementOfSeq
  <2>3. r \in [0..k -> State] /\ r[k] \in State
    BY <2>1, <2>2 DEF Reads
  <2>4. s \in State
    BY <2>2, <2>3, ReadByteFields
  <2> HIDE DEF s
  <2>5. q \in [0..(k + 1) -> State]
    BY <2>2, <2>3, <2>4
  <2>6. q[0] = r[0] /\ q[k + 1] = s /\ \A n \in 0..k : q[n] = r[n]
    BY <2>2
  <2>7. ASSUME NEW n \in 1..(k + 1) PROVE q[n] = ReadByte(bytes[n], q[n - 1])
    <3> HIDE DEF q
    <3>1. CASE n = k + 1
      BY <2>2, <2>6, <3>1 DEF s
    <3>2. CASE n # k + 1
      <4>1. n \in 1..k /\ n \in 0..k /\ n - 1 \in 0..k
        BY <2>2, <3>2
      <4> QED BY <2>1, <2>6, <4>1 DEF Reads
    <3> QED BY <3>1, <3>2
  <2> HIDE DEF q
  <2>8. Reads(bytes, k + 1, q)
    BY <2>1, <2>5, <2>6, <2>7 DEF Reads
  <2> QED BY <2>2, <2>8
<1> HIDE DEF S
<1>3. \A i \in 0..Len(bytes) : i \in S
  BY <1>0, <1>1, <1>2, Induction
<1>4. Len(bytes) \in S
  BY <1>0, <1>3
<1> QED BY <1>4 DEF S

\* Reading is the reading of all the bytes.
LEMMA ReadingReads ==
    ASSUME NEW bytes \in Seq(Byte)
    PROVE  Reads(bytes, Len(bytes), Reading(bytes))
<1> DEFINE Body(r) == [n \in 0..Len(bytes) |->
                          IF n = 0 THEN [line |-> <<>>, event |-> <<>>, events |-> <<>>]
                                   ELSE ReadByte(bytes[n], r[n - 1])]
<1>1. Len(bytes) \in Nat
  OBVIOUS
<1>2. Reading(bytes) = CHOOSE r : r = Body(r)
  BY DEF Reading
<1>3. PICK r : Reads(bytes, Len(bytes), r)
  BY ReadingExists
<1>4. r = Body(r)
  <2>1. r = [n \in 0..Len(bytes) |-> r[n]]
    BY <1>3 DEF Reads
  <2>2. ASSUME NEW n \in 0..Len(bytes)
        PROVE  r[n] = IF n = 0 THEN [line |-> <<>>, event |-> <<>>, events |-> <<>>]
                               ELSE ReadByte(bytes[n], r[n - 1])
    BY <1>1, <1>3 DEF Reads
  <2> QED BY <2>1, <2>2
<1>5. Reading(bytes) = Body(Reading(bytes))
  <2> HIDE DEF Body
  <2> QED BY <1>2, <1>4
<1> DEFINE q == Reading(bytes)
<1> HIDE DEF q
<1>6. q = [n \in 0..Len(bytes) |->
              IF n = 0 THEN [line |-> <<>>, event |-> <<>>, events |-> <<>>]
                       ELSE ReadByte(bytes[n], q[n - 1])]
  BY <1>5 DEF q
<1> HIDE DEF Body
<1>7. /\ DOMAIN q = 0..Len(bytes)
      /\ q[0] = [line |-> <<>>, event |-> <<>>, events |-> <<>>]
      /\ \A n \in 1..Len(bytes) : q[n] = ReadByte(bytes[n], q[n - 1])
  BY <1>1, <1>6
<1> DEFINE S == {k \in Nat : q[k] \in State}
<1>8. 0 \in S
  <2>1. [line |-> <<>>, event |-> <<>>, events |-> <<>>] \in State
    BY EmptySeq DEF State
  <2>2. q[0] \in State
    BY <1>7, <2>1
  <2> QED BY <2>2
<1>9. ASSUME NEW k \in 0..Len(bytes), k \in S, k < Len(bytes) PROVE k + 1 \in S
  <2>1. k + 1 \in 1..Len(bytes) /\ bytes[k + 1] \in Byte /\ (k + 1) - 1 = k /\ k + 1 \in Nat
    BY <1>1, <1>9, ElementOfSeq
  <2>2. q[k + 1] = ReadByte(bytes[k + 1], q[k])
    BY <1>7, <2>1
  <2> QED BY <1>9, <2>1, <2>2, ReadByteFields
<1> HIDE DEF S
<1>10. \A i \in 0..Len(bytes) : i \in S
  BY <1>1, <1>8, <1>9, Induction
<1>11. q \in [0..Len(bytes) -> State]
  <2>1. \A i \in 0..Len(bytes) : q[i] \in State
    BY <1>10 DEF S
  <2>2. q = [n \in 0..Len(bytes) |-> q[n]]
    BY <1>6
  <2> QED BY <2>1, <2>2
<1> QED BY <1>7, <1>11 DEF Reads, q

\* The states of a reading, one after the other.
LEMMA ReadingStep ==
    ASSUME NEW bytes \in Seq(Byte)
    PROVE  /\ \A n \in 0..Len(bytes) : Reading(bytes)[n] \in State
           /\ Reading(bytes)[0] = [line |-> <<>>, event |-> <<>>, events |-> <<>>]
           /\ \A n \in 0..Len(bytes) : n < Len(bytes) =>
                 /\ n + 1 \in 1..Len(bytes) /\ bytes[n + 1] \in Byte
                 /\ Reading(bytes)[n + 1] = ReadByte(bytes[n + 1], Reading(bytes)[n])
<1> DEFINE r == Reading(bytes)
<1>1. Reads(bytes, Len(bytes), r) /\ Len(bytes) \in Nat
  BY ReadingReads
<1> HIDE DEF r
<1>2. (\A n \in 0..Len(bytes) : r[n] \in State)
      /\ r[0] = [line |-> <<>>, event |-> <<>>, events |-> <<>>]
  BY <1>1 DEF Reads
<1>3. ASSUME NEW n \in 0..Len(bytes), n < Len(bytes)
      PROVE  /\ n + 1 \in 1..Len(bytes) /\ bytes[n + 1] \in Byte
             /\ r[n + 1] = ReadByte(bytes[n + 1], r[n])
  <2>1. n + 1 \in 1..Len(bytes) /\ (n + 1) - 1 = n
    BY <1>1, <1>3
  <2>2. bytes[n + 1] \in Byte
    BY <2>1, ElementOfSeq
  <2>3. r[n + 1] = ReadByte(bytes[n + 1], r[(n + 1) - 1])
    BY <1>1, <2>1 DEF Reads
  <2> QED BY <2>1, <2>2, <2>3
<1> QED BY <1>2, <1>3 DEF r

\* What comes later does not change what was read.
LEMMA ReadingAgrees ==
    ASSUME NEW bytes \in Seq(Byte), NEW more \in Seq(Byte)
    PROVE  \A n \in 0..Len(bytes) : Reading(bytes \o more)[n] = Reading(bytes)[n]
<1> DEFINE all == bytes \o more
           S == {n \in Nat : Reading(all)[n] = Reading(bytes)[n]}
<1>1. /\ all \in Seq(Byte) /\ Len(bytes) \in Nat /\ Len(more) \in Nat
      /\ Len(all) = Len(bytes) + Len(more)
      /\ \A i \in 1..Len(bytes) : all[i] = bytes[i]
  BY ConcatProperties
<1> HIDE DEF all
<1>2. 0 \in S
  BY <1>1, ReadingStep
<1>3. ASSUME NEW n \in 0..Len(bytes), n \in S, n < Len(bytes) PROVE n + 1 \in S
  <2>1. n + 1 \in 1..Len(bytes) /\ n \in 0..Len(all) /\ n < Len(all) /\ n + 1 \in Nat
    BY <1>1, <1>3
  <2>2. Reading(bytes)[n + 1] = ReadByte(bytes[n + 1], Reading(bytes)[n])
    BY <1>3, ReadingStep
  <2>3. Reading(all)[n + 1] = ReadByte(all[n + 1], Reading(all)[n])
    BY <1>1, <2>1, ReadingStep
  <2>4. all[n + 1] = bytes[n + 1] /\ Reading(all)[n] = Reading(bytes)[n]
    BY <1>1, <1>3, <2>1
  <2> QED BY <2>1, <2>2, <2>3, <2>4
<1> HIDE DEF S
<1>4. \A n \in 0..Len(bytes) : n \in S
  BY <1>1, <1>2, <1>3, Induction
<1> QED BY <1>4 DEF S, all

\* A part of a sequence of bytes.
LEMMA Slice ==
    ASSUME NEW bytes \in Seq(Byte), NEW i \in 1..(Len(bytes) + 1), NEW j \in (i - 1)..Len(bytes)
    PROVE  /\ SubSeq(bytes, i, j) \in Seq(Byte)
           /\ Len(SubSeq(bytes, i, j)) = j - i + 1
           /\ \A k \in 1..(j - i + 1) : SubSeq(bytes, i, j)[k] = bytes[i + k - 1]
<1>1. Len(bytes) \in Nat /\ i \in Int /\ j \in Int
  OBVIOUS
<1>2. \A k \in i..j : bytes[k] \in Byte
  BY <1>1, ElementOfSeq
<1> QED BY <1>1, <1>2, SubSeqProperties

\* From the beginning of a line to its end, the reference only gathers bytes.
LEMMA LineGrows ==
    ASSUME NEW bytes \in Seq(Byte), NEW p \in 0..Len(bytes), NEW q \in p..Len(bytes),
           \A k \in (p + 1)..q : bytes[k] # "LF",
           Reading(bytes)[p].line = <<>>
    PROVE  /\ Reading(bytes)[q].line = SubSeq(bytes, p + 1, q)
           /\ Reading(bytes)[q].event = Reading(bytes)[p].event
           /\ Reading(bytes)[q].events = Reading(bytes)[p].events
<1> DEFINE r == Reading(bytes)
           Grown(n) == /\ r[n].line = SubSeq(bytes, p + 1, n)
                       /\ r[n].event = r[p].event
                       /\ r[n].events = r[p].events
           S == {d \in Nat : Grown(p + d)}
<1>0. Len(bytes) \in Nat /\ p \in Nat /\ q \in Nat /\ q - p \in Nat /\ p + (q - p) = q
      /\ p + 0 = p
  OBVIOUS
<1> HIDE DEF r
<1>1. 0 \in S
  <2>1. SubSeq(bytes, p + 1, p) = <<>>
    BY <1>0, SubSeqEmpty
  <2>2. Grown(p)
    BY <2>1 DEF r
  <2> HIDE DEF Grown
  <2> QED BY <1>0, <2>2
<1>2. ASSUME NEW d \in 0..(q - p), d \in S, d < q - p PROVE d + 1 \in S
  <2> DEFINE n == p + d
  <2>1. /\ n \in 0..Len(bytes) /\ n < Len(bytes) /\ n + 1 \in (p + 1)..q /\ n + 1 \in 1..Len(bytes)
        /\ n + 1 \in (p + 1)..Len(bytes) /\ p + 1 \in 1..Len(bytes) /\ (n + 1) - 1 = n
        /\ p + (d + 1) = n + 1 /\ p + 1 \in 1..(Len(bytes) + 1) /\ n \in ((p + 1) - 1)..Len(bytes)
    BY <1>0, <1>2
  <2>2. Grown(n)
    BY <1>2
  <2> HIDE DEF n
  <2>3. r[n] \in State /\ bytes[n + 1] \in Byte /\ r[n + 1] = ReadByte(bytes[n + 1], r[n])
    BY <2>1, ReadingStep DEF r
  <2>4. bytes[n + 1] # "LF"
    BY <2>1
  <2>5. /\ r[n + 1].line = Append(r[n].line, bytes[n + 1])
        /\ r[n + 1].event = r[n].event /\ r[n + 1].events = r[n].events
    <3> DEFINE b == bytes[n + 1]
               s == r[n]
    <3>1. b \in Byte /\ s \in State /\ b # "LF" /\ r[n + 1] = ReadByte(b, s)
      BY <2>3, <2>4
    <3> HIDE DEF b, s
    <3>2. /\ ReadByte(b, s).line = Append(s.line, b)
          /\ ReadByte(b, s).event = s.event /\ ReadByte(b, s).events = s.events
      BY <3>1, ReadByteFields
    <3> QED BY <3>1, <3>2 DEF b, s
  <2>6. SubSeq(bytes, p + 1, n) \in Seq(Byte)
    BY <2>1, Slice
  <2>7. Append(SubSeq(bytes, p + 1, n), bytes[n + 1]) = SubSeq(bytes, p + 1, n + 1)
    <3>1. SubSeq(bytes, p + 1, n + 1) = SubSeq(bytes, p + 1, (n + 1) - 1) \o <<bytes[n + 1]>>
      BY <2>1, SubSeqRecursiveSecond
    <3>2. Append(SubSeq(bytes, p + 1, n), bytes[n + 1])
            = SubSeq(bytes, p + 1, n) \o <<bytes[n + 1]>>
      BY <2>3, <2>6, AppendIsConcat
    <3> QED BY <2>1, <3>1, <3>2
  <2>8. Grown(n + 1)
    BY <2>2, <2>5, <2>7
  <2> HIDE DEF Grown
  <2> QED BY <2>1, <2>8
<1> HIDE DEF S
<1>3. \A d \in 0..(q - p) : d \in S
  BY <1>0, <1>1, <1>2, Induction
<1>4. q - p \in S
  BY <1>0, <1>3
<1>5. Grown(q)
  BY <1>0, <1>4 DEF S
<1> QED BY <1>5 DEF r

\* The events that were read stay, in their order; others follow.
LEMMA EventsGrow ==
    ASSUME NEW bytes \in Seq(Byte), NEW p \in 0..Len(bytes)
    PROVE  \A q \in p..Len(bytes) :
              /\ Len(Reading(bytes)[p].events) <= Len(Reading(bytes)[q].events)
              /\ \A i \in 1..Len(Reading(bytes)[p].events) :
                    Reading(bytes)[q].events[i] = Reading(bytes)[p].events[i]
<1> DEFINE r == Reading(bytes)
           Begins(n) == /\ Len(r[p].events) <= Len(r[n].events)
                        /\ \A i \in 1..Len(r[p].events) : r[n].events[i] = r[p].events[i]
           S == {d \in Nat : Begins(p + d)}
<1>0. Len(bytes) \in Nat /\ p \in Nat /\ Len(bytes) - p \in Nat /\ p + 0 = p
  OBVIOUS
<1> HIDE DEF r
<1>s. \A n \in 0..Len(bytes) : r[n] \in State /\ r[n].events \in Seq(Seq(Seq(Char)))
  BY ReadingStep DEF r, State
<1>1. 0 \in S
  <2>1. Len(r[p].events) \in Nat
    BY <1>s
  <2>2. Begins(p)
    BY <2>1
  <2> HIDE DEF Begins
  <2> QED BY <1>0, <2>2
<1>2. ASSUME NEW d \in 0..(Len(bytes) - p), d \in S, d < Len(bytes) - p PROVE d + 1 \in S
  <2> DEFINE n == p + d
  <2>1. n \in 0..Len(bytes) /\ n < Len(bytes) /\ p + (d + 1) = n + 1
    BY <1>0, <1>2
  <2>2. Begins(n)
    BY <1>2
  <2> HIDE DEF n
  <2>3. r[n] \in State /\ bytes[n + 1] \in Byte /\ r[n + 1] = ReadByte(bytes[n + 1], r[n])
    BY <2>1, ReadingStep DEF r
  <2>4. r[n + 1].events = r[n].events \/ r[n + 1].events = Append(r[n].events, r[n].event)
    <3> DEFINE b == bytes[n + 1]
               s == r[n]
    <3>1. b \in Byte /\ s \in State /\ r[n + 1] = ReadByte(b, s)
      BY <2>3
    <3> HIDE DEF b, s
    <3>2. ReadByte(b, s).events = s.events \/ ReadByte(b, s).events = Append(s.events, s.event)
      BY <3>1, ReadByteFields
    <3> QED BY <3>1, <3>2 DEF b, s
  <2>5. /\ r[n].event \in Seq(Seq(Char)) /\ r[n].events \in Seq(Seq(Seq(Char)))
        /\ Len(r[n].events) \in Nat /\ Len(r[p].events) \in Nat
    BY <1>s, <2>3 DEF State
  <2>6. CASE r[n + 1].events = Append(r[n].events, r[n].event)
    <3>1. /\ Len(r[n + 1].events) = Len(r[n].events) + 1
          /\ \A i \in 1..Len(r[n].events) : r[n + 1].events[i] = r[n].events[i]
      BY <2>5, <2>6, AppendProperties
    <3>2. \A i \in 1..Len(r[p].events) : i \in 1..Len(r[n].events)
      BY <2>2, <2>5
    <3>3. Begins(n + 1)
      BY <2>2, <2>5, <3>1, <3>2
    <3> HIDE DEF Begins
    <3> QED BY <2>1, <3>3
  <2>7. CASE r[n + 1].events = r[n].events
    <3>1. Begins(n + 1)
      BY <2>2, <2>7
    <3> HIDE DEF Begins
    <3> QED BY <2>1, <3>1
  <2> QED BY <2>4, <2>6, <2>7
<1> HIDE DEF S
<1>3. \A d \in 0..(Len(bytes) - p) : d \in S
  BY <1>0, <1>1, <1>2, Induction
<1>4. ASSUME NEW q \in p..Len(bytes) PROVE Begins(q)
  <2>1. q - p \in 0..(Len(bytes) - p) /\ p + (q - p) = q
    BY <1>0
  <2>2. Begins(p + (q - p))
    BY <1>3, <2>1 DEF S
  <2> HIDE DEF Begins
  <2> QED BY <2>1, <2>2
<1> QED BY <1>4 DEF r

-------------------------------------------------------------------------------
(* The relay against the reference.  The buffer is what the adapter has not *)
(* looked at yet: at the position where it begins, which is the beginning   *)
(* of a line, the reference has read what is pending and what was relayed.  *)

Cut(p) ==
    /\ buffer = SubSeq(received, p + 1, Len(received))
    /\ Reading(received)[p].line = <<>>
    /\ Reading(received)[p].event = pending
    /\ Reading(received)[p].events = relayed

RelayInv ==
    /\ ~eof => \E p \in 0..Len(received) : Cut(p)
    /\ eof => relayed = ReadAll(received)
    /\ outcome = "result" /\ call.asks = "stream" => relayed = ReadAll(received)
    /\ pc \in {"lines", "reading"} => ~eof
    /\ pc = "reading" => "LF" \notin Range(buffer)

\* The buffer in the stream.
LEMMA BufferIn ==
    ASSUME received \in Seq(Byte), NEW p \in 0..Len(received), Cut(p)
    PROVE  /\ Len(received) \in Nat /\ p \in Nat
           /\ Len(buffer) = Len(received) - p /\ p + Len(buffer) = Len(received)
           /\ \A k \in 1..Len(buffer) : buffer[k] = received[p + k]
<1>1. /\ Len(received) \in Nat /\ p + 1 \in 1..(Len(received) + 1)
      /\ Len(received) \in ((p + 1) - 1)..Len(received)
  OBVIOUS
<1>2. /\ Len(buffer) = Len(received) - (p + 1) + 1
      /\ \A k \in 1..(Len(received) - (p + 1) + 1) : buffer[k] = received[(p + 1) + k - 1]
  BY <1>1, Slice DEF Cut
<1>3. Len(received) - (p + 1) + 1 = Len(received) - p
  BY <1>1
<1>4. ASSUME NEW k \in 1..Len(buffer) PROVE buffer[k] = received[p + k]
  <2>1. k \in 1..(Len(received) - (p + 1) + 1) /\ (p + 1) + k - 1 = p + k
    BY <1>1, <1>2
  <2> QED BY <1>2, <2>1
<1> QED BY <1>1, <1>2, <1>3, <1>4

\* The next line of the buffer is the one the reference has gathered when it comes to
\* the same LF.
LEMMA NextLine ==
    ASSUME received \in Seq(Byte), buffer \in Seq(Byte), "LF" \in Range(buffer),
           NEW p \in 0..Len(received), Cut(p)
    PROVE  /\ p + FirstLF \in 1..Len(received) /\ (p + FirstLF) - 1 \in 0..Len(received)
           /\ received[p + FirstLF] = "LF"
           /\ \A k \in (p + 1)..((p + FirstLF) - 1) : received[k] # "LF"
           /\ SubSeq(buffer, FirstLF + 1, Len(buffer))
                = SubSeq(received, (p + FirstLF) + 1, Len(received))
           /\ Reading(received)[(p + FirstLF) - 1].line = SubSeq(buffer, 1, FirstLF - 1)
           /\ Reading(received)[(p + FirstLF) - 1].event = pending
           /\ Reading(received)[(p + FirstLF) - 1].events = relayed
<1> DEFINE f == FirstLF
           n == (p + f) - 1
<1>1. f \in 1..Len(buffer) /\ buffer[f] = "LF" /\ \A j \in 1..(f - 1) : buffer[j] # "LF"
  BY FirstLFExists
<1>2. /\ Len(received) \in Nat /\ p \in Nat
      /\ Len(buffer) = Len(received) - p /\ p + Len(buffer) = Len(received)
      /\ \A k \in 1..Len(buffer) : buffer[k] = received[p + k]
  BY BufferIn
<1> HIDE DEF f
<1>3. /\ p + f \in 1..Len(received) /\ n \in 0..Len(received) /\ n \in p..Len(received)
      /\ f \in Nat /\ n \in Nat
  BY <1>1, <1>2
<1>4. received[p + f] = "LF"
  BY <1>1, <1>2
<1>5. ASSUME NEW k \in (p + 1)..n PROVE received[k] # "LF"
  <2>1. k - p \in 1..(f - 1) /\ k - p \in 1..Len(buffer) /\ p + (k - p) = k
    BY <1>1, <1>2, <1>3
  <2>2. buffer[k - p] = received[p + (k - p)]
    BY <1>2, <2>1
  <2> QED BY <1>1, <2>1, <2>2
<1>6. SubSeq(buffer, f + 1, Len(buffer)) = SubSeq(received, (p + f) + 1, Len(received))
  <2> DEFINE a == SubSeq(buffer, f + 1, Len(buffer))
             b == SubSeq(received, (p + f) + 1, Len(received))
  <2>1. /\ f + 1 \in 1..(Len(buffer) + 1) /\ Len(buffer) \in ((f + 1) - 1)..Len(buffer)
        /\ (p + f) + 1 \in 1..(Len(received) + 1)
        /\ Len(received) \in (((p + f) + 1) - 1)..Len(received)
    BY <1>1, <1>2, <1>3
  <2>2. /\ a \in Seq(Byte) /\ Len(a) = Len(buffer) - (f + 1) + 1
        /\ \A k \in 1..(Len(buffer) - (f + 1) + 1) : a[k] = buffer[(f + 1) + k - 1]
    BY <2>1, Slice
  <2>3. /\ b \in Seq(Byte) /\ Len(b) = Len(received) - ((p + f) + 1) + 1
        /\ \A k \in 1..(Len(received) - ((p + f) + 1) + 1) :
              b[k] = received[((p + f) + 1) + k - 1]
    BY <2>1, Slice
  <2> HIDE DEF a, b
  <2>4. Len(a) = Len(b)
    BY <1>2, <1>3, <2>2, <2>3
  <2>5. ASSUME NEW k \in 1..Len(a) PROVE a[k] = b[k]
    <3>1. /\ k \in 1..(Len(buffer) - (f + 1) + 1)
          /\ k \in 1..(Len(received) - ((p + f) + 1) + 1)
          /\ (f + 1) + k - 1 \in 1..Len(buffer)
          /\ p + ((f + 1) + k - 1) = ((p + f) + 1) + k - 1
      BY <1>2, <1>3, <2>2, <2>3, <2>4
    <3>2. a[k] = buffer[(f + 1) + k - 1] /\ b[k] = received[((p + f) + 1) + k - 1]
      BY <2>2, <2>3, <3>1
    <3>3. buffer[(f + 1) + k - 1] = received[p + ((f + 1) + k - 1)]
      BY <1>2, <3>1
    <3> QED BY <3>1, <3>2, <3>3
  <2>6. a = b
    BY <2>2, <2>3, <2>4, <2>5, SeqEqual
  <2> QED BY <2>6 DEF a, b
<1>7. SubSeq(buffer, 1, f - 1) = SubSeq(received, p + 1, n)
  <2> DEFINE a == SubSeq(buffer, 1, f - 1)
             b == SubSeq(received, p + 1, n)
  <2>1. /\ 1 \in 1..(Len(buffer) + 1) /\ f - 1 \in (1 - 1)..Len(buffer)
        /\ p + 1 \in 1..(Len(received) + 1) /\ n \in ((p + 1) - 1)..Len(received)
    BY <1>1, <1>2, <1>3
  <2>2. /\ a \in Seq(Byte) /\ Len(a) = (f - 1) - 1 + 1
        /\ \A k \in 1..((f - 1) - 1 + 1) : a[k] = buffer[1 + k - 1]
    BY <2>1, Slice
  <2> HIDE DEF n
  <2>3. /\ b \in Seq(Byte) /\ Len(b) = n - (p + 1) + 1
        /\ \A k \in 1..(n - (p + 1) + 1) : b[k] = received[(p + 1) + k - 1]
    BY <2>1, Slice
  <2> HIDE DEF a, b
  <2>4. Len(a) = Len(b) /\ Len(a) = f - 1
    BY <1>2, <1>3, <2>2, <2>3 DEF n
  <2>5. ASSUME NEW k \in 1..Len(a) PROVE a[k] = b[k]
    <3>1. /\ k \in 1..((f - 1) - 1 + 1) /\ k \in 1..(n - (p + 1) + 1)
          /\ 1 + k - 1 = k /\ k \in 1..Len(buffer) /\ (p + 1) + k - 1 = p + k
      BY <1>1, <1>2, <1>3, <2>2, <2>3, <2>4
    <3>2. a[k] = buffer[k] /\ b[k] = received[p + k]
      BY <2>2, <2>3, <3>1
    <3> QED BY <1>2, <3>1, <3>2
  <2>6. a = b
    BY <2>2, <2>3, <2>4, <2>5, SeqEqual
  <2> QED BY <2>6 DEF a, b
<1>8. /\ Reading(received)[n].line = SubSeq(received, p + 1, n)
      /\ Reading(received)[n].event = Reading(received)[p].event
      /\ Reading(received)[n].events = Reading(received)[p].events
  <2>1. Reading(received)[p].line = <<>>
    BY DEF Cut
  <2> HIDE DEF n
  <2> QED BY <1>3, <1>5, <2>1, LineGrows
<1> QED BY <1>3, <1>4, <1>5, <1>6, <1>7, <1>8 DEF f, Cut

\* What the reference makes of all the bytes when the buffer holds no LF.
LEMMA LastLine ==
    ASSUME received \in Seq(Byte), buffer \in Seq(Byte), "LF" \notin Range(buffer),
           NEW p \in 0..Len(received), Cut(p)
    PROVE  /\ Read(received).line = buffer
           /\ Read(received).event = pending
           /\ Read(received).events = relayed
<1>1. /\ Len(received) \in Nat /\ p \in Nat
      /\ Len(buffer) = Len(received) - p /\ p + Len(buffer) = Len(received)
      /\ \A k \in 1..Len(buffer) : buffer[k] = received[p + k]
  BY BufferIn
<1>2. Len(received) \in p..Len(received)
  BY <1>1
<1>3. ASSUME NEW k \in (p + 1)..Len(received) PROVE received[k] # "LF"
  <2>1. k - p \in 1..Len(buffer) /\ p + (k - p) = k
    BY <1>1
  <2>2. buffer[k - p] = received[p + (k - p)]
    BY <1>1, <2>1
  <2>3. buffer[k - p] # "LF"
    <3>1. DOMAIN buffer = 1..Len(buffer)
      OBVIOUS
    <3> QED BY <2>1, <3>1 DEF Range
  <2> QED BY <2>1, <2>2, <2>3
<1>4. Reading(received)[p].line = <<>>
  BY DEF Cut
<1>5. /\ Reading(received)[Len(received)].line = SubSeq(received, p + 1, Len(received))
      /\ Reading(received)[Len(received)].event = Reading(received)[p].event
      /\ Reading(received)[Len(received)].events = Reading(received)[p].events
  BY <1>2, <1>3, <1>4, LineGrows
<1> QED BY <1>5 DEF Cut, Read

\* A step that does not touch the stream and does not end it with success.
LEMMA StreamKept ==
    ASSUME RelayInv, UNCHANGED <<call, stream>>,
           outcome' = outcome \/ outcome' # "result" \/ call.asks # "stream",
           pc' \in {"lines", "reading"} => ~eof,
           pc' = "reading" => "LF" \notin Range(buffer)
    PROVE  RelayInv'
<1>1. UNCHANGED <<call, received, buffer, pending, pendingBytes, eof, relayed>>
  BY DEF stream
<1>2. \A p \in 0..Len(received) : Cut(p) => Cut(p)'
  BY <1>1 DEF Cut
<1>3. ~eof' => \E p \in 0..Len(received') : Cut(p)'
  BY <1>1, <1>2 DEF RelayInv
<1>4. /\ eof' => relayed' = ReadAll(received')
      /\ outcome' = "result" /\ call'.asks = "stream" => relayed' = ReadAll(received')
  BY <1>1 DEF RelayInv
<1>5. /\ pc' \in {"lines", "reading"} => ~eof'
      /\ pc' = "reading" => "LF" \notin Range(buffer')
  BY <1>1 DEF RelayInv
<1> QED BY <1>3, <1>4, <1>5 DEF RelayInv

\* The adapter takes a line from the buffer: so does the reference.
LEMMA TakeLineRelays ==
    ASSUME IndInv, RelayInv, TakeLine
    PROVE  RelayInv'
<1> DEFINE line == StripCR(SubSeq(buffer, 1, FirstLF - 1))
           rest == SubSeq(buffer, FirstLF + 1, Len(buffer))
<1>1. /\ received \in Seq(Byte) /\ buffer \in Seq(Byte) /\ "LF" \in Range(buffer)
      /\ pc = "lines" /\ call.key = "set" /\ outcome = "none" /\ ~eof
  BY DEF IndInv, TypeOK, PathInv, RelayInv, TakeLine, Streaming
<1>2. Line(line, rest)
  BY DEF TakeLine
<1>3. PICK p \in 0..Len(received) : Cut(p)
  BY <1>1 DEF RelayInv
<1>4. PICK q : q = p + FirstLF
  OBVIOUS
<1>5. /\ q \in 1..Len(received) /\ q - 1 \in 0..Len(received) /\ received[q] = "LF"
      /\ rest = SubSeq(received, q + 1, Len(received))
      /\ Reading(received)[q - 1].line = SubSeq(buffer, 1, FirstLF - 1)
      /\ Reading(received)[q - 1].event = pending
      /\ Reading(received)[q - 1].events = relayed
  <2>1. /\ p + FirstLF \in 1..Len(received) /\ (p + FirstLF) - 1 \in 0..Len(received)
        /\ received[p + FirstLF] = "LF"
        /\ SubSeq(buffer, FirstLF + 1, Len(buffer))
             = SubSeq(received, (p + FirstLF) + 1, Len(received))
        /\ Reading(received)[(p + FirstLF) - 1].line = SubSeq(buffer, 1, FirstLF - 1)
        /\ Reading(received)[(p + FirstLF) - 1].event = pending
        /\ Reading(received)[(p + FirstLF) - 1].events = relayed
    BY <1>1, <1>3, NextLine
  <2> HIDE DEF rest
  <2>2. rest = SubSeq(received, (p + FirstLF) + 1, Len(received))
    BY <2>1 DEF rest
  <2> QED BY <1>4, <2>1, <2>2, Zenon
<1> DEFINE s == Reading(received)[q - 1]
           t == Reading(received)[q]
           b == received[q]
<1>6. s \in State /\ b \in Byte /\ t = ReadByte(b, s)
  <2>1. Len(received) \in Nat /\ q - 1 < Len(received) /\ (q - 1) + 1 = q
    BY <1>1, <1>5
  <2> QED BY <1>1, <1>5, <2>1, ReadingStep
<1>7. s.event = pending /\ s.events = relayed /\ StripCR(s.line) = line /\ b = "LF"
  BY <1>5
<1> HIDE DEF s, t, b, line, rest
<1>8. /\ t.line = <<>>
      /\ line = <<>> /\ pending # <<>> => t.event = <<>> /\ t.events = Append(relayed, pending)
      /\ line # <<>> /\ line[1] # ":" => t.event = Append(pending, Decode(line)) /\ t.events = relayed
      /\ (IF line = <<>> THEN pending = <<>> ELSE line[1] = ":") =>
            t.event = pending /\ t.events = relayed
  <2>1. /\ ReadByte(b, s).line = <<>>
        /\ StripCR(s.line) = <<>> /\ s.event # <<>> =>
              ReadByte(b, s).event = <<>> /\ ReadByte(b, s).events = Append(s.events, s.event)
        /\ StripCR(s.line) # <<>> /\ StripCR(s.line)[1] # ":" =>
              /\ ReadByte(b, s).event = Append(s.event, Decode(StripCR(s.line)))
              /\ ReadByte(b, s).events = s.events
        /\ (IF StripCR(s.line) = <<>> THEN s.event = <<>> ELSE StripCR(s.line)[1] = ":") =>
              ReadByte(b, s).event = s.event /\ ReadByte(b, s).events = s.events
    BY <1>6, <1>7, ReadByteFields
  <2> QED BY <1>6, <1>7, <2>1
<1>9. ASSUME buffer' = rest, UNCHANGED <<call, outcome, received, eof>>, pc' # "reading",
             t.event = pending', t.events = relayed'
      PROVE  RelayInv'
  <2>1. q \in 0..Len(received')
    BY <1>5, <1>9
  <2>2. Cut(q)'
    BY <1>5, <1>8, <1>9 DEF Cut, t
  <2> QED BY <1>1, <1>9, <2>1, <2>2 DEF RelayInv
<1>10. CASE StreamFails("PROVIDER_UNAVAILABLE")
  <2>1. outcome' # "result" /\ pc' = "over" /\ UNCHANGED <<call, stream>>
    BY <1>10 DEF StreamFails, End
  <2> QED BY <2>1, StreamKept
<1>11. CASE line = <<>> /\ pending # <<>> /\ buffer' = rest /\ eof' = eof /\ Yield(pending)
  <2>1. /\ pc' = "suspended" /\ pending' = <<>> /\ relayed' = Append(relayed, pending)
        /\ UNCHANGED <<call, outcome, received, eof>>
    BY <1>11 DEF Yield
  <2> QED BY <1>8, <1>9, <1>11, <2>1
<1>12. CASE /\ IF line = <<>> THEN pending = <<>> ELSE line[1] = ":"
            /\ buffer' = rest /\ SkipLine
  <2>1. UNCHANGED <<call, pc, outcome, received, pending, eof, relayed>>
    BY <1>12 DEF SkipLine
  <2> QED BY <1>1, <1>8, <1>9, <1>12, <2>1
<1>13. CASE line # <<>> /\ line[1] # ":" /\ buffer' = rest /\ KeepLine(line)
  <2>1. pending' = Append(pending, Decode(line)) /\ UNCHANGED <<call, pc, outcome, received, eof, relayed>>
    BY <1>13 DEF KeepLine
  <2> QED BY <1>1, <1>8, <1>9, <1>13, <2>1
<1> QED BY <1>2, <1>10, <1>11, <1>12, <1>13 DEF Line

\* A chunk is added to the stream and to the buffer.
LEMMA ReceiveRelays ==
    ASSUME IndInv, RelayInv, NEW n \in 1..MaxChunk, NEW chunk \in [1..n -> Byte], Receive(chunk)
    PROVE  RelayInv'
<1>1. /\ received \in Seq(Byte) /\ buffer \in Seq(Byte) /\ chunk \in Seq(Byte)
      /\ call.key = "set" /\ outcome = "none" /\ ~eof
  BY BoundsAssumption, SeqDef DEF Receive, IndInv, TypeOK, PathInv, RelayInv, Streaming
<1>2. /\ received' = received \o chunk /\ buffer' = buffer \o chunk /\ pc' = "lines"
      /\ UNCHANGED <<call, outcome, pending, eof, relayed>>
  BY DEF Receive
<1>3. PICK p \in 0..Len(received) : Cut(p)
  BY <1>1 DEF RelayInv
<1>4. /\ Len(received) \in Nat /\ p \in Nat
      /\ Len(buffer) = Len(received) - p /\ p + Len(buffer) = Len(received)
      /\ \A k \in 1..Len(buffer) : buffer[k] = received[p + k]
  BY <1>1, <1>3, BufferIn
<1> DEFINE r == received \o chunk
           b == buffer \o chunk
           c == SubSeq(r, p + 1, Len(r))
<1>5. /\ r \in Seq(Byte) /\ Len(r) = Len(received) + Len(chunk) /\ Len(chunk) \in Nat
      /\ \A i \in 1..(Len(received) + Len(chunk)) :
            r[i] = IF i <= Len(received) THEN received[i] ELSE chunk[i - Len(received)]
  BY <1>1, ConcatProperties
<1>6. /\ b \in Seq(Byte) /\ Len(b) = Len(buffer) + Len(chunk)
      /\ \A i \in 1..(Len(buffer) + Len(chunk)) :
            b[i] = IF i <= Len(buffer) THEN buffer[i] ELSE chunk[i - Len(buffer)]
  BY <1>1, ConcatProperties
<1> HIDE DEF r, b
<1>7. /\ c \in Seq(Byte) /\ Len(c) = Len(r) - (p + 1) + 1
      /\ \A k \in 1..(Len(r) - (p + 1) + 1) : c[k] = r[(p + 1) + k - 1]
  <2>1. p + 1 \in 1..(Len(r) + 1) /\ Len(r) \in ((p + 1) - 1)..Len(r)
    BY <1>4, <1>5
  <2> QED BY <1>5, <2>1, Slice
<1> HIDE DEF c
<1>8. Len(b) = Len(c)
  BY <1>4, <1>5, <1>6, <1>7
<1>9. ASSUME NEW k \in 1..Len(b) PROVE b[k] = c[k]
  <2>1. /\ k \in 1..(Len(r) - (p + 1) + 1) /\ (p + 1) + k - 1 = p + k
        /\ k \in 1..(Len(buffer) + Len(chunk)) /\ p + k \in 1..(Len(received) + Len(chunk))
    BY <1>4, <1>5, <1>6, <1>7, <1>8
  <2>2. c[k] = r[p + k]
    BY <1>7, <2>1
  <2>3. CASE k <= Len(buffer)
    <3>1. p + k <= Len(received) /\ k \in 1..Len(buffer)
      BY <1>4, <2>1, <2>3
    <3> QED BY <1>4, <1>5, <1>6, <2>1, <2>2, <2>3, <3>1
  <2>4. CASE ~(k <= Len(buffer))
    <3>1. ~(p + k <= Len(received)) /\ (p + k) - Len(received) = k - Len(buffer)
      BY <1>4, <2>1, <2>4
    <3> QED BY <1>5, <1>6, <2>1, <2>2, <2>4, <3>1
  <2> QED BY <2>3, <2>4
<1>10. b = c
  BY <1>6, <1>7, <1>8, <1>9, SeqEqual
<1>11. Reading(r)[p] = Reading(received)[p]
  BY <1>1, ReadingAgrees DEF r
<1>12. p \in 0..Len(received') /\ Cut(p)'
  <2>1. received' = r /\ buffer' = b
    BY <1>2 DEF r, b
  <2>2. p \in 0..Len(r)
    BY <1>4, <1>5
  <2> QED BY <1>2, <1>3, <1>10, <1>11, <2>1, <2>2 DEF Cut, c
<1> QED BY <1>1, <1>2, <1>12 DEF RelayInv

\* The provider ends the stream, within a line or after one.
LEMMA EndRelays ==
    ASSUME IndInv, RelayInv, EndOfStream
    PROVE  RelayInv'
<1>1. /\ received \in Seq(Byte) /\ buffer \in Seq(Byte) /\ pending \in Seq(Seq(Char))
      /\ pc = "reading" /\ call.key = "set" /\ ~eof /\ outcome = "none"
      /\ "LF" \notin Range(buffer)
  BY DEF EndOfStream, IndInv, TypeOK, PathInv, RelayInv, Streaming
<1>2. PICK p \in 0..Len(received) : Cut(p)
  BY <1>1 DEF RelayInv
<1>3. Read(received).line = buffer /\ Read(received).event = pending
      /\ Read(received).events = relayed
  BY <1>1, <1>2, LastLine
<1>4. ReadAll(received) = IF LastEvent = <<>> THEN relayed ELSE Append(relayed, LastEvent)
  BY <1>3 DEF ReadAll, LastEvent
<1>5. CASE StreamFails("PROVIDER_UNAVAILABLE")
  <2>1. outcome' # "result" /\ pc' = "over" /\ UNCHANGED <<call, stream>>
    BY <1>5 DEF StreamFails, End
  <2> QED BY <2>1, StreamKept
<1>6. CASE eof' = TRUE /\ LastEvent # <<>> /\ Yield(LastEvent)
  <2>1. /\ relayed' = Append(relayed, LastEvent) /\ pc' = "suspended"
        /\ UNCHANGED <<call, outcome, received>>
    BY <1>6 DEF Yield
  <2>2. relayed' = ReadAll(received')
    BY <1>4, <1>6, <2>1
  <2> QED BY <1>1, <1>6, <2>1, <2>2 DEF RelayInv
<1>7. CASE eof' = TRUE /\ LastEvent = <<>> /\ End("result") /\ UNCHANGED <<call, received, relayed>>
  <2>1. pc' = "over"
    BY <1>7 DEF End
  <2>2. relayed' = ReadAll(received')
    BY <1>4, <1>7
  <2> QED BY <1>1, <1>7, <2>1, <2>2 DEF RelayInv
<1> QED BY <1>5, <1>6, <1>7 DEF EndOfStream

\* At first nothing was received and nothing relayed.
LEMMA RelayInit == Init => RelayInv
<1> SUFFICES ASSUME Init PROVE RelayInv
    OBVIOUS
<1>1. received = <<>> /\ Len(received) = 0 /\ received \in Seq(Byte)
  BY EmptySeq DEF Init
<1>2. Reading(received)[0] = [line |-> <<>>, event |-> <<>>, events |-> <<>>]
  BY <1>1, ReadingStep
<1>3. SubSeq(received, 0 + 1, Len(received)) = <<>>
  BY <1>1, SubSeqEmpty
<1>4. 0 \in 0..Len(received) /\ Cut(0)
  BY <1>1, <1>2, <1>3 DEF Cut, Init
<1> QED BY <1>4 DEF RelayInv, Init

\* Every step keeps the relay and the reference together.
LEMMA RelayStep == IndInv /\ RelayInv /\ [Next]_vars => RelayInv'
<1> SUFFICES ASSUME IndInv, RelayInv, [Next]_vars PROVE RelayInv'
    OBVIOUS
<1>1. CASE CheckKey
  <2>1. pc = "start" /\ outcome = "none" /\ UNCHANGED <<call, stream>>
    BY <1>1 DEF CheckKey, IndInv, PathInv
  <2>2. pc' \in {"over", "send"} /\ (outcome' = outcome \/ outcome' # "result")
    BY <1>1 DEF CheckKey, End
  <2> QED BY <2>1, <2>2, StreamKept
<1>2. CASE Send
  BY <1>2, StreamKept DEF Send
<1>3. CASE TakeLine
  BY <1>3, TakeLineRelays
<1>4. CASE AwaitChunk
  <2>1. "LF" \notin Range(buffer) /\ ~eof /\ UNCHANGED <<call, stream>>
    BY <1>4 DEF AwaitChunk, StreamFails, RelayInv
  <2>2. outcome' = outcome \/ outcome' # "result"
    BY <1>4 DEF AwaitChunk, StreamFails, End
  <2> QED BY <2>1, <2>2, StreamKept
<1>a. ASSUME NEW e, FailAttempt(e), call.asks # "stream" PROVE RelayInv'
  <2>1. UNCHANGED <<call, stream>> /\ pc' \in {"send", "over"}
    BY <1>a DEF FailAttempt, End
  <2> QED BY <1>a, <2>1, StreamKept
<1>5. ASSUME NEW r \in Reply, Respond(r) PROVE RelayInv'
  <2>1. call.asks # "stream"
    BY <1>5 DEF Respond
  <2>2. CASE r.status >= 400 \/ r.body = "oversized"
    BY <1>5, <1>a, <2>1, <2>2 DEF Respond
  <2>3. CASE ~(r.status >= 400 \/ r.body = "oversized")
    <3>1. UNCHANGED <<call, stream>> /\ pc' = "over"
      BY <1>5, <2>3 DEF Respond, End
    <3> QED BY <2>1, <3>1, StreamKept
  <2> QED BY <2>2, <2>3
<1>6. CASE RequestBreaks
  BY <1>6, <1>a DEF RequestBreaks
<1>7. ASSUME NEW r \in Reply, OpenStream(r) PROVE RelayInv'
  <2>1. UNCHANGED <<call, stream>> /\ pc' \in {"over", "suspended"}
    BY <1>7 DEF OpenStream, End
  <2>2. outcome' = outcome \/ outcome' # "result"
    <3>1. ErrorOf(call.adapter, r) \in Category \cup {"exception"}
      BY ErrorType DEF IndInv, TypeOK, Call
    <3>2. ErrorOf(call.adapter, r) # "result"
      BY <3>1 DEF Category
    <3> QED BY <1>7, <3>2 DEF OpenStream, End
  <2> QED BY <2>1, <2>2, StreamKept
<1>8. CASE OpenBreaks
  BY <1>8, StreamKept DEF OpenBreaks, End
<1>9. ASSUME NEW n \in 1..MaxChunk, NEW chunk \in [1..n -> Byte], Receive(chunk) PROVE RelayInv'
  BY <1>9, ReceiveRelays
<1>10. CASE EndOfStream
  BY <1>10, EndRelays
<1>11. CASE StreamBreaks
  BY <1>11, StreamKept DEF StreamBreaks, StreamFails, End
<1>12. CASE Anext
  <2>1. pc = "suspended" /\ UNCHANGED <<call, stream>>
    BY <1>12 DEF Anext
  <2>2. CASE ~eof
    BY <1>12, <2>1, <2>2, StreamKept DEF Anext
  <2>3. CASE eof
    <3>1. pc' = "over" /\ UNCHANGED <<received, buffer, pending, eof, relayed>>
      BY <1>12, <2>1, <2>3 DEF Anext, End, stream
    <3> QED BY <2>1, <2>3, <3>1 DEF RelayInv
  <2> QED BY <2>2, <2>3
<1>14. CASE Cancel \/ Finalize
  BY <1>14, StreamKept DEF Cancel, Finalize, End
<1>15. CASE Abandon
  BY <1>15, StreamKept DEF Abandon
<1>16. CASE UNCHANGED vars
  <2>1. UNCHANGED <<call, pc, outcome, stream>>
    BY <1>16 DEF vars
  <2> QED BY <2>1, StreamKept DEF RelayInv
<1> QED
  BY <1>1, <1>2, <1>3, <1>4, <1>5, <1>6, <1>7, <1>8, <1>9, <1>10, <1>11, <1>12, <1>14,
     <1>15, <1>16
     DEF Next, Proceed, Answer, Incoming, Caller, Done

\* The invariant holds throughout.
LEMMA Invariance == Spec => []IndInv
BY InitInd, IndStep, PTL DEF Spec

\* A request is repeated only after retryable errors and at most MaxRetries times, a
\* stream is never requested twice, and the caller gets the last error: whatever the
\* provider answers, for every number of retries.
THEOREM RetriesSound == Spec => []CallInv
BY Invariance, PTL DEF IndInv, CallInv

\* What event_stream() keeps between two chunks, and what it counts of every event it
\* yields, stays within max_sse_event_bytes, and the event as it is yielded, its invalid
\* bytes replaced, below three times that: for streams of any length, chunks of any size
\* and any limit.
THEOREM BoundedMemory == Spec => []MemoryBounded
<1>1. IndInv => MemoryBounded
  <2> SUFFICES ASSUME IndInv PROVE MemoryBounded
    OBVIOUS
  <2>1. DOMAIN relayed = 1..Len(relayed)
    BY DEF IndInv, TypeOK
  <2>2. /\ pc = "reading" => Len(buffer) <= MaxEvent /\ EventBytes(pending) <= MaxEvent
        /\ \A i \in DOMAIN relayed : relayed[i] # <<>> /\ EventBytes(relayed[i]) <= MaxEvent
    BY <2>1 DEF IndInv, SizeInv
  <2>3. ASSUME NEW i \in DOMAIN relayed PROVE WireBytes(relayed[i]) < 3 * MaxEvent
    <3>1. relayed[i] \in Seq(Seq(Char))
      BY <2>1, <2>3, ElementOfSeq DEF IndInv, TypeOK
    <3>2. EventBytes(relayed[i]) \in Nat
      BY <3>1, BytesFinite
    <3>3. WireBytes(relayed[i]) \in Nat /\ WireBytes(relayed[i]) < 3 * EventBytes(relayed[i])
      BY <2>2, <2>3, <3>1, WireBound
    <3> DEFINE w == WireBytes(relayed[i])
               e == EventBytes(relayed[i])
    <3>4. e <= MaxEvent /\ MaxEvent \in Nat
      BY <2>2, <2>3, BoundsAssumption
    <3> HIDE DEF w, e
    <3>5. w < 3 * MaxEvent
      <4>1. w \in Nat /\ e \in Nat /\ w < 3 * e
        BY <3>2, <3>3 DEF w, e
      <4> QED BY <3>4, <4>1
    <3> QED BY <3>5 DEF w
  <2> QED BY <2>2, <2>3 DEF MemoryBounded
<1> QED BY <1>1, Invariance, PTL

\* Relay and reference stay together throughout.
LEMMA RelayInvariance == Spec => []RelayInv
BY Invariance, RelayInit, RelayStep, PTL DEF Spec

\* However the bytes are cut into chunks, event_stream() relays the events of the stream,
\* in order and each once, and all of them when the stream ends: for streams and chunks
\* of any length.
THEOREM RelayFaithful == Spec => []RelayIsFaithful
<1>1. IndInv /\ RelayInv => RelayIsFaithful
  <2> SUFFICES ASSUME IndInv, RelayInv PROVE RelayIsFaithful
    OBVIOUS
  <2> DEFINE s == Read(received)
             all == ReadAll(received)
  <2>0. received \in Seq(Byte) /\ relayed \in Seq(Seq(Seq(Char))) /\ Len(received) \in Nat
    BY DEF IndInv, TypeOK
  <2>1. s \in State
    BY <2>0, ReadingStep DEF Read
  <2>2. /\ s.line \in Seq(Byte) /\ s.event \in Seq(Seq(Char)) /\ s.events \in Seq(Seq(Seq(Char)))
        /\ StripCR(s.line) \in Seq(Byte)
    BY <2>1, StripCRType DEF State
  <2>3. PICK last \in Seq(Seq(Char)) : all = IF last = <<>> THEN s.events ELSE Append(s.events, last)
    <3> DEFINE last == IF s.line = <<>> THEN s.event ELSE Append(s.event, Decode(StripCR(s.line)))
    <3>1. last \in Seq(Seq(Char))
      BY <2>2, DecodeType, AppendProperties
    <3>2. all = IF last = <<>> THEN s.events ELSE Append(s.events, last)
      BY DEF ReadAll
    <3> HIDE DEF last, s, all
    <3> QED BY <3>1, <3>2
  <2> HIDE DEF s, all
  <2>4. /\ all \in Seq(Seq(Seq(Char))) /\ Len(s.events) <= Len(all)
        /\ \A i \in 1..Len(s.events) : all[i] = s.events[i]
    BY <2>2, <2>3, AppendProperties
  <2>5. ASSUME Len(relayed) <= Len(all), \A i \in 1..Len(relayed) : relayed[i] = all[i]
        PROVE  IsPrefix(relayed, all)
    <3> DEFINE n == Len(relayed)
               a == SubSeq(relayed, 1, n)
               b == SubSeq(all, 1, n)
    <3>1. n \in Nat /\ Len(all) \in Nat /\ 1 \in Int /\ n \in Int
      BY <2>0, <2>4
    <3>2. \A i \in 1..n : relayed[i] \in Seq(Seq(Char)) /\ all[i] \in Seq(Seq(Char))
      BY <2>0, <2>4, <2>5, <3>1, ElementOfSeq
    <3>5. n <= Len(all) /\ \A i \in 1..n : relayed[i] = all[i]
      BY <2>5
    <3> HIDE DEF n
    <3>3. /\ a \in Seq(Seq(Seq(Char))) /\ Len(a) = (IF 1 <= n THEN n - 1 + 1 ELSE 0)
          /\ \A i \in 1..(n - 1 + 1) : a[i] = relayed[1 + i - 1]
      BY <3>1, <3>2, SubSeqProperties
    <3>4. /\ b \in Seq(Seq(Seq(Char))) /\ Len(b) = (IF 1 <= n THEN n - 1 + 1 ELSE 0)
          /\ \A i \in 1..(n - 1 + 1) : b[i] = all[1 + i - 1]
      BY <3>1, <3>2, SubSeqProperties
    <3> HIDE DEF a, b
    <3>6. ASSUME NEW i \in 1..Len(a) PROVE a[i] = b[i]
      <4>1. i \in 1..n /\ i \in 1..(n - 1 + 1) /\ 1 + i - 1 = i
        BY <3>1, <3>3
      <4> QED BY <3>3, <3>4, <3>5, <4>1
    <3>7. a = b
      BY <3>3, <3>4, <3>6, SeqEqual
    <3> QED BY <3>5, <3>7 DEF IsPrefix, n, a, b
  <2>6. CASE eof \/ (outcome = "result" /\ call.asks = "stream")
    <3>1. relayed = all
      BY <2>6 DEF RelayInv, all
    <3>2. IsPrefix(relayed, all)
      BY <2>0, <2>5, <3>1
    <3> QED BY <3>1, <3>2 DEF RelayIsFaithful, all
  <2>7. CASE ~eof /\ ~(outcome = "result" /\ call.asks = "stream")
    <3>1. PICK p \in 0..Len(received) : Cut(p)
      BY <2>7 DEF RelayInv
    <3>2. Len(received) \in p..Len(received) /\ Reading(received)[p].events = relayed
      BY <2>0, <3>1 DEF Cut
    <3>3. /\ Len(relayed) <= Len(s.events)
          /\ \A i \in 1..Len(relayed) : s.events[i] = relayed[i]
      BY <2>0, <3>2, EventsGrow DEF s, Read
    <3>4. Len(relayed) \in Nat /\ Len(s.events) \in Nat /\ Len(all) \in Nat
      BY <2>0, <2>2, <2>4
    <3>5. Len(relayed) <= Len(all) /\ \A i \in 1..Len(relayed) : relayed[i] = all[i]
      BY <2>4, <3>3, <3>4
    <3>6. IsPrefix(relayed, all)
      BY <2>5, <3>5
    <3> QED BY <2>7, <3>6 DEF RelayIsFaithful, all
  <2> QED BY <2>6, <2>7
<1> QED BY <1>1, Invariance, RelayInvariance, PTL

-------------------------------------------------------------------------------
(* Refusals.  An event the reference has begun stays as large as it was,    *)
(* finished or not, whatever is read after it.                              *)

Has(s, size) ==
    \/ EventBytes(s.event) >= size
    \/ \E i \in 1..Len(s.events) : EventBytes(s.events[i]) >= size

\* No byte makes an event smaller.
LEMMA HasStep ==
    ASSUME NEW b \in Byte, NEW s \in State, NEW size \in Nat, Has(s, size)
    PROVE  Has(ReadByte(b, s), size)
<1> DEFINE t == ReadByte(b, s)
           line == StripCR(s.line)
<1>1. /\ s.line \in Seq(Byte) /\ s.event \in Seq(Seq(Char)) /\ s.events \in Seq(Seq(Seq(Char)))
      /\ line \in Seq(Byte) /\ Len(line) \in Nat /\ Len(s.events) \in Nat
      /\ EventBytes(s.event) \in Nat
  <2>1. s.line \in Seq(Byte) /\ s.event \in Seq(Seq(Char)) /\ s.events \in Seq(Seq(Seq(Char)))
    BY DEF State
  <2>2. line \in Seq(Byte)
    BY <2>1, StripCRType
  <2>3. EventBytes(s.event) \in Nat
    BY <2>1, BytesFinite
  <2> QED BY <2>1, <2>2, <2>3, LenProperties
<1>2. \/ t.event = s.event /\ t.events = s.events
      \/ t.event = Append(s.event, Decode(line)) /\ t.events = s.events
      \/ t.events = Append(s.events, s.event)
  BY ReadByteFields
<1> HIDE DEF t, line
<1>3. CASE t.event = s.event /\ t.events = s.events
  BY <1>3 DEF Has, t
<1>4. CASE t.event = Append(s.event, Decode(line)) /\ t.events = s.events
  <2>1. EventBytes(t.event) = EventBytes(s.event) + Len(line) + 1
    BY <1>1, <1>4, EventBytesKeep
  <2>2. EventBytes(s.event) >= size => EventBytes(t.event) >= size
    BY <1>1, <2>1
  <2> QED BY <1>4, <2>2 DEF Has, t
<1>5. CASE t.events = Append(s.events, s.event)
  <2>1. /\ Len(t.events) = Len(s.events) + 1 /\ t.events[Len(s.events) + 1] = s.event
        /\ \A i \in 1..Len(s.events) : t.events[i] = s.events[i]
    BY <1>1, <1>5, AppendProperties
  <2>2. CASE EventBytes(s.event) >= size
    <3>1. Len(s.events) + 1 \in 1..Len(t.events)
      BY <1>1, <2>1
    <3> QED BY <2>1, <2>2, <3>1 DEF Has, t
  <2>3. CASE \E i \in 1..Len(s.events) : EventBytes(s.events[i]) >= size
    <3>1. PICK i \in 1..Len(s.events) : EventBytes(s.events[i]) >= size
      BY <2>3
    <3>2. i \in 1..Len(t.events) /\ t.events[i] = s.events[i]
      BY <1>1, <2>1
    <3> QED BY <3>1, <3>2 DEF Has, t
  <2> QED BY <2>2, <2>3 DEF Has
<1> QED BY <1>2, <1>3, <1>4, <1>5

\* An event of some size is among those of the whole stream.
LEMMA HasGrows ==
    ASSUME NEW bytes \in Seq(Byte), NEW p \in 0..Len(bytes), NEW size \in Nat,
           Has(Reading(bytes)[p], size)
    PROVE  Has(Read(bytes), size)
<1> DEFINE S == {d \in Nat : Has(Reading(bytes)[p + d], size)}
           m == Len(bytes) - p
<1>0. Len(bytes) \in Nat /\ p \in Nat /\ m \in Nat /\ p + 0 = p /\ p + m = Len(bytes)
  OBVIOUS
<1>1. 0 \in S
  BY <1>0
<1> HIDE DEF m
<1>2. ASSUME NEW d \in 0..m, d \in S, d < m PROVE d + 1 \in S
  <2> DEFINE n == p + d
  <2>1. n \in 0..Len(bytes) /\ n < Len(bytes) /\ p + (d + 1) = n + 1 /\ d + 1 \in Nat
    BY <1>0, <1>2 DEF m
  <2>2. Has(Reading(bytes)[n], size)
    BY <1>2
  <2> HIDE DEF n
  <2>3. /\ Reading(bytes)[n] \in State /\ bytes[n + 1] \in Byte
        /\ Reading(bytes)[n + 1] = ReadByte(bytes[n + 1], Reading(bytes)[n])
    BY <2>1, ReadingStep
  <2>4. Has(Reading(bytes)[n + 1], size)
    BY <2>2, <2>3, HasStep
  <2> QED BY <2>1, <2>4
<1> HIDE DEF S
<1>3. \A d \in 0..m : d \in S
  BY <1>0, <1>1, <1>2, Induction
<1>4. m \in S
  BY <1>0, <1>3
<1> QED BY <1>0, <1>4 DEF S, Read

\* EventSizes holds a size as large.
LEMMA HasSize ==
    ASSUME NEW bytes \in Seq(Byte), NEW size \in Nat, Has(Read(bytes), size)
    PROVE  \E n \in EventSizes(bytes) : n \in Nat /\ n >= size
<1> DEFINE s == Read(bytes)
           begun == IF s.line = <<>> \/ s.line[1] = ":" THEN s.event ELSE Append(s.event, Decode(s.line))
           all == Append(s.events, begun)
<1>1. /\ s.line \in Seq(Byte) /\ s.event \in Seq(Seq(Char)) /\ s.events \in Seq(Seq(Seq(Char)))
      /\ Len(s.line) \in Nat /\ Len(s.events) \in Nat
  <2>1. Len(bytes) \in 0..Len(bytes)
    BY LenProperties
  <2>2. s \in State
    BY <2>1, ReadingStep DEF Read
  <2> QED BY <2>2, LenProperties DEF State
<1>2. EventSizes(bytes) = {EventBytes(all[i]) : i \in DOMAIN all}
  BY DEF EventSizes
<1> HIDE DEF s
<1>3. begun \in Seq(Seq(Char))
  BY <1>1, EventBytesKeep
<1>4. EventBytes(s.event) >= size => EventBytes(begun) >= size
  <2>1. EventBytes(s.event) \in Nat
    BY <1>1, BytesFinite
  <2>2. EventBytes(Append(s.event, Decode(s.line))) = EventBytes(s.event) + Len(s.line) + 1
    BY <1>1, EventBytesKeep
  <2>3. EventBytes(s.event) >= size => EventBytes(Append(s.event, Decode(s.line))) >= size
    BY <1>1, <2>1, <2>2
  <2> QED BY <2>3
<1> HIDE DEF begun
<1>5. /\ all \in Seq(Seq(Seq(Char))) /\ Len(all) = Len(s.events) + 1
      /\ all[Len(s.events) + 1] = begun /\ \A i \in 1..Len(s.events) : all[i] = s.events[i]
  BY <1>1, <1>3, AppendProperties
<1> HIDE DEF all
<1>6. DOMAIN all = 1..(Len(s.events) + 1)
  BY <1>5, LenProperties
<1>7. \A i \in DOMAIN all : EventBytes(all[i]) \in Nat
  BY <1>5, <1>6, ElementOfSeq, BytesFinite
<1>8. CASE EventBytes(s.event) >= size
  <2>1. Len(s.events) + 1 \in DOMAIN all
    BY <1>1, <1>6
  <2>2. EventBytes(all[Len(s.events) + 1]) >= size
    BY <1>4, <1>5, <1>8
  <2> QED BY <1>2, <1>7, <2>1, <2>2
<1>9. CASE \E i \in 1..Len(s.events) : EventBytes(s.events[i]) >= size
  <2>1. PICK i \in 1..Len(s.events) : EventBytes(s.events[i]) >= size
    BY <1>9
  <2>2. i \in DOMAIN all /\ all[i] = s.events[i]
    BY <1>1, <1>5, <1>6
  <2> QED BY <1>2, <1>7, <2>1, <2>2
<1> QED BY <1>8, <1>9 DEF Has, s

\* A run of bytes without an LF is among the line sizes.
LEMMA RunSize ==
    ASSUME NEW bytes \in Seq(Byte), NEW i \in 1..Len(bytes), NEW j \in i..Len(bytes),
           \A k \in i..j : bytes[k] # "LF"
    PROVE  j - i + 1 \in LineSizes(bytes)
<1>1. Len(bytes) \in Nat
  OBVIOUS
<1>2. /\ <<i, j>> \in (1..Len(bytes)) \X (1..Len(bytes)) /\ <<i, j>>[1] <= <<i, j>>[2]
      /\ \A k \in <<i, j>>[1]..<<i, j>>[2] : bytes[k] # "LF"
      /\ <<i, j>>[2] - <<i, j>>[1] + 1 = j - i + 1
  BY <1>1
<1>3. \E q \in (1..Len(bytes)) \X (1..Len(bytes)) :
         /\ q[1] <= q[2] /\ \A k \in q[1]..q[2] : bytes[k] # "LF"
         /\ q[2] - q[1] + 1 = j - i + 1
  BY <1>2
<1> QED BY <1>3 DEF LineSizes

\* A line of the buffer is refused for a line or an event that is too large.
LEMMA LineRefused ==
    ASSUME IndInv, RelayInv, TakeLine, pc' = "over"
    PROVE  \E n \in EventSizes(received) \cup LineSizes(received) : n > MaxEvent
<1> USE BoundsAssumption
<1> DEFINE cut == SubSeq(buffer, 1, FirstLF - 1)
           line == StripCR(cut)
           rest == SubSeq(buffer, FirstLF + 1, Len(buffer))
<1>1. /\ received \in Seq(Byte) /\ buffer \in Seq(Byte) /\ "LF" \in Range(buffer)
      /\ pc = "lines" /\ ~eof /\ pending \in Seq(Seq(Char)) /\ pendingBytes \in Nat
      /\ pendingBytes = EventBytes(pending)
  BY DEF IndInv, TypeOK, SizeInv, RelayInv, TakeLine
<1>2. Line(line, rest)
  BY DEF TakeLine
<1>3. PICK p \in 0..Len(received) : Cut(p)
  BY <1>1 DEF RelayInv
<1>4. PICK q : q = p + FirstLF
  OBVIOUS
<1>5. /\ q \in 1..Len(received) /\ q - 1 \in 0..Len(received) /\ received[q] = "LF"
      /\ \A k \in (p + 1)..(q - 1) : received[k] # "LF"
      /\ Reading(received)[q - 1].line = SubSeq(buffer, 1, FirstLF - 1)
      /\ Reading(received)[q - 1].event = pending
  <2>1. /\ p + FirstLF \in 1..Len(received) /\ (p + FirstLF) - 1 \in 0..Len(received)
        /\ received[p + FirstLF] = "LF"
        /\ \A k \in (p + 1)..((p + FirstLF) - 1) : received[k] # "LF"
        /\ Reading(received)[(p + FirstLF) - 1].line = SubSeq(buffer, 1, FirstLF - 1)
        /\ Reading(received)[(p + FirstLF) - 1].event = pending
    BY <1>1, <1>3, NextLine
  <2> QED BY <1>4, <2>1, Zenon
<1>6. /\ cut \in Seq(Byte) /\ Len(cut) = q - 1 - p /\ line \in Seq(Byte) /\ Len(line) <= Len(cut)
      /\ Len(line) \in Nat /\ Len(cut) \in Nat /\ p \in Nat /\ q \in Nat /\ Len(received) \in Nat
  <2>1. FirstLF \in 1..Len(buffer) /\ Len(buffer) \in Nat
    BY <1>1, FirstLFExists
  <2>2. 1 \in 1..(Len(buffer) + 1) /\ FirstLF - 1 \in (1 - 1)..Len(buffer)
    BY <2>1
  <2>3. cut \in Seq(Byte) /\ Len(cut) = (FirstLF - 1) - 1 + 1
    BY <1>1, <2>2, Slice
  <2>4. p \in Nat /\ q \in Nat /\ Len(received) \in Nat
    BY <1>1, <1>5
  <2>5. Len(cut) = q - 1 - p
    BY <1>4, <2>1, <2>3, <2>4
  <2> HIDE DEF cut
  <2>6. line \in Seq(Byte) /\ Len(line) <= Len(cut)
    BY <2>3, StripCRType
  <2> QED BY <2>3, <2>4, <2>5, <2>6, LenProperties
<1>7. CASE Len(line) > MaxEvent
  <2>1. /\ p + 1 \in 1..Len(received) /\ q - 1 \in (p + 1)..Len(received)
        /\ (q - 1) - (p + 1) + 1 > MaxEvent
    BY <1>5, <1>6, <1>7
  <2>2. (q - 1) - (p + 1) + 1 \in LineSizes(received)
    BY <1>1, <1>5, <2>1, RunSize
  <2> QED BY <2>1, <2>2
<1> DEFINE s == Reading(received)[q - 1]
           b == received[q]
<1>8. CASE line # <<>> /\ line[1] # ":" /\ pendingBytes + Len(line) + 1 > MaxEvent
  <2>1. s \in State /\ b \in Byte /\ Reading(received)[q] = ReadByte(b, s)
    <3>1. q - 1 < Len(received) /\ (q - 1) + 1 = q
      BY <1>5, <1>6
    <3> QED BY <1>1, <1>5, <3>1, ReadingStep
  <2>2. s.event = pending /\ StripCR(s.line) = line /\ b = "LF"
    BY <1>5
  <2> HIDE DEF s, b, line
  <2>3. StripCR(s.line) # <<>> /\ StripCR(s.line)[1] # ":"
    BY <1>8, <2>2
  <2>4. ReadByte(b, s).event = Append(s.event, Decode(StripCR(s.line)))
    BY <2>1, <2>2, <2>3, ReadByteFields
  <2> DEFINE size == pendingBytes + Len(line) + 1
  <2>5. Reading(received)[q].event = Append(pending, Decode(line))
    BY <2>1, <2>2, <2>4
  <2>6. EventBytes(Append(pending, Decode(line))) = size
    BY <1>1, <1>6, EventBytesKeep
  <2>7. size \in Nat /\ size > MaxEvent /\ size >= size
    BY <1>1, <1>6, <1>8
  <2> HIDE DEF size
  <2>8. Has(Reading(received)[q], size)
    BY <2>5, <2>6, <2>7 DEF Has
  <2>9. q \in 0..Len(received)
    BY <1>5
  <2>10. Has(Read(received), size)
    BY <1>1, <2>7, <2>8, <2>9, HasGrows
  <2>11. PICK n \in EventSizes(received) : n \in Nat /\ n >= size
    BY <1>1, <2>7, <2>10, HasSize
  <2> QED BY <2>7, <2>11
<1>9. ~Yield(pending) /\ ~SkipLine /\ ~KeepLine(line)
  BY <1>1 DEF Yield, SkipLine, KeepLine
<1> QED BY <1>2, <1>7, <1>8, <1>9 DEF Line

\* At the end of the stream it is the last event of all that is too large.
LEMMA LastRefused ==
    ASSUME IndInv, RelayInv, EndOfStream, outcome' = "PROVIDER_UNAVAILABLE"
    PROVE  EventBytes(Last(ReadAll(received))) > MaxEvent
<1> DEFINE line == StripCR(buffer)
           last == Append(pending, Decode(line))
<1>1. /\ received \in Seq(Byte) /\ buffer \in Seq(Byte) /\ pending \in Seq(Seq(Char))
      /\ relayed \in Seq(Seq(Seq(Char)))
      /\ pc = "reading" /\ ~eof /\ outcome = "none" /\ "LF" \notin Range(buffer)
      /\ pendingBytes = EventBytes(pending)
  BY DEF EndOfStream, IndInv, TypeOK, PathInv, RelayInv, SizeInv
<1>2. PICK p \in 0..Len(received) : Cut(p)
  BY <1>1 DEF RelayInv
<1>3. Read(received).line = buffer /\ Read(received).event = pending
      /\ Read(received).events = relayed
  BY <1>1, <1>2, LastLine
<1>4. ~End("result") /\ outcome' # outcome
  BY <1>1 DEF End
<1>5. buffer # <<>> /\ pendingBytes + Len(line) + 1 > MaxEvent
  BY <1>4 DEF EndOfStream, Yield
<1>6. line \in Seq(Byte)
  BY <1>1, StripCRType
<1> HIDE DEF line
<1>7. last \in Seq(Seq(Char)) /\ last # <<>> /\ EventBytes(last) = EventBytes(pending) + Len(line) + 1
  BY <1>1, <1>6, EventBytesKeep
<1>8. ReadAll(received) = Append(relayed, last)
  BY <1>3, <1>5, <1>7 DEF ReadAll, line
<1> HIDE DEF last
<1>9. Last(Append(relayed, last)) = last
  BY <1>1, <1>7, AppendProperties DEF Last
<1> QED BY <1>1, <1>5, <1>7, <1>8, <1>9

\* event_stream() refuses a stream for its size only if a line or an event of it, at its
\* end the last one, is larger than max_sse_event_bytes, for streams and limits of any
\* size.
THEOREM SizeRefusals == Spec => RefusedForSize
<1>1. IndInv /\ RelayInv /\ [Next]_vars =>
         [pc = "lines" /\ pc' = "over"
            => \E n \in EventSizes(received) \cup LineSizes(received) : n > MaxEvent]_vars
  <2> SUFFICES ASSUME IndInv, RelayInv, [Next]_vars, pc = "lines", pc' = "over"
               PROVE  \E n \in EventSizes(received) \cup LineSizes(received) : n > MaxEvent
    OBVIOUS
  <2>1. TakeLine \/ AwaitChunk
    <3>1. ~CheckKey /\ ~Send /\ ~RequestBreaks /\ ~OpenBreaks /\ ~EndOfStream /\ ~StreamBreaks
      BY DEF CheckKey, Send, RequestBreaks, OpenBreaks, EndOfStream, StreamBreaks
    <3>2. ~Anext /\ ~Cancel /\ ~Abandon /\ ~Finalize /\ ~Done
      BY DEF Anext, Cancel, Abandon, Finalize, Done
    <3>3. ~UNCHANGED vars
      BY DEF vars
    <3>4. /\ \A r \in Reply : ~Respond(r) /\ ~OpenStream(r)
          /\ \A n \in 1..MaxChunk : \A chunk \in [1..n -> Byte] : ~Receive(chunk)
      BY DEF Respond, OpenStream, Receive
    <3> QED BY <3>1, <3>2, <3>3, <3>4 DEF Next, Proceed, Answer, Incoming, Caller
  <2>2. CASE TakeLine
    BY <2>2, LineRefused
  <2>3. CASE AwaitChunk
    <3>1. /\ received \in Seq(Byte) /\ buffer \in Seq(Byte) /\ "LF" \notin Range(buffer)
          /\ Len(buffer) > MaxEvent /\ ~eof /\ Len(buffer) \in Nat
      BY <2>3 DEF AwaitChunk, IndInv, TypeOK, RelayInv
    <3>2. PICK p \in 0..Len(received) : Cut(p)
      BY <3>1 DEF RelayInv
    <3>3. /\ Len(received) \in Nat /\ p \in Nat
          /\ Len(buffer) = Len(received) - p /\ p + Len(buffer) = Len(received)
          /\ \A k \in 1..Len(buffer) : buffer[k] = received[p + k]
      BY <3>1, <3>2, BufferIn
    <3>4. /\ p + 1 \in 1..Len(received) /\ Len(received) \in (p + 1)..Len(received)
          /\ Len(received) - (p + 1) + 1 > MaxEvent
      BY <3>1, <3>3, BoundsAssumption
    <3>5. ASSUME NEW k \in (p + 1)..Len(received) PROVE received[k] # "LF"
      <4>1. k - p \in 1..Len(buffer) /\ p + (k - p) = k /\ DOMAIN buffer = 1..Len(buffer)
        BY <3>1, <3>3
      <4>2. buffer[k - p] = received[p + (k - p)]
        BY <3>3, <4>1
      <4>3. buffer[k - p] # "LF"
        BY <3>1, <4>1 DEF Range
      <4> QED BY <4>1, <4>2, <4>3
    <3>6. Len(received) - (p + 1) + 1 \in LineSizes(received)
      BY <3>1, <3>4, <3>5, RunSize
    <3> QED BY <3>4, <3>6
  <2> QED BY <2>1, <2>2, <2>3
<1>2. IndInv /\ RelayInv /\ [Next]_vars =>
         [/\ pc = "lines" /\ pc' = "over"
                => \E n \in EventSizes(received) \cup LineSizes(received) : n > MaxEvent
          /\ EndOfStream /\ outcome' = "PROVIDER_UNAVAILABLE"
                => EventBytes(Last(ReadAll(received))) > MaxEvent]_vars
  BY <1>1, LastRefused
<1> QED BY <1>2, Invariance, RelayInvariance, PTL DEF Spec, RefusedForSize
===============================================================================
