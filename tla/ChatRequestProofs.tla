-------------------------- MODULE ChatRequestProofs --------------------------
(***************************************************************************)
(* Theorems about ChatRequest for any routing_max_attempts.                *)
(*                                                                         *)
(* The inductive invariant says where the request is in the list of its    *)
(* candidates.  LoopInv: up to the end of the request the candidate being  *)
(* tried is newer than everything logged and marked, and every candidate   *)
(* before it has its row.  ContextInv: all_failures_context_exceeded is    *)
(* what the rows say.  StreamInv: nothing is sent before the relay, all of *)
(* it by the candidate being tried, an error event only with stream_error  *)
(* set.  SettledInv is what a request that is over leaves behind.          *)
(***************************************************************************)
EXTENDS ChatRequest, SequenceTheorems, TLAPS

MarkSet == [candidate : Candidate, ok : BOOLEAN]
Trying == {"waiting", "connecting", "first"}
Relaying == {"relayFirst", "relay", "yield", "finally", "yieldDone", "settle"}

LoopInv ==
    /\ pc = "select" => idx = 1 /\ logs = <<>> /\ marks = <<>>
    /\ pc = "attempt" => candidates > 0 /\ idx <= candidates + 1
    /\ pc \in Trying \union Relaying => idx <= candidates
    /\ pc \in {"connecting", "first"} \union Relaying => streaming
    /\ pc = "waiting" => ~streaming
    /\ pc # "done" =>
          /\ \A k \in DOMAIN logs : logs[k].candidate < idx /\ ~logs[k].ok
          /\ \A k \in DOMAIN marks : marks[k].candidate < idx
          /\ \A i \in 1..(idx - 1) : Rows(logs, i) # {}
          /\ contacted \subseteq 1..idx
    /\ pc \in {"select", "attempt"} => idx \notin contacted

ContextOnly == \A k \in DOMAIN logs : logs[k].category = "CONTEXT_EXCEEDED"

ContextInv ==
    pc # "done" =>
        /\ allContext <=> ContextOnly
        /\ allContext /\ logs # <<>> => lastCategory = "CONTEXT_EXCEEDED"

StreamInv ==
    /\ pc \in {"select", "attempt", "relayFirst"} \union Trying => sent = {}
    /\ pc \in Relaying => first # None
    /\ \A e \in sent : e[1] = idx
    /\ pc \in Relaying \ {"relayFirst"} /\ streamError = None
          => \A e \in sent : e[2] \notin Category
    /\ pc \in {"relay", "yield", "finally"} /\ doneSeen /\ connected
          => <<idx, "done">> \in sent
    /\ pc \in {"yieldDone", "settle"} => streamError = None /\ <<idx, "done">> \in sent

OrderInv == InOrder(logs) /\ InOrder(marks)

SettledInv ==
    pc = "done" => \A i \in contacted :
        \/ Rows(logs, i) # {}
        \/ i = idx /\ streaming /\ (~connected \/ registry[i] = "absent")

IndInv ==
    /\ TypeOK /\ LoopInv /\ ContextInv /\ StreamInv /\ OrderInv /\ SettledInv
    /\ ContextOnlyIs400 /\ ContextFailoverIsFree /\ SuccessMeansTerminated

-------------------------------------------------------------------------------
\* What a sequence of marks or rows is after one more call.
LEMMA AppendFacts ==
    ASSUME NEW S, NEW s \in Seq(S), NEW r \in S
    PROVE  /\ Append(s, r) \in Seq(S)
           /\ Append(s, r) # <<>>
           /\ DOMAIN Append(s, r) = DOMAIN s \union {Len(s) + 1}
           /\ \A k \in DOMAIN s : k \in Nat /\ k < Len(s) + 1 /\ Append(s, r)[k] = s[k]
           /\ Append(s, r)[Len(s) + 1] = r
           /\ Len(s) + 1 \in Nat
<1>1. DOMAIN s = 1..Len(s) /\ Len(s) \in Nat
  BY LenProperties
<1>2. DOMAIN Append(s, r) = 1..(Len(s) + 1)
  BY AppendProperties, LenProperties
<1> QED BY <1>1, <1>2, AppendProperties, EmptySeq

\* A mark or a row of the candidate being tried keeps the order when everything before
\* is of earlier candidates.
LEMMA AppendInOrder ==
    ASSUME NEW S, NEW s \in Seq(S), NEW r \in S, InOrder(s), r.candidate \in Nat,
           \A k \in DOMAIN s : s[k].candidate < r.candidate
    PROVE  InOrder(Append(s, r))
BY AppendFacts DEF InOrder

\* What one more row is for the rows of a candidate.
LEMMA AppendRows ==
    ASSUME NEW S, NEW s \in Seq(S), NEW r \in S, NEW i
    PROVE  /\ Rows(s, i) # {} => Rows(Append(s, r), i) # {}
           /\ r.candidate = i => Rows(Append(s, r), i) # {}
           /\ r.candidate # i => Rows(Append(s, r), i) = Rows(s, i)
<1> DEFINE t == Append(s, r)
<1>1. /\ DOMAIN t = DOMAIN s \union {Len(s) + 1}
      /\ \A k \in DOMAIN s : t[k] = s[k]
      /\ t[Len(s) + 1] = r
  BY AppendFacts
<1> HIDE DEF t
<1>2. \A k \in DOMAIN s : k \in DOMAIN t /\ t[k].candidate = s[k].candidate
  BY <1>1
<1>3. Rows(s, i) # {} => Rows(t, i) # {}
  BY <1>2 DEF Rows
<1>4. r.candidate = i => Rows(t, i) # {}
  BY <1>1 DEF Rows
<1>5. r.candidate # i => Rows(t, i) = Rows(s, i)
  BY <1>1 DEF Rows
<1> QED BY <1>3, <1>4, <1>5 DEF t

\* The types of what is compared with the candidate being tried.
LEMMA CandidateFacts ==
    ASSUME TypeOK
    PROVE  /\ idx \in Nat \ {0} /\ candidates \in Nat
           /\ \A k \in DOMAIN logs : logs[k] \in Row /\ logs[k].candidate \in Nat
           /\ \A k \in DOMAIN marks : marks[k] \in MarkSet /\ marks[k].candidate \in Nat
<1> USE MaxAttemptsAssumption
<1>1. logs \in Seq(Row) /\ marks \in Seq(MarkSet)
  BY DEF TypeOK, MarkSet
<1>2. \A k \in DOMAIN logs : logs[k] \in Row
  BY <1>1, ElementOfSeq, LenProperties
<1>3. \A k \in DOMAIN marks : marks[k] \in MarkSet
  BY <1>1, ElementOfSeq, LenProperties
<1> QED BY <1>2, <1>3 DEF TypeOK, Row, MarkSet, Candidate

\* The request starts with nothing tried, sent or recorded.
LEMMA InitInd == Init => IndInv
<1> SUFFICES ASSUME Init PROVE IndInv
    OBVIOUS
<1> USE MaxAttemptsAssumption
<1>1. DOMAIN logs = {} /\ DOMAIN marks = {}
  BY DEF Init
<1>2. TypeOK
  <2>1. logs \in Seq(Row) /\ marks \in Seq(MarkSet)
    BY EmptySeq DEF Init
  <2>2. registry \in [Candidate -> RegistryState] /\ idx \in 1..(MaxAttempts + 1)
    BY DEF Init, RegistryState
  <2>3. connected \in BOOLEAN /\ late \in BOOLEAN /\ allContext \in BOOLEAN /\ doneSeen \in BOOLEAN
    BY DEF Init
  <2> QED BY <2>1, <2>2, <2>3 DEF Init, TypeOK, PC, MarkSet
<1>3. LoopInv /\ ContextInv /\ StreamInv
  BY <1>1 DEF Init, LoopInv, ContextInv, ContextOnly, StreamInv, Trying, Relaying
<1>4. OrderInv /\ SettledInv /\ ContextOnlyIs400 /\ ContextFailoverIsFree
  BY <1>1 DEF Init, OrderInv, InOrder, SettledInv, ContextOnlyIs400, ContextFailoverIsFree
<1>5. SuccessMeansTerminated
  BY <1>1 DEF SuccessMeansTerminated
<1> QED BY <1>2, <1>3, <1>4, <1>5 DEF IndInv

\* Failing over: the candidate being tried gets its row, and a mark unless it only lacked
\* context.
LEMMA NextCandidateStep ==
    ASSUME IndInv, NEW category \in Retryable, NextCandidate(category),
           pc \in {"attempt"} \union Trying, idx <= candidates,
           IF category = "CONTEXT_EXCEEDED" THEN marks' = marks
                                            ELSE marks' = Append(marks, Mark(FALSE))
    PROVE  IndInv'
<1> USE MaxAttemptsAssumption
<1> DEFINE row == LogRow(FALSE, category)
           mark == Mark(FALSE)
<1>0. /\ idx \in Nat \ {0} /\ candidates \in Nat
      /\ \A k \in DOMAIN logs : logs[k] \in Row /\ logs[k].candidate \in Nat
      /\ \A k \in DOMAIN marks : marks[k] \in MarkSet /\ marks[k].candidate \in Nat
  BY CandidateFacts DEF IndInv
<1>1. idx \in Candidate /\ category \in Category /\ pc # "done" /\ idx \in Nat
  BY DEF IndInv, TypeOK, Candidate, Retryable, Category, Trying
<1>2. /\ row \in Row /\ row.candidate = idx /\ ~row.ok /\ row.category = category
      /\ mark \in MarkSet /\ mark.candidate = idx
  BY <1>1 DEF LogRow, Mark, Row, MarkSet
<1>3. /\ logs' = Append(logs, row) /\ idx' = idx + 1 /\ pc' = "attempt"
      /\ lastCategory' = category
      /\ allContext' = (allContext /\ category = "CONTEXT_EXCEEDED")
      /\ UNCHANGED <<inputs, world, stream, status, contacted>>
  BY DEF NextCandidate
<1>4. logs \in Seq(Row) /\ marks \in Seq(MarkSet)
  BY DEF IndInv, TypeOK, MarkSet
<1> HIDE DEF row, mark
<1>5. /\ logs' \in Seq(Row) /\ logs' # <<>>
      /\ DOMAIN logs' = DOMAIN logs \union {Len(logs) + 1}
      /\ \A k \in DOMAIN logs : logs'[k] = logs[k]
      /\ logs'[Len(logs) + 1] = row
  BY <1>2, <1>3, <1>4, AppendFacts
<1>6. /\ marks' \in Seq(MarkSet)
      /\ \A k \in DOMAIN marks' : marks'[k].candidate <= idx
  <2>1. CASE category = "CONTEXT_EXCEEDED"
    BY <2>1, <1>0, <1>1, <1>4 DEF IndInv, LoopInv
  <2>2. CASE category # "CONTEXT_EXCEEDED"
    <3>1. /\ marks' = Append(marks, mark)
      BY <2>2 DEF mark
    <3>2. /\ marks' \in Seq(MarkSet)
          /\ DOMAIN marks' = DOMAIN marks \union {Len(marks) + 1}
          /\ \A k \in DOMAIN marks : marks'[k] = marks[k]
          /\ marks'[Len(marks) + 1] = mark
      BY <3>1, <1>2, <1>4, AppendFacts
    <3> QED BY <3>2, <1>0, <1>1, <1>2 DEF IndInv, LoopInv
  <2> QED BY <2>1, <2>2
<1>7. \A i : Rows(logs, i) # {} => Rows(logs', i) # {}
  BY <1>2, <1>3, <1>4, AppendRows
<1>8. Rows(logs', idx) # {}
  BY <1>2, <1>5 DEF Rows
<1>9. TypeOK'
  BY <1>1, <1>3, <1>5, <1>6
     DEF IndInv, TypeOK, inputs, world, stream, PC, Candidate, MarkSet
<1>10. LoopInv'
  <2>1. \A k \in DOMAIN logs' : logs'[k].candidate < idx' /\ ~logs'[k].ok
    BY <1>0, <1>1, <1>2, <1>3, <1>5 DEF IndInv, LoopInv
  <2>2. \A k \in DOMAIN marks' : marks'[k].candidate < idx'
    <3>1. \A k \in DOMAIN marks' : marks'[k] \in MarkSet
      BY <1>6, ElementOfSeq, LenProperties
    <3>2. \A k \in DOMAIN marks' : marks'[k].candidate \in Nat
      BY <3>1 DEF MarkSet, Candidate
    <3> QED BY <1>1, <1>3, <1>6, <3>2
  <2>3. \A i \in 1..(idx' - 1) : Rows(logs', i) # {}
    <3>1. 1..(idx' - 1) = 1..(idx - 1) \union {idx}
      BY <1>1, <1>3 DEF Candidate
    <3> QED BY <3>1, <1>1, <1>7, <1>8 DEF IndInv, LoopInv
  <2>4. contacted' \subseteq 1..idx' /\ idx' \notin contacted'
    BY <1>1, <1>3 DEF IndInv, LoopInv
  <2>5. candidates' > 0 /\ idx' <= candidates' + 1
    BY <1>1, <1>3 DEF IndInv, TypeOK, inputs, Candidate
  <2> QED BY <1>3, <2>1, <2>2, <2>3, <2>4, <2>5 DEF LoopInv, Trying, Relaying
<1>11. ContextInv'
  BY <1>1, <1>2, <1>3, <1>5 DEF IndInv, ContextInv, ContextOnly
<1>12. StreamInv'
  <2>1. sent = {}
    BY DEF IndInv, StreamInv
  <2> QED BY <2>1, <1>3 DEF StreamInv, Trying, Relaying, stream
<1>13. OrderInv'
  <2>1. InOrder(logs')
    BY <1>1, <1>2, <1>3, <1>4, AppendInOrder DEF IndInv, LoopInv, OrderInv
  <2>2. InOrder(marks')
    <3>1. CASE category # "CONTEXT_EXCEEDED"
      <4>1. marks' = Append(marks, mark)
        BY <3>1 DEF mark
      <4>2. \A k \in DOMAIN marks : marks[k].candidate < mark.candidate
        BY <1>1, <1>2 DEF IndInv, LoopInv
      <4> QED BY <4>1, <4>2, <1>1, <1>2, <1>4, AppendInOrder DEF IndInv, OrderInv
    <3> QED BY <3>1 DEF IndInv, OrderInv
  <2> QED BY <2>1, <2>2 DEF OrderInv
<1>14. SettledInv' /\ ContextOnlyIs400'
  BY <1>3 DEF SettledInv, ContextOnlyIs400
<1>15. ContextFailoverIsFree'
  <2> SUFFICES ASSUME NEW k \in DOMAIN logs', logs'[k].category = "CONTEXT_EXCEEDED",
                      sent' = {}, first' = None
               PROVE  Rows(marks', logs'[k].candidate) = {}
    BY DEF ContextFailoverIsFree
  <2>1. CASE k \in DOMAIN logs
    <3>1. logs'[k] = logs[k] /\ Rows(marks, logs[k].candidate) = {}
      BY <2>1, <1>3, <1>5 DEF IndInv, ContextFailoverIsFree, stream
    <3>2. logs[k].candidate # idx
      BY <2>1, <1>0, <1>1 DEF IndInv, LoopInv
    <3>3. CASE category # "CONTEXT_EXCEEDED"
      <4>1. marks' = Append(marks, mark) /\ mark.candidate # logs[k].candidate
        BY <3>2, <3>3, <1>2 DEF mark
      <4> QED BY <3>1, <4>1, <1>2, <1>4, AppendRows
    <3> QED BY <3>1, <3>3
  <2>2. CASE k = Len(logs) + 1
    <3>1. category = "CONTEXT_EXCEEDED" /\ logs'[k].candidate = idx /\ marks' = marks
      BY <2>2, <1>2, <1>5
    <3> QED BY <3>1, <1>0, <1>1 DEF IndInv, LoopInv, Rows
  <2> QED BY <2>1, <2>2, <1>5
<1>16. SuccessMeansTerminated'
  BY <1>1, <1>2, <1>5 DEF IndInv, LoopInv, SuccessMeansTerminated
<1> QED BY <1>9, <1>10, <1>11, <1>12, <1>13, <1>14, <1>15, <1>16 DEF IndInv

\* A step that neither logs nor marks keeps what is said of rows and marks.
LEMMA QuietStep ==
    ASSUME IndInv, pc # "done", UNCHANGED <<inputs, loop, marks, logs>>,
           first # None => first' # None, sent \subseteq sent',
           TypeOK', LoopInv', StreamInv', SettledInv', ContextOnlyIs400'
    PROVE  IndInv'
<1>1. ContextInv' /\ OrderInv'
  BY DEF IndInv, ContextInv, ContextOnly, OrderInv, loop
<1>2. ContextFailoverIsFree'
  BY DEF IndInv, ContextFailoverIsFree
<1>3. SuccessMeansTerminated'
  BY DEF IndInv, LoopInv, SuccessMeansTerminated
<1> QED BY <1>1, <1>2, <1>3 DEF IndInv

\* A step that ends the request with a row for the candidate being tried.
LEMMA LastRowStep ==
    ASSUME IndInv, NEW ok \in BOOLEAN, NEW category \in Category \union {None},
           NEW healthy \in BOOLEAN,
           pc \in Trying \union Relaying, pc' = "done",
           logs' = Append(logs, LogRow(ok, category)),
           marks' = marks \/ marks' = Append(marks, Mark(healthy)),
           UNCHANGED <<inputs, world, idx, allContext, stream, contacted>>,
           lastCategory' \in Category \union {None},
           status' \in {0, 200, 400, 401, 500, 502, 503},
           category = "CONTEXT_EXCEEDED" => first # None,
           ok /\ streaming => /\ <<idx, "done">> \in sent
                              /\ \A e \in sent : e[2] \notin Category
    PROVE  IndInv'
<1> USE MaxAttemptsAssumption
<1> DEFINE row == LogRow(ok, category)
           mark == Mark(healthy)
<1>0. /\ idx \in Nat \ {0} /\ candidates \in Nat
      /\ \A k \in DOMAIN logs : logs[k] \in Row /\ logs[k].candidate \in Nat
      /\ \A k \in DOMAIN marks : marks[k] \in MarkSet /\ marks[k].candidate \in Nat
  BY CandidateFacts DEF IndInv
<1>1. idx \in Candidate /\ pc # "done" /\ idx <= candidates
  BY DEF IndInv, TypeOK, LoopInv, Candidate, Trying, Relaying
<1>2. /\ row \in Row /\ row.candidate = idx /\ row.ok = ok /\ row.category = category
      /\ mark \in MarkSet /\ mark.candidate = idx
  BY <1>1 DEF LogRow, Mark, Row, MarkSet
<1>15. streaming' = streaming /\ first' = first /\ sent' = sent
  BY DEF inputs, stream
<1>3. logs' = Append(logs, row) /\ (marks' = marks \/ marks' = Append(marks, mark))
  OBVIOUS
<1>4. logs \in Seq(Row) /\ marks \in Seq(MarkSet)
  BY DEF IndInv, TypeOK, MarkSet
<1> HIDE DEF row, mark
<1>5. /\ logs' \in Seq(Row)
      /\ DOMAIN logs' = DOMAIN logs \union {Len(logs) + 1}
      /\ \A k \in DOMAIN logs : logs'[k] = logs[k]
      /\ logs'[Len(logs) + 1] = row
  BY <1>2, <1>3, <1>4, AppendFacts
<1>6. marks' \in Seq(MarkSet)
  BY <1>2, <1>3, <1>4, AppendFacts
<1>7. TypeOK'
  BY <1>5, <1>6 DEF IndInv, TypeOK, inputs, world, stream, PC, MarkSet
<1>8. LoopInv' /\ ContextInv'
  BY DEF LoopInv, ContextInv, Trying, Relaying
<1>9. StreamInv'
  BY DEF IndInv, StreamInv, Trying, Relaying, stream
<1>10. OrderInv'
  <2>1. /\ \A k \in DOMAIN logs : logs[k].candidate < row.candidate
        /\ \A k \in DOMAIN marks : marks[k].candidate < mark.candidate
    BY <1>1, <1>2 DEF IndInv, LoopInv
  <2>2. InOrder(logs')
    BY <2>1, <1>0, <1>2, <1>3, <1>4, AppendInOrder DEF IndInv, OrderInv
  <2>3. InOrder(Append(marks, mark))
    BY <2>1, <1>0, <1>2, <1>4, AppendInOrder DEF IndInv, OrderInv
  <2>4. InOrder(marks)
    BY DEF IndInv, OrderInv
  <2>5. InOrder(marks')
    <3>1. CASE marks' = marks
      BY <2>4, <3>1, Zenon
    <3>2. CASE marks' = Append(marks, mark)
      BY <2>3, <3>2, Zenon
    <3> QED BY <1>3, <3>1, <3>2
  <2> QED BY <2>2, <2>5 DEF OrderInv
<1>11. SettledInv'
  <2>1. Rows(logs', idx) # {}
    BY <1>2, <1>5 DEF Rows
  <2>2. \A i : Rows(logs, i) # {} => Rows(logs', i) # {}
    BY <1>2, <1>3, <1>4, AppendRows
  <2>3. \A i \in contacted : i \in 1..(idx - 1) \/ i = idx
    BY <1>0, <1>1 DEF IndInv, LoopInv
  <2> QED BY <2>1, <2>2, <2>3, <1>1 DEF IndInv, LoopInv, SettledInv
<1>12. ContextOnlyIs400'
  BY <1>0, <1>1 DEF ContextOnlyIs400, inputs
<1>13. ContextFailoverIsFree'
  <2> SUFFICES ASSUME NEW k \in DOMAIN logs', logs'[k].category = "CONTEXT_EXCEEDED",
                      sent' = {}, first' = None
               PROVE  Rows(marks', logs'[k].candidate) = {}
    BY DEF ContextFailoverIsFree
  <2>1. k \in DOMAIN logs /\ logs'[k] = logs[k]
    BY <1>15, <1>2, <1>5
  <2>2. Rows(marks, logs[k].candidate) = {}
    <3>1. logs[k].category = "CONTEXT_EXCEEDED" /\ sent = {} /\ first = None
      BY <2>1, <1>15
    <3> QED BY <2>1, <3>1 DEF IndInv, ContextFailoverIsFree
  <2>3. mark.candidate # logs[k].candidate
    BY <2>1, <1>0, <1>1, <1>2 DEF IndInv, LoopInv
  <2>4. Rows(Append(marks, mark), logs[k].candidate) = {}
    BY <2>2, <2>3, <1>2, <1>4, AppendRows
  <2> QED BY <2>1, <2>2, <2>4, <1>3
<1>14. SuccessMeansTerminated'
  <2> SUFFICES ASSUME NEW k \in DOMAIN logs', streaming, logs'[k].ok
               PROVE  /\ <<logs'[k].candidate, "done">> \in sent
                      /\ \A e \in sent : e[2] \notin Category
    BY <1>15 DEF SuccessMeansTerminated
  <2>1. k = Len(logs) + 1
    BY <1>1, <1>5 DEF IndInv, LoopInv
  <2> QED BY <2>1, <1>2, <1>5
<1> QED BY <1>7, <1>8, <1>9, <1>10, <1>11, <1>12, <1>13, <1>14 DEF IndInv

-------------------------------------------------------------------------------
\* Every step of the failover loop keeps the invariant.
LEMMA AttemptStep == IndInv /\ Attempt => IndInv'
<1> SUFFICES ASSUME IndInv, Attempt PROVE IndInv'
    OBVIOUS
<1> USE MaxAttemptsAssumption
<1>0. /\ idx \in Nat \ {0} /\ candidates \in Nat
      /\ \A k \in DOMAIN logs : logs[k] \in Row /\ logs[k].candidate \in Nat
      /\ \A k \in DOMAIN marks : marks[k] \in MarkSet /\ marks[k].candidate \in Nat
  BY CandidateFacts DEF IndInv
<1>1. CASE Select
  <2> USE <1>1 DEF Select, Respond
  <2>1. TypeOK'
    BY DEF IndInv, TypeOK, PC, inputs, world, loop, stream, effects
  <2>2. LoopInv'
    BY <1>0 DEF IndInv, LoopInv, Trying, Relaying, inputs, loop, effects
  <2>3. StreamInv'
    BY DEF IndInv, StreamInv, Trying, Relaying, loop, stream
  <2>4. contacted = {}
    BY <1>0 DEF IndInv, LoopInv
  <2>5. SettledInv' /\ ContextOnlyIs400'
    BY <2>4 DEF SettledInv, ContextOnlyIs400, inputs, effects
  <2> QED BY <2>1, <2>2, <2>3, <2>5, QuietStep DEF stream, effects
<1>2. CASE AttemptUnregistered
  <2> USE <1>2 DEF AttemptUnregistered, Respond
  <2>1. TypeOK'
    BY DEF IndInv, TypeOK, PC, inputs, world, loop, stream, effects
  <2>2. LoopInv' /\ ContextOnlyIs400'
    BY <1>0 DEF LoopInv, Trying, Relaying, ContextOnlyIs400, inputs, loop
  <2>3. StreamInv'
    BY DEF IndInv, StreamInv, Trying, Relaying, loop, stream
  <2>4. contacted \subseteq 1..(idx - 1)
    BY <1>0 DEF IndInv, LoopInv
  <2>5. SettledInv'
    BY <2>4 DEF IndInv, LoopInv, SettledInv, effects
  <2> QED BY <2>1, <2>2, <2>3, <2>5, QuietStep DEF stream, effects
<1>3. CASE AttemptContact
  <2> USE <1>3 DEF AttemptContact
  <2>1. TypeOK'
    BY DEF IndInv, TypeOK, PC, Candidate, inputs, world, loop, stream
  <2>2. LoopInv'
    BY <1>0 DEF IndInv, LoopInv, Trying, Relaying, inputs, loop
  <2>3. StreamInv'
    BY DEF IndInv, StreamInv, Trying, Relaying, loop, stream
  <2>4. SettledInv' /\ ContextOnlyIs400'
    BY DEF SettledInv, ContextOnlyIs400
  <2> QED BY <2>1, <2>2, <2>3, <2>4, QuietStep DEF stream
<1>4. CASE AttemptException
  <2>1. pc \in {"attempt"} \union Trying /\ idx <= candidates
    BY <1>4 DEF AttemptException, IndInv, LoopInv, Trying
  <2> QED BY <1>4, <2>1, NextCandidateStep DEF AttemptException, Retryable
<1>5. ASSUME NEW category \in Category, AttemptRetryable(category) PROVE IndInv'
  <2>1. pc \in {"attempt"} \union Trying /\ idx <= candidates
    BY <1>5 DEF AttemptRetryable, IndInv, LoopInv, Trying
  <2> QED BY <1>5, <2>1, NextCandidateStep DEF AttemptRetryable
<1>6. ASSUME NEW category \in Category, AttemptFatal(category) PROVE IndInv'
  <2>1. category \in {"AUTH_ERROR", "INVALID_REQUEST"}
    BY <1>6 DEF AttemptFatal, Category, Retryable
  <2>2. status' \in {400, 401}
    BY <1>6, <2>1 DEF AttemptFatal, Respond, ProviderErrorStatus
  <2> QED BY <1>6, <2>1, <2>2, LastRowStep DEF AttemptFatal, Respond, Trying
<1>7. CASE AttemptSucceeds
  <2>1. ~streaming /\ pc \in Trying
    BY <1>7 DEF AttemptSucceeds, IndInv, LoopInv, Trying
  <2>2. lastCategory' = lastCategory /\ lastCategory \in Category \union {None}
    BY <1>7 DEF AttemptSucceeds, loop, IndInv, TypeOK
  <2> QED BY <1>7, <2>1, <2>2, LastRowStep DEF AttemptSucceeds, Respond, loop, None
<1>8. CASE AttemptConnected
  <2> USE <1>8 DEF AttemptConnected
  <2>1. TypeOK'
    BY DEF IndInv, TypeOK, PC, inputs, world, loop, stream, effects
  <2>2. LoopInv'
    BY <1>0 DEF IndInv, LoopInv, Trying, Relaying, inputs, loop, effects
  <2>3. StreamInv'
    BY DEF IndInv, StreamInv, Trying, Relaying, loop, stream
  <2>4. SettledInv' /\ ContextOnlyIs400'
    BY DEF SettledInv, ContextOnlyIs400
  <2> QED BY <2>1, <2>2, <2>3, <2>4, QuietStep DEF stream, effects
<1>9. ASSUME NEW event \in Event, FirstEvent(event) PROVE IndInv'
  <2> USE <1>9 DEF FirstEvent
  <2>0. event # None
    BY DEF Event, Category, None
  <2>1. TypeOK'
    BY DEF IndInv, TypeOK, PC, inputs, world, loop, effects
  <2>2. LoopInv'
    BY <1>0 DEF IndInv, LoopInv, Trying, Relaying, inputs, loop, effects
  <2>3. StreamInv'
    BY <2>0 DEF IndInv, StreamInv, Trying, Relaying, loop
  <2>4. SettledInv' /\ ContextOnlyIs400'
    BY DEF SettledInv, ContextOnlyIs400
  <2> QED BY <2>0, <2>1, <2>2, <2>3, <2>4, QuietStep DEF effects
<1>10. CASE Exhausted
  <2> USE <1>10 DEF Exhausted, Respond
  <2>1. TypeOK'
    BY DEF IndInv, TypeOK, PC, inputs, world, loop, stream, effects
  <2>2. LoopInv'
    BY DEF LoopInv, Trying, Relaying
  <2>3. StreamInv'
    BY DEF IndInv, StreamInv, Trying, Relaying, loop, stream
  <2>4. contacted \subseteq 1..(idx - 1)
    BY <1>0 DEF IndInv, LoopInv
  <2>5. SettledInv'
    BY <2>4 DEF IndInv, LoopInv, SettledInv, effects
  <2>6. ContextOnlyIs400'
    <3>1. Rows(logs, 1) # {}
      BY <1>0 DEF IndInv, LoopInv
    <3>2. logs # <<>>
      BY <3>1 DEF Rows
    <3>3. status' = 400 <=> ContextOnly
      BY <3>2 DEF IndInv, ContextInv
    <3> QED BY <3>3 DEF ContextOnlyIs400, ContextOnly, effects
  <2> QED BY <2>1, <2>2, <2>3, <2>5, <2>6, QuietStep DEF stream, effects
<1> QED BY <1>1, <1>2, <1>3, <1>4, <1>5, <1>6, <1>7, <1>8, <1>9, <1>10 DEF Attempt

\* Every step of the relay and of its finally clause keeps the invariant.
LEMMA RelayStep == IndInv /\ Relay => IndInv'
<1> SUFFICES ASSUME IndInv, Relay PROVE IndInv'
    OBVIOUS
<1> USE MaxAttemptsAssumption
<1>0. /\ idx \in Nat \ {0} /\ candidates \in Nat
      /\ \A k \in DOMAIN logs : logs[k] \in Row /\ logs[k].candidate \in Nat
      /\ \A k \in DOMAIN marks : marks[k] \in MarkSet /\ marks[k].candidate \in Nat
  BY CandidateFacts DEF IndInv
<1>1. ASSUME pc \in Relaying
      PROVE  /\ idx \in Candidate /\ idx <= candidates /\ streaming
             /\ \A i \in contacted : Rows(logs, i) # {} \/ i = idx
  <2>1. idx <= candidates /\ streaming /\ contacted \subseteq 1..idx
    BY <1>1 DEF IndInv, LoopInv, Relaying
  <2>2. \A i \in 1..(idx - 1) : Rows(logs, i) # {}
    BY <1>1 DEF IndInv, LoopInv, Relaying
  <2>3. \A i \in 1..idx : i \in 1..(idx - 1) \/ i = idx
    BY <1>0
  <2>4. \A i \in contacted : Rows(logs, i) # {} \/ i = idx
    BY <2>1, <2>2, <2>3
  <2>5. idx \in Candidate
    BY <1>0, <2>1 DEF IndInv, TypeOK, Candidate
  <2> QED BY <2>1, <2>4, <2>5
<1>2. CASE RelayFirst
  <2>1. CASE first \in Category /\ registry[idx] = "absent"
    <3>1. /\ pc \in Relaying /\ pc' = "done"
          /\ UNCHANGED <<inputs, world, loop, stream, status, effects>>
      BY <1>2, <2>1 DEF RelayFirst, Relaying, stream
    <3>2. TypeOK'
      BY <3>1 DEF IndInv, TypeOK, PC, inputs, world, loop, stream, effects
    <3>3. LoopInv' /\ StreamInv'
      BY <3>1 DEF IndInv, LoopInv, StreamInv, Trying, Relaying, loop, stream
    <3>4. SettledInv'
      BY <1>1, <2>1, <3>1 DEF SettledInv, inputs, world, loop, effects
    <3>5. ContextOnlyIs400'
      BY <1>0, <1>1, <3>1 DEF ContextOnlyIs400, inputs, loop
    <3> QED BY <3>1, <3>2, <3>3, <3>4, <3>5, QuietStep DEF stream, effects, Relaying
  <2>2. CASE ~(first \in Category /\ registry[idx] = "absent")
    <3>1. /\ pc = "relayFirst" /\ pc \in Relaying /\ pc' \in {"relay", "yield"}
          /\ streamError' = IF first \in Category THEN first ELSE None
          /\ doneSeen' = (first = "done")
          /\ sent' = IF connected THEN sent \union {<<idx, first>>} ELSE sent
          /\ UNCHANGED <<inputs, world, loop, first, status, effects>>
      BY <1>2, <2>2 DEF RelayFirst, Relaying
    <3>2. sent = {} /\ first \in Event
      BY <3>1 DEF IndInv, StreamInv, TypeOK, Relaying
    <3>3. TypeOK'
      <4>1. sent' \subseteq Candidate \X Event
        BY <1>1, <3>1, <3>2
      <4> QED BY <3>1, <4>1 DEF IndInv, TypeOK, PC, inputs, world, loop, effects
    <3>4. LoopInv'
      BY <3>1 DEF IndInv, LoopInv, Trying, Relaying, inputs, loop, effects
    <3>5. StreamInv'
      <4>1. \A e \in sent' : e = <<idx, first>>
        BY <3>1, <3>2
      <4>2. \A e \in sent' : e[1] = idx' /\ e[2] = first
        BY <3>1, <4>1 DEF loop
      <4>3. first \in Category => first # None
        BY DEF Category, None
      <4>4. doneSeen' /\ connected' => <<idx', "done">> \in sent'
        BY <3>1 DEF loop, world
      <4>5. first' # None
        BY <3>1 DEF IndInv, StreamInv
      <4> QED BY <3>1, <4>2, <4>3, <4>4, <4>5 DEF StreamInv, Trying, Relaying
    <3>6. SettledInv' /\ ContextOnlyIs400'
      BY <3>1 DEF SettledInv, ContextOnlyIs400
    <3> QED BY <3>1, <3>2, <3>3, <3>4, <3>5, <3>6, QuietStep DEF effects
  <2> QED BY <2>1, <2>2
<1>3. ASSUME NEW event \in Event, RelayEvent(event) PROVE IndInv'
  <2>1. /\ pc = "relay" /\ pc \in Relaying /\ pc' \in {"yield", "finally"} /\ connected
        /\ sent' = sent \/ sent' = sent \union {<<idx, event>>}
        /\ streamError' = IF event \in Category THEN CategoryOf(event) ELSE streamError
        /\ doneSeen' = (doneSeen \/ event = "done")
        /\ event \notin Category => sent' = sent \union {<<idx, event>>}
        /\ UNCHANGED <<inputs, world, loop, first, status, effects>>
    BY <1>3 DEF RelayEvent, Relaying, Category
  <2>2. event \in Category => CategoryOf(event) \in Category /\ CategoryOf(event) # None
    BY DEF CategoryOf, Category, None
  <2>3. TypeOK'
    <3>1. sent' \subseteq Candidate \X Event
      BY <1>1, <2>1 DEF IndInv, TypeOK
    <3> QED BY <2>1, <2>2, <3>1 DEF IndInv, TypeOK, PC, inputs, world, loop, effects
  <2>4. LoopInv'
    BY <2>1 DEF IndInv, LoopInv, Trying, Relaying, inputs, loop, effects
  <2>5. StreamInv'
    <3>1. idx' = idx /\ connected' = connected /\ first' = first
      BY <2>1 DEF loop, world
    <3>2. \A e \in sent' : e \in sent \/ e = <<idx, event>>
      BY <2>1
    <3>3. \A e \in sent' : e[1] = idx
      BY <3>2 DEF IndInv, StreamInv
    <3>4. streamError' = None => \A e \in sent' : e[2] \notin Category
      BY <2>1, <2>2, <3>2 DEF IndInv, StreamInv
    <3>5. doneSeen' => <<idx, "done">> \in sent'
      BY <2>1 DEF IndInv, StreamInv, Category
    <3>6. first # None
      BY <2>1 DEF IndInv, StreamInv
    <3> QED BY <2>1, <3>1, <3>3, <3>4, <3>5, <3>6 DEF StreamInv, Trying, Relaying
  <2>6. SettledInv' /\ ContextOnlyIs400'
    BY <2>1 DEF SettledInv, ContextOnlyIs400
  <2> QED BY <2>1, <2>3, <2>4, <2>5, <2>6, QuietStep DEF effects
<1>4. CASE RelayEnd
  <2> USE <1>4 DEF RelayEnd
  <2>1. TypeOK'
    BY DEF IndInv, TypeOK, PC, inputs, world, loop, stream, effects
  <2>2. LoopInv'
    BY DEF IndInv, LoopInv, Trying, Relaying, inputs, loop, effects
  <2>3. StreamInv'
    BY DEF IndInv, StreamInv, Trying, Relaying, loop, stream, world
  <2>4. SettledInv' /\ ContextOnlyIs400'
    BY DEF SettledInv, ContextOnlyIs400
  <2> QED BY <2>1, <2>2, <2>3, <2>4, QuietStep DEF stream, effects
<1>5. CASE RelayBreaks
  <2> USE <1>5 DEF RelayBreaks
  <2>1. TypeOK'
    BY DEF IndInv, TypeOK, PC, Category, inputs, world, loop, effects
  <2>2. LoopInv'
    BY DEF IndInv, LoopInv, Trying, Relaying, inputs, loop, effects
  <2>3. StreamInv'
    BY DEF IndInv, StreamInv, Trying, Relaying, loop, world, None
  <2>4. SettledInv' /\ ContextOnlyIs400'
    BY DEF SettledInv, ContextOnlyIs400
  <2> QED BY <2>1, <2>2, <2>3, <2>4, QuietStep DEF effects
<1>6. CASE FinallyDone
  <2>1. /\ pc = "finally" /\ pc \in Relaying /\ streamError = None /\ connected
        /\ sent' = IF doneSeen THEN sent ELSE sent \union {<<idx, "done">>}
        /\ pc' \in {"yieldDone", "settle"}
        /\ UNCHANGED <<inputs, world, loop, first, streamError, doneSeen, status, effects>>
    BY <1>6 DEF FinallyDone, Relaying
  <2>2. TypeOK'
    <3>1. sent' \subseteq Candidate \X Event
      BY <1>1, <2>1 DEF IndInv, TypeOK, Event
    <3> QED BY <2>1, <3>1 DEF IndInv, TypeOK, PC, inputs, world, loop, effects
  <2>3. LoopInv'
    BY <2>1 DEF IndInv, LoopInv, Trying, Relaying, inputs, loop, effects
  <2>4. StreamInv'
    <3>1. idx' = idx /\ first' = first
      BY <2>1 DEF loop
    <3>2. \A e \in sent' : e \in sent \/ e = <<idx, "done">>
      BY <2>1
    <3>3. \A e \in sent' : e[1] = idx /\ e[2] \notin Category
      BY <2>1, <3>2 DEF IndInv, StreamInv, Category
    <3>4. <<idx, "done">> \in sent' /\ first # None
      BY <2>1 DEF IndInv, StreamInv
    <3> QED BY <2>1, <3>1, <3>3, <3>4 DEF StreamInv, Trying, Relaying
  <2>5. SettledInv' /\ ContextOnlyIs400'
    BY <2>1 DEF SettledInv, ContextOnlyIs400
  <2> QED BY <2>1, <2>2, <2>3, <2>4, <2>5, QuietStep DEF effects
<1>7. CASE Settle
  <2>1. /\ pc \in Trying \union Relaying /\ <<idx, "done">> \in sent
        /\ \A e \in sent : e[2] \notin Category
    BY <1>7 DEF Settle, Relaying, IndInv, StreamInv
  <2>2. /\ lastCategory' \in Category \union {None}
        /\ status' \in {0, 200, 400, 401, 500, 502, 503}
    BY <1>7 DEF Settle, loop, IndInv, TypeOK
  <2>3. /\ pc' = "done" /\ logs' = Append(logs, LogRow(TRUE, None))
        /\ marks' = Append(marks, Mark(TRUE))
        /\ UNCHANGED <<inputs, world, idx, allContext, stream, contacted>>
    BY <1>7 DEF Settle, loop
  <2>4. None # "CONTEXT_EXCEEDED" /\ None \in Category \union {None}
    BY DEF None
  <2> QED BY <2>1, <2>2, <2>3, <2>4, LastRowStep
<1>8. CASE FinallyDisconnected \/ (YieldDropped /\ pc = "yieldDone")
  <2>1. /\ pc \in Relaying /\ pc' = "done" /\ ~connected
        /\ UNCHANGED <<inputs, world, loop, stream, status, effects>>
    BY <1>8 DEF YieldDropped, FinallyDisconnected, Relaying
  <2>2. TypeOK'
    BY <2>1 DEF IndInv, TypeOK, PC, inputs, world, loop, stream, effects
  <2>3. LoopInv' /\ StreamInv'
    BY <2>1 DEF IndInv, LoopInv, StreamInv, Trying, Relaying, loop, stream
  <2>4. SettledInv'
    BY <1>1, <2>1 DEF SettledInv, inputs, world, loop, effects
  <2>5. ContextOnlyIs400'
    BY <1>0, <1>1, <2>1 DEF ContextOnlyIs400, inputs, loop
  <2> QED BY <2>1, <2>2, <2>3, <2>4, <2>5, QuietStep DEF stream, effects, Relaying
<1>9. CASE FinallyError
  <2>1. /\ pc \in Trying \union Relaying /\ first # None /\ streamError \in Category \union {None}
        /\ marks' = marks \/ marks' = Append(marks, Mark(FALSE))
    BY <1>9 DEF FinallyError, Relaying, IndInv, StreamInv, TypeOK
  <2>2. /\ lastCategory' \in Category \union {None}
        /\ status' \in {0, 200, 400, 401, 500, 502, 503}
    BY <1>9 DEF FinallyError, loop, IndInv, TypeOK
  <2>3. /\ pc' = "done" /\ logs' = Append(logs, LogRow(FALSE, streamError))
        /\ UNCHANGED <<inputs, world, idx, allContext, stream, contacted>>
    BY <1>9 DEF FinallyError, loop
  <2> QED BY <2>1, <2>2, <2>3, LastRowStep
<1>10. CASE YieldResumes \/ (YieldDropped /\ pc = "yield")
  <2>1. /\ \/ pc = "yield" /\ pc' \in {"relay", "finally"}
           \/ pc = "yieldDone" /\ pc' = "settle"
        /\ UNCHANGED <<inputs, world, loop, stream, status, effects>>
    BY <1>10 DEF YieldResumes, YieldDropped, Suspended
  <2>2. TypeOK'
    BY <2>1 DEF IndInv, TypeOK, PC, inputs, world, loop, stream, effects
  <2>3. LoopInv'
    BY <2>1 DEF IndInv, LoopInv, Trying, Relaying, inputs, loop, effects
  <2>4. StreamInv'
    BY <2>1 DEF IndInv, StreamInv, Trying, Relaying, loop, stream, world
  <2>5. SettledInv' /\ ContextOnlyIs400'
    BY <2>1 DEF SettledInv, ContextOnlyIs400
  <2> QED BY <2>1, <2>2, <2>3, <2>4, <2>5, QuietStep DEF stream, effects
<1>11. YieldDropped => pc \in {"yield", "yieldDone"}
  BY DEF YieldDropped, Suspended
<1> QED BY <1>2, <1>3, <1>4, <1>5, <1>6, <1>7, <1>8, <1>9, <1>10, <1>11 DEF Relay

\* What happens around the request: a disconnect, the deadline, a reload of the registry.
LEMMA WorldStep ==
    ASSUME IndInv, pc # "done",
           connected' \in BOOLEAN, connected' => connected, late' \in BOOLEAN,
           registry' \in [Candidate -> RegistryState],
           UNCHANGED <<inputs, pc, loop, stream, status, effects>>
    PROVE  IndInv'
<1>1. TypeOK'
  BY DEF IndInv, TypeOK, inputs, loop, stream, effects
<1>2. LoopInv'
  BY DEF IndInv, LoopInv, inputs, loop, effects
<1>3. StreamInv'
  BY DEF IndInv, StreamInv, loop, stream
<1>4. SettledInv' /\ ContextOnlyIs400'
  BY DEF SettledInv, ContextOnlyIs400
<1> QED BY <1>1, <1>2, <1>3, <1>4, QuietStep DEF stream, effects

\* IndInv is inductive.
LEMMA IndStep == IndInv /\ [Next]_vars => IndInv'
<1> SUFFICES ASSUME IndInv, [Next]_vars PROVE IndInv'
    OBVIOUS
<1>1. CASE ClientDisconnects
  BY <1>1, WorldStep DEF ClientDisconnects, IndInv, TypeOK
<1>2. CASE DeadlinePasses
  BY <1>2, WorldStep DEF DeadlinePasses, IndInv, TypeOK
<1>3. ASSUME NEW i \in Candidate, NEW state \in RegistryState, RegistryChanges(i, state)
      PROVE  IndInv'
  BY <1>3, WorldStep DEF RegistryChanges, IndInv, TypeOK
<1>4. CASE UNCHANGED vars
  <2>1. TypeOK' /\ LoopInv'
    BY <1>4 DEF vars, IndInv, TypeOK, LoopInv
  <2>2. ContextInv' /\ StreamInv' /\ OrderInv'
    BY <1>4 DEF vars, IndInv, ContextInv, ContextOnly, StreamInv, OrderInv
  <2>3. SettledInv' /\ ContextOnlyIs400' /\ ContextFailoverIsFree' /\ SuccessMeansTerminated'
    BY <1>4 DEF vars, IndInv, SettledInv, ContextOnlyIs400, ContextFailoverIsFree,
         SuccessMeansTerminated
  <2> QED BY <2>1, <2>2, <2>3 DEF IndInv
<1> QED BY <1>1, <1>2, <1>3, <1>4, AttemptStep, RelayStep DEF Next

\* It holds in every state of every request.
LEMMA Inductive == Spec => []IndInv
BY InitInd, IndStep, PTL DEF Spec

-------------------------------------------------------------------------------
\* For any number of attempts, whatever the providers answer and whenever the client
\* disconnects, the deadline passes or the registry is reloaded: chat_completions() answers
\* 400 for an exhausted list exactly if all candidates lacked context, and failing over for
\* lack of context costs the candidates no health.
THEOREM RequestSound == Spec => []RequestInv
<1>1. IndInv => RequestInv
  BY DEF IndInv, RequestInv
<1> QED BY <1>1, Inductive, PTL

\* Telemetry and health marks are one per attempt at most and in the attempts' order, and
\* a provider that was called has its row unless the client left or the registry lost it.
THEOREM Accounted == Spec => []AttemptsAccounted
<1>1. IndInv => AttemptsAccounted
  BY DEF IndInv, OrderInv, SettledInv, AttemptsAccounted
<1> QED BY <1>1, Inductive, PTL

\* _relay_stream() records a success only for a stream that reached the client with its
\* [DONE] and without an error event.
THEOREM SuccessTerminated == Spec => []SuccessMeansTerminated
<1>1. IndInv => SuccessMeansTerminated
  BY DEF IndInv
<1> QED BY <1>1, Inductive, PTL

\* Once the client has received anything, no other provider is called for this request and
\* nothing of another candidate is sent.
THEOREM NeverReplayed == Spec => NoReplay
<1>1. ASSUME IndInv, IndInv', [Next]_vars, sent # {}
      PROVE  contacted' = contacted /\ \A e \in sent' : \A d \in sent : e[1] = d[1]
  <2>1. pc \notin {"select", "attempt", "relayFirst"} \union Trying
    BY <1>1 DEF IndInv, StreamInv
  <2>2. contacted' = contacted /\ idx' = idx
    <3>1. CASE Attempt
      BY <2>1, <3>1 DEF Attempt, Trying, Select, AttemptUnregistered, AttemptContact,
           AttemptException, AttemptRetryable, AttemptFatal, AttemptSucceeds,
           AttemptConnected, FirstEvent, Exhausted
    <3>2. CASE Relay
      BY <3>2 DEF Relay, RelayFirst, RelayEvent, YieldResumes, YieldDropped, RelayEnd,
           RelayBreaks, FinallyDone, Settle, FinallyDisconnected, FinallyError, loop, effects
    <3>3. CASE UNCHANGED <<loop, effects>>
      BY <3>3 DEF loop, effects
    <3> QED BY <1>1, <3>1, <3>2, <3>3
            DEF Next, ClientDisconnects, DeadlinePasses, RegistryChanges, vars, loop, effects
  <2> QED BY <1>1, <2>2 DEF IndInv, StreamInv
<1>2. IndInv /\ IndInv' /\ [Next]_vars
         => [sent # {} => /\ contacted' = contacted
                          /\ \A e \in sent' : \A d \in sent : e[1] = d[1]]_vars
  BY <1>1
<1> QED BY <1>2, Inductive, PTL DEF Spec, NoReplay
===============================================================================
