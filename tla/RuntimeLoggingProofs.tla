------------------------- MODULE RuntimeLoggingProofs -------------------------
(***************************************************************************)
(* Theorems about RuntimeLogging for any finite sets of log calls and of   *)
(* calls of configure() and stop(), and any size of the queue.             *)
(*                                                                         *)
(* LockInv: _lock is held exactly by the call that is between Begin and    *)
(* Finish.  InstalledInv: what that call has already taken away, and that  *)
(* a generation that is not installed has no running listener.             *)
(* SentinelInv: only a call that is about to join has put a sentinel on    *)
(* the queue of the installed generation, so that nobody else ends its     *)
(* listener.  RecordInv: a record was captured by a generation that        *)
(* exists, hence never by the next one.  CountInv bounds the counters.     *)
(***************************************************************************)
EXTENDS RuntimeLogging, FiniteSetTheorems, SequenceTheorems, TLAPS

Place == {"new", "suppressed", "passed", "unhandled", "captured", "queued", "full", "counted",
          "dropped", "discarded", "written"}
RecordState == [at : Place, by : 0..Cardinality(Call)]
CallState == [at : {"idle", "sentinel", "makeRoom", "join", "finish", "done"},
              does : {"none", "enable", "disable", "stop"}]

Stopping == {"sentinel", "makeRoom", "join"}
Joining == \E c \in Call : call[c].at = "join"

LockInv == \A c \in Call : call[c].at \in Stopping \union {"finish"} <=> lock = c

InstalledInv ==
    /\ handler = installed
    /\ installed \in {0, last}
    /\ lock = NoOne => (enabled <=> installed # 0)
    /\ \A c \in Call : call[c].at \in Stopping => installed # 0
    /\ \A c \in Call : call[c].at = "finish" => installed = 0
    /\ \A g \in Generation : listener[g] = "running" => g = installed
    /\ installed # 0 /\ ~Joining => listener[installed] = "running"
    /\ \A g \in Generation : g > last => queue[g] = <<>>

SentinelInv ==
    installed # 0 /\ ~Joining
        => \A i \in 1..Len(queue[installed]) : queue[installed][i] # Sentinel

RecordInv ==
    \A r \in Record :
        /\ record[r].by <= last
        /\ record[r].at = "captured" => record[r].by # 0

Done == {c \in Call : call[c].at = "done"}
Gone == {r \in Record : record[r].at \in {"counted", "dropped", "discarded", "written"}}

CountInv == last <= Cardinality(Done) /\ dropped <= Cardinality(Gone)

IndInv ==
    /\ TypeOK /\ LockInv /\ InstalledInv /\ SentinelInv /\ RecordInv /\ CountInv
    /\ WarningsSurvive

-------------------------------------------------------------------------------
\* The sets that are counted are finite.
LEMMA Counted ==
    /\ Cardinality(Call) \in Nat /\ Cardinality(Record) \in Nat
    /\ \A S \in SUBSET Call :
          IsFiniteSet(S) /\ Cardinality(S) \in Nat /\ Cardinality(S) <= Cardinality(Call)
    /\ \A S \in SUBSET Record :
          IsFiniteSet(S) /\ Cardinality(S) \in Nat /\ Cardinality(S) <= Cardinality(Record)
<1> USE RuntimeLoggingAssumption
<1>1. Cardinality(Call) \in Nat /\ Cardinality(Record) \in Nat
  BY FS_CardinalityType
<1>2. ASSUME NEW S \in SUBSET Call
      PROVE  IsFiniteSet(S) /\ Cardinality(S) \in Nat /\ Cardinality(S) <= Cardinality(Call)
  BY FS_Subset, FS_CardinalityType
<1>3. ASSUME NEW S \in SUBSET Record
      PROVE  IsFiniteSet(S) /\ Cardinality(S) \in Nat /\ Cardinality(S) <= Cardinality(Record)
  BY FS_Subset, FS_CardinalityType
<1> QED BY <1>1, <1>2, <1>3

\* What Move() and Goto() change.
LEMMA MoveFacts ==
    ASSUME TypeOK, NEW r \in Record, NEW place \in Place, Move(r, place)
    PROVE  /\ record' \in [Record -> RecordState]
           /\ record'[r].at = place /\ record'[r].by = record[r].by
           /\ \A s \in Record : s # r => record'[s] = record[s]
BY DEF Move, TypeOK, RecordState, Place

\* A call goes on to its next place; the others stay.
LEMMA GotoFacts ==
    ASSUME TypeOK, NEW c \in Call,
           NEW place \in {"sentinel", "makeRoom", "join", "finish", "done"}, Goto(c, place)
    PROVE  /\ call' \in [Call -> CallState]
           /\ call'[c].at = place /\ call'[c].does = call[c].does
           /\ \A d \in Call : d # c => call'[d] = call[d]
BY DEF Goto, TypeOK, CallState

\* At the start there is no call, no record and no generation.
LEMMA InitInd == Init => IndInv
<1> SUFFICES ASSUME Init PROVE IndInv
    OBVIOUS
<1> USE RuntimeLoggingAssumption, Counted
<1>1. TypeOK
  <2>1. queue \in [Generation -> Seq(Record \union {Sentinel})]
    BY EmptySeq DEF Init
  <2>2. \A g \in Generation : Len(queue[g]) <= QueueSize
    BY EmptySeq DEF Init
  <2>3. {installed, handler, last} \subseteq 0..Cardinality(Call)
        /\ dropped \in 0..Cardinality(Record)
    BY DEF Init
  <2>4. record \in [Record -> RecordState] /\ call \in [Call -> CallState]
    BY DEF Init, RecordState, CallState, Place
  <2> QED BY <2>1, <2>2, <2>3, <2>4 DEF Init, TypeOK, RecordState, CallState, Place
<1>2. LockInv /\ InstalledInv /\ SentinelInv /\ RecordInv
  BY DEF Init, LockInv, InstalledInv, SentinelInv, RecordInv, Stopping, Joining
<1>3. CountInv
  <2>1. Done = {} /\ Gone = {}
    BY DEF Init, Done, Gone
  <2> QED BY <2>1, FS_EmptySet DEF Init, CountInv
<1>4. WarningsSurvive
  BY DEF Init, WarningsSurvive
<1> QED BY <1>1, <1>2, <1>3, <1>4 DEF IndInv

-------------------------------------------------------------------------------
\* What follows for the records and the counters when one record changes and the manager
\* does not.
LEMMA OneRecord ==
    ASSUME IndInv, NEW r \in Record, UNCHANGED managerVars,
           record' \in [Record -> RecordState],
           \A s \in Record : s # r => record'[s] = record[s],
           record'[r].by <= last, record'[r].at = "captured" => record'[r].by # 0,
           r \in Gone => r \in Gone',
           dropped' = dropped \/ (dropped' = dropped + 1 /\ r \in Gone' \ Gone),
           r \in Warning /\ record'[r].at \in {"dropped", "discarded"}
              => record'[r].by # installed \/ installed = 0 \/ lock # NoOne
    PROVE  /\ LockInv' /\ RecordInv' /\ CountInv' /\ WarningsSurvive'
           /\ dropped' \in 0..Cardinality(Record)
<1> USE RuntimeLoggingAssumption, Counted
<1>0. UNCHANGED <<lock, enabled, installed, handler, last, call>>
  BY DEF managerVars
<1>1. CountInv'
  <2>0. Gone \in SUBSET Record /\ dropped \in Nat
    BY DEF Gone, IndInv, TypeOK
  <2>1. Gone' = Gone \/ (r \notin Gone /\ Gone' = Gone \union {r})
    BY DEF Gone
  <2>2. \/ Gone' = Gone /\ Cardinality(Gone') = Cardinality(Gone)
        \/ r \notin Gone /\ Cardinality(Gone') = Cardinality(Gone) + 1
    BY <2>0, <2>1, FS_AddElement
  <2>3. dropped' <= Cardinality(Gone')
    BY <2>0, <2>2 DEF IndInv, CountInv
  <2>4. last' <= Cardinality(Done')
    BY <1>0 DEF IndInv, CountInv, Done
  <2> QED BY <2>3, <2>4 DEF CountInv
<1>2. dropped' \in 0..Cardinality(Record)
  <2>1. Gone' \in SUBSET Record /\ dropped \in Nat
    BY DEF Gone, IndInv, TypeOK
  <2> QED BY <1>1, <2>1 DEF CountInv
<1>3. LockInv' /\ RecordInv'
  BY <1>0 DEF IndInv, LockInv, RecordInv
<1>4. WarningsSurvive'
  BY <1>0 DEF IndInv, WarningsSurvive
<1> QED BY <1>1, <1>2, <1>3, <1>4

\* A step of runtime_log() that leaves the queues alone.
LEMMA RecordStep ==
    ASSUME IndInv, UNCHANGED <<managerVars, queue, listener>>,
           record' \in [Record -> RecordState], dropped' \in 0..Cardinality(Record),
           LockInv', RecordInv', CountInv', WarningsSurvive'
    PROVE  IndInv'
<1>1. TypeOK'
  BY DEF IndInv, TypeOK, managerVars, RecordState, Place
<1>2. InstalledInv' /\ SentinelInv'
  BY DEF IndInv, InstalledInv, SentinelInv, Joining, managerVars
<1> QED BY <1>1, <1>2 DEF IndInv

\* Every step of runtime_log() keeps the invariant.
LEMMA LogStep ==
    ASSUME IndInv, NEW r \in Record, Log(r)
    PROVE  IndInv'
<1> USE RuntimeLoggingAssumption, Counted
<1>0. /\ TypeOK /\ record[r] \in RecordState /\ record[r].by <= last
      /\ handler = installed /\ last \in 0..Cardinality(Call) /\ installed \in {0, last}
  BY DEF IndInv, TypeOK, RecordState, Place, RecordInv, InstalledInv
<1>1. ASSUME NEW wanted \in BOOLEAN, ShouldEmit(r, wanted) PROVE IndInv'
  <2>1. PICK place \in {"passed", "suppressed"} : Move(r, place)
    BY <1>1 DEF ShouldEmit
  <2>2. /\ record[r].at = "new" /\ dropped' = dropped
        /\ UNCHANGED <<managerVars, queue, listener>>
    BY <1>1 DEF ShouldEmit
  <2>3. /\ record' \in [Record -> RecordState]
        /\ record'[r].at = place /\ record'[r].by = record[r].by
        /\ \A s \in Record : s # r => record'[s] = record[s]
    BY <1>0, <2>1, MoveFacts DEF Place
  <2>4. LockInv' /\ RecordInv' /\ CountInv' /\ WarningsSurvive' /\ dropped' \in 0..Cardinality(Record)
    BY <1>0, <2>1, <2>2, <2>3, OneRecord DEF Gone
  <2> QED BY <2>2, <2>3, <2>4, RecordStep
<1>2. CASE CallHandlers(r)
  <2>1. /\ record[r].at = "passed" /\ dropped' = dropped
        /\ UNCHANGED <<managerVars, queue, listener>>
    BY <1>2 DEF CallHandlers
  <2>2. /\ record' \in [Record -> RecordState]
        /\ record'[r].at = IF handler = 0 THEN "unhandled" ELSE "captured"
        /\ record'[r].by = handler
        /\ \A s \in Record : s # r => record'[s] = record[s]
    <3>1. handler \in 0..Cardinality(Call)
      BY <1>0 DEF TypeOK
    <3> QED BY <1>2, <3>1 DEF CallHandlers, IndInv, TypeOK, RecordState, Place
  <2>3. handler <= last
    BY <1>0
  <2>4. LockInv' /\ RecordInv' /\ CountInv' /\ WarningsSurvive' /\ dropped' \in 0..Cardinality(Record)
    BY <1>0, <2>1, <2>2, <2>3, OneRecord DEF Gone
  <2> QED BY <2>1, <2>2, <2>4, RecordStep
<1>3. CASE Enqueue(r)
  <2> DEFINE g == record[r].by
  <2>1. /\ record[r].at = "captured" /\ dropped' = dropped
        /\ UNCHANGED <<managerVars, listener>>
        /\ g \in Generation /\ g <= last
    BY <1>0, <1>3 DEF Enqueue, IndInv, RecordInv, RecordState, Generation
  <2>2. PICK place \in {"queued", "full"} :
           /\ Move(r, place)
           /\ IF Len(queue[g]) < QueueSize THEN queue' = [queue EXCEPT ![g] = Append(@, r)]
                                           ELSE UNCHANGED queue
    BY <1>3 DEF Enqueue
  <2>3. /\ record' \in [Record -> RecordState]
        /\ record'[r].at = place /\ record'[r].by = record[r].by
        /\ \A s \in Record : s # r => record'[s] = record[s]
    BY <1>0, <2>2, MoveFacts DEF Place
  <2>4. LockInv' /\ RecordInv' /\ CountInv' /\ WarningsSurvive' /\ dropped' \in 0..Cardinality(Record)
    BY <1>0, <2>1, <2>2, <2>3, OneRecord DEF Gone
  <2>5. CASE ~(Len(queue[g]) < QueueSize)
    BY <2>1, <2>2, <2>3, <2>4, <2>5, RecordStep
  <2>6. CASE Len(queue[g]) < QueueSize
    <3> HIDE DEF g
    <3>1. queue[g] \in Seq(Record \union {Sentinel}) /\ r \in Record \union {Sentinel}
      BY <2>1 DEF IndInv, TypeOK
    <3>2. queue' = [queue EXCEPT ![g] = Append(queue[g], r)]
      BY <2>2, <2>6
    <3>3. /\ queue' \in [Generation -> Seq(Record \union {Sentinel})]
          /\ queue'[g] = Append(queue[g], r)
          /\ \A h \in Generation : h # g => queue'[h] = queue[h]
      <4>1. Append(queue[g], r) \in Seq(Record \union {Sentinel})
        BY <3>1, AppendProperties
      <4> QED BY <2>1, <3>2, <4>1 DEF IndInv, TypeOK
    <3>4. /\ Len(queue'[g]) = Len(queue[g]) + 1 /\ Len(queue[g]) \in Nat
          /\ \A i \in 1..Len(queue[g]) : queue'[g][i] = queue[g][i]
          /\ queue'[g][Len(queue[g]) + 1] = r
      BY <3>1, <3>3, AppendProperties, LenProperties
    <3>5. \A h \in Generation : Len(queue'[h]) <= QueueSize
      <4>1. Len(queue'[g]) <= QueueSize
        BY <2>6, <3>4
      <4> QED BY <3>3, <4>1 DEF IndInv, TypeOK
    <3>6. TypeOK'
      BY <2>1, <2>3, <2>4, <3>3, <3>5 DEF IndInv, TypeOK, managerVars, RecordState, Place
    <3>7. InstalledInv'
      <4>1. \A h \in Generation : h > last => h # g
        BY <1>0, <2>1 DEF Generation
      <4> QED BY <2>1, <3>3, <4>1 DEF IndInv, InstalledInv, Joining, managerVars
    <3>8. SentinelInv'
      <4>1. installed' = installed /\ Joining' = Joining
        BY <2>1 DEF managerVars, Joining
      <4>2. installed # 0 => installed \in Generation
        BY DEF IndInv, TypeOK, Generation
      <4>3. CASE installed = g
        <5>1. \A i \in 1..Len(queue'[g]) : i \in 1..Len(queue[g]) \/ i = Len(queue[g]) + 1
          BY <3>4
        <5>2. r # Sentinel
          OBVIOUS
        <5> QED BY <3>4, <4>1, <4>3, <5>1, <5>2 DEF IndInv, SentinelInv
      <4>4. CASE installed # g
        BY <3>3, <4>1, <4>2, <4>4 DEF IndInv, SentinelInv
      <4> QED BY <4>3, <4>4
    <3> QED BY <2>4, <3>6, <3>7, <3>8 DEF IndInv
  <2> QED BY <2>5, <2>6
<1>4. CASE RecordDrop(r)
  <2>1. PICK place \in {"counted", "dropped"} :
           Move(r, place) /\ (r \in Warning => place = "counted")
    BY <1>4 DEF RecordDrop
  <2>2. /\ record[r].at = "full" /\ dropped' = dropped + 1
        /\ UNCHANGED <<managerVars, queue, listener>>
    BY <1>4 DEF RecordDrop
  <2>3. /\ record' \in [Record -> RecordState]
        /\ record'[r].at = place /\ record'[r].by = record[r].by
        /\ \A s \in Record : s # r => record'[s] = record[s]
    BY <1>0, <2>1, MoveFacts DEF Place
  <2>4. r \in Gone' \ Gone
    BY <2>2, <2>3 DEF Gone
  <2>5. LockInv' /\ RecordInv' /\ CountInv' /\ WarningsSurvive' /\ dropped' \in 0..Cardinality(Record)
    BY <1>0, <2>1, <2>2, <2>3, <2>4, OneRecord
  <2> QED BY <2>2, <2>3, <2>5, RecordStep
<1>5. CASE Fallback(r)
  <2>1. PICK place \in {"written", "dropped"} :
           Move(r, place) /\ (place = "dropped" => installed = 0)
    BY <1>5 DEF Fallback
  <2>2. /\ record[r].at = "counted" /\ dropped' = dropped
        /\ UNCHANGED <<managerVars, queue, listener>>
    BY <1>5 DEF Fallback
  <2>3. /\ record' \in [Record -> RecordState]
        /\ record'[r].at = place /\ record'[r].by = record[r].by
        /\ \A s \in Record : s # r => record'[s] = record[s]
    BY <1>0, <2>1, MoveFacts DEF Place
  <2>4. LockInv' /\ RecordInv' /\ CountInv' /\ WarningsSurvive' /\ dropped' \in 0..Cardinality(Record)
    BY <1>0, <2>1, <2>2, <2>3, OneRecord DEF Gone
  <2> QED BY <2>2, <2>3, <2>4, RecordStep
<1> QED BY <1>1, <1>2, <1>3, <1>4, <1>5 DEF Log

\* Taking the oldest entry of a queue.
LEMMA TakeFacts ==
    ASSUME TypeOK, NEW g \in Generation, queue[g] # <<>>,
           queue' = [queue EXCEPT ![g] = Tail(@)]
    PROVE  /\ Head(queue[g]) \in Record \union {Sentinel} /\ Head(queue[g]) = queue[g][1]
           /\ Len(queue[g]) \in Nat \ {0}
           /\ queue' \in [Generation -> Seq(Record \union {Sentinel})]
           /\ \A h \in Generation : Len(queue'[h]) <= QueueSize
           /\ \A h \in Generation : h # g => queue'[h] = queue[h]
           /\ \A i \in 1..Len(queue'[g]) : i + 1 \in 1..Len(queue[g])
                                           /\ queue'[g][i] = queue[g][i + 1]
<1> USE RuntimeLoggingAssumption
<1> DEFINE q == queue[g]
<1>1. q \in Seq(Record \union {Sentinel}) /\ q # <<>>
  BY DEF TypeOK
<1>2. Len(q) \in Nat \ {0} /\ Head(q) = q[1] /\ Head(q) \in Record \union {Sentinel}
  BY <1>1, EmptySeq, LenProperties, HeadTailProperties
<1>3. /\ Tail(q) \in Seq(Record \union {Sentinel}) /\ Len(Tail(q)) = Len(q) - 1
      /\ \A i \in 1..Len(Tail(q)) : Tail(q)[i] = q[i + 1]
  BY <1>1, HeadTailProperties
<1>4. queue'[g] = Tail(q) /\ \A h \in Generation : h # g => queue'[h] = queue[h]
  BY DEF TypeOK
<1>5. queue' \in [Generation -> Seq(Record \union {Sentinel})]
  BY <1>3 DEF TypeOK
<1>6. Len(q) <= QueueSize
  BY DEF TypeOK
<1>7. \A h \in Generation : Len(queue'[h]) <= QueueSize
  <2> SUFFICES ASSUME NEW h \in Generation PROVE Len(queue'[h]) <= QueueSize
      OBVIOUS
  <2>1. CASE h = g
    BY <2>1, <1>2, <1>3, <1>4, <1>6
  <2>2. CASE h # g
    BY <2>2, <1>4 DEF TypeOK
  <2> QED BY <2>1, <2>2
<1>8. \A i \in 1..Len(queue'[g]) : i + 1 \in 1..Len(q) /\ queue'[g][i] = q[i + 1]
  <2> HIDE DEF q
  <2>1. 1..Len(queue'[g]) = 1..(Len(q) - 1)
    BY <1>3, <1>4
  <2>2. \A i \in 1..(Len(q) - 1) : i + 1 \in 1..Len(q)
    BY <1>2
  <2>3. \A i \in 1..Len(queue'[g]) : queue'[g][i] = q[i + 1]
    BY <1>3, <1>4
  <2> QED BY <2>1, <2>2, <2>3
<1> QED BY <1>2, <1>4, <1>5, <1>7, <1>8

\* Every step of a listener keeps the invariant.
LEMMA MonitorStep ==
    ASSUME IndInv, NEW g \in Generation, Monitor(g)
    PROVE  IndInv'
<1> USE RuntimeLoggingAssumption, Counted
<1>0. /\ TypeOK /\ queue[g] # <<>> /\ queue' = [queue EXCEPT ![g] = Tail(@)]
      /\ listener[g] = "running" /\ g = installed
      /\ UNCHANGED <<lock, enabled, installed, handler, last, call, dropped>>
  BY DEF Monitor, IndInv, InstalledInv, managerVars
<1>1. /\ Head(queue[g]) \in Record \union {Sentinel} /\ Head(queue[g]) = queue[g][1]
      /\ Len(queue[g]) \in Nat \ {0}
      /\ queue' \in [Generation -> Seq(Record \union {Sentinel})]
      /\ \A h \in Generation : Len(queue'[h]) <= QueueSize
      /\ \A h \in Generation : h # g => queue'[h] = queue[h]
      /\ \A i \in 1..Len(queue'[g]) : i + 1 \in 1..Len(queue[g])
                                      /\ queue'[g][i] = queue[g][i + 1]
  BY <1>0, TakeFacts
<1>2. Joining' = Joining /\ Done' = Done
  BY <1>0 DEF Joining, Done
<1>3. g <= last
  BY <1>0 DEF IndInv, InstalledInv, TypeOK, Generation
<1>4. SentinelInv'
  <2>1. ~Joining => \A i \in 1..Len(queue[g]) : queue[g][i] # Sentinel
    BY <1>0 DEF IndInv, SentinelInv, Generation
  <2> QED BY <1>0, <1>1, <1>2, <2>1 DEF SentinelInv
<1>5. CASE Head(queue[g]) = Sentinel
  <2>1. Joining
    BY <1>0, <1>1, <1>5 DEF IndInv, SentinelInv, Generation
  <2>2. listener' = [listener EXCEPT ![g] = "ended"] /\ record' = record
    BY <1>5 DEF Monitor
  <2>3. Gone' = Gone
    BY <2>2 DEF Gone
  <2>4. TypeOK'
    BY <1>0, <1>1, <2>2 DEF IndInv, TypeOK
  <2>5. InstalledInv'
    <3>1. \A h \in Generation : h > last => queue'[h] = <<>>
      BY <1>0, <1>1, <1>3 DEF IndInv, InstalledInv, TypeOK, Generation
    <3>2. \A h \in Generation : listener'[h] = "running" => h = installed
      BY <1>0, <2>2 DEF IndInv, InstalledInv, TypeOK
    <3> QED BY <1>0, <1>2, <2>1, <3>1, <3>2 DEF IndInv, InstalledInv
  <2>6. LockInv' /\ RecordInv' /\ CountInv' /\ WarningsSurvive'
    BY <1>0, <1>2, <2>2, <2>3 DEF IndInv, LockInv, RecordInv, CountInv, WarningsSurvive
  <2> QED BY <1>4, <2>4, <2>5, <2>6 DEF IndInv
<1>6. CASE Head(queue[g]) # Sentinel
  <2>1. PICK r \in Record : Move(r, "written")
    BY <1>1, <1>6 DEF Monitor
  <2>2. listener' = listener
    BY <1>6 DEF Monitor
  <2>3. /\ record' \in [Record -> RecordState]
        /\ record'[r].at = "written" /\ record'[r].by = record[r].by
        /\ \A s \in Record : s # r => record'[s] = record[s]
    BY <1>0, <2>1, MoveFacts DEF Place
  <2>4. r \in Gone' /\ record[r].by <= last
    BY <2>3 DEF Gone, IndInv, RecordInv
  <2>5. LockInv' /\ RecordInv' /\ CountInv' /\ WarningsSurvive' /\ dropped' \in 0..Cardinality(Record)
    BY <1>0, <2>3, <2>4, OneRecord DEF managerVars
  <2>6. TypeOK'
    BY <1>0, <1>1, <2>2, <2>3 DEF IndInv, TypeOK, RecordState, Place
  <2>7. InstalledInv'
    <3>1. \A h \in Generation : h > last => queue'[h] = <<>>
      BY <1>0, <1>1, <1>3 DEF IndInv, InstalledInv, TypeOK, Generation
    <3> QED BY <1>0, <1>2, <2>2, <3>1 DEF IndInv, InstalledInv
  <2> QED BY <1>4, <2>5, <2>6, <2>7 DEF IndInv
<1> QED BY <1>5, <1>6

\* configure() and stop() take _lock when nobody holds it.
LEMMA BeginStep ==
    ASSUME IndInv, NEW c \in Call, NEW does \in {"enable", "disable", "stop"}, Begin(c, does)
    PROVE  IndInv'
<1> USE RuntimeLoggingAssumption, Counted
<1>0. /\ call[c].at = "idle" /\ lock = NoOne /\ lock' = c
      /\ UNCHANGED <<enabled, installed, handler, last, queue, listener, dropped, record>>
  BY DEF Begin
<1>1. /\ call' \in [Call -> CallState]
      /\ call'[c].at = IF installed = 0 THEN "finish" ELSE "sentinel"
      /\ \A d \in Call : d # c => call'[d] = call[d]
  BY DEF Begin, IndInv, TypeOK, CallState
<1>2. \A d \in Call : call[d].at \notin Stopping \union {"finish"}
  BY <1>0 DEF IndInv, LockInv
<1>3. ~Joining /\ ~Joining'
  BY <1>1, <1>2 DEF Joining, Stopping
<1>4. Done' = Done /\ Gone' = Gone
  BY <1>0, <1>1 DEF Done, Gone
<1>5. TypeOK'
  BY <1>0, <1>1 DEF IndInv, TypeOK, CallState
<1>6. LockInv'
  BY <1>0, <1>1, <1>2 DEF LockInv, Stopping
<1>7. InstalledInv'
  BY <1>0, <1>1, <1>2, <1>3 DEF IndInv, InstalledInv, Stopping
<1>8. SentinelInv' /\ RecordInv' /\ CountInv' /\ WarningsSurvive'
  BY <1>0, <1>3, <1>4 DEF IndInv, SentinelInv, RecordInv, CountInv, WarningsSurvive
<1> QED BY <1>5, <1>6, <1>7, <1>8 DEF IndInv

\* Where the holder of _lock is, nobody else is.
LEMMA Holder ==
    ASSUME IndInv, NEW c \in Call, call[c].at \in Stopping \union {"finish"}
    PROVE  /\ lock = c /\ lock # NoOne
           /\ \A d \in Call : d # c => call[d].at \notin Stopping \union {"finish"}
           /\ Joining <=> call[c].at = "join"
           /\ c \notin Done
<1> USE RuntimeLoggingAssumption
<1>1. lock = c /\ \A d \in Call : d # c => call[d].at \notin Stopping \union {"finish"}
  BY DEF IndInv, LockInv
<1> QED BY <1>1 DEF Joining, Stopping, Done

\* _stop_locked() up to the end of the join keeps the invariant.
LEMMA StopStep ==
    ASSUME IndInv, NEW c \in Call, PutSentinel(c) \/ MakeRoom(c) \/ Join(c)
    PROVE  IndInv'
<1> USE RuntimeLoggingAssumption, Counted
<1>0. call[c].at \in Stopping /\ TypeOK
  BY DEF PutSentinel, MakeRoom, Join, Stopping, IndInv
<1>1. /\ lock = c /\ lock # NoOne /\ c \notin Done
      /\ \A d \in Call : d # c => call[d].at \notin Stopping \union {"finish"}
      /\ Joining <=> call[c].at = "join"
  BY <1>0, Holder
<1>2. installed \in Generation /\ installed = last /\ handler = installed
  BY <1>0 DEF IndInv, InstalledInv, TypeOK, Generation
<1>3. UNCHANGED <<lock, enabled, last, listener, dropped>>
  BY DEF PutSentinel, MakeRoom, Join
<1>4. WarningsSurvive'
  BY <1>1, <1>3 DEF WarningsSurvive
<1>5. ASSUME NEW place \in {"sentinel", "makeRoom", "join", "finish"}, Goto(c, place)
      PROVE  /\ call' \in [Call -> CallState]
             /\ call'[c].at = place
             /\ \A d \in Call : d # c => call'[d] = call[d]
             /\ LockInv' /\ Done' = Done
             /\ Joining' <=> place = "join"
  <2>1. /\ call' \in [Call -> CallState] /\ call'[c].at = place
        /\ \A d \in Call : d # c => call'[d] = call[d]
    BY <1>0, <1>5, GotoFacts
  <2>2. LockInv'
    BY <1>1, <1>3, <2>1 DEF LockInv, Stopping
  <2>3. Done' = Done
    BY <1>1, <2>1 DEF Done
  <2>4. Joining' <=> place = "join"
    BY <1>1, <2>1 DEF Joining, Stopping
  <2> QED BY <2>1, <2>2, <2>3, <2>4
<1>6. CASE PutSentinel(c)
  <2>1. /\ UNCHANGED <<installed, handler, record>> /\ Gone' = Gone
        /\ call[c].at = "sentinel" /\ ~Joining
    BY <1>1, <1>6 DEF PutSentinel, Gone
  <2>2. CASE Len(queue[installed]) < QueueSize
    <3>1. Goto(c, "join") /\ queue' = [queue EXCEPT ![installed] = Append(@, Sentinel)]
      BY <1>6, <2>2 DEF PutSentinel
    <3>2. /\ call' \in [Call -> CallState] /\ call'[c].at = "join"
          /\ \A d \in Call : d # c => call'[d] = call[d]
          /\ LockInv' /\ Done' = Done /\ Joining'
      BY <3>1, <1>5
    <3>3. queue[installed] \in Seq(Record \union {Sentinel})
      BY <1>0, <1>2 DEF TypeOK
    <3>4. /\ Append(queue[installed], Sentinel) \in Seq(Record \union {Sentinel})
          /\ Len(Append(queue[installed], Sentinel)) = Len(queue[installed]) + 1
          /\ Len(queue[installed]) \in Nat
      BY <3>3, AppendProperties, LenProperties
    <3>5. /\ queue' \in [Generation -> Seq(Record \union {Sentinel})]
          /\ queue'[installed] = Append(queue[installed], Sentinel)
          /\ \A g \in Generation : g # installed => queue'[g] = queue[g]
      BY <1>0, <1>2, <3>1, <3>4 DEF TypeOK
    <3>6. \A g \in Generation : Len(queue'[g]) <= QueueSize
      <4>1. Len(queue'[installed]) <= QueueSize
        BY <2>2, <3>4, <3>5
      <4> QED BY <1>0, <3>5, <4>1 DEF TypeOK
    <3>7. TypeOK'
      BY <1>0, <1>3, <2>1, <3>2, <3>5, <3>6 DEF TypeOK, CallState
    <3>8. InstalledInv'
      <4>1. \A g \in Generation : g > last => queue'[g] = <<>>
        BY <1>2, <3>5 DEF IndInv, InstalledInv, Generation
      <4> QED BY <1>1, <1>2, <1>3, <2>1, <3>2, <4>1
              DEF IndInv, InstalledInv, Stopping, Generation
    <3>9. SentinelInv' /\ RecordInv' /\ CountInv'
      BY <1>3, <2>1, <3>2 DEF IndInv, SentinelInv, RecordInv, CountInv
    <3> QED BY <1>4, <3>2, <3>7, <3>8, <3>9 DEF IndInv
  <2>3. CASE ~(Len(queue[installed]) < QueueSize)
    <3>1. Goto(c, "makeRoom") /\ queue' = queue
      BY <1>6, <2>3 DEF PutSentinel
    <3>2. /\ call' \in [Call -> CallState] /\ call'[c].at = "makeRoom"
          /\ \A d \in Call : d # c => call'[d] = call[d]
          /\ LockInv' /\ Done' = Done /\ ~Joining'
      BY <3>1, <1>5
    <3>3. TypeOK'
      BY <1>0, <1>3, <2>1, <3>1, <3>2 DEF TypeOK, CallState
    <3>4. InstalledInv'
      BY <1>1, <1>2, <1>3, <2>1, <3>1, <3>2 DEF IndInv, InstalledInv, Stopping, Generation
    <3>5. SentinelInv' /\ RecordInv' /\ CountInv'
      BY <1>3, <2>1, <3>1, <3>2 DEF IndInv, SentinelInv, RecordInv, CountInv
    <3> QED BY <1>4, <3>2, <3>3, <3>4, <3>5 DEF IndInv
  <2> QED BY <2>2, <2>3
<1>7. CASE MakeRoom(c)
  <2>1. UNCHANGED <<installed, handler>> /\ call[c].at = "makeRoom" /\ ~Joining
    BY <1>1, <1>7 DEF MakeRoom
  <2>2. CASE queue[installed] = <<>>
    <3>1. Goto(c, "join") /\ queue' = queue /\ record' = record /\ Gone' = Gone
      BY <1>7, <2>2 DEF MakeRoom, Gone
    <3>2. /\ call' \in [Call -> CallState] /\ call'[c].at = "join"
          /\ \A d \in Call : d # c => call'[d] = call[d]
          /\ LockInv' /\ Done' = Done /\ Joining'
      BY <3>1, <1>5
    <3>3. TypeOK'
      BY <1>0, <1>3, <2>1, <3>1, <3>2 DEF TypeOK, CallState
    <3>4. InstalledInv'
      BY <1>1, <1>2, <1>3, <2>1, <3>1, <3>2 DEF IndInv, InstalledInv, Stopping, Generation
    <3>5. SentinelInv' /\ RecordInv' /\ CountInv'
      BY <1>3, <2>1, <3>1, <3>2 DEF IndInv, SentinelInv, RecordInv, CountInv
    <3> QED BY <1>4, <3>2, <3>3, <3>4, <3>5 DEF IndInv
  <2>3. CASE queue[installed] # <<>>
    <3> DEFINE g == installed
    <3>1. /\ Goto(c, "sentinel") /\ Move(Head(queue[g]), "discarded")
          /\ queue' = [queue EXCEPT ![g] = Tail(@)]
      BY <1>7, <2>3 DEF MakeRoom
    <3>2. /\ call' \in [Call -> CallState] /\ call'[c].at = "sentinel"
          /\ \A d \in Call : d # c => call'[d] = call[d]
          /\ LockInv' /\ Done' = Done /\ ~Joining'
      BY <3>1, <1>5
    <3>3. /\ Head(queue[g]) \in Record \union {Sentinel} /\ Head(queue[g]) = queue[g][1]
          /\ Len(queue[g]) \in Nat \ {0}
          /\ queue' \in [Generation -> Seq(Record \union {Sentinel})]
          /\ \A h \in Generation : Len(queue'[h]) <= QueueSize
          /\ \A h \in Generation : h # g => queue'[h] = queue[h]
          /\ \A i \in 1..Len(queue'[g]) : i + 1 \in 1..Len(queue[g])
                                          /\ queue'[g][i] = queue[g][i + 1]
      BY <1>0, <1>2, <2>3, <3>1, TakeFacts
    <3>4. \A i \in 1..Len(queue[g]) : queue[g][i] # Sentinel
      BY <1>2, <2>1 DEF IndInv, SentinelInv, Generation
    <3>5. PICK r \in Record : Move(r, "discarded")
      BY <3>1, <3>3, <3>4
    <3>6. /\ record' \in [Record -> RecordState]
          /\ record'[r].at = "discarded" /\ record'[r].by = record[r].by
          /\ \A s \in Record : s # r => record'[s] = record[s]
      BY <1>0, <3>5, MoveFacts DEF Place
    <3>7. TypeOK'
      BY <1>0, <1>3, <2>1, <3>2, <3>3, <3>6 DEF TypeOK, CallState, RecordState, Place
    <3>8. InstalledInv'
      <4>1. \A h \in Generation : h > last => queue'[h] = <<>>
        BY <1>2, <3>3 DEF IndInv, InstalledInv, Generation
      <4> QED BY <1>1, <1>2, <1>3, <2>1, <3>2, <4>1
              DEF IndInv, InstalledInv, Stopping, Generation
    <3>9. SentinelInv'
      BY <2>1, <3>3, <3>4 DEF SentinelInv
    <3>10. RecordInv'
      BY <1>3, <3>6 DEF IndInv, RecordInv
    <3>11. CountInv'
      <4>1. Gone \subseteq Gone' /\ Gone' \in SUBSET Record
        BY <3>6 DEF Gone
      <4>2. Cardinality(Gone) <= Cardinality(Gone')
        BY <4>1, FS_Subset
      <4>3. Cardinality(Gone) \in Nat /\ Cardinality(Gone') \in Nat /\ dropped \in Nat
        BY <1>0, <4>1 DEF TypeOK, Gone
      <4> QED BY <1>3, <3>2, <4>2, <4>3 DEF IndInv, CountInv
    <3> QED BY <1>4, <3>2, <3>7, <3>8, <3>9, <3>10, <3>11 DEF IndInv
  <2> QED BY <2>2, <2>3
<1>8. CASE Join(c)
  <2>1. /\ installed' = 0 /\ handler' = 0 /\ queue' = queue /\ record' = record
        /\ Gone' = Gone /\ listener[installed] = "ended" /\ Goto(c, "finish")
    BY <1>8 DEF Join, Gone
  <2>2. /\ call' \in [Call -> CallState] /\ call'[c].at = "finish"
        /\ \A d \in Call : d # c => call'[d] = call[d]
        /\ LockInv' /\ Done' = Done /\ ~Joining'
    BY <2>1, <1>5
  <2>3. TypeOK'
    BY <1>0, <1>3, <2>1, <2>2 DEF TypeOK, CallState
  <2>4. InstalledInv'
    <3>1. \A g \in Generation : listener[g] # "running"
      BY <2>1 DEF IndInv, InstalledInv
    <3>2. \A g \in Generation : g > last => queue[g] = <<>>
      BY DEF IndInv, InstalledInv
    <3> QED BY <1>1, <1>3, <2>1, <2>2, <3>1, <3>2 DEF InstalledInv, Stopping
  <2>5. SentinelInv' /\ RecordInv' /\ CountInv'
    BY <1>3, <2>1, <2>2 DEF IndInv, SentinelInv, RecordInv, CountInv
  <2> QED BY <1>4, <2>2, <2>3, <2>4, <2>5 DEF IndInv
<1> QED BY <1>6, <1>7, <1>8

\* The rest of configure() or stop(), which gives _lock back.
LEMMA FinishStep ==
    ASSUME IndInv, NEW c \in Call, Finish(c)
    PROVE  IndInv'
<1> USE RuntimeLoggingAssumption, Counted
<1>0. /\ TypeOK /\ call[c].at = "finish" /\ installed = 0 /\ handler = 0
      /\ lock' = NoOne /\ queue' = queue /\ record' = record
      /\ enabled' = (call[c].does = "enable") /\ dropped' \in {0, dropped}
  BY DEF Finish, IndInv, InstalledInv
<1>1. /\ c \notin Done
      /\ \A d \in Call : d # c => call[d].at \notin Stopping \union {"finish"}
  BY <1>0, Holder
<1>2. /\ call' \in [Call -> CallState] /\ call'[c].at = "done"
      /\ \A d \in Call : d # c => call'[d] = call[d]
  BY <1>0, GotoFacts DEF Finish
<1>3. \A d \in Call : call'[d].at \notin Stopping \union {"finish"}
  BY <1>1, <1>2 DEF Stopping
<1>4. LockInv' /\ ~Joining'
  BY <1>0, <1>3 DEF LockInv, Joining, Stopping
<1>5. /\ Cardinality(Done') = Cardinality(Done) + 1 /\ Cardinality(Done) \in Nat
      /\ Cardinality(Done') <= Cardinality(Call)
  <2>1. Done' = Done \union {c} /\ Done \in SUBSET Call /\ Done' \in SUBSET Call
    BY <1>1, <1>2 DEF Done
  <2> QED BY <1>1, <2>1, FS_AddElement
<1>6. last \in Nat /\ last <= Cardinality(Done) /\ last + 1 \in Generation
  BY <1>0, <1>5 DEF IndInv, CountInv, TypeOK, Generation
<1>7. Gone' = Gone /\ Cardinality(Gone) \in Nat /\ dropped \in Nat /\ dropped <= Cardinality(Gone)
      /\ Cardinality(Gone) <= Cardinality(Record)
  BY <1>0 DEF Gone, IndInv, TypeOK, CountInv
<1>8. dropped' \in 0..Cardinality(Record) /\ dropped' <= Cardinality(Gone)
  BY <1>0, <1>7
<1>9. \A g \in Generation : listener[g] # "running"
  BY <1>0 DEF IndInv, InstalledInv, Generation
<1>10. CASE call[c].does = "enable"
  <2>1. /\ last' = last + 1 /\ installed' = last + 1 /\ handler' = last + 1
        /\ listener' = [listener EXCEPT ![last + 1] = "running"]
    BY <1>10 DEF Finish
  <2>2. TypeOK'
    <3>1. {installed', handler', last'} \subseteq 0..Cardinality(Call)
      BY <1>6, <2>1 DEF Generation
    <3> QED BY <1>0, <1>2, <1>6, <1>8, <2>1, <3>1 DEF TypeOK, CallState
  <2>3. InstalledInv'
    <3>1. \A g \in Generation : listener'[g] = "running" <=> g = last + 1
      BY <1>0, <1>6, <1>9, <2>1 DEF TypeOK
    <3>2. \A g \in Generation : g > last + 1 => queue[g] = <<>>
      BY <1>6 DEF IndInv, InstalledInv, Generation
    <3>3. handler' = installed' /\ installed' = last' /\ installed' # 0
      BY <1>6, <2>1
    <3>6. enabled'
      BY <1>0, <1>10
    <3>4. \A d \in Call : call'[d].at \notin Stopping /\ call'[d].at # "finish"
      BY <1>3
    <3>5. listener'[installed'] = "running"
      BY <1>6, <2>1, <3>1
    <3> QED BY <1>0, <2>1, <3>1, <3>2, <3>3, <3>4, <3>5, <3>6 DEF InstalledInv
  <2>4. SentinelInv'
    <3>1. queue[last + 1] = <<>>
      BY <1>6 DEF IndInv, InstalledInv
    <3>2. Len(queue[last + 1]) = 0
      BY <3>1
    <3> QED BY <1>0, <2>1, <3>2 DEF SentinelInv
  <2>5. RecordInv' /\ CountInv' /\ WarningsSurvive'
    <3>1. \A r \in Record : record[r].by \in Nat /\ record[r].by <= last
      BY <1>0 DEF IndInv, TypeOK, RecordInv
    <3>2. RecordInv'
      BY <1>0, <1>6, <2>1, <3>1 DEF IndInv, RecordInv
    <3>3. CountInv'
      BY <1>5, <1>6, <1>7, <1>8, <2>1 DEF CountInv
    <3>4. WarningsSurvive'
      BY <1>0, <1>6, <2>1, <3>1 DEF WarningsSurvive
    <3> QED BY <3>2, <3>3, <3>4
  <2> QED BY <1>4, <2>2, <2>3, <2>4, <2>5 DEF IndInv
<1>11. CASE call[c].does # "enable"
  <2>1. UNCHANGED <<last, installed, handler, listener>>
    BY <1>11 DEF Finish
  <2>2. TypeOK'
    BY <1>0, <1>2, <1>8, <2>1 DEF TypeOK, CallState
  <2>3. InstalledInv'
    BY <1>0, <1>3, <1>11, <2>1 DEF IndInv, InstalledInv
  <2>4. SentinelInv' /\ RecordInv' /\ WarningsSurvive'
    BY <1>0, <2>1 DEF IndInv, SentinelInv, RecordInv, WarningsSurvive
  <2>5. CountInv'
    BY <1>5, <1>6, <1>7, <1>8, <2>1 DEF CountInv
  <2> QED BY <1>4, <2>2, <2>3, <2>4, <2>5 DEF IndInv
<1> QED BY <1>10, <1>11

-------------------------------------------------------------------------------
\* IndInv is inductive.
LEMMA IndStep == IndInv /\ [Next]_vars => IndInv'
<1> SUFFICES ASSUME IndInv, [Next]_vars PROVE IndInv'
    OBVIOUS
<1>1. CASE UNCHANGED vars
  <2>1. TypeOK' /\ LockInv' /\ InstalledInv' /\ SentinelInv'
    BY <1>1 DEF vars, IndInv, TypeOK, LockInv, InstalledInv, SentinelInv, Joining
  <2>2. RecordInv' /\ CountInv' /\ WarningsSurvive'
    BY <1>1 DEF vars, IndInv, RecordInv, CountInv, Done, Gone, WarningsSurvive
  <2> QED BY <2>1, <2>2 DEF IndInv
<1>2. ASSUME NEW c \in Call, Reconfigure(c) PROVE IndInv'
  BY <1>2, StopStep, FinishStep DEF Reconfigure
<1> QED BY <1>1, <1>2, LogStep, MonitorStep, BeginStep DEF Next

\* It holds in every state, however threads log and reconfigure.
LEMMA Inductive == Spec => []IndInv
BY InitInd, IndStep, PTL DEF Spec

\* For any number of threads that log and of calls of configure() and stop() that meet, and
\* any queue_size: the queue keeps its bound, at most one listener writes, and while nobody
\* holds _lock a listener runs and the base logger has its handler exactly if _enabled.
THEOREM ListenerSound == Spec => []ListenerInv
<1>1. IndInv => ListenerInv
  <2> SUFFICES ASSUME IndInv PROVE ListenerInv
      OBVIOUS
  <2> DEFINE Running == {g \in Generation : listener[g] = "running"}
  <2>1. OneListener
    <3>1. Running \subseteq {installed}
      BY DEF IndInv, InstalledInv
    <3>2. IsFiniteSet({installed}) /\ Cardinality({installed}) = 1
      BY FS_Singleton
    <3>3. Cardinality(Running) <= 1
      BY <3>1, <3>2, FS_Subset
    <3> QED BY <3>3 DEF OneListener
  <2>2. EnabledMeansListening
    <3> SUFFICES ASSUME lock = NoOne PROVE EnabledMeansListening
      BY DEF EnabledMeansListening
    <3>1. ~Joining
      BY RuntimeLoggingAssumption DEF IndInv, LockInv, Joining, Stopping
    <3> QED BY <3>1 DEF IndInv, InstalledInv, EnabledMeansListening, Generation
  <2> QED BY <2>1, <2>2 DEF ListenerInv, IndInv
<1> QED BY <1>1, Inductive, PTL

\* A full queue costs a warning of the installed generation nothing: none of them is dropped
\* or discarded while nobody is reconfiguring (handle_overflow_record()).
THEOREM WarningsKept == Spec => []WarningsSurvive
<1>1. IndInv => WarningsSurvive
  BY DEF IndInv
<1> QED BY <1>1, Inductive, PTL
===============================================================================
