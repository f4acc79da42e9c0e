---------------------------- MODULE DBWriterProofs ----------------------------
(***************************************************************************)
(* Theorems about DBWriter for any number of callers, any queue size and   *)
(* any reserve.                                                            *)
(*                                                                         *)
(* QueueInv, HeldInv and CountInv tie the counters to the tasks: a task is *)
(* on the queue exactly once when its state says so, the writer holds a    *)
(* task exactly in the states of _run() between get() and task_done(), and *)
(* unfinished counts both.  LogInv adds where the writer is in the         *)
(* sequence of accepted entries, DrainInv that all it has passed is        *)
(* committed.                                                              *)
(***************************************************************************)
EXTENDS DBWriter, FiniteSetTheorems, SequenceTheorems, TLAPS

QueueInv ==
    /\ \A i \in 1..Len(queue) : queue[i] \in Calls => task[queue[i]] = "queued"
    /\ \A i, j \in 1..Len(queue) :
          queue[i] \in Calls /\ queue[i] = queue[j] => i = j
    /\ \A c \in Calls : task[c] = "queued" => \E i \in 1..Len(queue) : queue[i] = c

HeldInv ==
    /\ held = NoTask <=> writer \in {"unstarted", "opening", "idle", "closed", "dead"}
    /\ writer = "executing" => held \in Calls /\ task[held] = "held"
    /\ writer = "releasing" => held \in LowCalls
    /\ writer \in {"releasing", "finishing"} /\ held \in Calls
          => task[held] \in {"committed", "failed"}
    /\ \A c \in Calls : task[c] = "held" => held = c /\ writer = "executing"
    /\ \A c \in HighCalls : task[c] \notin {"reserved", "refused", "dropped"}

CountInv ==
    /\ unfinished = Len(queue) + (IF held = NoTask THEN 0 ELSE 1)
    /\ \A f \in Flushers : \A c \in asked[f] :
          task[c] \in {"queued", "held", "committed", "failed"}

Taken == Len(accepted) - Len(queue)

Running ==
    /\ held # Sentinel
    /\ writer \notin {"closed", "dead"}
    /\ held \in Calls => task[held] # "failed"

LogInv ==
    /\ Len(queue) <= Len(accepted)
    /\ \A i \in 1..Len(queue) : queue[i] = accepted[Taken + i]
    /\ writer = "executing" => Taken >= 1 /\ held = accepted[Taken]
    /\ Running
          => Len(committed) = Taken - (IF writer = "executing" THEN 1 ELSE 0)

\* Everything accepted before entry k is a write that has been committed.
DrainedTo(k) ==
    \A i \in 1..(k - 1) : accepted[i] \in Calls /\ task[accepted[i]] = "committed"

DrainInv ==
    /\ Running
          => DrainedTo(IF writer = "executing" THEN Taken ELSE Taken + 1)
    /\ held = Sentinel \/ writer = "closed"
          => \E k \in 1..Len(accepted) : accepted[k] = Sentinel /\ DrainedTo(k)

BaseInv == TypeOK /\ QueueInv /\ HeldInv /\ CountInv

IndInv == BaseInv /\ SlotAccounting

-------------------------------------------------------------------------------
\* The initial states satisfy the invariant: nothing is queued, held or counted.
LEMMA InitBase == Init => BaseInv
BY CallsAssumption, SizesAssumption
   DEF Init, BaseInv, TypeOK, QueueInv, HeldInv, CountInv, TaskState, WriterState, Calls

\* What a put on the queue preserves, for a log call and a metadata call alike.
LEMMA PutStep ==
    ASSUME BaseInv, NEW c \in Calls, task[c] \in {"reserved", "waiting"},
           PutOnQueue(c), task' = [task EXCEPT ![c] = "queued"],
           UNCHANGED <<countVars, writerVars, waiterVars>>
    PROVE  BaseInv'
<1> USE CallsAssumption, SizesAssumption
<1>1. queue \in Seq(Calls \union {Sentinel}) /\ c \in Calls \union {Sentinel}
  BY DEF BaseInv, TypeOK
<1>2. /\ queue' = Append(queue, c)
      /\ Len(queue') = Len(queue) + 1
      /\ \A i \in 1..Len(queue) : queue'[i] = queue[i]
      /\ queue'[Len(queue) + 1] = c
  BY <1>1, AppendProperties DEF PutOnQueue
<1>4. TypeOK'
  BY DEF PutOnQueue, BaseInv, TypeOK, TaskState, countVars, writerVars,
       waiterVars
<1>5. QueueInv'
  <2>1. \A i \in 1..Len(queue) : queue[i] # c
    BY DEF BaseInv, QueueInv
  <2>2. \A d \in Calls : d # c => task'[d] = task[d]
    BY DEF BaseInv, TypeOK
  <2>3. task'[c] = "queued"
    BY DEF BaseInv, TypeOK
  <2>4. 1..Len(queue') = (1..Len(queue)) \union {Len(queue) + 1}
    BY <1>1, <1>2
  <2>5. \A i \in 1..Len(queue') : queue'[i] \in Calls => task'[queue'[i]] = "queued"
    BY <1>2, <2>1, <2>2, <2>3, <2>4 DEF BaseInv, QueueInv
  <2>6. \A i, j \in 1..Len(queue') :
           queue'[i] \in Calls /\ queue'[i] = queue'[j] => i = j
    BY <1>2, <2>1, <2>4 DEF BaseInv, QueueInv
  <2>7. \A d \in Calls : task'[d] = "queued" => \E i \in 1..Len(queue') : queue'[i] = d
    BY <1>1, <1>2, <2>2, <2>4 DEF BaseInv, QueueInv
  <2> QED BY <2>5, <2>6, <2>7 DEF QueueInv
<1>6. HeldInv'
  BY DEF BaseInv, TypeOK, HeldInv, writerVars
<1>7. CountInv'
  BY <1>2 DEF PutOnQueue, BaseInv, TypeOK, CountInv, writerVars,
       waiterVars
<1> QED BY <1>4, <1>5, <1>6, <1>7 DEF BaseInv

\* Every step of every thread keeps the state of the tasks, the queue and the
\* writer's program counter consistent.
LEMMA BaseStep == BaseInv /\ [Next]_vars => BaseInv'
<1> SUFFICES ASSUME BaseInv, [Next]_vars PROVE BaseInv'
    OBVIOUS
<1> USE CallsAssumption, SizesAssumption
<1>1. CASE Start \/ WriterOpen \/ WriterOpenFail
  <2>1. /\ writer \in {"unstarted", "opening"} /\ writer' \in {"opening", "idle", "dead"}
        /\ UNCHANGED <<queueVars, countVars, task, held, committed, waiterVars>>
    BY <1>1 DEF Start, WriterOpen, WriterOpenFail
  <2>2. TypeOK' /\ QueueInv'
    BY <2>1 DEF BaseInv, TypeOK, QueueInv, WriterState, queueVars, countVars, waiterVars
  <2>3. HeldInv' /\ CountInv'
    BY <2>1 DEF BaseInv, HeldInv, CountInv, queueVars, waiterVars
  <2> QED BY <2>2, <2>3 DEF BaseInv
<1>2. ASSUME NEW on \in BOOLEAN, NEW size \in PolicySizes,
             SetLowPriorityLogPolicy(on, size)
      PROVE  BaseInv'
    BY <1>2 DEF SetLowPriorityLogPolicy, Larger, BaseInv, TypeOK, QueueInv, HeldInv,
         CountInv, queueVars, writerVars, waiterVars
<1>3. CASE StopPut
    BY <1>3 DEF StopPut, PutOnQueue, BaseInv, TypeOK, QueueInv, HeldInv, CountInv,
         countVars, writerVars
<1>4. CASE StopReturn
    BY <1>4 DEF StopReturn, BaseInv, TypeOK, QueueInv, HeldInv, CountInv,
         queueVars, countVars, writerVars
<1>5. ASSUME NEW c \in LowCalls, LowEnqueue(c) PROVE BaseInv'
  <2> USE DEF Calls
  <2>1. CASE LowRefuse(c)
    <3>1. TypeOK'
      BY <2>1 DEF LowRefuse, BaseInv, TypeOK, TaskState, queueVars, policyVars,
           writerVars, waiterVars
    <3>2. QueueInv'
      BY <2>1 DEF LowRefuse, BaseInv, TypeOK, QueueInv, queueVars
    <3>3. HeldInv' /\ CountInv'
      BY <2>1 DEF LowRefuse, BaseInv, TypeOK, HeldInv, CountInv, queueVars, writerVars,
           waiterVars
    <3> QED BY <3>1, <3>2, <3>3 DEF BaseInv
  <2>2. CASE LowReserve(c)
    <3>1. TypeOK'
      BY <2>2 DEF LowReserve, BaseInv, TypeOK, TaskState, queueVars, policyVars,
           writerVars, waiterVars
    <3>2. QueueInv'
      BY <2>2 DEF LowReserve, BaseInv, TypeOK, QueueInv, queueVars
    <3>3. HeldInv' /\ CountInv'
      BY <2>2 DEF LowReserve, BaseInv, TypeOK, HeldInv, CountInv, queueVars, writerVars,
           waiterVars
    <3> QED BY <3>1, <3>2, <3>3 DEF BaseInv
  <2>3. CASE LowPut(c)
    BY <2>3, PutStep DEF LowPut
  <2>4. CASE LowPutFull(c)
    <3>1. TypeOK'
      BY <2>4 DEF LowPutFull, BaseInv, TypeOK, TaskState, queueVars, countVars, writerVars, waiterVars
    <3>2. QueueInv'
      BY <2>4 DEF LowPutFull, BaseInv, TypeOK, QueueInv, queueVars
    <3>3. HeldInv' /\ CountInv'
      BY <2>4 DEF LowPutFull, BaseInv, TypeOK, HeldInv, CountInv, queueVars, writerVars,
           waiterVars
    <3> QED BY <3>1, <3>2, <3>3 DEF BaseInv
  <2>5. CASE LowGiveBack(c)
    <3>1. TypeOK'
      BY <2>5 DEF LowGiveBack, BaseInv, TypeOK, TaskState, Max0, queueVars, policyVars,
           writerVars, waiterVars
    <3>2. QueueInv'
      BY <2>5 DEF LowGiveBack, BaseInv, TypeOK, QueueInv, queueVars
    <3>3. HeldInv' /\ CountInv'
      BY <2>5 DEF LowGiveBack, BaseInv, TypeOK, HeldInv, CountInv, queueVars, writerVars,
           waiterVars
    <3> QED BY <3>1, <3>2, <3>3 DEF BaseInv
  <2> QED BY <1>5, <2>1, <2>2, <2>3, <2>4, <2>5 DEF LowEnqueue
<1>6. ASSUME NEW c \in HighCalls, HighEnqueue(c) PROVE BaseInv'
  <2> USE DEF Calls
  <2>1. CASE HighCall(c)
    <3>1. TypeOK'
      BY <2>1 DEF HighCall, BaseInv, TypeOK, TaskState, queueVars, countVars, writerVars, waiterVars
    <3>2. QueueInv'
      BY <2>1 DEF HighCall, BaseInv, TypeOK, QueueInv, queueVars
    <3>3. HeldInv' /\ CountInv'
      BY <2>1 DEF HighCall, BaseInv, TypeOK, HeldInv, CountInv, queueVars, writerVars,
           waiterVars
    <3> QED BY <3>1, <3>2, <3>3 DEF BaseInv
  <2>2. CASE HighPut(c)
    BY <2>2, PutStep DEF HighPut
  <2> QED BY <1>6, <2>1, <2>2 DEF HighEnqueue
<1>7. CASE WriterGet
  <2> DEFINE h == Head(queue)
  <2>1. queue \in Seq(Calls \union {Sentinel}) /\ queue # <<>>
    BY <1>7 DEF WriterGet, BaseInv, TypeOK
  <2>2. /\ h \in Calls \union {Sentinel} /\ h = queue[1]
        /\ queue' = Tail(queue) /\ queue' \in Seq(Calls \union {Sentinel})
        /\ Len(queue) \in Nat /\ Len(queue) >= 1
        /\ Len(queue') = Len(queue) - 1
        /\ \A i \in 1..Len(queue') : queue'[i] = queue[i + 1]
    BY <1>7, <2>1, HeadTailProperties DEF WriterGet
  <2>3. held = NoTask /\ held' = h
    BY <1>7 DEF WriterGet, BaseInv, HeldInv
  <2>4. CASE h = Sentinel
    <3>1. task' = task /\ writer' = "finishing"
      BY <1>7, <2>4 DEF WriterGet
    <3>2. TypeOK'
      BY <1>7, <2>2, <3>1, <2>4, <2>3
         DEF WriterGet, BaseInv, TypeOK, WriterState, countVars, waiterVars
    <3>3. \A i \in 1..Len(queue') : i + 1 \in 1..Len(queue)
      BY <2>2
    <3>4. QueueInv'
      <4>1. \A i \in 1..Len(queue') : queue'[i] \in Calls => task'[queue'[i]] = "queued"
        BY <2>2, <3>1, <3>3 DEF BaseInv, QueueInv
      <4>2. \A i, j \in 1..Len(queue') :
               queue'[i] \in Calls /\ queue'[i] = queue'[j] => i = j
        BY <2>2, <3>3 DEF BaseInv, QueueInv
      <4>3. ASSUME NEW d \in Calls, task'[d] = "queued"
            PROVE  \E i \in 1..Len(queue') : queue'[i] = d
        <5>1. PICK i \in 1..Len(queue) : queue[i] = d
          BY <3>1, <4>3 DEF BaseInv, QueueInv
        <5>2. i - 1 \in 1..Len(queue') /\ queue'[i - 1] = d
          BY <2>2, <2>4, <5>1
        <5> QED BY <5>2
      <4> QED BY <4>1, <4>2, <4>3 DEF QueueInv
    <3>5. HeldInv'
      BY <2>3, <2>4, <3>1, <1>7 DEF WriterGet, BaseInv, HeldInv
    <3>6. CountInv'
      BY <2>2, <2>3, <2>4, <3>1, <1>7 DEF WriterGet, BaseInv, CountInv, waiterVars
    <3> QED BY <3>2, <3>4, <3>5, <3>6 DEF BaseInv
  <2>5. CASE h # Sentinel
    <3>1. /\ h \in Calls /\ task' = [task EXCEPT ![h] = "held"] /\ writer' = "executing"
          /\ task'[h] = "held" /\ task[h] = "queued"
          /\ \A d \in Calls : d # h => task'[d] = task[d]
      BY <1>7, <2>2, <2>5 DEF WriterGet, BaseInv, TypeOK, QueueInv
    <3>2. TypeOK'
      BY <1>7, <2>2, <3>1, <2>3
         DEF WriterGet, BaseInv, TypeOK, WriterState, TaskState, countVars, waiterVars
    <3>3. \A i \in 1..Len(queue') : i + 1 \in 1..Len(queue) /\ queue'[i] # h
      BY <2>2, <3>1 DEF BaseInv, QueueInv
    <3>4. QueueInv'
      <4>1. \A i \in 1..Len(queue') : queue'[i] \in Calls => task'[queue'[i]] = "queued"
        BY <2>2, <3>1, <3>3 DEF BaseInv, QueueInv
      <4>2. \A i, j \in 1..Len(queue') :
               queue'[i] \in Calls /\ queue'[i] = queue'[j] => i = j
        BY <2>2, <3>3 DEF BaseInv, QueueInv
      <4>3. ASSUME NEW d \in Calls, task'[d] = "queued"
            PROVE  \E i \in 1..Len(queue') : queue'[i] = d
        <5>1. d # h /\ task[d] = "queued"
          BY <3>1, <4>3
        <5>2. PICK i \in 1..Len(queue) : queue[i] = d
          BY <5>1 DEF BaseInv, QueueInv
        <5>3. i - 1 \in 1..Len(queue') /\ queue'[i - 1] = d
          BY <2>2, <5>1, <5>2
        <5> QED BY <5>3
      <4> QED BY <4>1, <4>2, <4>3 DEF QueueInv
    <3>5. HeldInv'
      BY <2>3, <3>1, <1>7 DEF WriterGet, BaseInv, HeldInv, Calls
    <3>6. CountInv'
      BY <2>2, <2>3, <3>1, <1>7 DEF WriterGet, BaseInv, TypeOK, CountInv, waiterVars
    <3> QED BY <3>2, <3>4, <3>5, <3>6 DEF BaseInv
  <2> QED BY <2>4, <2>5
<1>8. CASE WriterCommit
    BY <1>8 DEF WriterCommit, AfterExecute, BaseInv, TypeOK, QueueInv, HeldInv,
         CountInv, TaskState, WriterState, Calls, queueVars, countVars, waiterVars
<1>9. CASE WriterFail
    BY <1>9 DEF WriterFail, AfterExecute, BaseInv, TypeOK, QueueInv, HeldInv,
         CountInv, TaskState, WriterState, Calls, queueVars, countVars, waiterVars
<1>10. CASE WriterRelease
    BY <1>10 DEF WriterRelease, Max0, BaseInv, TypeOK, QueueInv, HeldInv,
         CountInv, WriterState, queueVars, policyVars, waiterVars
<1>11. CASE WriterTaskDone
    BY <1>11 DEF WriterTaskDone, BaseInv, TypeOK, QueueInv, HeldInv,
         CountInv, WriterState, countVars, waiterVars
<1>12. ASSUME NEW f \in Flushers, FlushCall(f) \/ FlushReturn(f) PROVE BaseInv'
  <2>1. CASE FlushCall(f)
    BY <2>1 DEF FlushCall, BaseInv, TypeOK, QueueInv, HeldInv, CountInv,
         queueVars, countVars, writerVars
  <2>2. CASE FlushReturn(f)
    BY <2>2 DEF FlushReturn, BaseInv, TypeOK, QueueInv, HeldInv, CountInv,
         queueVars, countVars, writerVars
  <2> QED BY <1>12, <2>1, <2>2
<1>13. CASE UNCHANGED vars
    BY <1>13 DEF vars, BaseInv, TypeOK, QueueInv, HeldInv, CountInv
<1> QED
    BY <1>1, <1>2, <1>3, <1>4, <1>5, <1>6, <1>7, <1>8, <1>9, <1>10, <1>11,
       <1>12, <1>13 DEF Next, Run
-------------------------------------------------------------------------------
DroppedCalls == {c \in LowCalls : task[c] = "dropped"}

\* The two sets whose sizes SlotAccounting compares with the counters are finite.
LEMMA SlotsFinite ==
    /\ IsFiniteSet(SlotHolders) /\ Cardinality(SlotHolders) \in Nat
    /\ IsFiniteSet(DroppedCalls) /\ Cardinality(DroppedCalls) \in Nat
<1>1. SlotHolders \in SUBSET LowCalls /\ DroppedCalls \in SUBSET LowCalls
    BY DEF SlotHolders, DroppedCalls
<1> QED BY <1>1, CallsAssumption, FS_Subset, FS_CardinalityType

\* Every step keeps the counters equal to the number of logs they stand for.
LEMMA SlotStep == IndInv /\ [Next]_vars => SlotAccounting'
<1> SUFFICES ASSUME IndInv, [Next]_vars PROVE SlotAccounting'
    OBVIOUS
<1> USE CallsAssumption, SizesAssumption DEF IndInv, BaseInv
<1>0. pending = Cardinality(SlotHolders) /\ dropped = Cardinality(DroppedCalls)
    BY DEF SlotAccounting, DroppedCalls
<1>a. ASSUME SlotHolders' = SlotHolders, DroppedCalls' = DroppedCalls,
             pending' = pending, dropped' = dropped
      PROVE  SlotAccounting'
    BY <1>0, <1>a DEF SlotAccounting, DroppedCalls
<1>1. CASE Start \/ WriterOpen \/ WriterOpenFail
  <2>1. SlotHolders' = SlotHolders /\ DroppedCalls' = DroppedCalls
    BY <1>1 DEF Start, WriterOpen, WriterOpenFail, SlotHolders, DroppedCalls, HeldInv
  <2> QED BY <1>1, <1>a, <2>1 DEF Start, WriterOpen, WriterOpenFail, countVars
<1>2. ASSUME NEW on \in BOOLEAN, NEW size \in PolicySizes,
             SetLowPriorityLogPolicy(on, size)
      PROVE  SlotAccounting'
  <2>1. SlotHolders' = SlotHolders /\ DroppedCalls' = DroppedCalls
    BY <1>2 DEF SetLowPriorityLogPolicy, SlotHolders, DroppedCalls, writerVars
  <2> QED BY <1>2, <1>a, <2>1 DEF SetLowPriorityLogPolicy
<1>3. CASE StopPut \/ StopReturn
  <2>1. SlotHolders' = SlotHolders /\ DroppedCalls' = DroppedCalls
    BY <1>3 DEF StopPut, StopReturn, SlotHolders, DroppedCalls, writerVars
  <2> QED BY <1>3, <1>a, <2>1 DEF StopPut, StopReturn, countVars
<1>5. ASSUME NEW c \in LowCalls, LowEnqueue(c) PROVE SlotAccounting'
  <2> USE DEF Calls
  <2>0. \A d \in Calls : d # c => task'[d] = task[d]
    BY <1>5 DEF LowEnqueue, LowRefuse, LowReserve, LowPut, LowPutFull, LowGiveBack, TypeOK
  <2>h. held' = held /\ writer' = writer
    BY <1>5 DEF LowEnqueue, LowRefuse, LowReserve, LowPut, LowPutFull, LowGiveBack,
         writerVars
  <2>1. CASE LowRefuse(c)
    <3>1. task[c] = "new" /\ task'[c] = "dropped"
      BY <2>1 DEF LowRefuse, TypeOK
    <3>2. held = c => writer \notin {"executing", "releasing"}
      BY <3>1 DEF HeldInv
    <3>3. SlotHolders' = SlotHolders
      BY <2>0, <2>h, <3>1, <3>2 DEF SlotHolders
    <3>4. DroppedCalls' = DroppedCalls \union {c} /\ c \notin DroppedCalls
      BY <2>0, <3>1 DEF DroppedCalls
    <3>5. Cardinality(DroppedCalls') = Cardinality(DroppedCalls) + 1
      BY <3>4, SlotsFinite, FS_AddElement
    <3> QED BY <1>0, <2>1, <3>3, <3>5 DEF LowRefuse, SlotAccounting, DroppedCalls
  <2>2. CASE LowReserve(c)
    <3>1. task[c] = "new" /\ task'[c] = "reserved"
      BY <2>2 DEF LowReserve, TypeOK
    <3>2. c \notin SlotHolders
      BY <3>1 DEF HeldInv, SlotHolders
    <3>3. SlotHolders' = SlotHolders \union {c}
      BY <2>0, <2>h, <3>1 DEF SlotHolders
    <3>4. DroppedCalls' = DroppedCalls
      BY <2>0, <3>1 DEF DroppedCalls
    <3>5. Cardinality(SlotHolders') = Cardinality(SlotHolders) + 1
      BY <3>2, <3>3, SlotsFinite, FS_AddElement
    <3> QED BY <1>0, <2>2, <3>4, <3>5 DEF LowReserve, SlotAccounting, DroppedCalls
  <2>3. CASE LowPut(c) \/ LowPutFull(c)
    <3>1. task[c] = "reserved" /\ task'[c] \in {"queued", "refused"}
      BY <2>3 DEF LowPut, LowPutFull, TypeOK
    <3>2. SlotHolders' = SlotHolders /\ DroppedCalls' = DroppedCalls
      BY <2>0, <2>h, <3>1 DEF SlotHolders, DroppedCalls
    <3> QED BY <2>3, <1>a, <3>2 DEF LowPut, LowPutFull, countVars
  <2>5. CASE LowGiveBack(c)
    <3>1. task[c] = "refused" /\ task'[c] = "dropped"
      BY <2>5 DEF LowGiveBack, TypeOK
    <3>2. c \in SlotHolders
      BY <3>1 DEF SlotHolders
    <3>3. SlotHolders' = SlotHolders \ {c}
      BY <2>0, <2>h, <3>1 DEF SlotHolders, HeldInv
    <3>4. DroppedCalls' = DroppedCalls \union {c} /\ c \notin DroppedCalls
      BY <2>0, <3>1 DEF DroppedCalls
    <3>5. Cardinality(SlotHolders') = Cardinality(SlotHolders) - 1
      BY <3>2, <3>3, SlotsFinite, FS_RemoveElement
    <3>6. Cardinality(DroppedCalls') = Cardinality(DroppedCalls) + 1
      BY <3>4, SlotsFinite, FS_AddElement
    <3>7. pending > 0
      BY <1>0, <3>2, SlotsFinite, FS_EmptySet
    <3>8. pending' = pending - 1 /\ dropped' = dropped + 1
      BY <2>5, <3>7 DEF LowGiveBack, Max0, TypeOK
    <3> QED BY <1>0, <3>5, <3>6, <3>8 DEF SlotAccounting, DroppedCalls
  <2> QED BY <1>5, <2>1, <2>2, <2>3, <2>5 DEF LowEnqueue
<1>6. ASSUME NEW c \in HighCalls, HighEnqueue(c) PROVE SlotAccounting'
  <2>1. \A d \in LowCalls : task'[d] = task[d]
    BY <1>6 DEF HighEnqueue, HighCall, HighPut, TypeOK, Calls
  <2>2. SlotHolders' = SlotHolders /\ DroppedCalls' = DroppedCalls
    BY <1>6, <2>1 DEF HighEnqueue, HighCall, HighPut, SlotHolders, DroppedCalls, writerVars
  <2> QED BY <1>6, <1>a, <2>2 DEF HighEnqueue, HighCall, HighPut, countVars
<1>7. CASE WriterGet
  <2>1. queue \in Seq(Calls \union {Sentinel}) /\ queue # <<>>
    BY <1>7 DEF WriterGet, TypeOK
  <2>2. Head(queue) \in Calls \union {Sentinel} /\ Head(queue) = queue[1] /\ Len(queue) >= 1
    BY <2>1, HeadTailProperties
  <2>3. held = NoTask /\ held' = Head(queue)
    BY <1>7 DEF WriterGet, HeldInv
  <2>4. CASE Head(queue) = Sentinel
    <3>1. SlotHolders' = SlotHolders /\ DroppedCalls' = DroppedCalls
      BY <1>7, <2>3, <2>4 DEF WriterGet, SlotHolders, DroppedCalls, Calls
    <3> QED BY <1>7, <1>a, <3>1 DEF WriterGet, countVars
  <2>5. CASE Head(queue) # Sentinel
    <3>1. /\ Head(queue) \in Calls /\ writer' = "executing"
          /\ task[Head(queue)] = "queued" /\ task'[Head(queue)] = "held"
          /\ \A d \in Calls : d # Head(queue) => task'[d] = task[d]
      BY <1>7, <2>1, <2>2, <2>5 DEF WriterGet, TypeOK, QueueInv
    <3>2. SlotHolders' = SlotHolders /\ DroppedCalls' = DroppedCalls
      BY <2>3, <3>1 DEF SlotHolders, DroppedCalls, Calls
    <3> QED BY <1>7, <1>a, <3>2 DEF WriterGet, countVars
  <2> QED BY <2>4, <2>5
<1>8. CASE WriterCommit \/ WriterFail
  <2>1. /\ held \in Calls /\ task[held] = "held" /\ held' = held
        /\ task'[held] \in {"committed", "failed"}
        /\ \A d \in Calls : d # held => task'[d] = task[d]
        /\ writer = "executing" /\ writer' = AfterExecute
    BY <1>8 DEF WriterCommit, WriterFail, HeldInv, TypeOK
  <2>2. SlotHolders' = SlotHolders /\ DroppedCalls' = DroppedCalls
    BY <2>1 DEF SlotHolders, DroppedCalls, AfterExecute, Calls
  <2> QED BY <1>8, <1>a, <2>2 DEF WriterCommit, WriterFail, countVars
<1>10. CASE WriterRelease
  <2>1. /\ held \in LowCalls /\ task[held] \in {"committed", "failed"}
        /\ writer' = "finishing" /\ held' = held /\ task' = task
    BY <1>10 DEF WriterRelease, HeldInv, Calls
  <2>2. held \in SlotHolders /\ SlotHolders' = SlotHolders \ {held}
    BY <1>10, <2>1 DEF WriterRelease, SlotHolders
  <2>3. DroppedCalls' = DroppedCalls
    BY <2>1 DEF DroppedCalls
  <2>4. Cardinality(SlotHolders') = Cardinality(SlotHolders) - 1
    BY <2>2, SlotsFinite, FS_RemoveElement
  <2>5. pending > 0
    BY <1>0, <2>2, SlotsFinite, FS_EmptySet
  <2>6. pending' = pending - 1 /\ dropped' = dropped
    BY <1>10, <2>5 DEF WriterRelease, Max0, TypeOK
  <2> QED BY <1>0, <2>3, <2>4, <2>6 DEF SlotAccounting, DroppedCalls
<1>11. CASE WriterTaskDone
  <2>1. SlotHolders' = SlotHolders /\ DroppedCalls' = DroppedCalls
    BY <1>11 DEF WriterTaskDone, SlotHolders, DroppedCalls, Calls
  <2> QED BY <1>11, <1>a, <2>1 DEF WriterTaskDone, countVars
<1>12. ASSUME NEW f \in Flushers, FlushCall(f) \/ FlushReturn(f) PROVE SlotAccounting'
  <2>1. SlotHolders' = SlotHolders /\ DroppedCalls' = DroppedCalls
    BY <1>12 DEF FlushCall, FlushReturn, SlotHolders, DroppedCalls, writerVars
  <2> QED BY <1>12, <1>a, <2>1 DEF FlushCall, FlushReturn, countVars
<1>13. CASE UNCHANGED vars
  <2>1. SlotHolders' = SlotHolders /\ DroppedCalls' = DroppedCalls
    BY <1>13 DEF vars, SlotHolders, DroppedCalls
  <2> QED BY <1>13, <1>a, <2>1 DEF vars
<1> QED
    BY <1>1, <1>2, <1>3, <1>5, <1>6, <1>7, <1>8, <1>10, <1>11, <1>12, <1>13
       DEF Next, Run

\* The inductive invariant holds initially and after every step.
LEMMA Invariance == Spec => []IndInv
<1>1. Init => IndInv
  <2> SUFFICES ASSUME Init PROVE IndInv
    OBVIOUS
  <2>1. SlotHolders = {} /\ DroppedCalls = {}
    BY CallsAssumption DEF Init, SlotHolders, DroppedCalls, Calls
  <2> QED BY <2>1, InitBase, FS_EmptySet DEF IndInv, Init, SlotAccounting, DroppedCalls
<1>2. IndInv /\ [Next]_vars => IndInv'
    BY BaseStep, SlotStep DEF IndInv
<1> QED BY <1>1, <1>2, PTL DEF Spec

\* The variables of the writer keep their types, for any callers and sizes.
THEOREM TypeCorrect == Spec => []TypeOK
BY Invariance, PTL DEF IndInv, BaseInv

\* No slot of the log allowance is ever lost or counted twice, whatever the
\* interleaving of enqueue()'s and _run()'s critical sections.
THEOREM SlotsAccounted == Spec => []SlotAccounting
BY Invariance, PTL DEF IndInv
-------------------------------------------------------------------------------
\* The slots taken stay within the largest allowance there has been: a lowered policy
\* refuses new logs, and those that hold a slot keep it.
LimitInv == limit <= largest /\ pending <= largest

\* Request logs on the queue never exceed the largest allowance there has been, for any
\* policy sizes, those above the size the queue was built for included.  Slots are
\* counted before the put and given back after the commit, so the logs on the queue are
\* among those SlotAccounting counts.
THEOREM AllowanceNeverExceeded == Spec => []AllowanceKept
<1> USE SizesAssumption
<1>1. Init => LimitInv
    BY DEF Init, LimitInv
<1>2. IndInv /\ LimitInv /\ [Next]_vars => LimitInv'
  <2> SUFFICES ASSUME IndInv, LimitInv, [Next]_vars PROVE LimitInv'
    OBVIOUS
  <2> USE DEF IndInv, BaseInv, TypeOK, LimitInv
  <2>1. ASSUME NEW on \in BOOLEAN, NEW size \in PolicySizes,
               SetLowPriorityLogPolicy(on, size)
        PROVE  LimitInv'
    BY <2>1 DEF SetLowPriorityLogPolicy, Larger
  <2>2. ASSUME NEW c \in LowCalls, LowEnqueue(c) PROVE LimitInv'
    BY <2>2 DEF LowEnqueue, LowRefuse, LowReserve, LowPut, LowPutFull, LowGiveBack,
         Max0, countVars, policyVars
  <2>3. ASSUME NEW c \in HighCalls, HighEnqueue(c) PROVE LimitInv'
    BY <2>3 DEF HighEnqueue, HighCall, HighPut, countVars
  <2>4. CASE Run
    BY <2>4 DEF Run, WriterOpen, WriterOpenFail, WriterGet, WriterCommit, WriterFail,
         WriterRelease, WriterTaskDone, Max0, countVars, policyVars
  <2>5. CASE Start \/ StopPut \/ StopReturn
    BY <2>5 DEF Start, StopPut, StopReturn, countVars
  <2>6. ASSUME NEW f \in Flushers, FlushCall(f) \/ FlushReturn(f) PROVE LimitInv'
    BY <2>6 DEF FlushCall, FlushReturn, countVars
  <2>7. CASE UNCHANGED vars
    BY <2>7 DEF vars
  <2> QED BY <2>1, <2>2, <2>3, <2>4, <2>5, <2>6, <2>7 DEF Next
<1>3. IndInv /\ LimitInv => AllowanceKept
  <2> SUFFICES ASSUME IndInv, LimitInv PROVE AllowanceKept
    OBVIOUS
  <2>1. QueuedLogs \in SUBSET SlotHolders
    BY DEF QueuedLogs, InQueue, SlotHolders
  <2>2. Cardinality(QueuedLogs) <= Cardinality(SlotHolders) /\ Cardinality(QueuedLogs) \in Nat
    BY <2>1, SlotsFinite, FS_Subset, FS_CardinalityType
  <2>3. pending = Cardinality(SlotHolders) /\ pending <= largest /\ largest \in Nat
    BY DEF LimitInv, IndInv, SlotAccounting, BaseInv, TypeOK
  <2> QED BY <2>2, <2>3, SlotsFinite DEF AllowanceKept
<1> QED BY <1>1, <1>2, <1>3, Invariance, PTL DEF Spec

\* flush() returns only when everything queued before it was called has been
\* executed.
THEOREM FlushBarrier == Spec => FlushIsBarrier
<1> DEFINE Returns == \A f \in Flushers :
              flush[f] = "joining" /\ flush'[f] = "returned"
                 => \A c \in asked[f] : task[c] \in {"committed", "failed"}
<1>1. IndInv /\ [Next]_vars => [Returns]_vars
  <2> SUFFICES ASSUME IndInv, [Next]_vars, NEW f \in Flushers,
                      flush[f] = "joining", flush'[f] = "returned"
               PROVE  \A c \in asked[f] : task[c] \in {"committed", "failed"}
    OBVIOUS
  <2>1. unfinished = 0
    <3>1. PICK g \in Flushers : FlushReturn(g)
      BY DEF Next, vars, Start, SetLowPriorityLogPolicy, StopPut, StopReturn,
           LowEnqueue, LowRefuse, LowReserve, LowPut, LowPutFull, LowGiveBack,
           HighEnqueue, HighCall, HighPut, Run, WriterOpen, WriterOpenFail, WriterGet,
           WriterCommit, WriterFail, WriterRelease, WriterTaskDone, FlushCall,
           waiterVars, IndInv, BaseInv, TypeOK
    <3> QED BY <3>1 DEF FlushReturn
  <2>2. Len(queue) = 0 /\ held = NoTask
    BY <2>1 DEF IndInv, BaseInv, TypeOK, CountInv
  <2>3. \A c \in Calls : task[c] \notin {"queued", "held"}
    BY <2>2, CallsAssumption DEF IndInv, BaseInv, QueueInv, HeldInv
  <2> QED BY <2>3 DEF IndInv, BaseInv, TypeOK, CountInv
<1> QED BY <1>1, Invariance, PTL DEF Spec, FlushIsBarrier

-------------------------------------------------------------------------------
\* Where the writer is in the sequence of accepted entries.
LEMMA LogStep == IndInv /\ LogInv /\ [Next]_vars => LogInv'
<1> SUFFICES ASSUME IndInv, LogInv, [Next]_vars PROVE LogInv'
    OBVIOUS
<1> USE CallsAssumption DEF IndInv, BaseInv
<1>1. ASSUME NEW e \in Calls \union {Sentinel}, PutOnQueue(e),
             UNCHANGED <<writer, held, committed>>,
             held \in Calls => task'[held] = task[held]
      PROVE  LogInv'
  <2>1. /\ queue \in Seq(Calls \union {Sentinel})
        /\ accepted \in Seq(Calls \union {Sentinel})
        /\ Len(queue) \in Nat /\ Len(accepted) \in Nat /\ Len(committed) \in Nat
    BY DEF TypeOK
  <2>2. /\ Len(queue') = Len(queue) + 1 /\ Len(accepted') = Len(accepted) + 1
        /\ \A i \in 1..Len(queue) : queue'[i] = queue[i]
        /\ \A i \in 1..Len(accepted) : accepted'[i] = accepted[i]
        /\ queue'[Len(queue) + 1] = e /\ accepted'[Len(accepted) + 1] = e
    BY <1>1, <2>1, AppendProperties DEF PutOnQueue
  <2>3. Taken' = Taken /\ Taken \in Int /\ Taken \in Nat /\ Taken <= Len(accepted)
    BY <2>1, <2>2 DEF Taken, LogInv
  <2>4. \A i \in 1..Len(queue') : queue'[i] = accepted'[Taken' + i]
    <3> TAKE i \in 1..Len(queue')
    <3>1. CASE i \in 1..Len(queue)
      <4>1. Taken + i \in 1..Len(accepted)
        BY <2>1, <3>1 DEF Taken, LogInv
      <4> QED BY <2>2, <2>3, <3>1, <4>1 DEF LogInv
    <3>2. CASE i = Len(queue) + 1
      BY <2>1, <2>2, <2>3, <3>2 DEF Taken
    <3> QED BY <2>1, <2>2, <3>1, <3>2
  <2>5. Running' = Running
    BY <1>1 DEF Running
  <2>6. writer' = "executing" => Taken' >= 1 /\ held' = accepted'[Taken']
    BY <1>1, <2>1, <2>2, <2>3 DEF LogInv
  <2> QED BY <1>1, <2>1, <2>2, <2>3, <2>4, <2>5, <2>6 DEF LogInv
<1>2. ASSUME UNCHANGED <<queue, accepted, committed>>, Running' => Running,
             writer' = "executing" <=> writer = "executing", held' = held \/ writer # "executing"
      PROVE  LogInv'
    BY <1>2 DEF LogInv, Taken
<1>3. CASE Start \/ WriterOpen \/ WriterOpenFail
    BY <1>2, <1>3 DEF Start, WriterOpen, WriterOpenFail, queueVars, Running, HeldInv
<1>4. ASSUME NEW on \in BOOLEAN, NEW size \in PolicySizes,
             SetLowPriorityLogPolicy(on, size)
      PROVE  LogInv'
    BY <1>2, <1>4 DEF SetLowPriorityLogPolicy, queueVars, writerVars, Running
<1>5. CASE StopPut
    BY <1>1, <1>5 DEF StopPut, writerVars
<1>6. CASE StopReturn
    BY <1>2, <1>6 DEF StopReturn, queueVars, writerVars, Running
<1>7. ASSUME NEW c \in LowCalls, LowEnqueue(c) PROVE LogInv'
  <2>1. held \in Calls => task'[held] = task[held]
    BY <1>7 DEF LowEnqueue, LowRefuse, LowReserve, LowPut, LowPutFull, LowGiveBack,
         TypeOK, HeldInv, WriterState, Calls
  <2>2. CASE LowPut(c)
    BY <1>1, <2>1, <2>2 DEF LowPut, writerVars, Calls
  <2>3. CASE ~LowPut(c)
    BY <1>2, <1>7, <2>1, <2>3 DEF LowEnqueue, LowRefuse, LowReserve, LowPutFull,
         LowGiveBack, queueVars, writerVars, Running
  <2> QED BY <2>2, <2>3
<1>8. ASSUME NEW c \in HighCalls, HighEnqueue(c) PROVE LogInv'
  <2>1. held \in Calls => task'[held] = task[held]
    BY <1>8 DEF HighEnqueue, HighCall, HighPut, TypeOK, HeldInv, WriterState, Calls
  <2>2. CASE HighPut(c)
    BY <1>1, <2>1, <2>2 DEF HighPut, writerVars, Calls
  <2>3. CASE HighCall(c)
    BY <1>2, <2>1, <2>3 DEF HighCall, queueVars, writerVars, Running
  <2> QED BY <1>8, <2>2, <2>3 DEF HighEnqueue
<1>9. CASE WriterGet
  <2>1. /\ queue \in Seq(Calls \union {Sentinel}) /\ queue # <<>>
        /\ Len(accepted) \in Nat /\ Len(committed) \in Nat
        /\ accepted' = accepted /\ committed' = committed
    BY <1>9 DEF WriterGet, TypeOK
  <2>2. /\ Head(queue) = queue[1] /\ queue' = Tail(queue)
        /\ Len(queue) \in Nat /\ Len(queue) >= 1
        /\ Len(queue') = Len(queue) - 1
        /\ \A i \in 1..Len(queue') : queue'[i] = queue[i + 1]
    BY <1>9, <2>1, HeadTailProperties DEF WriterGet
  <2>3. Taken' = Taken + 1 /\ Taken \in Nat
    BY <2>1, <2>2 DEF Taken, LogInv
  <2>4. \A i \in 1..Len(queue') : queue'[i] = accepted'[Taken' + i]
    <3> TAKE i \in 1..Len(queue')
    <3>1. i + 1 \in 1..Len(queue) /\ Taken' + i = Taken + (i + 1)
      BY <2>2, <2>3
    <3> QED BY <2>1, <2>2, <3>1 DEF LogInv
  <2>5. held' = accepted'[Taken']
    BY <1>9, <2>1, <2>2, <2>3 DEF WriterGet, LogInv
  <2>6. Running /\ Len(committed) = Taken
    BY <1>9, <2>1, <2>3 DEF WriterGet, Running, HeldInv, LogInv
  <2>7. Running' => writer' = "executing"
    BY <1>9 DEF WriterGet, Running
  <2> QED BY <2>1, <2>2, <2>3, <2>4, <2>5, <2>6, <2>7 DEF LogInv
<1>10. CASE WriterCommit
  <2>1. /\ writer' # "executing" /\ queue' = queue /\ accepted' = accepted
        /\ committed' = Append(committed, held) /\ held \in Calls
        /\ committed \in Seq(Calls) /\ Len(committed) \in Nat
    BY <1>10 DEF WriterCommit, AfterExecute, queueVars, HeldInv, TypeOK
  <2>2. Len(committed') = Len(committed) + 1
    BY <2>1, AppendProperties
  <2>3. Running
    BY <1>10 DEF WriterCommit, Running, HeldInv
  <2>4. Len(committed) = Taken - 1 /\ Taken \in Int
    BY <1>10, <2>3, <2>1 DEF WriterCommit, LogInv, Taken, TypeOK
  <2>5. Taken' = Taken
    BY <2>1 DEF Taken
  <2>6. Len(committed') = Taken' - 0
    BY <2>1, <2>2, <2>4, <2>5
  <2> QED BY <2>1, <2>5, <2>6 DEF LogInv
<1>11. CASE WriterFail
  <2>1. ~Running' /\ writer' # "executing"
    BY <1>11 DEF WriterFail, AfterExecute, Running, HeldInv, TypeOK
  <2> QED BY <1>11, <2>1 DEF WriterFail, LogInv, Taken, queueVars
<1>12. CASE WriterRelease \/ WriterTaskDone
    BY <1>2, <1>12 DEF WriterRelease, WriterTaskDone, queueVars, Running, HeldInv, TypeOK
<1>13. ASSUME NEW f \in Flushers, FlushCall(f) \/ FlushReturn(f) PROVE LogInv'
    BY <1>2, <1>13 DEF FlushCall, FlushReturn, queueVars, writerVars, Running
<1>14. CASE UNCHANGED vars
    BY <1>2, <1>14 DEF vars, Running
<1> QED
    BY <1>3, <1>4, <1>5, <1>6, <1>7, <1>8, <1>9, <1>10, <1>11, <1>12, <1>13, <1>14
       DEF Next, Run

\* The invariant that places the writer in the log holds in every state.
LEMMA LogInvariance == Spec => []LogInv
<1>1. Init => LogInv
    BY DEF Init, LogInv, Taken
<1> QED BY <1>1, LogStep, Invariance, PTL DEF Spec

\* The writer has committed everything it has taken off the queue.
LEMMA DrainStep == IndInv /\ LogInv /\ DrainInv /\ [Next]_vars => DrainInv'
<1> SUFFICES ASSUME IndInv, LogInv, DrainInv, [Next]_vars PROVE DrainInv'
    OBVIOUS
<1> USE CallsAssumption DEF IndInv, BaseInv
<1>0. /\ queue \in Seq(Calls \union {Sentinel}) /\ accepted \in Seq(Calls \union {Sentinel})
      /\ Len(queue) \in Nat /\ Len(accepted) \in Nat
      /\ Taken \in Nat /\ Taken <= Len(accepted)
    BY DEF TypeOK, LogInv, Taken
<1>1. ASSUME NEW k \in Nat, k <= Len(accepted) + 1, DrainedTo(k),
             \A i \in 1..Len(accepted) : accepted'[i] = accepted[i],
             \A c \in Calls : task[c] = "committed" => task'[c] = "committed"
      PROVE  DrainedTo(k)'
    BY <1>0, <1>1 DEF DrainedTo
<1>2. ASSUME \A i \in 1..Len(accepted) : accepted'[i] = accepted[i],
             Len(accepted') \in Nat, Len(accepted') >= Len(accepted), Taken' = Taken,
             \A c \in Calls : task[c] = "committed" => task'[c] = "committed",
             Running' => Running, writer' = "executing" <=> writer = "executing",
             held' = Sentinel \/ writer' = "closed" => held = Sentinel \/ writer = "closed"
      PROVE  DrainInv'
  <2>1. Running' => DrainedTo(IF writer = "executing" THEN Taken ELSE Taken + 1)'
    BY <1>0, <1>1, <1>2 DEF DrainInv
  <2>2. ASSUME held' = Sentinel \/ writer' = "closed"
        PROVE  \E k \in 1..Len(accepted') : accepted'[k] = Sentinel /\ DrainedTo(k)'
    <3>1. PICK k \in 1..Len(accepted) : accepted[k] = Sentinel /\ DrainedTo(k)
      BY <1>2, <2>2 DEF DrainInv
    <3>2. k \in 1..Len(accepted') /\ accepted'[k] = Sentinel /\ DrainedTo(k)'
      BY <1>0, <1>1, <1>2, <3>1
    <3> QED BY <3>2
  <2> QED BY <1>2, <2>1, <2>2 DEF DrainInv, DrainedTo
<1>3. ASSUME NEW e \in Calls \union {Sentinel}, PutOnQueue(e)
      PROVE  /\ \A i \in 1..Len(accepted) : accepted'[i] = accepted[i]
             /\ Len(accepted') = Len(accepted) + 1 /\ Taken' = Taken
    BY <1>0, <1>3, AppendProperties DEF PutOnQueue, Taken
<1>4. ASSUME UNCHANGED <<queue, accepted>>
      PROVE  /\ \A i \in 1..Len(accepted) : accepted'[i] = accepted[i]
             /\ Len(accepted') = Len(accepted) /\ Taken' = Taken
    BY <1>4 DEF Taken
<1>5. CASE Start \/ WriterOpen \/ WriterOpenFail
    BY <1>0, <1>2, <1>4, <1>5
       DEF Start, WriterOpen, WriterOpenFail, queueVars, Running, HeldInv
<1>6. ASSUME NEW on \in BOOLEAN, NEW size \in PolicySizes,
             SetLowPriorityLogPolicy(on, size)
      PROVE  DrainInv'
    BY <1>0, <1>2, <1>4, <1>6 DEF SetLowPriorityLogPolicy, queueVars, writerVars, Running
<1>7. CASE StopPut
    BY <1>0, <1>2, <1>3, <1>7 DEF StopPut, writerVars, Running
<1>8. CASE StopReturn
    BY <1>0, <1>2, <1>4, <1>8 DEF StopReturn, queueVars, writerVars, Running
<1>9. ASSUME NEW c \in LowCalls, LowEnqueue(c) PROVE DrainInv'
  <2>1. /\ Running' = Running /\ held' = held /\ writer' = writer
        /\ \A d \in Calls : task[d] = "committed" => task'[d] = "committed"
    BY <1>9 DEF LowEnqueue, LowRefuse, LowReserve, LowPut, LowPutFull, LowGiveBack,
         TypeOK, HeldInv, WriterState, Calls, Running, writerVars
  <2>2. CASE LowPut(c)
    BY <1>0, <1>2, <1>3, <2>1, <2>2 DEF LowPut, Calls
  <2>3. CASE ~LowPut(c)
    BY <1>0, <1>2, <1>4, <1>9, <2>1, <2>3 DEF LowEnqueue, LowRefuse, LowReserve, LowPutFull,
         LowGiveBack, queueVars
  <2> QED BY <2>2, <2>3
<1>10. ASSUME NEW c \in HighCalls, HighEnqueue(c) PROVE DrainInv'
  <2>1. /\ Running' = Running /\ held' = held /\ writer' = writer
        /\ \A d \in Calls : task[d] = "committed" => task'[d] = "committed"
    BY <1>10 DEF HighEnqueue, HighCall, HighPut, TypeOK, HeldInv, WriterState, Calls,
         Running, writerVars
  <2>2. CASE HighPut(c)
    BY <1>0, <1>2, <1>3, <2>1, <2>2 DEF HighPut, Calls
  <2>3. CASE HighCall(c)
    BY <1>0, <1>2, <1>4, <2>1, <2>3 DEF HighCall, queueVars
  <2> QED BY <1>10, <2>2, <2>3 DEF HighEnqueue
<1>11. CASE WriterGet
  <2>1. /\ queue # <<>> /\ accepted' = accepted /\ writer = "idle" /\ held = NoTask
        /\ held' = Head(queue) /\ queue' = Tail(queue)
    BY <1>11 DEF WriterGet, HeldInv
  <2>2. /\ Head(queue) = queue[1] /\ Head(queue) \in Calls \union {Sentinel}
        /\ Len(queue) >= 1 /\ Len(queue') = Len(queue) - 1
    BY <1>0, <2>1, HeadTailProperties
  <2>3. Taken' = Taken + 1 /\ Taken + 1 \in 1..Len(accepted)
    BY <1>0, <2>1, <2>2 DEF Taken
  <2>4. Running /\ DrainedTo(Taken + 1)
    BY <2>1 DEF Running, DrainInv
  <2>5. \A c \in Calls : task[c] = "committed" => task'[c] = "committed"
    BY <1>11, <2>1, <2>2 DEF WriterGet, TypeOK, QueueInv
  <2>6. DrainedTo(Taken)'
    BY <1>0, <2>1, <2>3, <2>4, <2>5 DEF DrainedTo
  <2>7. accepted'[Taken + 1] = held'
    BY <1>0, <2>1, <2>2 DEF LogInv
  <2>8. writer' # "closed" /\ (writer' = "executing" <=> held' # Sentinel)
    BY <1>11 DEF WriterGet
  <2> QED BY <2>1, <2>3, <2>6, <2>7, <2>8 DEF DrainInv, DrainedTo, Running
<1>12. CASE WriterCommit
  <2>1. /\ writer = "executing" /\ writer' \notin {"executing", "closed"} /\ held' = held
        /\ held \in Calls /\ queue' = queue /\ accepted' = accepted
        /\ task'[held] = "committed"
        /\ \A c \in Calls : task[c] = "committed" => task'[c] = "committed"
    BY <1>12 DEF WriterCommit, AfterExecute, queueVars, HeldInv, TypeOK
  <2>2. Running /\ DrainedTo(Taken) /\ held = accepted[Taken] /\ Taken >= 1
    BY <2>1 DEF Running, HeldInv, DrainInv, LogInv
  <2>3. DrainedTo(Taken + 1)'
    BY <1>0, <2>1, <2>2 DEF DrainedTo, Taken
  <2>4. Taken' = Taken
    BY <2>1 DEF Taken
  <2> QED BY <2>1, <2>3, <2>4 DEF DrainInv, DrainedTo
<1>13. CASE WriterFail
  <2>1. ~Running' /\ writer' # "closed" /\ held' # Sentinel
    BY <1>13 DEF WriterFail, AfterExecute, Running, HeldInv, TypeOK
  <2> QED BY <2>1 DEF DrainInv
<1>14. CASE WriterRelease \/ WriterTaskDone
  <2>1. /\ Running' => Running
        /\ writer' = "executing" <=> writer = "executing"
        /\ held' = Sentinel \/ writer' = "closed" => held = Sentinel \/ writer = "closed"
    BY <1>14 DEF WriterRelease, WriterTaskDone, Running, HeldInv, TypeOK
  <2>2. UNCHANGED <<queue, accepted, task>>
    BY <1>14 DEF WriterRelease, WriterTaskDone, queueVars
  <2> QED BY <1>0, <1>2, <1>4, <2>1, <2>2
<1>15. ASSUME NEW f \in Flushers, FlushCall(f) \/ FlushReturn(f) PROVE DrainInv'
    BY <1>0, <1>2, <1>4, <1>15 DEF FlushCall, FlushReturn, queueVars, writerVars, Running
<1>16. CASE UNCHANGED vars
    BY <1>0, <1>2, <1>4, <1>16 DEF vars, Running
<1> QED
    BY <1>5, <1>6, <1>7, <1>8, <1>9, <1>10, <1>11, <1>12, <1>13, <1>14, <1>15, <1>16
       DEF Next, Run

\* A clean stop() loses nothing: once the thread has closed its connection, every
\* write accepted before the sentinel is committed, whatever was put behind it.
THEOREM StopDrains == Spec => []CloseDrains
<1>1. Init => DrainInv
    BY CallsAssumption DEF Init, DrainInv, DrainedTo, Taken
<1>2. IndInv /\ DrainInv => CloseDrains
  <2> SUFFICES ASSUME IndInv, DrainInv, writer = "closed",
                      NEW i \in 1..Len(accepted),
                      \A j \in 1..i : accepted[j] # Sentinel
               PROVE  task[accepted[i]] = "committed"
    BY DEF CloseDrains
  <2>1. PICK k \in 1..Len(accepted) : accepted[k] = Sentinel /\ DrainedTo(k)
    BY DEF DrainInv
  <2>2. Len(accepted) \in Nat
    BY DEF IndInv, BaseInv, TypeOK
  <2>3. i \in 1..(k - 1)
    BY <2>1, <2>2
  <2> QED BY <2>1, <2>3 DEF DrainedTo
<1> QED BY <1>1, <1>2, DrainStep, LogInvariance, Invariance, PTL DEF Spec

\* The writer thread implements WriteLog: it commits the accepted writes in order
\* and without a gap, and stops at the sentinel or at the first exception.
THEOREM WriterImplementsLog == Spec => ImplementsLog
<1>1. Init => Log!Init
    BY CallsAssumption DEF Init, Log!Init
<1>2. IndInv /\ LogInv /\ [Next]_vars => [Log!Next]_(Log!vars)
  <2> SUFFICES ASSUME IndInv, LogInv, [Next]_vars PROVE [Log!Next]_(Log!vars)
    OBVIOUS
  <2> USE CallsAssumption DEF IndInv, BaseInv
  <2>a. ASSUME UNCHANGED <<accepted, committed>>, Running' = Running
        PROVE  [Log!Next]_(Log!vars)
    BY <2>a DEF Log!vars, Running
  <2>b. ASSUME NEW e \in Calls \union {Sentinel}, PutOnQueue(e),
               committed' = committed, Running' = Running
        PROVE  [Log!Next]_(Log!vars)
    BY <2>b DEF PutOnQueue, Log!Next, Log!Accept, Running
  <2>c. ASSUME UNCHANGED <<accepted, committed>>, Running, ~Running'
        PROVE  [Log!Next]_(Log!vars)
    BY <2>c DEF Log!Next, Log!End, Running
  <2>1. CASE Start \/ WriterOpen
    BY <2>a, <2>1 DEF Start, WriterOpen, queueVars, Running, HeldInv
  <2>2. ASSUME NEW on \in BOOLEAN, NEW size \in PolicySizes,
               SetLowPriorityLogPolicy(on, size)
        PROVE  [Log!Next]_(Log!vars)
    BY <2>a, <2>2 DEF SetLowPriorityLogPolicy, queueVars, writerVars, Running
  <2>3. CASE StopPut
    BY <2>b, <2>3 DEF StopPut, writerVars, Running
  <2>4. CASE StopReturn
    BY <2>a, <2>4 DEF StopReturn, queueVars, writerVars, Running
  <2>5. ASSUME NEW c \in LowCalls, LowEnqueue(c) PROVE [Log!Next]_(Log!vars)
    <3>1. Running' = Running /\ committed' = committed
      BY <2>5 DEF LowEnqueue, LowRefuse, LowReserve, LowPut, LowPutFull, LowGiveBack,
           TypeOK, HeldInv, WriterState, Calls, Running, writerVars
    <3>2. CASE LowPut(c)
      BY <2>b, <3>1, <3>2 DEF LowPut, Calls
    <3>3. CASE ~LowPut(c)
      BY <2>a, <2>5, <3>1, <3>3 DEF LowEnqueue, LowRefuse, LowReserve, LowPutFull,
           LowGiveBack, queueVars
    <3> QED BY <3>2, <3>3
  <2>6. ASSUME NEW c \in HighCalls, HighEnqueue(c) PROVE [Log!Next]_(Log!vars)
    <3>1. Running' = Running /\ committed' = committed
      BY <2>6 DEF HighEnqueue, HighCall, HighPut, TypeOK, HeldInv, WriterState, Calls,
           Running, writerVars
    <3>2. CASE HighPut(c)
      BY <2>b, <3>1, <3>2 DEF HighPut, Calls
    <3>3. CASE HighCall(c)
      BY <2>a, <3>1, <3>3 DEF HighCall, queueVars
    <3> QED BY <2>6, <3>2, <3>3 DEF HighEnqueue
  <2>7. CASE WriterGet
    <3>1. /\ queue \in Seq(Calls \union {Sentinel}) /\ queue # <<>>
          /\ accepted' = accepted /\ committed' = committed
      BY <2>7 DEF WriterGet, TypeOK
    <3>2. Head(queue) \in Calls \union {Sentinel}
      BY <3>1, HeadTailProperties
    <3>3. Running
      BY <2>7 DEF WriterGet, Running, HeldInv
    <3>4. CASE Head(queue) = Sentinel
      BY <2>7, <2>c, <3>1, <3>3, <3>4 DEF WriterGet, Running
    <3>5. CASE Head(queue) # Sentinel
      <4>1. Running'
        BY <2>7, <3>2, <3>5 DEF WriterGet, Running, TypeOK
      <4> QED BY <2>a, <3>1, <3>3, <4>1
    <3> QED BY <3>4, <3>5
  <2>8. CASE WriterCommit
    <3>1. /\ held \in Calls /\ held # Sentinel /\ held' = held
          /\ accepted' = accepted /\ committed' = Append(committed, held)
      BY <2>8 DEF WriterCommit, queueVars, HeldInv
    <3>2. Running /\ Running'
      BY <2>8 DEF WriterCommit, AfterExecute, Running, HeldInv, TypeOK
    <3>3. /\ Len(committed) = Taken - 1 /\ Taken >= 1 /\ held = accepted[Taken]
          /\ Taken \in Int /\ Taken <= Len(accepted)
          /\ Len(accepted) \in Nat /\ Len(committed) \in Nat
      BY <2>8, <3>2 DEF WriterCommit, LogInv, Taken, TypeOK
    <3>4. Len(committed) < Len(accepted) /\ accepted[Len(committed) + 1] = held
      BY <3>3
    <3>5. Log!Apply
      BY <3>1, <3>2, <3>4 DEF Log!Apply, Running
    <3> QED BY <3>5 DEF Log!Next
  <2>9. CASE WriterFail
    <3>1. Running /\ ~Running'
      BY <2>9 DEF WriterFail, AfterExecute, Running, HeldInv, TypeOK
    <3> QED BY <2>c, <2>9, <3>1 DEF WriterFail, queueVars
  <2>10. CASE WriterRelease
    BY <2>a, <2>10 DEF WriterRelease, queueVars, Running
  <2>11. CASE WriterTaskDone
    <3>1. Running' = Running
      BY <2>11 DEF WriterTaskDone, Running, HeldInv, TypeOK
    <3> QED BY <2>a, <2>11, <3>1 DEF WriterTaskDone
  <2>12. ASSUME NEW f \in Flushers, FlushCall(f) \/ FlushReturn(f)
         PROVE  [Log!Next]_(Log!vars)
    BY <2>a, <2>12 DEF FlushCall, FlushReturn, queueVars, writerVars, Running
  <2>13. CASE UNCHANGED vars
    BY <2>a, <2>13 DEF vars, Running
  <2>14. CASE WriterOpenFail
    BY <2>c, <2>14 DEF WriterOpenFail, queueVars, Running, HeldInv
  <2> QED
    BY <2>14, <2>1, <2>2, <2>3, <2>4, <2>5, <2>6, <2>7, <2>8, <2>9, <2>10, <2>11, <2>12,
       <2>13 DEF Next, Run
<1> QED BY <1>1, <1>2, Invariance, LogInvariance, PTL DEF Spec, ImplementsLog, Log!Spec
===============================================================================
