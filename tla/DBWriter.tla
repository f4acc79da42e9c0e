------------------------------- MODULE DBWriter -------------------------------
(***************************************************************************)
(* The SQLite writer thread of src/db.py (class DBWriter): a bounded queue  *)
(* shared by every thread that calls enqueue(), flush() or stop(), and one  *)
(* consumer thread.  Low-priority request logs take a slot of a counted     *)
(* allowance before a non-blocking put and are dropped when there is none;  *)
(* every other write blocks until there is room.                            *)
(*                                                                          *)
(* One call of enqueue() is one member of LowCalls or HighCalls, and stands *)
(* for the WriteTask it creates as well: task[c] is the life of both.       *)
(***************************************************************************)
EXTENDS Naturals, Sequences, FiniteSets

CONSTANTS
    LowCalls,     \* calls of enqueue(..., is_low_priority_log=True)
    HighCalls,    \* all other calls of enqueue()
    Flushers,     \* calls of flush()
    InitLimit,    \* low_priority_log_queue_size given to __init__
    Reserve,      \* HIGH_PRIORITY_QUEUE_RESERVE
    PolicySizes,  \* the sizes set_low_priority_log_policy() is called with
    SqlCanFail,   \* may conn.execute or conn.commit raise?
    NoTask,       \* the writer holds nothing
    Sentinel      \* the None that stop() puts on the queue

Calls == LowCalls \union HighCalls

ASSUME CallsAssumption ==
    /\ IsFiniteSet(LowCalls)
    /\ LowCalls \intersect HighCalls = {}
    /\ NoTask \notin Calls
    /\ Sentinel \notin Calls
    /\ NoTask # Sentinel

ASSUME SizesAssumption ==
    /\ InitLimit \in Nat \ {0}
    /\ Reserve \in Nat
    /\ PolicySizes \subseteq Nat
    /\ SqlCanFail \in BOOLEAN

VARIABLES
    queue,       \* _queue
    unfinished,  \* the count behind _queue.task_done() and _queue.join()
    enabled,     \* _low_priority_log_enabled
    limit,       \* _low_priority_log_queue_size
    pending,     \* _pending_low_priority_logs
    dropped,     \* _dropped_low_priority_logs
    largest,     \* history: the largest allowance there has been
    task,        \* where each call of enqueue(), then its WriteTask, is
    writer,      \* program counter of _run()
    held,        \* the task _run() took off the queue
    stopper,     \* program counter of stop()
    flush,       \* program counter of each flush()
    asked,       \* history: the tasks on the queue or past it when flush() began
    accepted,    \* history: everything put on the queue, in order
    committed    \* the writes SQLite has committed, in order

vars == <<queue, unfinished, enabled, limit, largest, pending, dropped, task,
          writer, held, stopper, flush, asked, accepted, committed>>

queueVars == <<queue, unfinished, accepted>>
policyVars == <<enabled, limit, largest>>
countVars == <<enabled, limit, largest, pending, dropped>>
writerVars == <<writer, held, committed>>
waiterVars == <<stopper, flush, asked>>

\* maxsize of the queue: fixed by __init__, whatever the policy becomes later.
Capacity == InitLimit + Reserve

Larger(m, n) == IF m < n THEN n ELSE m

Max0(n) == IF n > 0 THEN n ELSE 0

TaskState == {"new", "reserved", "refused", "waiting", "queued", "held",
              "committed", "failed", "dropped"}

WriterState == {"unstarted", "opening", "idle", "executing", "releasing", "finishing",
                "closed", "dead"}

InQueue == {c \in Calls : task[c] = "queued"}

Init ==
    /\ queue = <<>>
    /\ unfinished = 0
    /\ enabled \in BOOLEAN
    /\ limit = InitLimit
    /\ largest = InitLimit
    /\ pending = 0
    /\ dropped = 0
    /\ task = [c \in Calls |-> "new"]
    /\ writer = "unstarted"
    /\ held = NoTask
    /\ stopper = "idle"
    /\ flush = [f \in Flushers |-> "idle"]
    /\ asked = [f \in Flushers |-> {}]
    /\ accepted = <<>>
    /\ committed = <<>>

-------------------------------------------------------------------------------
\* start(), stop() and the policy

Start ==
    /\ writer = "unstarted"
    /\ writer' = "opening"
    /\ UNCHANGED <<queueVars, countVars, task, held, committed, waiterVars>>

\* The size taken as it is given, zero included.
PolicyWithoutMax(on, size) ==
    /\ enabled' = on
    /\ limit' = size
    /\ largest' = Larger(largest, limit')
    /\ UNCHANGED <<queueVars, pending, dropped, task, writerVars, waiterVars>>

SetLowPriorityLogPolicy(on, size) ==
    /\ enabled' = on
    /\ limit' = Larger(1, size)
    /\ largest' = Larger(largest, limit')
    /\ UNCHANGED <<queueVars, pending, dropped, task, writerVars, waiterVars>>

\* queue.Queue.put once there is room: what every blocking put waits for.
PutOnQueue(e) ==
    /\ Len(queue) < Capacity
    /\ queue' = Append(queue, e)
    /\ accepted' = Append(accepted, e)
    /\ unfinished' = unfinished + 1

\* stop() returns at once when the thread was never started.
StopPut ==
    /\ stopper = "idle"
    /\ writer # "unstarted"
    /\ PutOnQueue(Sentinel)
    /\ stopper' = "joining"
    /\ UNCHANGED <<countVars, task, writerVars, flush, asked>>

\* join(timeout=2) returns when the thread has ended, or after two seconds.
StopReturn ==
    /\ stopper = "joining"
    /\ stopper' = "stopped"
    /\ UNCHANGED <<queueVars, countVars, task, writerVars, flush, asked>>

-------------------------------------------------------------------------------
\* enqueue(), low priority: the allowance is checked and taken under _lock,
\* the put happens after _lock is released, and a full queue is handled under
\* _lock again.

LowRefuse(c) ==
    /\ task[c] = "new"
    /\ ~enabled \/ pending >= limit
    /\ task' = [task EXCEPT ![c] = "dropped"]
    /\ dropped' = dropped + 1
    /\ UNCHANGED <<queueVars, policyVars, pending, writerVars, waiterVars>>

\* The comparison of LowRefuse off by one.
LowReserveOneMore(c) ==
    /\ task[c] = "new"
    /\ enabled /\ pending <= limit
    /\ task' = [task EXCEPT ![c] = "reserved"]
    /\ pending' = pending + 1
    /\ UNCHANGED <<queueVars, policyVars, dropped, writerVars, waiterVars>>

LowReserve(c) ==
    /\ task[c] = "new"
    /\ enabled /\ pending < limit
    /\ task' = [task EXCEPT ![c] = "reserved"]
    /\ pending' = pending + 1
    /\ UNCHANGED <<queueVars, policyVars, dropped, writerVars, waiterVars>>

LowPut(c) ==
    /\ task[c] = "reserved"
    /\ PutOnQueue(c)
    /\ task' = [task EXCEPT ![c] = "queued"]
    /\ UNCHANGED <<countVars, writerVars, waiterVars>>

LowPutFull(c) ==
    /\ task[c] = "reserved"
    /\ Len(queue) >= Capacity
    /\ task' = [task EXCEPT ![c] = "refused"]
    /\ UNCHANGED <<queueVars, countVars, writerVars, waiterVars>>

\* queue.Full counts the drop and keeps the slot.
LowKeepSlot(c) ==
    /\ task[c] = "refused"
    /\ task' = [task EXCEPT ![c] = "dropped"]
    /\ dropped' = dropped + 1
    /\ UNCHANGED <<queueVars, policyVars, pending, writerVars, waiterVars>>

LowGiveBack(c) ==
    /\ task[c] = "refused"
    /\ task' = [task EXCEPT ![c] = "dropped"]
    /\ pending' = Max0(pending - 1)
    /\ dropped' = dropped + 1
    /\ UNCHANGED <<queueVars, policyVars, writerVars, waiterVars>>

\* enqueue(), everything else: a put that blocks while the queue is full.
HighCall(c) ==
    /\ task[c] = "new"
    /\ task' = [task EXCEPT ![c] = "waiting"]
    /\ UNCHANGED <<queueVars, countVars, writerVars, waiterVars>>

\* put_nowait() for metadata too: a full queue loses the write.
HighPutNowait(c) ==
    /\ task[c] = "waiting"
    /\ IF Len(queue) < Capacity
       THEN PutOnQueue(c) /\ task' = [task EXCEPT ![c] = "queued"]
       ELSE task' = [task EXCEPT ![c] = "dropped"] /\ UNCHANGED queueVars
    /\ UNCHANGED <<countVars, writerVars, waiterVars>>

HighPut(c) ==
    /\ task[c] = "waiting"
    /\ PutOnQueue(c)
    /\ task' = [task EXCEPT ![c] = "queued"]
    /\ UNCHANGED <<countVars, writerVars, waiterVars>>

-------------------------------------------------------------------------------
\* _run(): the writer thread

\* sqlite3.connect() and the PRAGMAs, before the loop: an exception here ends the thread.
WriterOpen ==
    /\ writer = "opening"
    /\ writer' = "idle"
    /\ UNCHANGED <<queueVars, countVars, task, held, committed, waiterVars>>

WriterOpenFail ==
    /\ SqlCanFail
    /\ writer = "opening"
    /\ writer' = "dead"
    /\ UNCHANGED <<queueVars, countVars, task, held, committed, waiterVars>>

\* A priority queue: the first metadata write overtakes the logs before it.
WriterGetPriority ==
    /\ writer = "idle"
    /\ queue # <<>>
    /\ LET high == {i \in DOMAIN queue : queue[i] \in HighCalls}
           k == IF high = {} THEN 1 ELSE CHOOSE i \in high : \A j \in high : i <= j
       IN  /\ held' = queue[k]
           /\ queue' = SubSeq(queue, 1, k - 1) \o SubSeq(queue, k + 1, Len(queue))
           /\ writer' = IF queue[k] = Sentinel THEN "finishing" ELSE "executing"
           /\ task' = [c \in Calls |-> IF c = queue[k] THEN "held" ELSE task[c]]
    /\ UNCHANGED <<unfinished, accepted, countVars, committed, waiterVars>>

WriterGet ==
    /\ writer = "idle"
    /\ queue # <<>>
    /\ held' = Head(queue)
    /\ queue' = Tail(queue)
    /\ IF Head(queue) = Sentinel
       THEN writer' = "finishing" /\ UNCHANGED task
       ELSE /\ writer' = "executing"
            /\ task' = [task EXCEPT ![Head(queue)] = "held"]
    /\ UNCHANGED <<unfinished, accepted, countVars, committed, waiterVars>>

\* The finally clause gives a log's slot back before task_done().
AfterExecute == IF held \in LowCalls THEN "releasing" ELSE "finishing"

WriterCommit ==
    /\ writer = "executing"
    /\ task' = [task EXCEPT ![held] = "committed"]
    /\ committed' = Append(committed, held)
    /\ writer' = AfterExecute
    /\ UNCHANGED <<queueVars, countVars, held, waiterVars>>

\* No except clause: the exception leaves _run() once finally has run.
WriterFail ==
    /\ SqlCanFail
    /\ writer = "executing"
    /\ task' = [task EXCEPT ![held] = "failed"]
    /\ writer' = AfterExecute
    /\ UNCHANGED <<queueVars, countVars, held, committed, waiterVars>>

WriterRelease ==
    /\ writer = "releasing"
    /\ pending' = Max0(pending - 1)
    /\ writer' = "finishing"
    /\ UNCHANGED <<queueVars, policyVars, dropped, task, held, committed,
                   waiterVars>>

\* An exception is swallowed and the loop goes on.
WriterSurvives ==
    /\ writer = "finishing"
    /\ unfinished' = unfinished - 1
    /\ held' = NoTask
    /\ writer' = IF held = Sentinel THEN "closed" ELSE "idle"
    /\ UNCHANGED <<queue, accepted, countVars, task, committed, waiterVars>>

\* task_done() only for metadata: a log that was executed stays unfinished.
WriterForgetsTaskDone ==
    /\ writer = "finishing"
    /\ unfinished' = IF held \in LowCalls THEN unfinished ELSE unfinished - 1
    /\ held' = NoTask
    /\ writer' = IF held = Sentinel THEN "closed"
                 ELSE IF task[held] = "failed" THEN "dead" ELSE "idle"
    /\ UNCHANGED <<queue, accepted, countVars, task, committed, waiterVars>>

WriterTaskDone ==
    /\ writer = "finishing"
    /\ unfinished' = unfinished - 1
    /\ held' = NoTask
    /\ writer' = IF held = Sentinel THEN "closed"
                 ELSE IF task[held] = "failed" THEN "dead" ELSE "idle"
    /\ UNCHANGED <<queue, accepted, countVars, task, committed, waiterVars>>

-------------------------------------------------------------------------------
\* flush(): _queue.join() returns when no put is left without its task_done().

FlushCall(f) ==
    /\ flush[f] = "idle"
    /\ flush' = [flush EXCEPT ![f] = "joining"]
    /\ asked' = [asked EXCEPT ![f] =
           {c \in Calls : task[c] \in {"queued", "held", "committed", "failed"}}]
    /\ UNCHANGED <<queueVars, countVars, task, writerVars, stopper>>

\* Polling _queue.empty(): the task the writer holds is not waited for.
FlushWhenEmpty(f) ==
    /\ flush[f] = "joining"
    /\ queue = <<>>
    /\ flush' = [flush EXCEPT ![f] = "returned"]
    /\ UNCHANGED <<queueVars, countVars, task, writerVars, stopper, asked>>

FlushReturn(f) ==
    /\ flush[f] = "joining"
    /\ unfinished = 0
    /\ flush' = [flush EXCEPT ![f] = "returned"]
    /\ UNCHANGED <<queueVars, countVars, task, writerVars, stopper, asked>>

-------------------------------------------------------------------------------
Run ==
    \/ WriterOpen \/ WriterOpenFail
    \/ WriterGet \/ WriterCommit \/ WriterFail \/ WriterRelease \/ WriterTaskDone

LowEnqueue(c) ==
    LowRefuse(c) \/ LowReserve(c) \/ LowPut(c) \/ LowPutFull(c) \/ LowGiveBack(c)

HighEnqueue(c) == HighCall(c) \/ HighPut(c)

Next ==
    \/ Start
    \/ \E on \in BOOLEAN, size \in PolicySizes : SetLowPriorityLogPolicy(on, size)
    \/ StopPut
    \/ StopReturn
    \/ \E c \in LowCalls : LowEnqueue(c)
    \/ \E c \in HighCalls : HighEnqueue(c)
    \/ Run
    \/ \E f \in Flushers : FlushCall(f) \/ FlushReturn(f)

Spec == Init /\ [][Next]_vars

(***************************************************************************)
(* The threads that exist keep running: the writer thread once started, a   *)
(* caller inside enqueue() or flush() whenever it is not blocked.  start()   *)
(* is called by lifespan() right after init().  Nothing makes anyone call    *)
(* enqueue(), flush() or stop().  A blocked put competes for a free place    *)
(* with puts of other threads; threading.Condition wakes waiters in order,   *)
(* and with finitely many calls weak fairness is all that is needed.         *)
(***************************************************************************)
Fairness ==
    /\ WF_vars(Start)
    /\ WF_vars(Run)
    /\ \A c \in LowCalls : WF_vars(LowPut(c) \/ LowPutFull(c) \/ LowGiveBack(c))
    /\ \A c \in HighCalls : WF_vars(HighPut(c))
    /\ \A f \in Flushers : WF_vars(FlushReturn(f))

FairSpec == Spec /\ Fairness

-------------------------------------------------------------------------------
TypeOK ==
    /\ queue \in Seq(Calls \union {Sentinel})
    /\ unfinished \in Nat
    /\ enabled \in BOOLEAN
    /\ limit \in Nat \ {0}
    /\ largest \in Nat
    /\ pending \in Nat
    /\ dropped \in Nat
    /\ task \in [Calls -> TaskState]
    /\ writer \in WriterState
    /\ held \in Calls \union {NoTask, Sentinel}
    /\ stopper \in {"idle", "joining", "stopped"}
    /\ flush \in [Flushers -> {"idle", "joining", "returned"}]
    /\ asked \in [Flushers -> SUBSET Calls]
    /\ accepted \in Seq(Calls \union {Sentinel})
    /\ committed \in Seq(Calls)

\* The log calls that hold one slot of the allowance each.
SlotHolders ==
    {c \in LowCalls : \/ task[c] \in {"reserved", "refused", "queued"}
                      \/ held = c /\ writer \in {"executing", "releasing"}}

\* enqueue() counts a slot before the put, the writer gives it back after the
\* commit, and a full queue gives it back at once: whatever the interleaving of
\* these three critical sections, _pending_low_priority_logs is the number of
\* logs that really hold a slot, and _dropped_low_priority_logs the number of
\* calls that returned False.  So no slot leaks, and max(..., 0) never hides one.
SlotAccounting ==
    /\ pending = Cardinality(SlotHolders)
    /\ dropped = Cardinality({c \in LowCalls : task[c] = "dropped"})

\* The logs among what is on the queue.
QueuedLogs == InQueue \intersect LowCalls

\* Request logs never take more places than the largest allowance there has been,
\* although the slot is taken before the put, the policy may be lowered or raised
\* between the two, and what is on the queue stays there when it is.  The queue was
\* built with InitLimit + Reserve places for good, so Reserve of them, less what the
\* policy has exceeded InitLimit by, are left to metadata.
AllowanceKept == Cardinality(QueuedLogs) <= largest

\* flush() is a barrier: when it returns, every task that was on the queue when
\* it was called has been executed.  prune_old_logs() and run_discovery() read the
\* database after it on that assumption.
FlushIsBarrier ==
    [][\A f \in Flushers :
          flush[f] = "joining" /\ flush'[f] = "returned"
             => \A c \in asked[f] : task[c] \in {"committed", "failed"}]_vars

\* stop() closes the connection only after every write accepted before its
\* sentinel has been committed: a clean shutdown loses nothing that was queued.
CloseDrains ==
    writer = "closed" =>
        \A i \in 1..Len(accepted) :
            (\A j \in 1..i : accepted[j] # Sentinel)
               => task[accepted[i]] = "committed"

\* The writer thread implements the log the rest of the gateway relies on.
Log == INSTANCE WriteLog WITH
           Entry <- Calls \union {Sentinel},
           applied <- committed,
           running <- /\ held # Sentinel
                      /\ writer \notin {"closed", "dead"}
                      /\ held \in Calls => task[held] # "failed"

\* Writes are committed one at a time, in the order they were accepted, without
\* a gap, and none after the thread has met the sentinel or an exception.
ImplementsLog == Log!Spec

\* A metadata write is never lost to a full queue: the blocking put goes through
\* and the write is committed, unless the thread ends first.
MetadataWritten ==
    \A c \in HighCalls :
        task[c] = "waiting" ~> (task[c] = "committed"
                                  \/ writer \in {"closed", "dead"})

\* flush() returns, unless the thread ended with something still on the queue.
FlushReturns ==
    \A f \in Flushers :
        flush[f] = "joining" ~> (flush[f] = "returned"
                                   \/ writer \in {"closed", "dead"})
===============================================================================
