---------------------------- MODULE RuntimeLogging ----------------------------
(***************************************************************************)
(* RuntimeLoggingManager of src/runtime_logging.py: threads that log put    *)
(* records on a bounded queue without waiting, a QueueListener thread of     *)
(* the standard library writes them, and configure() and stop() replace or   *)
(* end queue and listener while the others go on logging.  reload_settings() *)
(* calls configure() on the event loop and on the scheduler's thread.        *)
(*                                                                          *)
(* Every configure() that enables logging is a generation of its own: its    *)
(* queue, its listener and its handlers.                                     *)
(***************************************************************************)
EXTENDS Naturals, Sequences, FiniteSets

CONSTANTS
    Record,      \* calls of runtime_log()
    Warning,     \* those of level WARNING or above
    Call,        \* calls of configure() and stop()
    QueueSize,   \* queue_size
    NoOne,       \* _lock is free
    Sentinel     \* the None that ends a listener

ASSUME RuntimeLoggingAssumption ==
    /\ Warning \subseteq Record
    /\ IsFiniteSet(Record) /\ IsFiniteSet(Call)
    /\ NoOne \notin Call
    /\ Sentinel \notin Record
    /\ QueueSize \in Nat \ {0}

Generation == 1..Cardinality(Call)

VARIABLES
    lock,       \* who holds _lock over several steps
    enabled,    \* _enabled
    installed,  \* generation of _queue, _listener and _fallback_handler; 0 is None
    handler,    \* generation of the handler on the base logger; 0 is no handler
    last,       \* the last generation made
    queue,      \* per generation, its queue
    listener,   \* per generation, its thread
    dropped,    \* _dropped_records
    record,     \* per record, where its runtime_log() and then the record is
    call        \* per call of configure() or stop(), where it is and what it does

vars == <<lock, enabled, installed, handler, last, queue, listener, dropped, record,
          call>>

managerVars == <<lock, enabled, installed, handler, last, call>>

Init ==
    /\ lock = NoOne
    /\ enabled = FALSE
    /\ installed = 0
    /\ handler = 0
    /\ last = 0
    /\ queue = [g \in Generation |-> <<>>]
    /\ listener = [g \in Generation |-> "none"]
    /\ dropped = 0
    /\ record = [r \in Record |-> [at |-> "new", by |-> 0]]
    /\ call = [c \in Call |-> [at |-> "idle", does |-> "none"]]

Move(r, place) == record' = [record EXCEPT ![r].at = place]
Goto(c, place) == call' = [call EXCEPT ![c].at = place]

-------------------------------------------------------------------------------
\* runtime_log()

\* should_emit(); the verbosity is one more reason not to.
ShouldEmit(r, wanted) ==
    /\ record[r].at = "new"
    /\ lock = NoOne
    /\ r \in Warning => wanted
    /\ Move(r, IF enabled /\ wanted THEN "passed" ELSE "suppressed")
    /\ UNCHANGED <<managerVars, queue, listener, dropped>>

\* The base logger's handlers are read without _lock.
CallHandlers(r) ==
    /\ record[r].at = "passed"
    /\ record' = [record EXCEPT ![r].at = IF handler = 0 THEN "unhandled" ELSE "captured",
                                ![r].by = handler]
    /\ UNCHANGED <<managerVars, queue, listener, dropped>>

\* handle() holds the handler's own lock until the record is dealt with.
HandlerBusy(g) == \E r \in Record : record[r].by = g /\ record[r].at \in {"full", "counted"}

\* _DroppingQueueHandler.enqueue()
Enqueue(r) ==
    /\ record[r].at = "captured"
    /\ ~HandlerBusy(record[r].by)
    /\ IF Len(queue[record[r].by]) < QueueSize
       THEN /\ queue' = [queue EXCEPT ![record[r].by] = Append(@, r)]
            /\ Move(r, "queued")
       ELSE Move(r, "full") /\ UNCHANGED queue
    /\ UNCHANGED <<managerVars, listener, dropped>>

\* Every overflow is dropped, whatever its level.
RecordDropAll(r) ==
    /\ record[r].at = "full"
    /\ lock = NoOne
    /\ dropped' = dropped + 1
    /\ Move(r, "dropped")
    /\ UNCHANGED <<managerVars, queue, listener>>

\* handle_overflow_record(): the drop is counted first ...
RecordDrop(r) ==
    /\ record[r].at = "full"
    /\ lock = NoOne
    /\ dropped' = dropped + 1
    /\ Move(r, IF r \in Warning THEN "counted" ELSE "dropped")
    /\ UNCHANGED <<managerVars, queue, listener>>

\* ... and a warning then goes to the fallback handler of the moment, if any.
Fallback(r) ==
    /\ record[r].at = "counted"
    /\ lock = NoOne
    /\ Move(r, IF installed = 0 THEN "dropped" ELSE "written")
    /\ UNCHANGED <<managerVars, queue, listener, dropped>>

-------------------------------------------------------------------------------
\* QueueListener._monitor()
Monitor(g) ==
    /\ listener[g] = "running"
    /\ queue[g] # <<>>
    /\ queue' = [queue EXCEPT ![g] = Tail(@)]
    /\ IF Head(queue[g]) = Sentinel
       THEN listener' = [listener EXCEPT ![g] = "ended"] /\ UNCHANGED record
       ELSE Move(Head(queue[g]), "written") /\ UNCHANGED listener
    /\ UNCHANGED <<managerVars, dropped>>

-------------------------------------------------------------------------------
\* configure() and stop(), which hold _lock from here to Finish

Begin(c, does) ==
    /\ call[c].at = "idle"
    /\ lock = NoOne
    /\ lock' = c
    /\ call' = [call EXCEPT ![c] = [at |-> IF installed = 0 THEN "finish" ELSE "sentinel",
                                    does |-> does]]
    /\ UNCHANGED <<enabled, installed, handler, last, queue, listener, dropped, record>>

\* _stop_locked(): enqueue_sentinel() does not wait for room ...
PutSentinel(c) ==
    /\ call[c].at = "sentinel"
    /\ IF Len(queue[installed]) < QueueSize
       THEN /\ queue' = [queue EXCEPT ![installed] = Append(@, Sentinel)]
            /\ Goto(c, "join")
       ELSE Goto(c, "makeRoom") /\ UNCHANGED queue
    /\ UNCHANGED <<lock, enabled, installed, handler, last, listener, dropped, record>>

\* ... so that a full queue loses its oldest record; if the listener has emptied
\* the queue by now, the loop is left.
MakeRoom(c) ==
    /\ call[c].at = "makeRoom"
    /\ IF queue[installed] = <<>>
       THEN Goto(c, "join") /\ UNCHANGED <<queue, record>>
       ELSE /\ queue' = [queue EXCEPT ![installed] = Tail(@)]
            /\ Move(Head(queue[installed]), "discarded")
            /\ Goto(c, "sentinel")
    /\ UNCHANGED <<lock, enabled, installed, handler, last, listener, dropped>>

\* The listener is replaced without waiting for it.
NoJoin(c) ==
    /\ call[c].at = "join"
    /\ installed' = 0
    /\ handler' = 0
    /\ Goto(c, "finish")
    /\ UNCHANGED <<lock, enabled, last, queue, listener, dropped, record>>

Join(c) ==
    /\ call[c].at = "join"
    /\ listener[installed] = "ended"
    /\ installed' = 0
    /\ handler' = 0
    /\ Goto(c, "finish")
    /\ UNCHANGED <<lock, enabled, last, queue, listener, dropped, record>>

\* The new handler is installed and its listener never started.
FinishWithoutStart(c) ==
    /\ call[c].at = "finish"
    /\ enabled' = (call[c].does = "enable")
    /\ dropped' = IF call[c].does = "stop" THEN dropped ELSE 0
    /\ IF call[c].does = "enable"
       THEN /\ last' = last + 1
            /\ installed' = last + 1
            /\ handler' = last + 1
       ELSE UNCHANGED <<last, installed, handler>>
    /\ lock' = NoOne
    /\ Goto(c, "done")
    /\ UNCHANGED <<queue, record, listener>>

\* The rest of configure(), or of stop().
Finish(c) ==
    /\ call[c].at = "finish"
    /\ enabled' = (call[c].does = "enable")
    /\ dropped' = IF call[c].does = "stop" THEN dropped ELSE 0
    /\ IF call[c].does = "enable"
       THEN /\ last' = last + 1
            /\ installed' = last + 1
            /\ handler' = last + 1
            /\ listener' = [listener EXCEPT ![last + 1] = "running"]
       ELSE UNCHANGED <<last, installed, handler, listener>>
    /\ lock' = NoOne
    /\ Goto(c, "done")
    /\ UNCHANGED <<queue, record>>

-------------------------------------------------------------------------------
Log(r) ==
    \/ \E wanted \in BOOLEAN : ShouldEmit(r, wanted)
    \/ CallHandlers(r)
    \/ Enqueue(r)
    \/ RecordDrop(r)
    \/ Fallback(r)

Reconfigure(c) == PutSentinel(c) \/ MakeRoom(c) \/ Join(c) \/ Finish(c)

Next ==
    \/ \E r \in Record : Log(r)
    \/ \E g \in Generation : Monitor(g)
    \/ \E c \in Call, does \in {"enable", "disable", "stop"} : Begin(c, does)
    \/ \E c \in Call : Reconfigure(c)

Spec == Init /\ [][Next]_vars

\* The listener threads run, and a configure() or stop() that has begun goes on
\* whenever it is not waiting for the listener.  Nobody has to log.
Fairness ==
    /\ \A g \in Generation : WF_vars(Monitor(g))
    /\ \A c \in Call : WF_vars(Reconfigure(c))

FairSpec == Spec /\ Fairness

-------------------------------------------------------------------------------
TypeOK ==
    /\ lock \in Call \union {NoOne}
    /\ enabled \in BOOLEAN
    /\ {installed, handler, last} \subseteq 0..Cardinality(Call)
    /\ queue \in [Generation -> Seq(Record \union {Sentinel})]
    /\ \A g \in Generation : Len(queue[g]) <= QueueSize
    /\ listener \in [Generation -> {"none", "running", "ended"}]
    /\ dropped \in 0..Cardinality(Record)
    /\ record \in [Record -> [at : {"new", "suppressed", "passed", "unhandled", "captured",
                                    "queued", "full", "counted", "dropped", "discarded",
                                    "written"},
                              by : 0..Cardinality(Call)]]
    /\ call \in [Call -> [at : {"idle", "sentinel", "makeRoom", "join", "finish", "done"},
                          does : {"none", "enable", "disable", "stop"}]]

\* Two listeners never write at the same time, however calls of configure() from
\* the event loop and from the refresh thread meet.  (Overflowing warnings are apart: the
\* fallback handler writes to the same stream under a lock of its own.)
OneListener == Cardinality({g \in Generation : listener[g] = "running"}) <= 1

\* While nobody is reconfiguring, the flag tells the truth: a listener runs and the
\* logger has its handler exactly if logging is enabled.
EnabledMeansListening ==
    lock = NoOne =>
        /\ enabled <=> handler # 0
        /\ handler = installed
        /\ \A g \in Generation : listener[g] = "running" <=> g = installed

\* A warning is lost only to the configure() or stop() that ends its own generation,
\* however full the queue is: with nobody reconfiguring, the installed handler has lost
\* none (handle_overflow_record()).
WarningsSurvive ==
    lock = NoOne /\ installed # 0 =>
        \A r \in Warning :
            record[r].by = installed => record[r].at \notin {"dropped", "discarded"}

\* A record on the queue is written, unless a configure() or stop() ends its listener
\* first.
QueuedIsWritten ==
    \A r \in Record :
        record[r].at = "queued" ~> (record[r].at \in {"written", "discarded"}
                                      \/ \E g \in Generation :
                                            g = record[r].by /\ listener[g] = "ended")

\* "On shutdown it stops scheduler and background work cleanly" (docs/operations.md):
\* stop() returns.
StopReturns == \A c \in Call : call[c].at # "idle" ~> call[c].at = "done"

\* However configure() and stop() replace the listener while others log: the queue keeps
\* its bound, there is one listener at a time, and the flag tells whether there is one.
ListenerInv == TypeOK /\ OneListener /\ EnabledMeansListening
===============================================================================
