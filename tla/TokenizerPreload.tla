-------------------------- MODULE TokenizerPreload --------------------------
(***************************************************************************)
(* The background loads of Hugging Face tokenizers (src/tokens.py): a cache, *)
(* a table of the futures under way, and a thread pool that is made when it  *)
(* is needed and dropped at shutdown.  Callers (the event loop, and in the   *)
(* stress test several threads) submit a load under the lock and attach its  *)
(* callback after they have released it; the pool's threads load; whoever    *)
(* completes or cancels a future runs its callback.                          *)
(*                                                                         *)
(* A step is a block under _HF_TOKENIZER_CACHE_LOCK, or one change of a      *)
(* future's own state, which the future's own lock makes atomic.             *)
(***************************************************************************)
EXTENDS Naturals, FiniteSets, Functions

CONSTANTS
    Hint,       \* the model hints that have a repository to load from
    Caller,     \* the threads that ask
    Future,     \* the futures there can be at a time
    Workers,    \* max_workers
    MaxStops    \* bound: shutdowns and clearings of the cache

ASSUME WorkersAssumption == Workers \in Nat \ {0}
ASSUME StopsAssumption == MaxStops \in Nat

None == "none"   \* Python's None where an entry or a tokenizer may be
NoPool == 0      \* and where an executor may be

ASSUME NoneAssumption == None \notin Future

VARIABLES
    cache,      \* _HF_TOKENIZER_CACHE: a hint's tokenizer, None, or "absent"
    futures,    \* _HF_TOKENIZER_FUTURES: a hint's future or None
    executor,   \* _HF_TOKENIZER_EXECUTOR: the pool, numbered, or NoPool
    made,       \* how many pools have been made
    future,     \* the futures themselves
    asking,     \* what each caller is doing
    stopping    \* the pool a caller has taken away and will shut down, or NoPool

preloadVars == <<cache, futures, executor, made, future, asking, stopping>>

Pool == 1..(MaxStops + 1)
State == {"pending", "running", "loaded", "failed", "finished", "cancelled", "over"}

NoFuture == [state |-> "over", hint |-> None, pool |-> NoPool, value |-> None,
             attached |-> FALSE, cleared |-> FALSE]
Idle == [at |-> "idle", hint |-> None, future |-> None]

PreloadInit ==
    /\ cache = [h \in Hint |-> "absent"]
    /\ futures = [h \in Hint |-> None]
    /\ executor = NoPool
    /\ made = 0
    /\ future = [f \in Future |-> NoFuture]
    /\ asking = [c \in Caller |-> Idle]
    /\ stopping = NoPool

\* Future.done().  A future is "over" when its callback has run as well.
IsDone(f) == future[f].state \in {"finished", "cancelled", "over"}
UnderWay(h) == IF futures[h] = None THEN FALSE ELSE ~IsDone(futures[h])
Unfinished(f) == future[f].state \in {"pending", "running", "loaded", "failed"}

\* What stands for a new future: one that nothing refers to any more.
Unused == {f \in Future : future[f].state = "over" /\ f \notin Range(futures)}

-----------------------------------------------------------------------------
\* _load_hf_tokenizer: a request wants hint h's tokenizer.
LoadTokenizer(c, h) ==
    /\ asking[c] = Idle
    /\ cache[h] \in {"absent", None}
    /\ ~UnderWay(h)
    /\ asking' = [asking EXCEPT ![c] = [Idle EXCEPT !.at = "schedule", !.hint = h]]
    /\ UNCHANGED <<cache, futures, executor, made, future, stopping>>

\* Discovery schedules without looking first.
Discover(c, h) ==
    /\ asking[c] = Idle
    /\ asking' = [asking EXCEPT ![c] = [Idle EXCEPT !.at = "schedule", !.hint = h]]
    /\ UNCHANGED <<cache, futures, executor, made, future, stopping>>

Submit(c, h, f) ==
    LET pool == IF executor = NoPool THEN made + 1 ELSE executor
    IN /\ executor' = pool
       /\ made' = IF executor = NoPool THEN made + 1 ELSE made
       /\ future' = [future EXCEPT ![f] = [NoFuture EXCEPT !.state = "pending", !.hint = h,
                                                           !.pool = pool]]
       /\ futures' = [futures EXCEPT ![h] = f]
       /\ asking' = [asking EXCEPT ![c] = [Idle EXCEPT !.at = "attach", !.future = f]]

\* schedule_tokenizer_preload, the part under the lock: the checks and, unless
\* one of them says no, the submission.
Schedule(c) ==
    /\ asking[c].at = "schedule"
    /\ LET h == asking[c].hint
       IN IF cache[h] # "absent" \/ UnderWay(h)
          THEN /\ asking' = [asking EXCEPT ![c] = Idle]
               /\ UNCHANGED <<futures, executor, made, future>>
          ELSE Unused # {} /\ Submit(c, h, CHOOSE f \in Unused : TRUE)
    /\ UNCHANGED <<cache, stopping>>

\* add_done_callback: it will run at once if the future is already done.
Attach(c) ==
    /\ asking[c].at = "attach"
    /\ future' = [future EXCEPT ![asking[c].future].attached = TRUE]
    /\ asking' = [asking EXCEPT ![c] = Idle]
    /\ UNCHANGED <<cache, futures, executor, made, stopping>>

-----------------------------------------------------------------------------
\* A thread of the pool takes a future.
Start(f) ==
    /\ future[f].state = "pending"
    /\ Cardinality({g \in Future : /\ future[g].state \in {"running", "loaded", "failed"}
                                   /\ future[g].pool = future[f].pool}) < Workers
    /\ future' = [future EXCEPT ![f].state = "running"]
    /\ UNCHANGED <<cache, futures, executor, made, asking, stopping>>

\* _load_hf_tokenizer_blocking: from_pretrained() returns for one of the
\* candidate repositories, and the tokenizer is cached.
LoadSucceeds(f) ==
    /\ future[f].state = "running"
    /\ future' = [future EXCEPT ![f].state = "loaded", ![f].value = "tokenizer"]
    /\ cache' = [cache EXCEPT ![future[f].hint] = "tokenizer"]
    /\ UNCHANGED <<futures, executor, made, asking, stopping>>

LoadFailsForGood(f) ==
    /\ future[f].state = "running"
    /\ future' = [future EXCEPT ![f].state = "failed"]
    /\ cache' = [cache EXCEPT ![future[f].hint] = None]
    /\ UNCHANGED <<futures, executor, made, asking, stopping>>

\* None of them loads.
LoadFails(f) ==
    /\ future[f].state = "running"
    /\ future' = [future EXCEPT ![f].state = "failed"]
    /\ UNCHANGED <<cache, futures, executor, made, asking, stopping>>

\* The pool's thread sets the future's result.
SetResult(f) ==
    /\ future[f].state \in {"loaded", "failed"}
    /\ future' = [future EXCEPT ![f].state = "finished"]
    /\ UNCHANGED <<cache, futures, executor, made, asking, stopping>>

CompleteAnyFuture(f) ==
    /\ future[f].state \in {"finished", "cancelled"} /\ future[f].attached
    /\ future' = [future EXCEPT ![f] = NoFuture]
    /\ futures' = [futures EXCEPT ![future[f].hint] = None]
    /\ UNCHANGED <<cache, executor, made, asking, stopping>>

\* _tokenizer_future_done: the entry is removed only if it is still this future.
Complete(f) ==
    LET h == future[f].hint
    IN /\ future[f].state \in {"finished", "cancelled"} /\ future[f].attached
       /\ future' = [future EXCEPT ![f] = NoFuture]
       /\ IF futures[h] = f
          THEN /\ futures' = [futures EXCEPT ![h] = None]
               /\ cache' = IF future[f].value = "tokenizer"
                           THEN [cache EXCEPT ![h] = "tokenizer"] ELSE cache
          ELSE UNCHANGED <<futures, cache>>
       /\ UNCHANGED <<executor, made, asking, stopping>>

-----------------------------------------------------------------------------
\* shutdown_tokenizer_preloads, under the lock.
Stop ==
    /\ stopping = NoPool /\ executor # NoPool /\ made <= MaxStops
    /\ stopping' = executor
    /\ executor' = NoPool
    /\ UNCHANGED <<cache, futures, made, future, asking>>

\* _clear_hf_tokenizer_cache, under the lock: the tables are emptied as well.
Clear ==
    /\ stopping = NoPool /\ executor # NoPool /\ made <= MaxStops
    /\ stopping' = executor
    /\ executor' = NoPool
    /\ cache' = [h \in Hint |-> "absent"]
    /\ futures' = [h \in Hint |-> None]
    /\ future' = [f \in Future |-> [future[f] EXCEPT !.cleared = @ \/ f \in Range(futures)]]
    /\ UNCHANGED <<made, asking>>

\* executor.shutdown(wait=False, cancel_futures=True), the lock released: what
\* no thread has taken is cancelled, what runs goes on.
ShutDown ==
    /\ stopping # NoPool
    /\ stopping' = NoPool
    /\ future' = [f \in Future |->
                    IF future[f].state = "pending" /\ future[f].pool = stopping
                    THEN [future[f] EXCEPT !.state = "cancelled"] ELSE future[f]]
    /\ UNCHANGED <<cache, futures, executor, made, asking>>

PreloadNext ==
    \/ \E c \in Caller :
          Schedule(c) \/ Attach(c) \/ \E h \in Hint : LoadTokenizer(c, h) \/ Discover(c, h)
    \/ \E f \in Future :
          Start(f) \/ LoadSucceeds(f) \/ LoadFails(f) \/ SetResult(f) \/ Complete(f)
    \/ Stop \/ Clear \/ ShutDown

(***************************************************************************)
(* Threads run; every hint goes on being asked for, and one that is loaded   *)
(* often enough is loaded in the end.                                       *)
(***************************************************************************)
PreloadSpec ==
    /\ PreloadInit /\ [][PreloadNext]_preloadVars
    /\ \A c \in Caller : WF_preloadVars(Schedule(c)) /\ WF_preloadVars(Attach(c))
    /\ \A f \in Future : WF_preloadVars(Start(f) \/ SetResult(f) \/ Complete(f))
    /\ \A f \in Future : WF_preloadVars(LoadSucceeds(f) \/ LoadFails(f))
    /\ \A h \in Hint : SF_preloadVars(\E c \in Caller : LoadTokenizer(c, h))
    /\ \A h \in Hint : SF_preloadVars(\E f \in Future : future[f].hint = h /\ LoadSucceeds(f))
    /\ WF_preloadVars(ShutDown)

-----------------------------------------------------------------------------
PreloadTypeOK ==
    /\ cache \in [Hint -> {"tokenizer", "absent"}]
    /\ futures \in [Hint -> Future \cup {None}]
    /\ executor \in Pool \cup {NoPool}
    /\ made \in 0..(MaxStops + 1)
    /\ future \in [Future -> [state : State, hint : Hint \cup {None}, pool : Pool \cup {NoPool},
                              value : {None, "tokenizer"}, attached : BOOLEAN,
                              cleared : BOOLEAN]]
    /\ asking \in [Caller -> [at : {"idle", "schedule", "attach"}, hint : Hint \cup {None},
                              future : Future \cup {None}]]
    /\ stopping \in Pool \cup {NoPool}

(***************************************************************************)
(* "Tokenizer preload scheduling now uses an atomic check+submit section to  *)
(* prevent duplicate preload submissions" (CHANGELOG.md): however callers,   *)
(* callbacks and shutdowns interleave, no hint has two loads under way.      *)
(* Only a load that was running when the tables were cleared may have a      *)
(* successor beside it.                                                     *)
(***************************************************************************)
NoDuplicateLoads ==
    \A f, g \in Future :
        /\ f # g /\ Unfinished(f) /\ Unfinished(g) /\ future[f].hint = future[g].hint
        => future[f].cleared \/ future[g].cleared

(***************************************************************************)
(* An entry of the table is a future of its own hint whose callback is still *)
(* to run: an entry nobody would remove would be taken for a load under way  *)
(* or keep a finished one for ever.                                         *)
(***************************************************************************)
EntriesWillGo ==
    \A h \in Hint : futures[h] # None =>
        /\ future[futures[h]].hint = h
        /\ \/ future[futures[h]].attached
           \/ \E c \in Caller : asking[c].at = "attach" /\ asking[c].future = futures[h]

(***************************************************************************)
(* A failed or cancelled load is not final: as long as a hint is asked for   *)
(* its tokenizer is in the cache sooner or later, again after a shutdown and *)
(* after the cache was cleared.                                             *)
(***************************************************************************)
EventuallyCached == \A h \in Hint : []<>(cache[h] = "tokenizer")

\* The tables of loads stay sound: no load twice, no entry left behind, and only
\* tokenizers in the cache.
PreloadInv == PreloadTypeOK /\ NoDuplicateLoads /\ EntriesWillGo
=============================================================================
