----------------------------- MODULE ChatRequest -----------------------------
(***************************************************************************)
(* One POST /v1/chat/completions of src/proxy.py: the bounded failover loop *)
(* of chat_completions() over the candidates pick_candidates() returned,    *)
(* and, for a streamed request, _relay_stream() with its finally clause.    *)
(*                                                                          *)
(* Every await is a step of its own, so that between two of them the client *)
(* may disconnect, the stream's total deadline may pass, and a settings     *)
(* reload may change the provider registry.  A yield of _relay_stream() is   *)
(* one more such place: the generator stays suspended there, with no         *)
(* deadline running, until the client has read or has gone.                  *)
(*                                                                          *)
(* A candidate is its attempt_index + 1.  Providers are arbitrary: at every *)
(* await they answer, raise an error of any category, or stay silent.       *)
(***************************************************************************)
EXTENDS Naturals, Sequences

CONSTANT MaxAttempts    \* routing_max_attempts, the limit of pick_candidates()

ASSUME MaxAttemptsAssumption == MaxAttempts \in Nat \ {0}

Category == {"AUTH_ERROR", "INVALID_REQUEST", "RATE_LIMITED",
             "PROVIDER_UNAVAILABLE", "CONTEXT_EXCEEDED"}

\* RETRYABLE_ERROR_CATEGORIES; categorize_error() returns exactly these as
\* retryable, in both adapters.
Retryable == {"RATE_LIMITED", "PROVIDER_UNAVAILABLE", "CONTEXT_EXCEEDED"}

None == "none"

\* What _parse_stream_event() tells apart in a non-comment event: a payload, the
\* [DONE] marker, or an error payload of some category.
Event == {"data", "done"} \union Category

VARIABLES
    streaming,    \* req.requires_streaming
    candidates,   \* how many candidates were returned; 0 is NoHealthyModelsError
    registry,     \* per candidate, what its provider is in the ProviderRegistry
    connected,    \* the client has not disconnected
    late,         \* gateway_stream_total_timeout_seconds have passed
    pc,           \* where the request is
    idx,          \* the candidate being tried
    lastCategory, \* last_provider_error.category
    allContext,   \* all_failures_context_exceeded
    first,        \* first_event, once the stream has started
    streamError,  \* category of stream_error
    doneSeen,     \* done_seen
    sent,         \* what was yielded to the client: pairs <<candidate, event>>
    status,       \* the HTTP status of the response
    contacted,    \* candidates whose provider was called
    marks,        \* calls of mark_success() and mark_failure(), in order
    logs          \* calls of db.log_request(), in order

vars == <<streaming, candidates, registry, connected, late, pc, idx,
          lastCategory, allContext, first, streamError, doneSeen, sent, status,
          contacted, marks, logs>>

inputs == <<streaming, candidates>>
world == <<registry, connected, late>>
loop == <<idx, lastCategory, allContext>>
stream == <<first, streamError, doneSeen, sent>>
effects == <<contacted, marks, logs>>

Candidate == 1..MaxAttempts
RegistryState == {"enabled", "disabled", "absent"}

\* The states of chat_completions(), then those of _relay_stream().
PC == {"select", "attempt", "waiting", "connecting", "first",
       "relayFirst", "relay", "yield", "finally", "yieldDone", "settle", "done"}

\* _relay_stream() is suspended at a yield.
Suspended == pc \in {"yield", "yieldDone"}

Init ==
    /\ streaming \in BOOLEAN
    /\ candidates \in 0..MaxAttempts
    /\ registry = [i \in Candidate |-> "enabled"]
    /\ connected = TRUE
    /\ late = FALSE
    /\ pc = "select"
    /\ idx = 1
    /\ lastCategory = None
    /\ allContext = TRUE
    /\ first = None
    /\ streamError = None
    /\ doneSeen = FALSE
    /\ sent = {}
    /\ status = 0
    /\ contacted = {}
    /\ marks = <<>>
    /\ logs = <<>>

Mark(ok) == [candidate |-> idx, ok |-> ok]
LogRow(ok, category) == [candidate |-> idx, ok |-> ok, category |-> category]

Respond(code) == pc' = "done" /\ status' = code

\* _provider_error_status(); AUTH_ERROR keeps the provider's own 401, 402 or 403.
ProviderErrorStatus(category) ==
    CASE category = "AUTH_ERROR" -> 401
      [] category \in {"INVALID_REQUEST", "CONTEXT_EXCEEDED"} -> 400
      [] category = "RATE_LIMITED" -> 429
      [] OTHER -> 502

-------------------------------------------------------------------------------
\* chat_completions(): selection and the failover loop

Select ==
    /\ pc = "select"
    /\ IF candidates = 0
       THEN Respond(503)
       ELSE pc' = "attempt" /\ UNCHANGED status
    /\ UNCHANGED <<inputs, world, loop, stream, effects>>

\* registry.get() is outside the try: a KeyError is not a failed attempt, it ends
\* the request.
AttemptUnregistered ==
    /\ pc = "attempt"
    /\ idx <= candidates
    /\ registry[idx] # "enabled"
    /\ Respond(500)
    /\ UNCHANGED <<inputs, world, loop, stream, effects>>

AttemptContact ==
    /\ pc = "attempt"
    /\ idx <= candidates
    /\ registry[idx] = "enabled"
    /\ ~(streaming /\ late)
    /\ contacted' = contacted \union {idx}
    /\ pc' = IF streaming THEN "connecting" ELSE "waiting"
    /\ UNCHANGED <<inputs, world, loop, stream, status, marks, logs>>

\* all_failures_context_exceeded assigned instead of and-ed.
NextCandidateLastOnly(category) ==
    /\ lastCategory' = category
    /\ allContext' = (category = "CONTEXT_EXCEEDED")
    /\ logs' = Append(logs, LogRow(FALSE, category))
    /\ idx' = idx + 1
    /\ pc' = "attempt"
    /\ UNCHANGED <<inputs, world, stream, status, contacted>>

\* The part every handled failure has in common: remember it, log it, go on.
NextCandidate(category) ==
    /\ lastCategory' = category
    /\ allContext' = (allContext /\ category = "CONTEXT_EXCEEDED")
    /\ logs' = Append(logs, LogRow(FALSE, category))
    /\ idx' = idx + 1
    /\ pc' = "attempt"
    /\ UNCHANGED <<inputs, world, stream, status, contacted>>

\* except Exception and except StopAsyncIteration: TimeoutError and anything else
\* the attempt raises, or a stream that ends before its first event.
AttemptException ==
    /\ \/ pc \in {"waiting", "connecting", "first"}
       \/ /\ pc = "attempt"         \* the deadline was spent by earlier candidates
          /\ idx <= candidates
          /\ registry[idx] = "enabled"
          /\ streaming /\ late
    /\ marks' = Append(marks, Mark(FALSE))
    /\ NextCandidate("PROVIDER_UNAVAILABLE")

\* except ProviderError, retryable: a context failure is no health penalty.
AttemptRetryable(category) ==
    /\ pc \in {"waiting", "connecting", "first"}
    /\ category \in Retryable
    /\ marks' = IF category = "CONTEXT_EXCEEDED" THEN marks
                ELSE Append(marks, Mark(FALSE))
    /\ NextCandidate(category)

\* The early return without its _log_failure().
AttemptFatalUnlogged(category) ==
    /\ pc \in {"waiting", "connecting", "first"}
    /\ category \notin Retryable
    /\ lastCategory' = category
    /\ Respond(ProviderErrorStatus(category))
    /\ UNCHANGED <<inputs, world, idx, allContext, stream, contacted, marks, logs>>

\* except ProviderError, not retryable: the request ends here.
AttemptFatal(category) ==
    /\ pc \in {"waiting", "connecting", "first"}
    /\ category \notin Retryable
    /\ lastCategory' = category
    /\ logs' = Append(logs, LogRow(FALSE, category))
    /\ Respond(ProviderErrorStatus(category))
    /\ UNCHANGED <<inputs, world, idx, allContext, stream, contacted, marks>>

AttemptSucceeds ==
    /\ pc = "waiting"
    /\ marks' = Append(marks, Mark(TRUE))
    /\ logs' = Append(logs, LogRow(TRUE, None))
    /\ Respond(200)
    /\ UNCHANGED <<inputs, world, loop, stream, contacted>>

AttemptConnected ==
    /\ pc = "connecting"
    /\ pc' = "first"
    /\ UNCHANGED <<inputs, world, loop, stream, status, effects>>

\* The first event that is not a comment starts the response; from here on there
\* is no way back into the loop.
FirstEvent(event) ==
    /\ pc = "first"
    /\ first' = event
    /\ status' = 200
    /\ pc' = "relayFirst"
    /\ UNCHANGED <<inputs, world, loop, streamError, doneSeen, sent, effects>>

Exhausted ==
    /\ pc = "attempt"
    /\ idx > candidates
    /\ Respond(IF lastCategory = "CONTEXT_EXCEEDED" /\ allContext THEN 400 ELSE 502)
    /\ UNCHANGED <<inputs, world, loop, stream, effects>>

-------------------------------------------------------------------------------
\* _relay_stream()

\* An error payload is categorised through the registry: get_registered() raises
\* KeyError when a reload has removed the provider.
CategoryOf(event) ==
    IF registry[idx] = "absent" THEN "PROVIDER_UNAVAILABLE" ELSE event

\* Before the try: a KeyError here leaves the generator, with no log at all.
RelayFirst ==
    /\ pc = "relayFirst"
    /\ IF first \in Category /\ registry[idx] = "absent"
       THEN pc' = "done" /\ UNCHANGED <<streamError, doneSeen, sent>>
       ELSE /\ pc' = IF connected THEN "yield" ELSE "relay"
            /\ streamError' = IF first \in Category THEN first ELSE None
            /\ doneSeen' = (first = "done")
            /\ sent' = IF connected THEN sent \union {<<idx, first>>} ELSE sent
    /\ UNCHANGED <<inputs, world, loop, first, status, effects>>

\* A KeyError of categorize_error() is caught here, so the event is not relayed.
RelayEvent(event) ==
    /\ pc = "relay"
    /\ ~late
    /\ connected
    /\ IF event \in Category /\ registry[idx] = "absent"
       THEN pc' = "finally" /\ UNCHANGED sent
       ELSE pc' = "yield" /\ sent' = sent \union {<<idx, event>>}
    /\ streamError' = IF event \in Category THEN CategoryOf(event) ELSE streamError
    /\ doneSeen' = (doneSeen \/ event = "done")
    /\ UNCHANGED <<inputs, world, loop, first, status, effects>>

\* The client reads what was yielded; after a disconnect send() returns as well.
YieldResumes ==
    /\ Suspended
    /\ pc' = IF pc = "yield" THEN "relay" ELSE "settle"
    /\ UNCHANGED <<inputs, world, loop, stream, status, effects>>

\* The client goes away: the response is cancelled and the generator closed where it is.
YieldDropped ==
    /\ Suspended
    /\ ~connected
    /\ pc' = IF pc = "yield" THEN "finally" ELSE "done"
    /\ UNCHANGED <<inputs, world, loop, stream, status, effects>>

\* StopAsyncIteration, or the break after is_disconnected(), or the cancellation
\* of the response when the client goes away.
RelayEnd ==
    /\ pc = "relay"
    /\ ~late \/ ~connected
    /\ pc' = "finally"
    /\ UNCHANGED <<inputs, world, loop, stream, status, effects>>

\* A broken stream goes back to the failover loop.
RelayFailsOver ==
    /\ pc = "relay"
    /\ pc' = "attempt"
    /\ idx' = idx + 1
    /\ UNCHANGED <<inputs, world, lastCategory, allContext, stream, status, effects>>

\* The idle timeout only: a provider that is silent after the deadline is waited for.
RelayNoDeadline ==
    /\ pc = "relay"
    /\ ~late
    /\ streamError' = "PROVIDER_UNAVAILABLE"
    /\ pc' = "finally"
    /\ UNCHANGED <<inputs, world, loop, first, doneSeen, sent, status, effects>>

\* The idle timeout, the total deadline, an oversized event, a transport error or
\* any other exception of the provider's generator.
RelayBreaks ==
    /\ pc = "relay"
    /\ streamError' = "PROVIDER_UNAVAILABLE"
    /\ pc' = "finally"
    /\ UNCHANGED <<inputs, world, loop, first, doneSeen, sent, status, effects>>

\* The missing [DONE] is not made up for.
FinallyWithoutDone ==
    /\ pc = "finally"
    /\ streamError = None /\ connected
    /\ pc' = "settle"
    /\ UNCHANGED <<inputs, world, loop, stream, status, effects>>

\* finally: a clean end first sends the [DONE] the provider left out ...
FinallyDone ==
    /\ pc = "finally"
    /\ streamError = None /\ connected
    /\ sent' = IF doneSeen THEN sent ELSE sent \union {<<idx, "done">>}
    /\ pc' = IF doneSeen THEN "settle" ELSE "yieldDone"
    /\ UNCHANGED <<inputs, world, loop, first, streamError, doneSeen, status,
                   effects>>

\* ... and is a success only once that was sent.
Settle ==
    /\ pc = "settle"
    /\ marks' = Append(marks, Mark(TRUE))
    /\ logs' = Append(logs, LogRow(TRUE, None))
    /\ pc' = "done"
    /\ UNCHANGED <<inputs, world, loop, stream, status, contacted>>

FinallyDisconnected ==
    /\ pc = "finally"
    /\ streamError = None /\ ~connected
    /\ pc' = "done"
    /\ UNCHANGED <<inputs, world, loop, stream, status, effects>>

\* A failed stream is logged; every retryable category is a health penalty here.
FinallyError ==
    /\ pc = "finally"
    /\ streamError # None
    /\ marks' = IF streamError \in Retryable THEN Append(marks, Mark(FALSE)) ELSE marks
    /\ logs' = Append(logs, LogRow(FALSE, streamError))
    /\ pc' = "done"
    /\ UNCHANGED <<inputs, world, loop, stream, status, contacted>>

-------------------------------------------------------------------------------
\* What happens around the request

ClientDisconnects ==
    /\ pc # "done"
    /\ connected
    /\ connected' = FALSE
    /\ UNCHANGED <<inputs, registry, late, pc, loop, stream, status, effects>>

DeadlinePasses ==
    /\ pc # "done"
    /\ ~late
    /\ late' = TRUE
    /\ UNCHANGED <<inputs, registry, connected, pc, loop, stream, status, effects>>

\* A reload disables a provider, or empties the registry before refilling it.
RegistryChanges(i, state) ==
    /\ pc # "done"
    /\ registry[i] # state
    /\ registry' = [registry EXCEPT ![i] = state]
    /\ UNCHANGED <<inputs, connected, late, pc, loop, stream, status, effects>>

-------------------------------------------------------------------------------
Attempt ==
    \/ Select
    \/ AttemptUnregistered
    \/ AttemptContact
    \/ AttemptException
    \/ \E category \in Category : AttemptRetryable(category) \/ AttemptFatal(category)
    \/ AttemptSucceeds
    \/ AttemptConnected
    \/ \E event \in Event : FirstEvent(event)
    \/ Exhausted

Relay ==
    \/ RelayFirst
    \/ \E event \in Event : RelayEvent(event)
    \/ YieldResumes
    \/ YieldDropped
    \/ RelayEnd
    \/ RelayBreaks
    \/ FinallyDone
    \/ Settle
    \/ FinallyDisconnected
    \/ FinallyError

Next ==
    \/ Attempt
    \/ Relay
    \/ ClientDisconnects
    \/ DeadlinePasses
    \/ \E i \in Candidate, state \in RegistryState : RegistryChanges(i, state)

Spec == Init /\ [][Next]_vars

(***************************************************************************)
(* The event loop keeps running the request; time passes, so the total      *)
(* deadline is reached; every wait has a timeout (httpx's for a request     *)
(* without streaming, asyncio.wait_for's for a stream), so that it ends      *)
(* with an exception at the latest.  A provider need never answer.  A client *)
(* need never read: a suspended yield is resumed or closed only once it has   *)
(* disconnected, which nothing forces it to do.                               *)
(***************************************************************************)
Fairness ==
    /\ WF_vars(pc \in {"select", "attempt"} /\ Attempt)
    /\ WF_vars(AttemptException)
    /\ WF_vars(DeadlinePasses)
    /\ WF_vars(RelayFirst)
    /\ WF_vars(late /\ RelayBreaks)
    /\ WF_vars(~connected /\ (YieldResumes \/ YieldDropped))
    /\ WF_vars(FinallyDone \/ Settle \/ FinallyDisconnected \/ FinallyError)

FairSpec == Spec /\ Fairness

-------------------------------------------------------------------------------
Row == [candidate : Candidate, ok : BOOLEAN, category : Category \union {None}]

TypeOK ==
    /\ streaming \in BOOLEAN
    /\ candidates \in 0..MaxAttempts
    /\ registry \in [Candidate -> RegistryState]
    /\ connected \in BOOLEAN
    /\ late \in BOOLEAN
    /\ pc \in PC
    /\ idx \in 1..(MaxAttempts + 1)
    /\ lastCategory \in Category \union {None}
    /\ allContext \in BOOLEAN
    /\ first \in Event \union {None}
    /\ streamError \in Category \union {None}
    /\ doneSeen \in BOOLEAN
    /\ sent \subseteq Candidate \X Event
    /\ status \in {0, 200, 400, 401, 500, 502, 503}
    /\ contacted \subseteq Candidate
    /\ marks \in Seq([candidate : Candidate, ok : BOOLEAN])
    /\ logs \in Seq(Row)

Rows(s, i) == {k \in DOMAIN s : s[k].candidate = i}

\* One entry per candidate at most, and in the order of the candidates.
InOrder(s) == \A j, k \in DOMAIN s : j < k => s[j].candidate < s[k].candidate

\* "Failover is bounded and does not replay a partially emitted stream"
\* (docs/architecture.md): once the client has received anything, no further
\* provider is called, and all it received comes from one candidate.
NoReplay ==
    [][sent # {} => /\ contacted' = contacted
                    /\ \A e \in sent' : \A d \in sent : e[1] = d[1]]_vars

\* Every attempt leaves exactly one telemetry row and at most one health mark, in
\* the order of the attempts; the last attempt leaves none only if the client
\* disconnected or the provider was taken out of the registry under the request.
AttemptsAccounted ==
    /\ InOrder(logs) /\ InOrder(marks)
    /\ pc = "done" => \A i \in contacted :
          \/ Rows(logs, i) # {}
          \/ i = idx /\ streaming /\ (~connected \/ registry[i] = "absent")

\* "A context-only exhaustion is reported as a client 400" (docs/architecture.md),
\* and only that: when every candidate was tried and failed in a way the loop goes
\* on after, the answer is 400 exactly if every one of them ran out of context.
ContextOnlyIs400 ==
    (pc = "done" /\ candidates > 0 /\ idx > candidates)
       => (status = 400 <=> \A i \in DOMAIN logs : logs[i].category = "CONTEXT_EXCEEDED")

\* A stream is recorded as a success, in the telemetry and in the model's health,
\* only if the client was sent a [DONE] and no error event.
SuccessMeansTerminated ==
    \A i \in DOMAIN logs :
        streaming /\ logs[i].ok
           => /\ <<logs[i].candidate, "done">> \in sent
              /\ \A e \in sent : e[2] \notin Category

\* "context failures do not penalize provider health" (docs/architecture.md): while
\* nothing has been sent, failing over for lack of context costs the candidates
\* that were passed over nothing.
ContextFailoverIsFree ==
    \A i \in DOMAIN logs :
        logs[i].category = "CONTEXT_EXCEEDED" /\ sent = {} /\ first = None
           => Rows(marks, logs[i].candidate) = {}

\* Whatever the providers do, the request ends: a silent or endless stream is cut off by
\* its deadline.  The one thing that keeps it open is the client: the deadline is looked
\* at between two yields, so a connected client that stops reading holds the request.
Terminates == <>(pc = "done") \/ <>[](Suspended /\ connected)

\* What a request does about its candidates' errors: every variable has its type, the
\* status tells a lack of context from other failures, and failing over for lack of
\* context is free.
RequestInv == TypeOK /\ ContextOnlyIs400 /\ ContextFailoverIsFree
===============================================================================
