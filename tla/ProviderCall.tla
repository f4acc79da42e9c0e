---------------------------- MODULE ProviderCall ----------------------------
(***************************************************************************)
(* One call of a provider adapter: src/providers/openrouter.py, and          *)
(* src/providers/openai_compatible.py, which every other adapter inherits.   *)
(* A call opens an HTTP client, asks the provider, possibly several times,   *)
(* and ends with a result, a normalised ProviderError, any other exception,  *)
(* or, when it streams, with a generator of server-sent events that cuts the *)
(* bytes it receives into lines and the lines into events.  The caller of a  *)
(* stream (src/proxy.py) asks for one event at a time and may stop asking.   *)
(*                                                                         *)
(* A byte is "x" (a character of its own), ":", "CR", "LF", or the "lead" or *)
(* the "trail" of a character of two bytes.  The development stub of        *)
(* openrouter.py, which asks no provider, is left out.                      *)
(***************************************************************************)
EXTENDS Naturals, Sequences, FiniteSets, SequencesExt

CONSTANTS
    Status,       \* the HTTP statuses a provider answers with
    MaxRetries,   \* max_retries, 3 in either adapter
    MaxEvent,     \* max_sse_event_bytes
    MaxBody,      \* bound: the bytes of one stream
    MaxChunk      \* bound: the bytes that arrive together

ASSUME RetriesAssumption == MaxRetries \in Nat \ {0}
ASSUME BoundsAssumption == MaxEvent \in Nat /\ MaxBody \in Nat /\ MaxChunk \in Nat

VARIABLES
    call,       \* the call: its adapter, what it asks for, the adapter's key
    pc,         \* where the call is
    errors,     \* history: how each failed request failed
    outcome,    \* what the caller gets
    client,     \* is the HTTP client, with its connection, open?
    received,   \* history: the bytes of the stream so far
    buffer,     \* line_buffer
    pending,    \* pending_lines
    pendingBytes, \* pending_bytes
    eof,        \* has the stream ended?
    relayed     \* the events yielded

stream == <<received, buffer, pending, pendingBytes, eof, relayed>>
vars == <<call, pc, errors, outcome, client, stream>>

Byte == {"x", ":", "CR", "LF", "lead", "trail"}
\* A decoded line keeps the bytes of its characters; U+FFFD stands for one that is not
\* part of a character.
Char == Byte \cup {"FFFD"}
Category == {"RATE_LIMITED", "PROVIDER_UNAVAILABLE", "INVALID_REQUEST", "AUTH_ERROR",
             "CONTEXT_EXCEEDED"}
\* RETRYABLE_ERROR_CATEGORIES.  Both adapters raise ProviderRetryableError for
\* exactly these and ProviderFatalError for the others.
RETRYABLE == {"RATE_LIMITED", "PROVIDER_UNAVAILABLE", "CONTEXT_EXCEEDED"}

Adapter == {"openai_compatible", "openrouter"}
Call == [adapter : Adapter, asks : {"chat", "discover", "stream"}, key : {"set", "none"}]
Outcome == Category \cup {"none", "result", "exception", "cancelled"}

(***************************************************************************)
(* What a provider answers: a status, a body and what the body says went    *)
(* wrong.  "json" is a JSON object, "nulls" one with null for its usage or   *)
(* its data, "value" any other JSON.  An error object has a code and a      *)
(* message; other text is itself the message, in which the adapters find    *)
(* two of the hints.                                                        *)
(***************************************************************************)
Hint == {"context", "rate", "auth", "invalid", "unavailable", "none"}
Reply == {r \in [status : Status, hint : Hint,
                 body : {"json", "nulls", "text", "value", "empty", "oversized"}] :
            /\ r.body = "text" => r.hint \in {"context", "rate", "none"}
            /\ r.body \notin {"json", "text"} => r.hint = "none"}

AUTH_STATUS == [openai_compatible |-> {401, 402, 403}, openrouter |-> {401, 402}]
INVALID_STATUS == [openai_compatible |-> {400, 404, 405, 409, 422},
                   openrouter |-> {400, 403, 404}]
UNAVAILABLE_STATUS == [openai_compatible |-> {408, 425, 500, 502, 503, 504},
                       openrouter |-> {408, 409, 425, 500, 502, 503, 504}]

\* categorize_openai_compatible_error and categorize_openrouter_error: the
\* first of their tests that succeeds.
CategorizeError(adapter, status, hint) ==
    IF hint = "context" THEN "CONTEXT_EXCEEDED"
    ELSE IF status = 429 \/ hint = "rate" THEN "RATE_LIMITED"
    ELSE IF status \in AUTH_STATUS[adapter] \/ hint = "auth" THEN "AUTH_ERROR"
    ELSE IF status \in INVALID_STATUS[adapter] \/ hint = "invalid" THEN "INVALID_REQUEST"
    ELSE IF \/ status \in UNAVAILABLE_STATUS[adapter]
            \/ hint = "unavailable"
            \/ status >= 500 THEN "PROVIDER_UNAVAILABLE"
    ELSE "INVALID_REQUEST"

\* _raise_for_response with _extract_error_details.  The OpenRouter adapter
\* takes the body for an object without looking.
ErrorOf(adapter, r) ==
    IF r.body = "oversized" THEN "PROVIDER_UNAVAILABLE"
    ELSE IF adapter = "openrouter" /\ r.body = "value" THEN "exception"
    ELSE CategorizeError(adapter, r.status, r.hint)

\* What is made of the body of an accepted response: _parse_json, or
\* response.json() and payload.get().  The OpenRouter adapter trusts the body to be an
\* object whose usage is an object and whose data is a list.
ParseOf(adapter, r) ==
    CASE r.body = "json" -> "result"
      [] r.body \in {"nulls", "value"} ->
            IF adapter = "openrouter" THEN "exception" ELSE "result"
      [] OTHER -> IF adapter = "openrouter" THEN "exception" ELSE "PROVIDER_UNAVAILABLE"

-----------------------------------------------------------------------------
Init ==
    /\ call \in Call
    /\ pc = "start"
    /\ errors = <<>>
    /\ outcome = "none"
    /\ client = FALSE
    /\ received = <<>>
    /\ buffer = <<>>
    /\ pending = <<>>
    /\ pendingBytes = 0
    /\ eof = FALSE
    /\ relayed = <<>>

\* The call is over: whatever it held is closed.
End(o) ==
    /\ pc' = "over"
    /\ outcome' = o
    /\ client' = FALSE

\* _assert_api_key, and the OpenRouter adapter's own checks.
CheckKey ==
    /\ pc = "start"
    /\ IF call.key = "none" THEN End("AUTH_ERROR")
                            ELSE pc' = "send" /\ UNCHANGED <<outcome, client>>
    /\ UNCHANGED <<call, errors, stream>>

\* The client is opened and the request goes out.
Send ==
    /\ pc = "send"
    /\ pc' = "asked"
    /\ client' = TRUE
    /\ UNCHANGED <<call, errors, outcome, stream>>

RetryAny(e) == Len(errors) + 1 < MaxRetries

MayRetry(e) == e \in RETRYABLE /\ Len(errors) + 1 < MaxRetries

\* The end of one turn of the loop of _request_with_retries that has failed:
\* the client is closed, a retryable error is kept and the next turn begins,
\* any other leaves the loop.
FailAttempt(e) ==
    /\ errors' = Append(errors, e)
    /\ IF MayRetry(e) THEN pc' = "send" /\ client' = FALSE /\ UNCHANGED outcome
                      ELSE End(e)
    /\ UNCHANGED <<call, stream>>

\* A whole response to a request that does not stream.
Respond(r) ==
    /\ pc = "asked" /\ call.asks # "stream"
    /\ IF r.status >= 400 \/ r.body = "oversized"
       THEN FailAttempt(ErrorOf(call.adapter, r))
       ELSE LET o == ParseOf(call.adapter, r)
            IN /\ End(o)
               /\ errors' = IF o = "result" THEN errors ELSE Append(errors, o)
               /\ UNCHANGED <<call, stream>>

\* httpx.TimeoutException, httpx.HTTPError.
RequestBreaks ==
    /\ pc = "asked" /\ call.asks # "stream"
    /\ FailAttempt("PROVIDER_UNAVAILABLE")

\* stream_chat_completions: the response's head, and for an error its body.
OpenStream(r) ==
    /\ pc = "asked" /\ call.asks = "stream"
    /\ IF r.status >= 400
       THEN /\ End(ErrorOf(call.adapter, r))
            /\ errors' = Append(errors, ErrorOf(call.adapter, r))
       ELSE /\ pc' = "suspended"
            /\ UNCHANGED <<errors, outcome, client>>
    /\ UNCHANGED <<call, stream>>

\* client.send fails; its exception is not made a ProviderError.
OpenBreaks ==
    /\ pc = "asked" /\ call.asks = "stream"
    /\ End("exception")
    /\ errors' = Append(errors, "exception")
    /\ UNCHANGED <<call, stream>>

-----------------------------------------------------------------------------
(* event_stream()                                                          *)

StripCR(line) == IF line # <<>> /\ Last(line) = "CR" THEN Front(line) ELSE line
\* line.decode("utf-8", errors="replace")
Whole(line, i) ==
    \/ line[i] = "lead" /\ i < Len(line) /\ line[i + 1] = "trail"
    \/ line[i] = "trail" /\ i > 1 /\ line[i - 1] = "lead"

Decode(line) ==
    [i \in DOMAIN line |->
        IF line[i] \in {"lead", "trail"} /\ ~Whole(line, i) THEN "FFFD" ELSE line[i]]

FirstLF == CHOOSE i \in 1..Len(buffer) : buffer[i] = "LF" /\ \A j \in 1..(i - 1) : buffer[j] # "LF"

\* An error of the generator, raised to whoever asked for the event.
StreamFails(e) ==
    /\ End(e)
    /\ errors' = Append(errors, e)
    /\ UNCHANGED <<call, stream>>

YieldKeepingSize(lines) ==
    /\ relayed' = Append(relayed, lines)
    /\ pending' = <<>>
    /\ UNCHANGED pendingBytes
    /\ pc' = "suspended"
    /\ UNCHANGED <<call, errors, outcome, client, received>>

\* yield: the caller has the event, the generator waits to be asked again.  The lines
\* are encoded again, each with its end, and an empty line follows: see WireBytes.
Yield(lines) ==
    /\ relayed' = Append(relayed, lines)
    /\ pending' = <<>>
    /\ pendingBytes' = 0
    /\ pc' = "suspended"
    /\ UNCHANGED <<call, errors, outcome, client, received>>

\* anext(): the generator runs on from its yield; after the last one it ends.
Anext ==
    /\ pc = "suspended"
    /\ IF eof THEN End("result") ELSE pc' = "lines" /\ UNCHANGED <<outcome, client>>
    /\ UNCHANGED <<call, errors, stream>>

\* A chunk arrives.
Receive(chunk) ==
    /\ pc = "reading"
    /\ Len(received) + Len(chunk) <= MaxBody
    /\ received' = received \o chunk
    /\ buffer' = buffer \o chunk
    /\ pc' = "lines"
    /\ UNCHANGED <<call, errors, outcome, client, pending, pendingBytes, eof, relayed>>

\* What is counted is the line as it came.
KeepLine(line) ==
    /\ pending' = Append(pending, Decode(line))
    /\ pendingBytes' = pendingBytes + Len(line) + 1
    /\ UNCHANGED <<call, pc, errors, outcome, client, received, eof, relayed>>

SkipLine == UNCHANGED <<call, pc, errors, outcome, client, received, pending, pendingBytes, eof, relayed>>

LineAtYieldDropsRest(line, rest) ==
    \/ /\ line = <<>> /\ pending # <<>>
       /\ buffer' = <<>> /\ UNCHANGED eof
       /\ Yield(pending)
    \/ /\ IF line = <<>> THEN pending = <<>> ELSE line[1] = ":"
       /\ buffer' = rest
       /\ SkipLine
    \/ /\ line # <<>> /\ line[1] # ":"
       /\ buffer' = rest
       /\ KeepLine(line)

\* The first line of the buffer, with what is left after it.
Line(line, rest) ==
    IF Len(line) > MaxEvent THEN StreamFails("PROVIDER_UNAVAILABLE")
    ELSE \/ /\ line = <<>> /\ pending # <<>>
            /\ buffer' = rest /\ UNCHANGED eof
            /\ Yield(pending)
         \/ /\ IF line = <<>> THEN pending = <<>> ELSE line[1] = ":"
            /\ buffer' = rest
            /\ SkipLine
         \/ /\ line # <<>> /\ line[1] # ":"
            /\ IF pendingBytes + Len(line) + 1 > MaxEvent
               THEN StreamFails("PROVIDER_UNAVAILABLE")
               ELSE buffer' = rest /\ KeepLine(line)

\* The inner loop: the next line of the buffer.
TakeLine ==
    /\ pc = "lines" /\ "LF" \in Range(buffer)
    /\ Line(StripCR(SubSeq(buffer, 1, FirstLF - 1)), SubSeq(buffer, FirstLF + 1, Len(buffer)))

AwaitChunkUnlimited ==
    /\ pc = "lines" /\ "LF" \notin Range(buffer)
    /\ pc' = "reading"
    /\ UNCHANGED <<call, errors, outcome, client, stream>>

\* After it: the buffer holds the beginning of a line; the next chunk is awaited.
AwaitChunk ==
    /\ pc = "lines" /\ "LF" \notin Range(buffer)
    /\ IF Len(buffer) > MaxEvent
       THEN StreamFails("PROVIDER_UNAVAILABLE")
       ELSE pc' = "reading" /\ UNCHANGED <<call, errors, outcome, client, stream>>

\* What is pending when the provider ends the stream, a last line that nothing
\* ends included, which is kept whether or not it is a comment.
LastEvent == IF buffer = <<>> THEN pending ELSE Append(pending, Decode(StripCR(buffer)))

EndOfStream ==
    /\ pc = "reading"
    /\ IF buffer # <<>> /\ pendingBytes + Len(StripCR(buffer)) + 1 > MaxEvent
       THEN StreamFails("PROVIDER_UNAVAILABLE")
       ELSE /\ eof' = TRUE
            /\ buffer' = <<>>
            /\ IF LastEvent # <<>>
               THEN Yield(LastEvent)
               ELSE /\ End("result")
                    /\ UNCHANGED <<call, errors, received, pending, pendingBytes, relayed>>

\* httpx.TimeoutException, httpx.HTTPError while a chunk is awaited.
StreamBreaks ==
    /\ pc = "reading"
    /\ StreamFails("PROVIDER_UNAVAILABLE")

CancelForgetsClient ==
    /\ call.asks = "stream" /\ pc \in {"asked", "reading"}
    /\ pc' = "over" /\ outcome' = "cancelled"
    /\ client' = (client /\ pc = "asked")
    /\ UNCHANGED <<call, errors, stream>>

-----------------------------------------------------------------------------
(* The caller of a stream: wait_for around stream_chat_completions() and    *)
(* around every anext().                                                   *)

\* Its time is up while the adapter awaits something: the adapter's except
\* clause or its finally clause runs.
Cancel ==
    /\ call.asks = "stream" /\ pc \in {"asked", "reading"}
    /\ End("cancelled")
    /\ UNCHANGED <<call, errors, stream>>

\* It has had an event and asks for no other: the client disconnected, or the
\* event was refused.  Nothing in src/proxy.py closes the generator.
Abandon ==
    /\ pc = "suspended" /\ relayed # <<>>
    /\ pc' = "abandoned"
    /\ UNCHANGED <<call, errors, outcome, client, stream>>

\* The event loop closes a generator nobody refers to any more (asyncio's
\* hook), and the generator's finally clause runs.
Finalize ==
    /\ pc = "abandoned"
    /\ End("cancelled")
    /\ UNCHANGED <<call, errors, stream>>

Done == pc = "over" /\ UNCHANGED vars

Proceed == CheckKey \/ Send \/ TakeLine \/ AwaitChunk
Answer == (\E r \in Reply : Respond(r) \/ OpenStream(r)) \/ RequestBreaks \/ OpenBreaks
Incoming ==
    \/ \E n \in 1..MaxChunk : \E chunk \in [1..n -> Byte] : Receive(chunk)
    \/ EndOfStream
    \/ StreamBreaks
Caller == Anext \/ Cancel \/ Abandon

Next == Proceed \/ Answer \/ Incoming \/ Caller \/ Finalize \/ Done

(***************************************************************************)
(* The adapter's own steps happen.  A request that does not stream is       *)
(* answered or times out (timeout_seconds); a stream has no read timeout,   *)
(* but its caller stops waiting.  The event loop closes a generator that    *)
(* was dropped.  Nothing makes the caller ask again or drop it: while the   *)
(* client does not read, src/proxy.py is suspended with no deadline, and    *)
(* the generator with it.                                                   *)
(***************************************************************************)
Spec ==
    /\ Init /\ [][Next]_vars
    /\ WF_vars(Proceed)
    /\ WF_vars(RequestBreaks)
    /\ WF_vars(Cancel)
    /\ WF_vars(Finalize)

-----------------------------------------------------------------------------
TypeOK ==
    /\ call \in Call
    /\ pc \in {"start", "send", "asked", "suspended", "lines", "reading", "abandoned", "over"}
    /\ errors \in Seq(Category \cup {"exception"})
    /\ outcome \in Outcome
    /\ client \in BOOLEAN
    /\ received \in Seq(Byte)
    /\ buffer \in Seq(Byte)
    /\ pending \in Seq(Seq(Char))
    /\ pendingBytes \in Nat
    /\ eof \in BOOLEAN
    /\ relayed \in Seq(Seq(Seq(Char)))

(***************************************************************************)
(* The reference: the events of a stream, read byte by byte from the whole  *)
(* of it, with no buffer, no chunks and no limit.                           *)
(***************************************************************************)
ReadByte(b, s) ==
    IF b # "LF" THEN [s EXCEPT !.line = Append(@, b)]
    ELSE LET line == StripCR(s.line)
         IN CASE line = <<>> /\ s.event = <<>> -> [s EXCEPT !.line = <<>>]
              [] line = <<>> /\ s.event # <<>> ->
                    [line |-> <<>>, event |-> <<>>, events |-> Append(s.events, s.event)]
              [] line # <<>> /\ line[1] = ":" -> [s EXCEPT !.line = <<>>]
              [] OTHER -> [s EXCEPT !.line = <<>>, !.event = Append(@, Decode(line))]

Reading(bytes) ==
    LET r[n \in 0..Len(bytes)] ==
            IF n = 0 THEN [line |-> <<>>, event |-> <<>>, events |-> <<>>]
                     ELSE ReadByte(bytes[n], r[n - 1])
    IN r

Read(bytes) == Reading(bytes)[Len(bytes)]

ReadAll(bytes) ==
    LET s == Read(bytes)
        last == IF s.line = <<>> THEN s.event ELSE Append(s.event, Decode(StripCR(s.line)))
    IN IF last = <<>> THEN s.events ELSE Append(s.events, last)

(***************************************************************************)
(* However the bytes are cut into chunks, within a line, a CR LF or a       *)
(* character, the events relayed are those of the stream, in its order,     *)
(* each once: an initial part of them at any time and all of them when the  *)
(* stream has been read to its end.                                         *)
(***************************************************************************)
RelayIsFaithful ==
    IF outcome = "result" /\ call.asks = "stream" THEN relayed = ReadAll(received)
    ELSE IsPrefix(relayed, ReadAll(received))

\* Byte k of line i of an event, or the end of the line where k is 0: what pending_bytes
\* counts, a byte that was replaced being one.
BytesOf(lines) == UNION {{i} \X (0..Len(lines[i])) : i \in DOMAIN lines}
EventBytes(lines) == Cardinality(BytesOf(lines))

\* The size of the event that is yielded: U+FFFD is encoded in three bytes, and one more
\* line end closes the event.
Width(lines, b) == IF b[2] > 0 /\ lines[b[1]][b[2]] = "FFFD" THEN 3 ELSE 1
WireBytes(lines) ==
    1 + Cardinality({q \in BytesOf(lines) \X (1..3) : q[2] <= Width(lines, q[1])})

\* The sizes of the events, the unfinished one and a line that has begun included.
EventSizes(bytes) ==
    LET s == Read(bytes)
        begun == IF s.line = <<>> \/ s.line[1] = ":" THEN s.event ELSE Append(s.event, Decode(s.line))
        all == Append(s.events, begun)
    IN {EventBytes(all[i]) : i \in DOMAIN all}

\* The lengths of the runs of bytes that no LF interrupts.
LineSizes(bytes) ==
    {q[2] - q[1] + 1 : q \in {p \in (1..Len(bytes)) \X (1..Len(bytes)) :
                                 p[1] <= p[2] /\ \A k \in p[1]..p[2] : bytes[k] # "LF"}}

(***************************************************************************)
(* A stream is refused for its size only if a line or an event of it, or at *)
(* the end of the stream its last event, is larger than max_sse_event_bytes *)
(* as the provider sent it, the ends of its lines counted.                  *)
(***************************************************************************)
RefusedForSize ==
    [][/\ pc = "lines" /\ pc' = "over"
             => \E n \in EventSizes(received) \cup LineSizes(received) : n > MaxEvent
       /\ EndOfStream /\ outcome' = "PROVIDER_UNAVAILABLE"
             => EventBytes(Last(ReadAll(received))) > MaxEvent]_vars

(***************************************************************************)
(* What the generator keeps between two chunks stays within                 *)
(* max_sse_event_bytes, whatever the provider sends, and so does what is     *)
(* counted of an event it yields.  The event itself may be larger, decoding *)
(* with errors="replace" and encoding again making three bytes of one, but   *)
(* it stays below three times the limit.  (src/proxy.py holds the yielded   *)
(* event to the same limit and may refuse what the adapter accepted.)       *)
(***************************************************************************)
MemoryBounded ==
    /\ pc = "reading" => Len(buffer) <= MaxEvent /\ EventBytes(pending) <= MaxEvent
    /\ \A i \in DOMAIN relayed :
          EventBytes(relayed[i]) <= MaxEvent /\ WireBytes(relayed[i]) < 3 * MaxEvent

(***************************************************************************)
(* A request is repeated only after retryable errors and at most MaxRetries *)
(* times in all, a stream is requested once, and the error the caller gets  *)
(* is the one of the last attempt: none that would have been fatal is lost  *)
(* in a retry.                                                              *)
(***************************************************************************)
RetriesJustified ==
    /\ Len(errors) <= IF call.asks = "stream" THEN 1 ELSE MaxRetries
    /\ \A i \in DOMAIN errors :
          errors[i] \notin RETRYABLE => i = Len(errors) /\ outcome = errors[i]
    /\ pc = "over" /\ call.key = "set" /\ outcome \notin {"result", "cancelled"}
          => Last(errors) = outcome

(***************************************************************************)
(* Every call ends, and the HTTP client it opened is closed for good: after *)
(* an error, a retry, a time-out in the middle of a chunk or a caller that  *)
(* dropped its generator.  The one exception is a generator that its caller *)
(* neither asks again nor drops: it stays at its yield, the client open.    *)
(***************************************************************************)
ClientReleased == <>[](pc = "over" /\ ~client) \/ <>[](pc = "suspended")

\* A call ends with a result, a known category, a time-out or an exception that no clause
\* made a ProviderError, and its retries are justified.
CallInv == TypeOK /\ RetriesJustified
=============================================================================
