---------------------------- MODULE FailureThrottle ----------------------------
(***************************************************************************)
(* FailureThrottle of src/security_throttle.py and the way src/proxy.py     *)
(* uses it around a credential check.  The OrderedDict is a sequence, the    *)
(* least recently used entry first.  An entry's start is its age: time       *)
(* passes in Elapse(), and only whether the age has reached the window       *)
(* matters, so ages stop there; counts stop at the limit for the same        *)
(* reason.                                                                   *)
(***************************************************************************)
EXTENDS Naturals, Sequences, SequencesExt

CONSTANTS
    Client,       \* direct socket peers
    Limit,        \* security_auth_failure_limit
    Window,       \* security_auth_failure_window_seconds, in ticks
    MaxEntries    \* security_auth_throttle_max_entries

ASSUME ThrottleAssumption ==
    /\ Limit \in Nat \ {0}
    /\ Window \in Nat \ {0}
    /\ MaxEntries \in Nat \ {0}

Entry == [client : Client, count : 1..Limit, age : 0..Window]

AtMost(n, cap) == IF n < cap THEN n ELSE cap

Known(entries, c) == \E i \in DOMAIN entries : entries[i].client = c
IndexOf(entries, c) == CHOOSE i \in DOMAIN entries : entries[i].client = c
EntryOf(entries, c) == entries[IndexOf(entries, c)]
Others(entries, c) ==
    IF Known(entries, c) THEN RemoveAt(entries, IndexOf(entries, c)) ELSE entries

\* Time goes on by one tick for every entry.
Elapse(entries) == [i \in DOMAIN entries |-> [entries[i] EXCEPT !.age = AtMost(@ + 1, Window)]]

\* One failure more than the limit is needed.
BlocksAboveLimit(entries, c) ==
    /\ Known(entries, c)
    /\ EntryOf(entries, c).age < Window
    /\ EntryOf(entries, c).count > Limit

\* retry_after(): positive while the client is blocked ...
Blocks(entries, c) ==
    /\ Known(entries, c)
    /\ EntryOf(entries, c).age < Window
    /\ EntryOf(entries, c).count = Limit

\* Looking at an entry starts its window anew.
LookedAtRenews(entries, c) ==
    IF Known(entries, c) /\ EntryOf(entries, c).age < Window
    THEN Append(Others(entries, c), [EntryOf(entries, c) EXCEPT !.age = 0])
    ELSE Others(entries, c)

\* Looking does not count as a use.
LookedAtOnly(entries, c) ==
    IF Known(entries, c) /\ EntryOf(entries, c).age = Window
    THEN Others(entries, c) ELSE entries

\* ... looking deletes an entry whose window is over and makes any other the
\* most recently used one.
LookedAt(entries, c) ==
    IF Known(entries, c) /\ EntryOf(entries, c).age < Window
    THEN Append(Others(entries, c), EntryOf(entries, c))
    ELSE Others(entries, c)

\* fail(): the window starts at its first failure; the least recently used entry
\* makes room.
Fail(entries, c) ==
    LET new == IF Known(entries, c) /\ EntryOf(entries, c).age < Window
               THEN [EntryOf(entries, c) EXCEPT !.count = AtMost(@ + 1, Limit)]
               ELSE [client |-> c, count |-> 1, age |-> 0]
        all == Append(Others(entries, c), new)
    IN IF Len(all) > MaxEntries THEN Tail(all) ELSE all

\* reset()
Reset(entries, c) == Others(entries, c)

\* _check_auth_throttle(), the credential check, then reset() or
\* _record_auth_failure(), which looks again: the attempt that reaches the limit
\* is told 429 itself.
Attempt(entries, c, valid) ==
    IF Blocks(entries, c) THEN [entries |-> LookedAt(entries, c), status |-> 429]
    ELSE IF valid THEN [entries |-> Reset(LookedAt(entries, c), c), status |-> 200]
    ELSE LET failed == Fail(LookedAt(entries, c), c)
         IN [entries |-> LookedAt(failed, c),
             status |-> IF Blocks(failed, c) THEN 429 ELSE 401]
================================================================================
