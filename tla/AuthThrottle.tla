----------------------------- MODULE AuthThrottle -----------------------------
(***************************************************************************)
(* One of the two throttles of src/proxy.py (the gateway's or the vault's)   *)
(* over time.  Every credential check runs on the event loop without an      *)
(* await between its first and its last use of the throttle, so an attempt   *)
(* is one step.                                                              *)
(***************************************************************************)
EXTENDS FailureThrottle, FiniteSets

CONSTANT Watched   \* the client whose history is kept; any of them

ASSUME WatchedAssumption == Watched \in Client /\ IsFiniteSet(Client)

VARIABLES
    entries,     \* _entries
    failures,    \* history: its credentials refused since its last success: age and number
    evicted,     \* history: ticks since its open window was evicted, up to Window
    later        \* history: the clients that tried after its last attempt

vars == <<entries, failures, evicted, later>>

Age == 0..(Window - 1)
FailureCap == 2 * Limit   \* failures of one age that the history tells apart
Failure == Age \X (1..FailureCap)

Init ==
    /\ entries = <<>>
    /\ failures = {}
    /\ evicted = Window
    /\ later = Client \ {Watched}

Open(es) == {es[i].client : i \in {j \in DOMAIN es : es[j].age < Window}}

\* One failure more of age 0.
WithFailure(fs) ==
    LET free == {f \in Failure : f[1] = 0 /\ f \notin fs}
    IN IF free = {} THEN fs ELSE fs \cup {CHOOSE f \in free : TRUE}

\* A request of client c with good or bad credentials.
Try(c, valid) ==
    LET answer == Attempt(entries, c, valid)
        refused == ~Blocks(entries, c) /\ ~valid
        gone == Watched \in Open(entries) \ Open(answer.entries)
    IN /\ entries' = answer.entries
       /\ IF c = Watched
          THEN /\ later' = {}
               /\ failures' = IF answer.status = 200 THEN {}
                              ELSE IF refused THEN WithFailure(failures)
                              ELSE failures
               /\ UNCHANGED evicted
          ELSE /\ later' = later \cup {c}
               /\ evicted' = IF gone THEN 0 ELSE evicted
               /\ UNCHANGED failures

\* time.monotonic() advances.
Tick ==
    /\ entries' = Elapse(entries)
    /\ failures' = {f \in Failure : f[1] # 0 /\ <<f[1] - 1, f[2]>> \in failures}
    /\ evicted' = AtMost(evicted + 1, Window)
    /\ UNCHANGED later

Next ==
    \/ \E c \in Client, valid \in BOOLEAN : Try(c, valid)
    \/ Tick

\* The clock never stops.
Spec == Init /\ [][Next]_vars /\ WF_vars(Tick)

-------------------------------------------------------------------------------
\* The entries stay within max_entries and no client has two.
TypeOK ==
    /\ entries \in Seq(Entry)
    /\ Len(entries) <= MaxEntries
    /\ \A i, j \in DOMAIN entries : entries[i].client = entries[j].client => i = j
    /\ failures \subseteq Failure
    /\ evicted \in 0..Window
    /\ later \subseteq Client \ {Watched}

RecentFailures == Cardinality(failures)

\* Nobody is answered 429 without having failed security_auth_failure_limit times
\* within the window and without a success in between (docs/operations.md:182).
BlockEarned == Blocks(entries, Watched) => RecentFailures >= Limit

\* The windows are fixed, not sliding: a client whose entry is not evicted gets at
\* most 2 * Limit - 1 wrong credentials looked at in any stretch as long as a window.
FailuresBounded == evicted = Window => RecentFailures <= 2 * Limit - 1

\* A full throttle drops a window that is still open (security_throttle.py:65), a
\* blocking one included, only when max_entries other clients have tried since.
EvictsLeastRecent ==
    [][evicted # 0 /\ evicted' = 0 => Cardinality(later') >= MaxEntries]_vars

\* A blocked client is let in again after the window, however often it tries in the
\* meantime.
BlockEnds == Blocks(entries, Watched) ~> ~Blocks(entries, Watched)

\* The throttle counts right within its bound: no block without its failures, and no
\* more failures than two windows allow.
ThrottleInv == TypeOK /\ BlockEarned /\ FailuresBounded
===============================================================================
