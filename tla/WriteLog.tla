------------------------------- MODULE WriteLog -------------------------------
(***************************************************************************)
(* What src/db.py's writer thread promises to the rest of the gateway:     *)
(* writes reach SQLite one at a time, in the order in which enqueue()       *)
(* accepted them, with no gap, until the thread ends.  ModelHealth relies   *)
(* on exactly this: a reader of the database sees the effect of a prefix    *)
(* of the accepted writes.                                                  *)
(***************************************************************************)
EXTENDS Sequences, Naturals

CONSTANTS
    Entry,      \* everything that can be put on the queue: write tasks and
    Sentinel    \* the None that stop() puts there, which ends the thread

VARIABLES
    accepted,   \* what was put on the queue, in order
    applied,    \* the writes committed to SQLite, in order
    running     \* the thread will still commit something

vars == <<accepted, applied, running>>

Init ==
    /\ accepted = <<>>
    /\ applied = <<>>
    /\ running = TRUE

\* A caller's entry becomes part of the log.
Accept(e) ==
    /\ accepted' = Append(accepted, e)
    /\ UNCHANGED <<applied, running>>

\* The next write of the log is committed: never one further on.
Apply ==
    /\ running
    /\ Len(applied) < Len(accepted)
    /\ accepted[Len(applied) + 1] # Sentinel
    /\ applied' = Append(applied, accepted[Len(applied) + 1])
    /\ UNCHANGED <<accepted, running>>

\* The sentinel is met or a statement raises: nothing is committed any more.
End ==
    /\ running
    /\ running' = FALSE
    /\ UNCHANGED <<accepted, applied>>

Next == (\E e \in Entry : Accept(e)) \/ Apply \/ End

Spec == Init /\ [][Next]_vars
===============================================================================
