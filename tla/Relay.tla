------------------------------- MODULE Relay -------------------------------
(***************************************************************************)
(* What _with_heartbeats (gateway/app.py) promises to _stream, without its *)
(* two tasks, its queue and its timer: the backend's chunks one by one,    *)
(* then how the stream ended; and a free backend when it is over.  These   *)
(* are the steps that Gateway gives to a stream: RunAtOnce (Open),         *)
(* BackendEnds (Close), StreamEnds (Report), CloseStream (Leave),          *)
(* CancelledRunning (Release) and StreamClosed (Return).                   *)
(***************************************************************************)
EXTENDS Integers, Sequences

CONSTANT MaxChunks   \* how many chunks the backend can send (a bound)

VARIABLES
    read,      \* how many chunks the backend has sent
    relayed,   \* the chunks yielded to _stream
    backend,   \* "new" (not asked yet), "busy" with this stream, or "free" of it
    pending,   \* how the stream ended, until it is told: "none", "end" or "error"
    result,    \* how it was left: "none", "end", "error" or "left"
    over       \* _stream goes on

vars == <<read, relayed, backend, pending, result, over>>

Init ==
    /\ read = 0
    /\ relayed = <<>>
    /\ backend = "new"
    /\ pending = "none"
    /\ result = "none"
    /\ over = FALSE

Open ==
    /\ result = "none" /\ backend = "new"
    /\ backend' = "busy"
    /\ UNCHANGED <<read, relayed, pending, result, over>>

Read ==
    /\ result = "none" /\ backend = "busy" /\ read < MaxChunks
    /\ read' = read + 1
    /\ UNCHANGED <<relayed, backend, pending, result, over>>

\* The backend is free before anybody is told that its stream has ended.
Close ==
    /\ result = "none" /\ backend = "busy"
    /\ backend' = "free"
    /\ pending' \in {"end", "error"}
    /\ UNCHANGED <<read, relayed, result, over>>

\* The next chunk, and no other.
Pass ==
    /\ result = "none" /\ Len(relayed) < read
    /\ relayed' = Append(relayed, Len(relayed) + 1)
    /\ UNCHANGED <<read, backend, pending, result, over>>

\* An end is told behind the last chunk, and an error as an error.
Report ==
    /\ result = "none" /\ pending # "none" /\ Len(relayed) = read
    /\ result' = pending
    /\ pending' = "none"
    /\ UNCHANGED <<read, relayed, backend, over>>

Leave ==
    /\ result = "none"
    /\ result' = "left"
    /\ pending' = "none"
    /\ UNCHANGED <<read, relayed, backend, over>>

\* Leaving frees the backend, or never asks it.
Release ==
    /\ result = "left" /\ backend # "free"
    /\ backend' = "free"
    /\ UNCHANGED <<read, relayed, pending, result, over>>

Return ==
    /\ result # "none" /\ backend = "free" /\ ~over
    /\ over' = TRUE
    /\ UNCHANGED <<read, relayed, backend, pending, result>>

Next == Open \/ Read \/ Close \/ Pass \/ Report \/ Leave \/ Release \/ Return

Spec == Init /\ [][Next]_vars

===========================================================================
