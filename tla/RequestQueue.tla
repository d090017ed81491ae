--------------------------- MODULE RequestQueue ---------------------------
(***************************************************************************)
(* The queue in front of the backend (gateway/queue.py): its counters, the *)
(* place every accepted request holds, and the asyncio.Lock whose holder   *)
(* may talk to the backend.  Each operator is what one call does to the    *)
(* queue's state between two awaits; Gateway says which task calls it when.*)
(*                                                                         *)
(* WithoutButMarked, GiveUpAlways, TakeIfUnlocked and LeaveWithoutWaking   *)
(* are slips that no action uses: they stand in for the definition below   *)
(* them to show that a property would notice.                              *)
(***************************************************************************)
EXTENDS Integers, Sequences, FiniteSets

CONSTANTS
    Requests,   \* the requests clients make, each made once
    QueueSize   \* gateway.queue_size: how many may wait behind the running one

ASSUME RequestsAssumption == IsFiniteSet(Requests)
ASSUME QueueSizeAssumption == QueueSize \in Nat

VARIABLES
    waiting,    \* RequestQueue.waiting
    active,     \* RequestQueue.active
    place,      \* each request's Place: "none", "waiting" or "gone" (not waiting)
    published,  \* <<active, waiting>> as last passed to on_change
    locked,     \* asyncio.Lock._locked
    waiters,    \* asyncio.Lock._waiters: the requests whose futures it holds
    future      \* the future a request awaits in acquire(); "none" outside it

queueVars == <<waiting, active, place, published, locked, waiters, future>>

QueueTypeOK ==
    /\ waiting \in Int
    /\ active \in Int
    /\ place \in [Requests -> {"none", "waiting", "gone"}]
    /\ published \in Int \X Int
    /\ locked \in BOOLEAN
    /\ waiters \in Seq(Requests)
    /\ future \in [Requests -> {"none", "pending", "woken", "cancelled"}]

QueueInit ==
    /\ waiting = 0
    /\ active = 0
    /\ place = [r \in Requests |-> "none"]
    /\ published = <<0, 0>>
    /\ locked = FALSE
    /\ waiters = <<>>
    /\ future = [r \in Requests |-> "none"]

---------------------------------------------------------------------------
(* asyncio.Lock *)

WithoutButMarked(ws, r) == [i \in DOMAIN ws |-> IF ws[i] = r THEN "removed" ELSE ws[i]]

\* The waiters left once r's future is removed from the deque.
Without(ws, r) ==
    LET at == CHOOSE i \in DOMAIN ws : ws[i] = r
    IN  [i \in 1 .. Len(ws) - 1 |-> IF i < at THEN ws[i] ELSE ws[i + 1]]

\* Lock._wake_up_first: the first future is set, unless it already is done.
WakeFirst(ws, fs) ==
    IF ws # <<>> /\ fs[ws[1]] = "pending"
    THEN [fs EXCEPT ![ws[1]] = "woken"]
    ELSE fs

\* Lock.acquire() returns at once: free, and nobody is in line.
CanTake == ~locked /\ \A i \in DOMAIN waiters : future[waiters[i]] = "cancelled"

\* Task.cancel() on a task that awaits its future in acquire().  A future that
\* is already set stays so; the task is told when it next runs.
CancelWait(r) ==
    IF future[r] = "pending" THEN [future EXCEPT ![r] = "cancelled"] ELSE future

---------------------------------------------------------------------------
(* RequestQueue *)

Full == active + waiting >= 1 + QueueSize

\* reserve(), once full() has said no.
Reserve(r) ==
    /\ place' = [place EXCEPT ![r] = "waiting"]
    /\ waiting' = waiting + 1
    /\ published' = <<active, waiting + 1>>
    /\ UNCHANGED <<active, locked, waiters, future>>

StopWaiting(r) == [place EXCEPT ![r] = IF @ = "waiting" THEN "gone" ELSE @]
StillWaiting(r) == IF place[r] = "waiting" THEN waiting - 1 ELSE waiting

GiveUpAlways(r) ==
    /\ place' = StopWaiting(r)
    /\ waiting' = waiting - 1
    /\ published' = <<active, waiting - 1>>
    /\ UNCHANGED active

\* Place.give_up, that is _leave(place)
GiveUp(r) ==
    /\ place' = StopWaiting(r)
    /\ waiting' = StillWaiting(r)
    /\ published' = IF place[r] = "waiting" THEN <<active, waiting - 1>> ELSE published
    /\ UNCHANGED active

\* _leave(place, start=True)
Start(r) ==
    /\ place' = StopWaiting(r)
    /\ waiting' = StillWaiting(r)
    /\ active' = active + 1
    /\ published' = <<active + 1, StillWaiting(r)>>

TakeIfUnlocked(r) ==
    /\ ~locked
    /\ locked' = TRUE
    /\ Start(r)
    /\ UNCHANGED <<waiters, future>>

\* slot(): the lock is free, acquire() returns without waiting.
TakeSlot(r) ==
    /\ CanTake
    /\ locked' = TRUE
    /\ Start(r)
    /\ UNCHANGED <<waiters, future>>

\* slot(): acquire() has to wait.
JoinWaiters(r) ==
    /\ ~CanTake
    /\ waiters' = Append(waiters, r)
    /\ future' = [future EXCEPT ![r] = "pending"]
    /\ UNCHANGED <<waiting, active, place, published, locked>>

\* slot(): acquire() resumes with its future set, and the block is entered.
WakeUp(r) ==
    /\ future[r] = "woken"
    /\ waiters' = Without(waiters, r)
    /\ future' = [future EXCEPT ![r] = "none"]
    /\ locked' = TRUE
    /\ Start(r)

LeaveWithoutWaking(r) ==
    /\ future[r] \in {"woken", "cancelled"}
    /\ waiters' = Without(waiters, r)
    /\ future' = [future EXCEPT ![r] = "none"]
    /\ GiveUp(r)
    /\ UNCHANGED locked

\* slot(): acquire() is cancelled; it passes the wake-up on if the lock is free.
LeaveWaiters(r) ==
    /\ future[r] \in {"woken", "cancelled"}
    /\ waiters' = Without(waiters, r)
    /\ LET gone == [future EXCEPT ![r] = "none"]
       IN  future' = IF locked THEN gone ELSE WakeFirst(Without(waiters, r), gone)
    /\ GiveUp(r)
    /\ UNCHANGED locked

\* slot(): the finally of the block.
ReleaseSlot ==
    /\ active' = active - 1
    /\ locked' = FALSE
    /\ future' = WakeFirst(waiters, future)
    /\ published' = <<active - 1, waiting>>
    /\ UNCHANGED <<waiting, place, waiters>>

===========================================================================
