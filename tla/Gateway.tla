------------------------------ MODULE Gateway ------------------------------
(***************************************************************************)
(* POST /v1/chat/completions (gateway/app.py): the tasks behind a request, *)
(* and what they do to the request queue.  A request has up to three tasks *)
(*   call    the server's task: Gateway.chat, then ChatResponse.__call__   *)
(*   answer  _stream or _complete, started by __call__                     *)
(*   worker  whichever task runs backend_chunks: the answer itself, or for *)
(*           a streaming request the producer of _with_heartbeats          *)
(* An action is what one task does between two awaits.  The event loop may *)
(* run ready tasks in any order; nothing is assumed about how it picks.    *)
(*                                                                         *)
(* StreamEndsUnnoted, CallWaitsForAnswer and CallForgetsPlace are slips    *)
(* that no action uses: they stand in for the definition below them to     *)
(* show that a property would notice.                                      *)
(***************************************************************************)
EXTENDS RequestQueue

CONSTANTS
    Streaming,        \* the requests with "stream": true
    RefusalStatuses,  \* 400, 401, 404, 413, 499, 500: why chat() refuses a request
    BackendStatuses   \* 400, 502, 503: the statuses of a BackendError

ASSUME StreamingAssumption == Streaming \subseteq Requests
ASSUME StatusAssumption ==
    RefusalStatuses \subseteq Int \ {0, 200} /\ BackendStatuses \subseteq Int \ {0, 200, 499}

CLIENT_CLOSED == 499
SHUTTING_DOWN == 503
NoStatus == 0

Outcomes == {200, 500} \cup BackendStatuses

VARIABLES
    call,      \* "idle", "counting" (to_thread), "watching" (asyncio.wait),
               \* "ending" (gather), "done", or "aborted" by the server
    answer,    \* "none", "new", "opening", "working", "sending", "closing", "done"
    worker,    \* "none", "new", "queued", "running", "ended"
    outcome,   \* how backend_chunks ended: a status of Outcomes, or NoStatus
    failed,    \* the requests whose answer task ended with an exception of its own
    status,    \* RequestRecord.status
    lines,     \* how often RequestRecord.write was called
    left,      \* the requests whose client has disconnected
    stopping,  \* the server has cancelled its tasks
    told       \* the calls that still have to see that cancellation

taskVars == <<call, answer, worker, outcome, failed, status, lines>>
worldVars == <<left, stopping, told>>
vars == <<queueVars, taskVars, worldVars>>

TypeOK ==
    /\ QueueTypeOK
    /\ call \in [Requests -> {"idle", "counting", "watching", "ending", "done", "aborted"}]
    /\ answer \in [Requests ->
          {"none", "new", "opening", "working", "sending", "closing", "done"}]
    /\ worker \in [Requests -> {"none", "new", "queued", "running", "ended"}]
    /\ outcome \in [Requests -> Int]
    /\ failed \subseteq Requests
    /\ status \in [Requests -> Int]
    /\ lines \in [Requests -> Nat]
    /\ left \subseteq Requests
    /\ stopping \in BOOLEAN
    /\ told \subseteq Requests

Init ==
    /\ QueueInit
    /\ call = [r \in Requests |-> "idle"]
    /\ answer = [r \in Requests |-> "none"]
    /\ worker = [r \in Requests |-> "none"]
    /\ outcome = [r \in Requests |-> NoStatus]
    /\ failed = {}
    /\ status = [r \in Requests |-> NoStatus]
    /\ lines = [r \in Requests |-> 0]
    /\ left = {}
    /\ stopping = FALSE
    /\ told = {}

\* __call__ has cancelled the answer (or the server has, with the call).
AnswerCancelled(r) == call[r] \in {"ending", "aborted"}

\* The task that runs backend_chunks has been cancelled.
WorkerCancelled(r) ==
    IF r \in Streaming THEN answer[r] = "closing" ELSE AnswerCancelled(r)

Live(r) == call[r] \in {"counting", "watching", "ending"}

---------------------------------------------------------------------------
(* Gateway.chat *)

\* A refusal writes the log line and answers at once.
Refuse(r, s) ==
    /\ call' = [call EXCEPT ![r] = "done"]
    /\ status' = [status EXCEPT ![r] = s]
    /\ lines' = [lines EXCEPT ![r] = @ + 1]
    /\ UNCHANGED <<queueVars, answer, worker, outcome, failed, worldVars>>

\* Not authenticated, not a valid body, or the client left while sending it.
Refused(r) ==
    /\ call[r] = "idle" /\ ~stopping
    /\ \E s \in RefusalStatuses : Refuse(r, s)

\* The first queue.full(), before the count.
TurnedAway(r) ==
    /\ call[r] = "idle" /\ ~stopping
    /\ Full
    /\ Refuse(r, 429)

\* await asyncio.to_thread(counter.count, ...)
Count(r) ==
    /\ call[r] = "idle" /\ ~stopping
    /\ ~Full
    /\ call' = [call EXCEPT ![r] = "counting"]
    /\ UNCHANGED <<queueVars, answer, worker, outcome, failed, status, lines, worldVars>>

\* The chat template refuses the messages, or the prompt is too long.
RefusedAfterCount(r) ==
    /\ call[r] = "counting" /\ r \notin told
    /\ Refuse(r, 400)

\* reserve() raises QueueFull: others were accepted during the count.
TurnedAwayAfterCount(r) ==
    /\ call[r] = "counting" /\ r \notin told
    /\ Full
    /\ Refuse(r, 429)

\* reserve(), then ChatResponse.__call__ up to asyncio.wait.
Accept(r) ==
    /\ call[r] = "counting" /\ r \notin told
    /\ ~Full
    /\ Reserve(r)
    /\ call' = [call EXCEPT ![r] = "watching"]
    /\ answer' = [answer EXCEPT ![r] = "new"]
    /\ UNCHANGED <<worker, outcome, failed, status, lines, worldVars>>

---------------------------------------------------------------------------
(* backend_chunks, in the worker task *)

\* The worker is about to await slot(): a non-streaming answer that starts, or
\* a producer that starts.
EntersSlot(r) ==
    IF r \in Streaming
    THEN worker[r] = "new" /\ ~WorkerCancelled(r)
    ELSE answer[r] = "new" /\ ~AnswerCancelled(r)

\* A non-streaming answer is inside _collect from its first step on.
NowWorking(r) ==
    answer' = IF r \in Streaming THEN answer ELSE [answer EXCEPT ![r] = "working"]

RunAtOnce(r) ==
    /\ EntersSlot(r)
    /\ TakeSlot(r)
    /\ worker' = [worker EXCEPT ![r] = "running"]
    /\ NowWorking(r)
    /\ UNCHANGED <<call, outcome, failed, status, lines, worldVars>>

WaitForSlot(r) ==
    /\ EntersSlot(r)
    /\ JoinWaiters(r)
    /\ worker' = [worker EXCEPT ![r] = "queued"]
    /\ NowWorking(r)
    /\ UNCHANGED <<call, outcome, failed, status, lines, worldVars>>

RunInTurn(r) ==
    /\ worker[r] = "queued" /\ ~WorkerCancelled(r)
    /\ WakeUp(r)
    /\ worker' = [worker EXCEPT ![r] = "running"]
    /\ UNCHANGED <<call, answer, outcome, failed, status, lines, worldVars>>

\* A cancelled worker ends; for a non-streaming request so does its answer.
EndCancelled(r) ==
    /\ worker' = [worker EXCEPT ![r] = "ended"]
    /\ answer' = IF r \in Streaming THEN answer ELSE [answer EXCEPT ![r] = "done"]
    /\ UNCHANGED <<call, outcome, failed, status, lines, worldVars>>

CancelledInQueue(r) ==
    /\ worker[r] = "queued" /\ WorkerCancelled(r)
    /\ LeaveWaiters(r)
    /\ EndCancelled(r)

\* The cancelled backend stream closes and the slot is released.
CancelledRunning(r) ==
    /\ worker[r] = "running" /\ WorkerCancelled(r)
    /\ ReleaseSlot
    /\ EndCancelled(r)

\* The producer is cancelled before its first step: slot() is never reached.
CancelledUnstarted(r) ==
    /\ worker[r] = "new" /\ WorkerCancelled(r)
    /\ EndCancelled(r)
    /\ UNCHANGED queueVars

\* The backend's stream ends: [DONE], a BackendError, or any other exception.
\* A non-streaming answer goes on to send its result or the error.
BackendEndsWith(r, s) ==
    /\ worker[r] = "running" /\ ~WorkerCancelled(r)
    /\ ReleaseSlot
    /\ worker' = [worker EXCEPT ![r] = "ended"]
    /\ outcome' = [outcome EXCEPT ![r] = s]
    /\ IF r \in Streaming THEN UNCHANGED <<answer, failed, status>>
       ELSE IF s = 500
       THEN /\ answer' = [answer EXCEPT ![r] = "done"]
            /\ failed' = failed \cup {r}
            /\ UNCHANGED status
       ELSE /\ answer' = [answer EXCEPT ![r] = "sending"]
            /\ status' = [status EXCEPT ![r] = s]
            /\ UNCHANGED failed
    /\ UNCHANGED <<call, lines, worldVars>>

BackendEnds(r) == \E s \in Outcomes : BackendEndsWith(r, s)

---------------------------------------------------------------------------
(* _stream and _complete, in the answer task *)

AnswerStep(r, from, to) ==
    /\ answer[r] = from /\ ~AnswerCancelled(r)
    /\ answer' = [answer EXCEPT ![r] = to]

\* _stream starts: send(http.response.start) may wait for the client to read.
OpenStream(r) ==
    /\ r \in Streaming
    /\ AnswerStep(r, "new", "opening")
    /\ UNCHANGED <<queueVars, call, worker, outcome, failed, status, lines, worldVars>>

\* The headers are out, and _with_heartbeats starts its producer.
StreamOpened(r) ==
    /\ AnswerStep(r, "opening", "working")
    /\ status' = [status EXCEPT ![r] = 200]
    /\ worker' = [worker EXCEPT ![r] = "new"]
    /\ UNCHANGED <<queueVars, call, outcome, failed, lines, worldVars>>

StreamEndsUnnoted(r) ==
    /\ r \in Streaming /\ worker[r] = "ended"
    /\ AnswerStep(r, "working", IF outcome[r] = 500 THEN "done" ELSE "sending")
    /\ failed' = IF outcome[r] = 500 THEN failed \cup {r} ELSE failed
    /\ UNCHANGED <<queueVars, call, worker, outcome, status, lines, worldVars>>

\* The consumer reaches "end" or "error" in the hand-over queue.
StreamEnds(r) ==
    /\ r \in Streaming /\ worker[r] = "ended"
    /\ AnswerStep(r, "working", IF outcome[r] = 500 THEN "done" ELSE "sending")
    /\ failed' = IF outcome[r] = 500 THEN failed \cup {r} ELSE failed
    /\ status' = IF outcome[r] \in BackendStatuses
                 THEN [status EXCEPT ![r] = outcome[r]]
                 ELSE status
    /\ UNCHANGED <<queueVars, call, worker, outcome, lines, worldVars>>

\* The last message is out.
Sent(r) ==
    /\ AnswerStep(r, "sending", "done")
    /\ UNCHANGED <<queueVars, call, worker, outcome, failed, status, lines, worldVars>>

\* send() raises while no backend stream is open.
SendFails(r) ==
    /\ \E from \in {"opening", "sending"} : AnswerStep(r, from, "done")
    /\ failed' = failed \cup {r}
    /\ UNCHANGED <<queueVars, call, worker, outcome, status, lines, worldVars>>

\* Leaving _with_heartbeats: the producer is cancelled and awaited.
CloseStream(r) ==
    /\ answer' = [answer EXCEPT ![r] = "closing"]
    /\ future' = CancelWait(r)
    /\ UNCHANGED <<waiting, active, place, published, locked, waiters>>

\* send() raises in the middle of a stream: aclosing leaves _with_heartbeats.
StreamFails(r) ==
    /\ r \in Streaming /\ answer[r] = "working" /\ ~AnswerCancelled(r)
    /\ CloseStream(r)
    /\ failed' = failed \cup {r}
    /\ UNCHANGED <<call, worker, outcome, status, lines, worldVars>>

\* The cancelled answer runs while it relays a stream.
StreamCancelled(r) ==
    /\ r \in Streaming /\ answer[r] = "working" /\ AnswerCancelled(r)
    /\ CloseStream(r)
    /\ UNCHANGED <<call, worker, outcome, failed, status, lines, worldVars>>

\* await producer returns; what made the answer leave goes on.
StreamClosed(r) ==
    /\ answer[r] = "closing" /\ worker[r] = "ended"
    /\ answer' = [answer EXCEPT ![r] = "done"]
    /\ UNCHANGED <<queueVars, call, worker, outcome, failed, status, lines, worldVars>>

\* The cancelled answer runs where it holds nothing: it has not reached slot(),
\* or is past it.
AnswerCancelledOutsideSlot(r) ==
    /\ AnswerCancelled(r)
    /\ answer[r] \in {"new", "opening", "sending"}
    /\ answer' = [answer EXCEPT ![r] = "done"]
    /\ UNCHANGED <<queueVars, call, worker, outcome, failed, status, lines, worldVars>>

---------------------------------------------------------------------------
(* ChatResponse.__call__, in the server's task *)

\* answer.cancel(): a non-streaming answer may be waiting in acquire() itself.
CancelAnswer(r) ==
    /\ future' = IF r \in Streaming THEN future ELSE CancelWait(r)
    /\ UNCHANGED <<waiting, active, place, published, locked, waiters>>

CallWaitsForAnswer(r) ==
    /\ call[r] = "watching" /\ r \notin told
    /\ answer[r] = "done"
    /\ call' = [call EXCEPT ![r] = "ending"]
    /\ CancelAnswer(r)
    /\ UNCHANGED <<answer, worker, outcome, failed, status, lines, worldVars>>

\* asyncio.wait returns: the answer is done or the client has left.
CallWakes(r) ==
    /\ call[r] = "watching" /\ r \notin told
    /\ answer[r] = "done" \/ r \in left
    /\ call' = [call EXCEPT ![r] = "ending"]
    /\ status' = IF answer[r] = "done" THEN status
                 ELSE [status EXCEPT ![r] = CLIENT_CLOSED]
    /\ CancelAnswer(r)
    /\ UNCHANGED <<answer, worker, outcome, failed, lines, worldVars>>

CallForgetsPlace(r) ==
    /\ call[r] = "ending" /\ r \notin told
    /\ answer[r] = "done"
    /\ call' = [call EXCEPT ![r] = "done"]
    /\ status' = IF r \in failed THEN [status EXCEPT ![r] = 500] ELSE status
    /\ lines' = [lines EXCEPT ![r] = @ + 1]
    /\ UNCHANGED <<queueVars, answer, worker, outcome, failed, worldVars>>

\* gather returns: the rest of the finally.
CallEnds(r) ==
    /\ call[r] = "ending" /\ r \notin told
    /\ answer[r] = "done"
    /\ GiveUp(r)
    /\ call' = [call EXCEPT ![r] = "done"]
    /\ status' = IF r \in failed THEN [status EXCEPT ![r] = 500] ELSE status
    /\ lines' = [lines EXCEPT ![r] = @ + 1]
    /\ UNCHANGED <<locked, waiters, future, answer, worker, outcome, failed, worldVars>>

---------------------------------------------------------------------------
(* The world: clients that leave, and the server that stops *)

ClientLeaves(r) ==
    /\ call[r] \in {"counting", "watching"} /\ r \notin left
    /\ left' = left \cup {r}
    /\ UNCHANGED <<queueVars, taskVars, stopping, told>>

\* The graceful shutdown has timed out: the server cancels its tasks, once.
Shutdown ==
    /\ ~stopping
    /\ stopping' = TRUE
    /\ told' = {r \in Requests : Live(r)}
    /\ UNCHANGED <<queueVars, taskVars, left>>

\* CancelledError during the count, which chat() does not catch, or during
\* gather: the rest of the call is skipped.
CallAborted(r) ==
    /\ r \in told /\ call[r] \in {"counting", "ending"}
    /\ told' = told \ {r}
    /\ call' = [call EXCEPT ![r] = "aborted"]
    /\ UNCHANGED <<queueVars, answer, worker, outcome, failed, status, lines, left, stopping>>

\* CancelledError during asyncio.wait: the finally still runs.
CallCancelled(r) ==
    /\ r \in told /\ call[r] = "watching"
    /\ told' = told \ {r}
    /\ call' = [call EXCEPT ![r] = "ending"]
    /\ status' = IF answer[r] = "done" THEN status
                 ELSE [status EXCEPT ![r] = SHUTTING_DOWN]
    /\ CancelAnswer(r)
    /\ UNCHANGED <<answer, worker, outcome, failed, lines, left, stopping>>

---------------------------------------------------------------------------

\* What the event loop does on its own, whatever clients and the backend do.
LoopStep(r) ==
    \/ RefusedAfterCount(r) \/ TurnedAwayAfterCount(r) \/ Accept(r)
    \/ RunAtOnce(r) \/ WaitForSlot(r) \/ RunInTurn(r)
    \/ CancelledInQueue(r) \/ CancelledRunning(r) \/ CancelledUnstarted(r)
    \/ OpenStream(r) \/ StreamEnds(r) \/ StreamCancelled(r) \/ StreamClosed(r)
    \/ AnswerCancelledOutsideSlot(r)
    \/ CallWakes(r) \/ CallEnds(r) \/ CallAborted(r) \/ CallCancelled(r)

\* What waits for the client to read or for the backend to answer.
WorldStep(r) == StreamOpened(r) \/ Sent(r) \/ BackendEnds(r)

\* What nobody has to do.
Chance(r) ==
    \/ Refused(r) \/ TurnedAway(r) \/ Count(r)
    \/ SendFails(r) \/ StreamFails(r) \/ ClientLeaves(r)

Next ==
    \/ \E r \in Requests : LoopStep(r) \/ WorldStep(r) \/ Chance(r)
    \/ Shutdown

\* The event loop runs every ready task in the end.
LoopFairness == \A r \in Requests : WF_vars(LoopStep(r))

Spec == Init /\ [][Next]_vars
LoopSpec == Spec /\ LoopFairness

---------------------------------------------------------------------------
(* What the queue and the handlers promise *)

Holding == {r \in Requests : place[r] = "waiting"}
Running == {r \in Requests : worker[r] = "running"}

\* "The backend serves one request at a time" (queue.py:3): two requests never
\* hold the slot together, and the lock is held exactly while one does.  Broken
\* if a newcomer could take the lock between a release and the wake-up it sent.
SlotExclusive ==
    /\ \A q, r \in Running : q = r
    /\ locked <=> (Running # {})

\* The counters full() compares (queue.py:36-46), and the figures on_change last
\* reported, agree with the requests that hold a place and the one that runs,
\* whichever of accept, start, give-up and cancellation came first; no more than
\* one running plus queue_size waiting are ever let in.
Accounting ==
    /\ waiting = Cardinality(Holding)
    /\ active = Cardinality(Running)
    /\ published = <<active, waiting>>
    /\ active + waiting <= 1 + QueueSize

\* slot() never loses a wake-up: while the lock is free and requests are in
\* line, the first of them is on its way to run or to leave.  A request that is
\* cancelled after release() chose it has to pass the lock on (queue.py:71-75).
HandedOn == ~locked /\ waiters # <<>> => future[waiters[1]] # "pending"

\* Only a call that is under way has a place, a worker or a future in the lock: one
\* that is over has given its place up (app.py:550) and its tasks have ended.  A
\* shutdown may cut a call off in gather (app.py:546) and skip the rest of its
\* finally; nothing else leaves anything behind.
NothingLeftBehind ==
    \A r \in Requests :
        \/ place[r] = "waiting"
        \/ worker[r] \notin {"none", "ended"}
        \/ \E i \in DOMAIN waiters : waiters[i] = r
        => call[r] \in {"watching", "ending"} \/ (stopping /\ call[r] = "aborted")

\* The log line of a finished call (app.py:536-551): there is exactly one, a
\* 200 means that the backend's whole answer was relayed, and 499 for a request
\* that was let in means that its client left.  The status of a stream is set
\* to 200 before the backend is even asked, so every later end must correct it.
HonestLine ==
    \A r \in Requests : call[r] = "done" =>
        /\ lines[r] = 1
        /\ status[r] # NoStatus
        /\ status[r] = 200 => outcome[r] = 200
        /\ status[r] = CLIENT_CLOSED /\ place[r] # "none" => r \in left

\* How far the tasks of a request have come decides what it holds: a place from
\* reserve() until it starts or gives up, a future only while its worker waits in
\* acquire(), and nothing once its answer is over.
Stages ==
    \A r \in Requests :
        /\ call[r] \in {"idle", "counting"} => answer[r] = "none" /\ place[r] = "none"
        /\ answer[r] \in {"none", "new", "opening"} => worker[r] = "none"
        /\ answer[r] \in {"sending", "done"} => worker[r] \in {"none", "ended"}
        /\ answer[r] \in {"new", "opening"} \/ worker[r] \in {"new", "queued"} =>
               place[r] = "waiting"
        /\ future[r] # "none" <=> worker[r] = "queued"

\* The deque holds each waiting request once; only its first can have been woken,
\* and only while the lock is free.
Line ==
    /\ \A i \in DOMAIN waiters : future[waiters[i]] # "none"
    /\ \A r \in Requests : future[r] # "none" => \E i \in DOMAIN waiters : waiters[i] = r
    /\ \A i, j \in DOMAIN waiters : waiters[i] = waiters[j] => i = j
    /\ \A i \in DOMAIN waiters : future[waiters[i]] = "woken" => i = 1 /\ ~locked

\* r enters the backend's slot in this step.
Starts(r) == worker[r] # "running" /\ worker'[r] = "running"

\* Requests waiting for the lock enter the slot in the order they began to wait:
\* nobody overtakes one that has not been cancelled ("FIFO", queue.py:35).
InTurn ==
    [][\A r \in Requests : Starts(r) =>
          \A i \in DOMAIN waiters :
             \/ future[waiters[i]] = "cancelled"
             \/ \E j \in 1 .. i : waiters[j] = r]_vars

\* A client that disconnects frees what its request held, even if the backend
\* never answers (app.py:516-551; design section 6.3: "When a client
\* disconnects, cancel the backend request and free its queue slot").
LeaverGone ==
    \A r \in Requests :
        r \in left /\ call[r] = "watching" ~>
            call[r] \in {"done", "aborted"} /\ worker[r] \in {"none", "ended"}

\* Clients read what they are sent and the backend answers: nobody stays for ever
\* in a step that only they can end.
WorldAnswers ==
    []<>(\A r \in Requests : worker[r] # "running" /\ answer[r] \notin {"opening", "sending"})

\* Every request that is let in comes to an end if clients and backend answer: no
\* cancellation, failing send or shutdown leaves anybody in line for ever (queue.py:64-83,
\* app.py:536-551).
EveryCallEnds ==
    WorldAnswers => \A r \in Requests : call[r] = "watching" ~>
        call[r] \in {"done", "aborted"} /\ worker[r] \in {"none", "ended"}

---------------------------------------------------------------------------
(* The gateway as the abstract service sees it *)

RequestState(r) ==
    CASE worker[r] = "running" -> "served"
      [] worker[r] # "running" /\ place[r] = "waiting" -> "waiting"
      [] worker[r] # "running" /\ place[r] = "none"
             /\ call[r] \in {"idle", "counting", "watching", "ending"} -> "new"
      [] OTHER -> "over"

Service == INSTANCE SerialService WITH
    request <- [r \in Requests |-> RequestState(r)]

\* The gateway implements the abstract service (queue.py:1-7): whatever the
\* tasks, the lock and the counters do is one of its five steps or invisible,
\* and the backend is never left idle while a request waits, unless a client does
\* not read, the backend does not answer or the server shuts down: a call that is then cut
\* off in gather keeps its place (NothingLeftBehind).
ImplementsService == Service!SafeSpec /\ (WorldAnswers /\ []~stopping => Service!Fairness)

===========================================================================
