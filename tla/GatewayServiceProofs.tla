----------------------- MODULE GatewayServiceProofs -----------------------
(***************************************************************************)
(* Proofs that the gateway implements the abstract service, keeps the line *)
(* in order, leaves nothing behind, writes honest log lines, loses no      *)
(* cancellation and brings every request nearer its end, for all sets of   *)
(* requests.                                                               *)
(***************************************************************************)
EXTENDS GatewayProofs

OpenCalls == {"idle", "counting", "watching", "ending"}

\* What the place of a request says about its tasks, and its end about both.
Places ==
    \A r \in Requests :
        /\ place[r] = "none" => answer[r] = "none"
        /\ call[r] \in {"watching", "ending"} => place[r] # "none"
        /\ worker[r] = "running" => place[r] = "gone"
        /\ call[r] = "done" => place[r] # "waiting" /\ answer[r] \in {"none", "done"}

Inv == TypeOK /\ Stages /\ LockInv /\ Accounting /\ Places

---------------------------------------------------------------------------
(* The kinds of steps, by what they do to calls, places and workers *)

Moves(r, f, to) == f' = [f EXCEPT ![r] = to]

\* Nothing the service can see.
Quiet(r) ==
    /\ place' = place /\ Running' = Running
    /\ \/ call' = call
       \/ call[r] = "idle" /\ Moves(r, call, "counting")
       \/ call[r] = "watching" /\ Moves(r, call, "ending")

\* A request without a place is turned away.
Declined(r) ==
    /\ place' = place /\ Running' = Running /\ answer' = answer
    /\ call[r] \in {"idle", "counting"}
    /\ \E c \in {"done", "aborted"} : Moves(r, call, c)

\* A call ends on a shutdown, and what it held stays.
Cut(r) ==
    /\ place' = place /\ Running' = Running /\ answer' = answer
    /\ call[r] = "ending" /\ Moves(r, call, "aborted")

LetIn(r) ==
    /\ call[r] = "counting" /\ Moves(r, call, "watching") /\ Moves(r, answer, "new")
    /\ ~Full /\ Moves(r, place, "waiting") /\ Running' = Running

Begins(r) ==
    /\ place[r] = "waiting" /\ place' = StopWaiting(r) /\ call' = call
    /\ ~locked /\ r \notin Running /\ Running' = Running \cup {r}

Ends(r) ==
    /\ place' = place /\ call' = call
    /\ r \in Running /\ Running' = Running \ {r}

\* It leaves the queue, or its call ends.
GivesUp(r) ==
    /\ place' = StopWaiting(r) /\ r \notin Running /\ Running' = Running
    /\ \/ place[r] = "waiting" /\ call' = call
       \/ call[r] = "ending" /\ Moves(r, call, "done") /\ answer[r] = "done" /\ answer' = answer

Kind(r) ==
    Quiet(r) \/ Declined(r) \/ Cut(r) \/ LetIn(r) \/ Begins(r) \/ Ends(r) \/ GivesUp(r)

\* An answer goes on only from where it is, and not from its end.
AnswerGoesOn(r) ==
    \/ answer' = answer
    \/ answer[r] \notin {"none", "done"} /\ \E a : a # "none" /\ Moves(r, answer, a)
    \/ LetIn(r)

\* Worker steps that do not enter or leave the slot.
LEMMA SameRunningStep ==
    ASSUME TypeOK, NEW r \in Requests,
           \/ worker' = worker
           \/ worker[r] # "running" /\ \E to \in {"new", "queued", "ended"} : Moves(r, worker, to)
    PROVE  Running' = Running
  BY SameRunning DEF Moves, Running

\* The steps of a call, and of its client.
LEMMA CallSteps ==
    ASSUME TypeOK, Stages, NEW r \in Requests,
           Count(r) \/ CallWakes(r) \/ CallCancelled(r) \/ ClientLeaves(r)
    PROVE  Quiet(r) /\ AnswerGoesOn(r)
<1> USE DEF Count, CallWakes, CallCancelled, ClientLeaves, CancelAnswer, queueVars, taskVars
<1>1. place' = place /\ worker' = worker /\ answer' = answer
  OBVIOUS
<1>2. \/ call' = call
      \/ call[r] = "idle" /\ Moves(r, call, "counting")
      \/ call[r] = "watching" /\ Moves(r, call, "ending")
  BY DEF Moves
<1> QED
  BY <1>1, <1>2, SameRunningStep DEF Quiet, AnswerGoesOn

\* The steps of an answer that is not in backend_chunks itself.
LEMMA AnswerSteps ==
    ASSUME TypeOK, Stages, NEW r \in Requests,
           \/ OpenStream(r) \/ StreamOpened(r) \/ StreamEnds(r) \/ Sent(r) \/ SendFails(r)
           \/ StreamFails(r) \/ StreamCancelled(r) \/ StreamClosed(r)
           \/ AnswerCancelledOutsideSlot(r)
    PROVE  Quiet(r) /\ AnswerGoesOn(r)
<1> USE DEF OpenStream, StreamOpened, StreamEnds, Sent, SendFails, StreamFails, StreamCancelled,
            StreamClosed, AnswerCancelledOutsideSlot, AnswerStep, CloseStream, queueVars
<1>1. place' = place /\ call' = call
  OBVIOUS
<1>2. worker' = worker \/ (worker[r] # "running" /\ Moves(r, worker, "new"))
  BY DEF Stages, Moves
<1>3. answer[r] \notin {"none", "done"} /\ \E a : a # "none" /\ Moves(r, answer, a)
  BY DEF Moves
<1> QED
  BY <1>1, <1>2, <1>3, SameRunningStep DEF Quiet, AnswerGoesOn

\* A worker that is on its way to the slot: its answer is under way too.
LEMMA WorkerSteps ==
    ASSUME TypeOK, Stages, NEW r \in Requests, WaitForSlot(r) \/ CancelledUnstarted(r)
    PROVE  Quiet(r) /\ AnswerGoesOn(r)
<1> USE DEF WaitForSlot, CancelledUnstarted, EntersSlot, NowWorking, JoinWaiters, EndCancelled,
            queueVars
<1>1. place' = place /\ call' = call
  OBVIOUS
<1>2. worker[r] # "running" /\ \E to \in {"new", "queued", "ended"} : Moves(r, worker, to)
  BY DEF Stages, Moves
<1>3. \/ answer' = answer
      \/ answer[r] \notin {"none", "done"} /\ \E a : a # "none" /\ Moves(r, answer, a)
  BY DEF Stages, Moves
<1> QED
  BY <1>1, <1>2, <1>3, SameRunningStep DEF Quiet, AnswerGoesOn

\* A call that is refused, or cancelled while it counts, has no place.
LEMMA DeclineSteps ==
    ASSUME TypeOK, Stages, NEW r \in Requests,
           \/ Refused(r) \/ TurnedAway(r) \/ RefusedAfterCount(r) \/ TurnedAwayAfterCount(r)
           \/ CallAborted(r)
    PROVE  (Declined(r) \/ Cut(r)) /\ AnswerGoesOn(r)
<1> USE DEF Refused, TurnedAway, RefusedAfterCount, TurnedAwayAfterCount, CallAborted, Refuse,
            queueVars
<1>1. place' = place /\ worker' = worker /\ answer' = answer
  OBVIOUS
<1>2. \/ call[r] \in {"idle", "counting"} /\ \E c \in {"done", "aborted"} : Moves(r, call, c)
      \/ call[r] = "ending" /\ Moves(r, call, "aborted")
  BY DEF Moves
<1> QED
  BY <1>1, <1>2, SameRunningStep DEF Declined, Cut, AnswerGoesOn

\* reserve() lets a request in.
LEMMA AcceptSteps ==
    ASSUME TypeOK, Stages, NEW r \in Requests, Accept(r)
    PROVE  LetIn(r) /\ AnswerGoesOn(r)
  BY SameRunningStep DEF Accept, Reserve, LetIn, Moves, AnswerGoesOn

\* A request enters the slot: nobody runs, for the lock was free.
LEMMA StartSteps ==
    ASSUME TypeOK, Stages, LockInv, NEW r \in Requests, RunAtOnce(r) \/ RunInTurn(r)
    PROVE  Begins(r) /\ AnswerGoesOn(r)
<1>1. worker' = [worker EXCEPT ![r] = "running"] /\ call' = call /\ place' = StopWaiting(r)
  BY DEF RunAtOnce, RunInTurn, TakeSlot, WakeUp, Start
<1>2. worker[r] # "running" /\ place[r] = "waiting"
  BY DEF RunAtOnce, RunInTurn, EntersSlot, Stages
<1>3. ~locked
  <2>1. CASE RunAtOnce(r)
    BY <2>1 DEF RunAtOnce, TakeSlot, CanTake
  <2>2. CASE RunInTurn(r)
    <3>1. future[r] = "woken"
      BY <2>2 DEF RunInTurn, WakeUp
    <3> QED
      BY <3>1 DEF LockInv, Line
  <2> QED
    BY <2>1, <2>2
<1>4. r \notin Running /\ Running' = Running \cup {r}
  BY <1>1, <1>2, OneMoreRuns DEF Running
<1>5. AnswerGoesOn(r)
  BY DEF RunAtOnce, RunInTurn, EntersSlot, NowWorking, AnswerGoesOn, Moves
<1> QED
  BY <1>1, <1>2, <1>3, <1>4, <1>5 DEF Begins

\* The slot is released, by a cancelled worker or at the end of the stream.
LEMMA EndSteps ==
    ASSUME TypeOK, Stages, NEW r \in Requests, CancelledRunning(r) \/ BackendEnds(r)
    PROVE  Ends(r) /\ AnswerGoesOn(r)
<1> USE DEF CancelledRunning, BackendEnds, BackendEndsWith, EndCancelled, ReleaseSlot
<1>1. /\ place' = place /\ call' = call
      /\ worker[r] = "running" /\ worker' = [worker EXCEPT ![r] = "ended"]
  OBVIOUS
<1>2. answer[r] \notin {"none", "done"}
  BY <1>1 DEF Stages
<1>3. answer' = answer \/ \E a : a # "none" /\ Moves(r, answer, a)
  BY DEF Moves
<1> QED
  BY <1>1, <1>2, <1>3, OneLessRuns DEF Ends, AnswerGoesOn

\* A request leaves the queue, or gives up its place at the end of its call.
LEMMA LeaveSteps ==
    ASSUME TypeOK, Stages, NEW r \in Requests, CancelledInQueue(r) \/ CallEnds(r)
    PROVE  GivesUp(r) /\ AnswerGoesOn(r)
<1>1. CASE CancelledInQueue(r)
  <2>1. /\ place' = StopWaiting(r) /\ call' = call
        /\ worker[r] = "queued" /\ worker' = [worker EXCEPT ![r] = "ended"]
        /\ answer' = answer \/ answer' = [answer EXCEPT ![r] = "done"]
    BY <1>1 DEF CancelledInQueue, LeaveWaiters, GiveUp, EndCancelled
  <2>2. place[r] = "waiting" /\ answer[r] \notin {"none", "done"}
    BY <2>1 DEF Stages
  <2>3. r \notin Running /\ Running' = Running
    BY <2>1, SameRunningStep DEF Moves, Running
  <2> QED
    BY <2>1, <2>2, <2>3 DEF GivesUp, AnswerGoesOn, Moves
<1>2. CASE CallEnds(r)
  <2>1. /\ place' = StopWaiting(r) /\ call[r] = "ending" /\ Moves(r, call, "done")
        /\ answer[r] = "done" /\ UNCHANGED <<answer, worker>>
    BY <1>2 DEF CallEnds, GiveUp, Moves
  <2>2. r \notin Running /\ Running' = Running
    BY <2>1, SameRunningStep DEF Stages, Running
  <2> QED
    BY <2>1, <2>2 DEF GivesUp, AnswerGoesOn
<1> QED
  BY <1>1, <1>2

\* Every step of a request is of one of these kinds.
LEMMA Kinds ==
    ASSUME TypeOK, Stages, LockInv, NEW r \in Requests,
           LoopStep(r) \/ WorldStep(r) \/ Chance(r)
    PROVE  Kind(r) /\ AnswerGoesOn(r)
<1>1. CASE \/ Count(r) \/ CallWakes(r) \/ CallCancelled(r) \/ ClientLeaves(r)
           \/ WaitForSlot(r) \/ CancelledUnstarted(r)
  BY <1>1, CallSteps, WorkerSteps DEF Kind
<1>2. CASE \/ OpenStream(r) \/ StreamOpened(r) \/ StreamEnds(r) \/ Sent(r) \/ SendFails(r)
           \/ StreamFails(r) \/ StreamCancelled(r) \/ StreamClosed(r)
           \/ AnswerCancelledOutsideSlot(r)
  BY <1>2, AnswerSteps DEF Kind
<1>3. CASE \/ Refused(r) \/ TurnedAway(r) \/ RefusedAfterCount(r) \/ TurnedAwayAfterCount(r)
           \/ CallAborted(r) \/ Accept(r)
  BY <1>3, DeclineSteps, AcceptSteps DEF Kind
<1>4. CASE \/ RunAtOnce(r) \/ RunInTurn(r) \/ CancelledRunning(r) \/ BackendEnds(r)
           \/ CancelledInQueue(r) \/ CallEnds(r)
  BY <1>4, StartSteps, EndSteps, LeaveSteps DEF Kind
<1> QED
  BY <1>1, <1>2, <1>3, <1>4 DEF LoopStep, WorldStep, Chance

---------------------------------------------------------------------------
(* Places *)

\* A step of one of these kinds keeps what places say of the tasks.
LEMMA PlacesKept ==
    ASSUME TypeOK, TypeOK', Stages, Stages', Places, NEW r \in Requests,
           Kind(r), AnswerGoesOn(r)
    PROVE  Places'
<1>1. /\ call \in [Requests -> {"idle", "counting", "watching", "ending", "done", "aborted"}]
      /\ place \in [Requests -> {"none", "waiting", "gone"}]
      /\ answer \in [Requests ->
             {"none", "new", "opening", "working", "sending", "closing", "done"}]
  BY DEF TypeOK, QueueTypeOK
<1>2. \A q \in Requests : worker'[q] = "running" <=> q \in Running'
  BY DEF Running
<1>3. \A q \in Requests : q \in Running => place[q] = "gone"
  BY DEF Running, Places
<1>4. \A q \in Requests : place'[q] = "none" => place[q] = "none"
  BY <1>1 DEF Kind, Quiet, Declined, Cut, LetIn, Begins, Ends, GivesUp, StopWaiting, Moves
<1>5. ASSUME NEW q \in Requests, place'[q] = "none"
      PROVE  answer'[q] = "none"
  <2>1. answer[q] = "none"
    BY <1>4, <1>5 DEF Places
  <2>2. ~(LetIn(r) /\ q = r)
    BY <1>1, <1>5 DEF LetIn, Moves
  <2> QED
    BY <1>1, <2>1, <2>2 DEF AnswerGoesOn, LetIn, Moves
<1>6. ASSUME NEW q \in Requests, call'[q] \in {"watching", "ending"}
      PROVE  place'[q] # "none"
  <2>1. CASE call[q] \in {"watching", "ending"}
    BY <1>4, <2>1 DEF Places
  <2>2. CASE call[q] \notin {"watching", "ending"}
    <3>1. LetIn(r) /\ q = r
      BY <1>1, <1>6, <2>2
      DEF Kind, Quiet, Declined, Cut, LetIn, Begins, Ends, GivesUp, Moves
    <3> QED
      BY <1>1, <3>1 DEF LetIn, Moves
  <2> QED
    BY <2>1, <2>2
<1>7. ASSUME NEW q \in Requests, worker'[q] = "running"
      PROVE  place'[q] = "gone"
  <2>1. CASE Begins(r)
    BY <1>1, <1>2, <1>3, <1>7, <2>1 DEF Begins, StopWaiting
  <2>2. CASE ~Begins(r)
    <3>1. q \in Running
      BY <1>2, <1>7, <2>2 DEF Kind, Quiet, Declined, Cut, LetIn, Ends, GivesUp
    <3>2. place[q] = "gone"
      BY <1>3, <3>1
    <3>3. ~(LetIn(r) /\ q = r)
      BY <3>2 DEF LetIn, Stages
    <3> QED
      BY <1>1, <3>2, <3>3
      DEF Kind, Quiet, Declined, Cut, LetIn, Begins, Ends, GivesUp, StopWaiting, Moves
  <2> QED
    BY <2>1, <2>2
<1>8. ASSUME NEW q \in Requests, call'[q] = "done"
      PROVE  place'[q] # "waiting" /\ answer'[q] \in {"none", "done"}
  <2>1. CASE call[q] = "done"
    <3>1. place[q] # "waiting" /\ answer[q] \in {"none", "done"}
      BY <2>1 DEF Places
    <3>2. ~(LetIn(r) /\ q = r)
      BY <2>1 DEF LetIn
    <3>3. place'[q] # "waiting"
      BY <1>1, <3>1, <3>2
      DEF Kind, Quiet, Declined, Cut, LetIn, Begins, Ends, GivesUp, StopWaiting, Moves
    <3>4. answer'[q] \in {"none", "done"}
      BY <1>1, <3>1, <3>2 DEF AnswerGoesOn, LetIn, Moves
    <3> QED
      BY <3>3, <3>4
  <2>2. CASE call[q] # "done"
    <3>1. q = r /\ (Declined(r) \/ (GivesUp(r) /\ call[r] = "ending"))
      BY <1>1, <1>8, <2>2
      DEF Kind, Quiet, Declined, Cut, LetIn, Begins, Ends, GivesUp, Moves
    <3>2. CASE Declined(r)
      BY <3>1, <3>2 DEF Declined, Stages
    <3>3. CASE GivesUp(r) /\ call[r] = "ending"
      <4>1. place'[r] # "waiting"
        BY <1>1, <3>3 DEF GivesUp, StopWaiting
      <4> QED
        BY <1>8, <3>1, <3>3, <4>1 DEF GivesUp
    <3> QED
      BY <3>1, <3>2, <3>3
  <2> QED
    BY <2>1, <2>2
<1> QED
  BY <1>5, <1>6, <1>7, <1>8 DEF Places

\* A shutdown, or a stutter, changes neither calls, places nor tasks.
LEMMA PlacesUntouched ==
    ASSUME Places, Shutdown \/ UNCHANGED vars
    PROVE  Places'
  BY DEF Shutdown, vars, queueVars, taskVars, worldVars, Places

\* Places holds in every state.
THEOREM PlacesInvariant == Spec => []Places
<1>1. Init => Places
  BY DEF Init, QueueInit, Places
<1>2. TypeOK /\ TypeOK' /\ Stages /\ Stages' /\ LockInv /\ Places /\ [Next]_vars => Places'
  BY Kinds, PlacesKept, PlacesUntouched DEF Next
<1> QED
  BY <1>1, <1>2, Typing, StagesInvariant, LockInvariant, PTL DEF Spec

\* Only a shutdown tells tasks that they are cancelled, and only those so told are cut off.
CutByShutdown == \A r \in Requests : r \in told \/ call[r] = "aborted" => stopping

LEMMA NextCutByShutdown ==
    ASSUME TypeOK, CutByShutdown, [Next]_vars
    PROVE  CutByShutdown'
<1>1. CASE UNCHANGED vars
  BY <1>1 DEF CutByShutdown, vars, taskVars, worldVars
<1>2. CASE Shutdown
  BY <1>2 DEF CutByShutdown, Shutdown
<1>3. ASSUME NEW r \in Requests, LoopStep(r) \/ WorldStep(r) \/ Chance(r)
      PROVE  CutByShutdown'
  <2>1. CASE CallAborted(r) \/ CallCancelled(r)
    BY <2>1 DEF CallAborted, CallCancelled, CutByShutdown, TypeOK
  <2>2. CASE \/ Refused(r) \/ TurnedAway(r) \/ RefusedAfterCount(r) \/ TurnedAwayAfterCount(r)
             \/ Count(r) \/ Accept(r) \/ CallWakes(r) \/ CallEnds(r)
    BY <2>2 DEF Refused, TurnedAway, RefusedAfterCount, TurnedAwayAfterCount, Count, Accept,
                CallWakes, CallEnds, Refuse, worldVars, CutByShutdown, TypeOK
  <2>3. ASSUME call' = call, UNCHANGED <<stopping, told>>
        PROVE  CutByShutdown'
    BY <2>3 DEF CutByShutdown
  <2>4. CASE \/ RunAtOnce(r) \/ WaitForSlot(r) \/ RunInTurn(r) \/ BackendEnds(r)
             \/ CancelledInQueue(r) \/ CancelledRunning(r) \/ CancelledUnstarted(r)
    BY <2>3, <2>4 DEF RunAtOnce, WaitForSlot, RunInTurn, BackendEnds, BackendEndsWith,
                      CancelledInQueue, CancelledRunning, CancelledUnstarted, EndCancelled, worldVars
  <2>5. CASE \/ OpenStream(r) \/ StreamOpened(r) \/ StreamEnds(r) \/ Sent(r) \/ SendFails(r)
             \/ StreamFails(r) \/ StreamCancelled(r) \/ StreamClosed(r)
             \/ AnswerCancelledOutsideSlot(r) \/ ClientLeaves(r)
    BY <2>3, <2>5 DEF OpenStream, StreamOpened, StreamEnds, Sent, SendFails, StreamFails,
                      StreamCancelled, StreamClosed, AnswerCancelledOutsideSlot, ClientLeaves,
                      worldVars, taskVars
  <2> QED
    BY <1>3, <2>1, <2>2, <2>4, <2>5 DEF LoopStep, WorldStep, Chance
<1> QED
  BY <1>1, <1>2, <1>3 DEF Next

THEOREM CutInvariant == Spec => []CutByShutdown
<1>1. Init => CutByShutdown
  BY DEF Init, CutByShutdown
<1> QED
  BY <1>1, NextCutByShutdown, Typing, PTL DEF Spec

\* What is held belongs to a call that is under way, or was cut off by a shutdown.
LEMMA HeldByCalls ==
    ASSUME TypeOK, Stages, LockInv, Places, CutByShutdown
    PROVE  NothingLeftBehind
<1> SUFFICES ASSUME NEW r \in Requests,
                    \/ place[r] = "waiting"
                    \/ worker[r] \notin {"none", "ended"}
                    \/ \E i \in DOMAIN waiters : waiters[i] = r
             PROVE  call[r] \in {"watching", "ending"} \/ (stopping /\ call[r] = "aborted")
  BY DEF NothingLeftBehind
<1>1. CASE \E i \in DOMAIN waiters : waiters[i] = r
  <2>1. future[r] # "none"
    BY <1>1 DEF LockInv, Line
  <2>2. worker[r] = "queued"
    BY <2>1 DEF Stages
  <2> QED
    BY <2>2 DEF TypeOK, Stages, Places, CutByShutdown
<1>2. CASE place[r] = "waiting" \/ worker[r] \notin {"none", "ended"}
  BY <1>2 DEF TypeOK, Stages, Places, CutByShutdown
<1> QED
  BY <1>1, <1>2

\* A call that is over has given its place up (app.py:550), its worker has ended and the
\* lock does not know it, unless a shutdown cut it off in gather.
THEOREM CallsLeaveNothing == Spec => []NothingLeftBehind
<1> QED
  BY HeldByCalls, Typing, StagesInvariant, LockInvariant, PlacesInvariant, CutInvariant, PTL

\* When no request is under way the queue is as it began: both counters and what was
\* last told of them are zero, the slot is free and nobody is in line.  Whatever was
\* refused, cancelled, failed or left, nothing has leaked from the counters that
\* full() compares (queue.py:36-46).
EmptyWhenIdle ==
    (\A r \in Requests : call[r] \in {"idle", "counting", "done"}) =>
        /\ waiting = 0 /\ active = 0 /\ published = <<0, 0>>
        /\ ~locked /\ waiters = <<>>

\* A queue that is no longer used is empty and free, after any history of calls.
THEOREM IdleQueueIsEmpty == Spec => []EmptyWhenIdle
<1>1. ASSUME TypeOK, LockInv, Accounting, NothingLeftBehind,
             \A r \in Requests : call[r] \in {"idle", "counting", "done"}
      PROVE  /\ waiting = 0 /\ active = 0 /\ published = <<0, 0>>
             /\ ~locked /\ waiters = <<>>
  <2>1. \A r \in Requests : place[r] # "waiting" /\ worker[r] \in {"none", "ended"}
    BY <1>1 DEF NothingLeftBehind
  <2>2. \A r \in Requests : \A i \in DOMAIN waiters : waiters[i] # r
    BY <1>1 DEF NothingLeftBehind
  <2>3. Holding = {} /\ Running = {}
    BY <2>1 DEF Holding, Running
  <2>4. waiting = 0 /\ active = 0 /\ published = <<0, 0>>
    BY <1>1, <2>3, FS_EmptySet DEF Accounting
  <2>5. ~locked
    BY <1>1, <2>3 DEF LockInv, SlotExclusive
  <2>6. waiters = <<>>
    BY <1>1, <2>2, NonEmpty DEF TypeOK, QueueTypeOK
  <2> QED
    BY <2>4, <2>5, <2>6
<1>2. TypeOK /\ LockInv /\ Accounting /\ NothingLeftBehind => EmptyWhenIdle
  BY <1>1 DEF EmptyWhenIdle
<1> QED
  BY <1>2, Typing, LockInvariant, QueueAccounting, CallsLeaveNothing, PTL

\* A call that is over stays over: nothing that its request shows or holds ever
\* changes again, its log record least of all, whatever tasks of others go on.
OverForGood ==
    [][\A r \in Requests : call[r] = "done" =>
           /\ call'[r] = "done" /\ answer'[r] = answer[r] /\ worker'[r] = worker[r]
           /\ place'[r] = place[r] /\ status'[r] = status[r] /\ lines'[r] = lines[r]]_vars

---------------------------------------------------------------------------
(* The log line *)

\* What the record of a request says at each stage of its call.  A stream has status
\* 200 from its headers on; before the line is written it ends well, is marked as
\* failed, or gets another status.
Noted(r) ==
    /\ lines[r] = (IF call[r] = "done" THEN 1 ELSE 0)
    /\ call[r] \in {"idle", "counting"} => status[r] = NoStatus /\ outcome[r] = NoStatus
    /\ outcome[r] \in Outcomes \cup {NoStatus}
    /\ outcome[r] # NoStatus => worker[r] = "ended"
    /\ r \in Streaming /\ answer[r] = "working" /\ worker[r] = "ended" => outcome[r] # NoStatus
    /\ status[r] = CLIENT_CLOSED /\ place[r] # "none" => r \in left
    /\ call[r] = "watching" =>
        /\ status[r] = 200 => outcome[r] = 200 \/ r \in failed \/ answer[r] = "working"
        /\ \/ answer[r] \in {"sending", "closing", "done"}
           \/ answer[r] = "working" /\ r \in Streaming
           => status[r] # NoStatus \/ r \in failed
    /\ call[r] = "ending" =>
        /\ status[r] # NoStatus \/ r \in failed
        /\ status[r] = 200 => outcome[r] = 200 \/ r \in failed
    /\ call[r] = "done" =>
        /\ status[r] # NoStatus
        /\ status[r] = 200 => outcome[r] = 200

RecordsHonest == \A r \in Requests : Noted(r)

\* Nothing that the record of q speaks about changes.
Untouched(q) ==
    /\ call'[q] = call[q] /\ answer'[q] = answer[q] /\ worker'[q] = worker[q]
    /\ outcome'[q] = outcome[q] /\ status'[q] = status[q] /\ lines'[q] = lines[q]
    /\ place'[q] = place[q]
    /\ q \in failed => q \in failed'
    /\ q \in failed' => q \in failed
    /\ q \in left => q \in left'

LEMMA NotedUntouched ==
    ASSUME NEW q \in Requests, Noted(q), Untouched(q)
    PROVE  Noted(q)'
  BY DEF Noted, Untouched

\* A step of r touches no other request's record.
LEMMA OthersUntouched ==
    ASSUME TypeOK, NEW r \in Requests, NEW q \in Requests, q # r,
           LoopStep(r) \/ WorldStep(r) \/ Chance(r)
    PROVE  Untouched(q)
<1> USE DEF TypeOK, QueueTypeOK, Untouched, queueVars, taskVars, worldVars
<1>1. CASE \/ Refused(r) \/ TurnedAway(r) \/ RefusedAfterCount(r) \/ TurnedAwayAfterCount(r)
           \/ Count(r) \/ Accept(r)
  BY <1>1 DEF Refused, TurnedAway, RefusedAfterCount, TurnedAwayAfterCount, Count, Accept, Refuse,
              Reserve
<1>2. CASE RunAtOnce(r) \/ WaitForSlot(r) \/ RunInTurn(r)
  BY <1>2 DEF RunAtOnce, WaitForSlot, RunInTurn, TakeSlot, JoinWaiters, WakeUp, Start, StopWaiting,
              NowWorking
<1>3. CASE CancelledInQueue(r) \/ CancelledRunning(r) \/ CancelledUnstarted(r)
  BY <1>3 DEF CancelledInQueue, CancelledRunning, CancelledUnstarted, LeaveWaiters, GiveUp,
              StopWaiting, ReleaseSlot, EndCancelled
<1>4. CASE BackendEnds(r)
  BY <1>4 DEF BackendEnds, BackendEndsWith, ReleaseSlot
<1>5. CASE \/ OpenStream(r) \/ StreamOpened(r) \/ StreamEnds(r) \/ Sent(r) \/ SendFails(r)
  BY <1>5 DEF OpenStream, StreamOpened, StreamEnds, Sent, SendFails, AnswerStep
<1>6. CASE StreamFails(r) \/ StreamCancelled(r) \/ StreamClosed(r) \/ AnswerCancelledOutsideSlot(r)
  BY <1>6 DEF StreamFails, StreamCancelled, StreamClosed, AnswerCancelledOutsideSlot, CloseStream
<1>7. CASE CallWakes(r) \/ CallEnds(r) \/ CallAborted(r) \/ CallCancelled(r) \/ ClientLeaves(r)
  BY <1>7 DEF CallWakes, CallEnds, CallAborted, CallCancelled, ClientLeaves, CancelAnswer, GiveUp,
              StopWaiting
<1> QED
  BY <1>1, <1>2, <1>3, <1>4, <1>5, <1>6, <1>7 DEF LoopStep, WorldStep, Chance

\* The steps of a call keep the record of their request.
LEMMA CallNoted ==
    ASSUME TypeOK, Stages, Places, NEW r \in Requests, Noted(r),
           \/ Refused(r) \/ TurnedAway(r) \/ RefusedAfterCount(r) \/ TurnedAwayAfterCount(r)
           \/ Count(r) \/ Accept(r)
           \/ CallWakes(r) \/ CallEnds(r) \/ CallAborted(r) \/ CallCancelled(r) \/ ClientLeaves(r)
    PROVE  Noted(r)'
<1> USE DEF TypeOK, QueueTypeOK, queueVars, taskVars, worldVars
<1>1. ASSUME NEW s \in Int \ {0, 200}, call[r] \in {"idle", "counting"}, Refuse(r, s)
      PROVE  Noted(r)'
  BY <1>1 DEF Refuse, Noted, NoStatus, Stages
<1>2. CASE Refused(r)
  BY <1>1, <1>2, StatusAssumption DEF Refused
<1>3. CASE TurnedAway(r) \/ RefusedAfterCount(r) \/ TurnedAwayAfterCount(r)
  BY <1>1, <1>3 DEF TurnedAway, RefusedAfterCount, TurnedAwayAfterCount
<1>4. CASE Count(r)
  BY <1>4 DEF Count, Noted, NoStatus, Stages
<1>5. CASE Accept(r)
  BY <1>5 DEF Accept, Reserve, Noted, NoStatus, CLIENT_CLOSED
<1>6. CASE CallWakes(r)
  BY <1>6 DEF CallWakes, CancelAnswer, Noted, NoStatus, CLIENT_CLOSED
<1>7. CASE CallCancelled(r)
  BY <1>7 DEF CallCancelled, CancelAnswer, Noted, NoStatus, CLIENT_CLOSED, SHUTTING_DOWN
<1>8. CASE CallEnds(r)
  BY <1>8 DEF CallEnds, GiveUp, StopWaiting, Noted, NoStatus, CLIENT_CLOSED
<1>9. CASE CallAborted(r) \/ ClientLeaves(r)
  BY <1>9 DEF CallAborted, ClientLeaves, Noted, NoStatus, CLIENT_CLOSED
<1> QED
  BY <1>2, <1>3, <1>4, <1>5, <1>6, <1>7, <1>8, <1>9

\* The steps of a worker keep the record of their request: only the end of the
\* backend's stream says how it ended.
LEMMA WorkerNoted ==
    ASSUME TypeOK, Stages, Places, NEW r \in Requests, Noted(r),
           \/ RunAtOnce(r) \/ WaitForSlot(r) \/ RunInTurn(r)
           \/ CancelledInQueue(r) \/ CancelledRunning(r) \/ CancelledUnstarted(r)
           \/ BackendEnds(r)
    PROVE  Noted(r)'
<1> USE DEF TypeOK, QueueTypeOK, queueVars, taskVars, worldVars
<1>1. CASE RunAtOnce(r) \/ WaitForSlot(r) \/ RunInTurn(r)
  BY <1>1 DEF RunAtOnce, WaitForSlot, RunInTurn, EntersSlot, TakeSlot, JoinWaiters, WakeUp, Start,
              StopWaiting, NowWorking, Noted, Stages
<1>2. CASE CancelledInQueue(r) \/ CancelledRunning(r) \/ CancelledUnstarted(r)
  BY <1>2 DEF CancelledInQueue, CancelledRunning, CancelledUnstarted, LeaveWaiters, GiveUp,
              StopWaiting, ReleaseSlot, EndCancelled, WorkerCancelled, AnswerCancelled, Noted, Stages
<1>3. CASE BackendEnds(r)
  <2>1. PICK s \in Outcomes : BackendEndsWith(r, s)
    BY <1>3 DEF BackendEnds
  <2>2. s # NoStatus /\ s # CLIENT_CLOSED
    BY StatusAssumption DEF Outcomes, NoStatus, CLIENT_CLOSED
  <2>3. answer[r] # "none" /\ outcome[r] = NoStatus
    BY <2>1 DEF BackendEndsWith, Stages, Noted
  <2>4. call[r] \notin {"idle", "counting", "done"}
    BY <2>1, <2>3 DEF BackendEndsWith, Stages, Places
  <2>5. /\ worker[r] = "running" /\ worker'[r] = "ended" /\ outcome'[r] = s
        /\ UNCHANGED <<call, lines, left, place>>
    BY <2>1 DEF BackendEndsWith, ReleaseSlot
  <2>6. CASE r \in Streaming
    <3>1. UNCHANGED <<answer, failed, status>> /\ answer[r] # "closing"
      BY <2>1, <2>6 DEF BackendEndsWith, WorkerCancelled
    <3> QED
      BY <2>2, <2>3, <2>4, <2>5, <3>1 DEF Noted, NoStatus
  <2>7. CASE r \notin Streaming
    <3>1. call[r] # "ending"
      BY <2>1, <2>7 DEF BackendEndsWith, WorkerCancelled, AnswerCancelled
    <3>2. CASE s = 500
      <4>1. answer'[r] = "done" /\ r \in failed' /\ UNCHANGED status
        BY <2>1, <2>7, <3>2 DEF BackendEndsWith
      <4> QED
        BY <2>2, <2>3, <2>4, <2>5, <2>7, <3>1, <3>2, <4>1 DEF Noted
    <3>3. CASE s # 500
      <4>1. answer'[r] = "sending" /\ status'[r] = s /\ UNCHANGED failed
        BY <2>1, <2>7, <3>3 DEF BackendEndsWith
      <4> QED
        BY <2>2, <2>3, <2>4, <2>5, <2>7, <3>1, <3>3, <4>1 DEF Noted
    <3> QED
      BY <3>2, <3>3
  <2> QED
    BY <2>6, <2>7
<1> QED
  BY <1>1, <1>2, <1>3

\* The steps of an answer keep the record of their request: a status of 200 is
\* corrected when the stream does not end well.
LEMMA AnswerNoted ==
    ASSUME TypeOK, Stages, Places, NEW r \in Requests, Noted(r),
           \/ OpenStream(r) \/ StreamOpened(r) \/ StreamEnds(r) \/ Sent(r) \/ SendFails(r)
           \/ StreamFails(r) \/ StreamCancelled(r) \/ StreamClosed(r)
           \/ AnswerCancelledOutsideSlot(r)
    PROVE  Noted(r)'
<1> USE DEF TypeOK, QueueTypeOK, queueVars, taskVars, worldVars, AnswerStep, AnswerCancelled
<1>1. CASE OpenStream(r)
  BY <1>1 DEF OpenStream, Noted
<1>2. CASE StreamOpened(r)
  BY <1>2 DEF StreamOpened, Noted, Stages, Places, NoStatus, CLIENT_CLOSED
<1>3. CASE StreamEnds(r)
  <2>1. outcome[r] \in Outcomes /\ outcome[r] # CLIENT_CLOSED
    BY <1>3, StatusAssumption DEF StreamEnds, Noted, Outcomes, CLIENT_CLOSED, NoStatus
  <2>2. outcome[r] \in BackendStatuses => outcome[r] \notin {200, NoStatus}
    BY StatusAssumption DEF NoStatus
  <2>3. call[r] \notin {"idle", "counting", "done"}
    BY <1>3 DEF StreamEnds, Stages, Places
  <2> QED
    BY <1>3, <2>1, <2>2, <2>3 DEF StreamEnds, Noted, Outcomes
<1>4. CASE Sent(r)
  BY <1>4 DEF Sent, Noted
<1>5. CASE SendFails(r)
  BY <1>5 DEF SendFails, Noted, Stages, Places
<1>6. CASE StreamFails(r)
  BY <1>6 DEF StreamFails, CloseStream, Noted, Stages, Places
<1>7. CASE StreamCancelled(r)
  BY <1>7 DEF StreamCancelled, CloseStream, Noted
<1>8. CASE StreamClosed(r) \/ AnswerCancelledOutsideSlot(r)
  BY <1>8 DEF StreamClosed, AnswerCancelledOutsideSlot, Noted
<1> QED
  BY <1>1, <1>2, <1>3, <1>4, <1>5, <1>6, <1>7, <1>8

\* Every record says at every stage what it should.
THEOREM RecordsInvariant == Spec => []RecordsHonest
<1>1. Init => RecordsHonest
  BY DEF Init, RecordsHonest, Noted, NoStatus, CLIENT_CLOSED
<1>2. ASSUME TypeOK, Stages, Places, RecordsHonest, [Next]_vars, NEW q \in Requests
      PROVE  Noted(q)'
  <2>1. Noted(q)
    BY <1>2 DEF RecordsHonest
  <2>2. CASE Shutdown \/ UNCHANGED vars
    BY <2>1, <2>2, NotedUntouched
    DEF Shutdown, Untouched, vars, queueVars, taskVars, worldVars
  <2>3. CASE \E r \in Requests : LoopStep(r) \/ WorldStep(r) \/ Chance(r)
    <3>1. PICK r \in Requests : LoopStep(r) \/ WorldStep(r) \/ Chance(r)
      BY <2>3
    <3>2. CASE r = q
      BY <1>2, <2>1, <3>1, <3>2, CallNoted, WorkerNoted, AnswerNoted
      DEF LoopStep, WorldStep, Chance
    <3>3. CASE r # q
      BY <1>2, <2>1, <3>1, <3>3, OthersUntouched, NotedUntouched
    <3> QED
      BY <3>2, <3>3
  <2> QED
    BY <1>2, <2>2, <2>3 DEF Next
<1>3. TypeOK /\ Stages /\ Places /\ RecordsHonest /\ [Next]_vars => RecordsHonest'
  BY <1>2 DEF RecordsHonest
<1> QED
  BY <1>1, <1>3, Typing, StagesInvariant, PlacesInvariant, PTL DEF Spec

\* A finished call has one log line; a 200 in it means that the backend's whole answer
\* was relayed, and a 499 for a request that was let in that its client left
\* (app.py:536-551).
THEOREM LinesAreHonest == Spec => []HonestLine
<1>1. RecordsHonest => HonestLine
  BY DEF RecordsHonest, Noted, HonestLine
<1> QED
  BY <1>1, RecordsInvariant, PTL

\* No step of a request whose call is over is left to take.
LEMMA OverIsOver ==
    ASSUME TypeOK, Stages, Places, NEW r \in Requests, call[r] = "done"
    PROVE  ~(LoopStep(r) \/ WorldStep(r) \/ Chance(r))
<1>1. answer[r] \in {"none", "done"} /\ worker[r] \in {"none", "ended"}
  BY DEF Places, Stages
<1>2. ~(Chance(r) \/ WorldStep(r))
  BY <1>1 DEF Chance, WorldStep, Refused, TurnedAway, Count, SendFails, StreamFails, ClientLeaves,
              StreamOpened, Sent, BackendEnds, BackendEndsWith, AnswerStep
<1>3. ~(\/ RefusedAfterCount(r) \/ TurnedAwayAfterCount(r) \/ Accept(r)
        \/ CallWakes(r) \/ CallEnds(r) \/ CallAborted(r) \/ CallCancelled(r))
  BY DEF RefusedAfterCount, TurnedAwayAfterCount, Accept, CallWakes, CallEnds, CallAborted,
         CallCancelled
<1>4. ~(\/ RunAtOnce(r) \/ WaitForSlot(r) \/ RunInTurn(r)
        \/ CancelledInQueue(r) \/ CancelledRunning(r) \/ CancelledUnstarted(r))
  BY <1>1 DEF RunAtOnce, WaitForSlot, RunInTurn, EntersSlot, CancelledInQueue, CancelledRunning,
              CancelledUnstarted
<1>5. ~(\/ OpenStream(r) \/ StreamEnds(r) \/ StreamCancelled(r) \/ StreamClosed(r)
        \/ AnswerCancelledOutsideSlot(r))
  BY <1>1 DEF OpenStream, StreamEnds, StreamCancelled, StreamClosed, AnswerCancelledOutsideSlot,
              AnswerStep
<1> QED
  BY <1>2, <1>3, <1>4, <1>5 DEF LoopStep

\* A line is written once and is final, and a place given up is never taken again, by
\* whatever task of the request still ran when its call ended (app.py:546-551).
THEOREM OverIsForGood == Spec => OverForGood
<1>1. ASSUME TypeOK, Stages, Places, [Next]_vars, NEW q \in Requests, call[q] = "done"
      PROVE  /\ call'[q] = "done" /\ answer'[q] = answer[q] /\ worker'[q] = worker[q]
             /\ place'[q] = place[q] /\ status'[q] = status[q] /\ lines'[q] = lines[q]
  <2>1. CASE Shutdown \/ UNCHANGED vars
    BY <1>1, <2>1 DEF Shutdown, vars, queueVars, taskVars
  <2>2. CASE \E r \in Requests : LoopStep(r) \/ WorldStep(r) \/ Chance(r)
    <3>1. PICK r \in Requests : LoopStep(r) \/ WorldStep(r) \/ Chance(r)
      BY <2>2
    <3>2. r # q
      BY <1>1, <3>1, OverIsOver
    <3> QED
      BY <1>1, <3>1, <3>2, OthersUntouched DEF Untouched
  <2> QED
    BY <1>1, <2>1, <2>2 DEF Next
<1>2. TypeOK /\ Stages /\ Places /\ [Next]_vars =>
          [\A r \in Requests : call[r] = "done" =>
               /\ call'[r] = "done" /\ answer'[r] = answer[r] /\ worker'[r] = worker[r]
               /\ place'[r] = place[r] /\ status'[r] = status[r] /\ lines'[r] = lines[r]]_vars
  BY <1>1
<1> QED
  BY <1>2, Typing, StagesInvariant, PlacesInvariant, PTL DEF Spec, OverForGood

---------------------------------------------------------------------------
(* Every request comes nearer its end *)

CallRank(c) ==
    IF c = "idle" THEN 0 ELSE IF c = "counting" THEN 1 ELSE IF c = "watching" THEN 2
    ELSE IF c = "ending" THEN 3 ELSE 4

AnswerRank(a) ==
    IF a = "none" THEN 0 ELSE IF a = "new" THEN 1 ELSE IF a = "opening" THEN 2
    ELSE IF a = "working" THEN 3 ELSE IF a = "closing" THEN 4 ELSE IF a = "sending" THEN 5
    ELSE 6

WorkerRank(w) ==
    IF w = "none" THEN 0 ELSE IF w = "new" THEN 1 ELSE IF w = "queued" THEN 2
    ELSE IF w = "running" THEN 3 ELSE 4

\* How far the three tasks of a request are, taken together.
Steps(r) == CallRank(call[r]) + AnswerRank(answer[r]) + WorkerRank(worker[r])

\* No step of anybody sends a task of a request back, and each that the event loop, the
\* client's reading or the backend makes for it brings one forward, of at most fourteen
\* (app.py:217-551): a request is never tried again, queued again or woken for nothing,
\* so none can keep the loop busy without coming nearer its end.
NoCircles ==
    [][\A r \in Requests :
           /\ Steps(r)' \in Steps(r) .. 14
           /\ LoopStep(r) \/ WorldStep(r) => Steps(r)' > Steps(r)]_vars

\* Each of the tasks goes on or stays, and if some is said to move, one does.
Forward(r) ==
    /\ CallRank(call'[r]) >= CallRank(call[r])
    /\ AnswerRank(answer'[r]) >= AnswerRank(answer[r])
    /\ WorkerRank(worker'[r]) >= WorkerRank(worker[r])

Moved(r) ==
    \/ CallRank(call'[r]) > CallRank(call[r])
    \/ AnswerRank(answer'[r]) > AnswerRank(answer[r])
    \/ WorkerRank(worker'[r]) > WorkerRank(worker[r])

LEMMA Ranks ==
    /\ \A c : CallRank(c) \in 0 .. 4
    /\ \A a : AnswerRank(a) \in 0 .. 6
    /\ \A w : WorkerRank(w) \in 0 .. 4
  BY DEF CallRank, AnswerRank, WorkerRank

LEMMA ForwardCounts ==
    ASSUME NEW r \in Requests, Forward(r)
    PROVE  Steps(r)' \in Steps(r) .. 14 /\ (Moved(r) => Steps(r)' > Steps(r))
<1>1. /\ CallRank(call[r]) \in 0 .. 4 /\ CallRank(call'[r]) \in 0 .. 4
      /\ AnswerRank(answer[r]) \in 0 .. 6 /\ AnswerRank(answer'[r]) \in 0 .. 6
      /\ WorkerRank(worker[r]) \in 0 .. 4 /\ WorkerRank(worker'[r]) \in 0 .. 4
  BY Ranks
<1>2. Steps(r)' = CallRank(call'[r]) + AnswerRank(answer'[r]) + WorkerRank(worker'[r])
  BY DEF Steps, CallRank, AnswerRank, WorkerRank
<1> QED
  BY <1>1, <1>2 DEF Steps, Forward, Moved

\* The steps of a call go from one of its stages to a later one.
LEMMA CallForward ==
    ASSUME TypeOK, Stages, NEW r \in Requests,
           \/ Refused(r) \/ TurnedAway(r) \/ RefusedAfterCount(r) \/ TurnedAwayAfterCount(r)
           \/ Count(r) \/ Accept(r)
           \/ CallWakes(r) \/ CallEnds(r) \/ CallAborted(r) \/ CallCancelled(r)
    PROVE  Forward(r) /\ Moved(r)
<1>1. worker' = worker /\ (answer' = answer \/ answer[r] = "none")
  BY DEF Refused, TurnedAway, RefusedAfterCount, TurnedAwayAfterCount, Count, Accept, CallWakes,
         CallEnds, CallAborted, CallCancelled, Refuse, Stages
<1>2. CallRank(call'[r]) > CallRank(call[r])
  BY DEF Refused, TurnedAway, RefusedAfterCount, TurnedAwayAfterCount, Count, Accept, CallWakes,
         CallEnds, CallAborted, CallCancelled, Refuse, TypeOK, CallRank
<1>3. AnswerRank(answer'[r]) >= AnswerRank(answer[r])
  BY <1>1 DEF AnswerRank
<1> QED
  BY <1>1, <1>2, <1>3, Ranks DEF Forward, Moved

\* So do those of a worker, and its answer with it.
LEMMA WorkerForward ==
    ASSUME TypeOK, Stages, NEW r \in Requests,
           \/ RunAtOnce(r) \/ WaitForSlot(r) \/ RunInTurn(r)
           \/ CancelledInQueue(r) \/ CancelledRunning(r) \/ CancelledUnstarted(r)
           \/ BackendEnds(r)
    PROVE  Forward(r) /\ Moved(r)
<1>1. call' = call
  BY DEF RunAtOnce, WaitForSlot, RunInTurn, CancelledInQueue, CancelledRunning,
         CancelledUnstarted, EndCancelled, BackendEnds, BackendEndsWith
<1>2. WorkerRank(worker'[r]) > WorkerRank(worker[r])
  BY DEF RunAtOnce, WaitForSlot, RunInTurn, CancelledInQueue, CancelledRunning,
         CancelledUnstarted, EndCancelled, BackendEnds, BackendEndsWith, EntersSlot, TypeOK,
         Stages, WorkerRank
<1>3. AnswerRank(answer'[r]) >= AnswerRank(answer[r])
  BY DEF RunAtOnce, WaitForSlot, RunInTurn, CancelledInQueue, CancelledRunning,
         CancelledUnstarted, EndCancelled, BackendEnds, BackendEndsWith, EntersSlot, NowWorking,
         TypeOK, Stages, AnswerRank
<1> QED
  BY <1>1, <1>2, <1>3, Ranks DEF Forward, Moved

\* So do those of an answer; the headers start a producer that did not exist.
LEMMA AnswerForward ==
    ASSUME TypeOK, Stages, NEW r \in Requests,
           \/ OpenStream(r) \/ StreamOpened(r) \/ StreamEnds(r) \/ Sent(r) \/ SendFails(r)
           \/ StreamFails(r) \/ StreamCancelled(r) \/ StreamClosed(r)
           \/ AnswerCancelledOutsideSlot(r)
    PROVE  Forward(r) /\ Moved(r)
<1>1. call' = call /\ (worker' = worker \/ worker[r] = "none")
  BY DEF OpenStream, StreamOpened, StreamEnds, Sent, SendFails, StreamFails, StreamCancelled,
         StreamClosed, AnswerCancelledOutsideSlot, AnswerStep, Stages
<1>2. AnswerRank(answer'[r]) > AnswerRank(answer[r])
  BY DEF OpenStream, StreamOpened, StreamEnds, Sent, SendFails, StreamFails, StreamCancelled,
         StreamClosed, AnswerCancelledOutsideSlot, AnswerStep, CloseStream, TypeOK, AnswerRank
<1>3. WorkerRank(worker'[r]) >= WorkerRank(worker[r])
  BY <1>1 DEF WorkerRank
<1> QED
  BY <1>1, <1>2, <1>3, Ranks DEF Forward, Moved

\* The measure behind EveryCallEnds: whatever clients, the backend and a shutdown do, a
\* request has at most fourteen steps to take (app.py:217-551).
THEOREM RequestsComeNearer == Spec => NoCircles
<1>1. ASSUME TypeOK, Stages, [Next]_vars, NEW q \in Requests
      PROVE  /\ Steps(q)' \in Steps(q) .. 14
             /\ LoopStep(q) \/ WorldStep(q) => Steps(q)' > Steps(q)
  <2>1. ASSUME LoopStep(q) \/ WorldStep(q) PROVE Forward(q) /\ Moved(q)
    BY <1>1, <2>1, CallForward, WorkerForward, AnswerForward DEF LoopStep, WorldStep
  <2>2. ASSUME Chance(q) PROVE Forward(q)
    <3>1. CASE ClientLeaves(q)
      BY <3>1, Ranks DEF ClientLeaves, taskVars, Forward
    <3> QED
      BY <1>1, <2>2, <3>1, CallForward, AnswerForward DEF Chance
  <2>3. ASSUME NEW r \in Requests, r # q, LoopStep(r) \/ WorldStep(r) \/ Chance(r)
        PROVE  Forward(q)
    BY <1>1, <2>3, OthersUntouched, Ranks DEF Untouched, Forward
  <2>4. ASSUME Shutdown \/ UNCHANGED vars PROVE Forward(q)
    BY <2>4, Ranks DEF Shutdown, vars, taskVars, Forward
  <2>5. Forward(q)
    BY <1>1, <2>1, <2>2, <2>3, <2>4 DEF Next
  <2> QED
    BY <2>1, <2>5, ForwardCounts
<1>2. TypeOK /\ Stages /\ [Next]_vars =>
          [\A r \in Requests :
               /\ Steps(r)' \in Steps(r) .. 14
               /\ LoopStep(r) \/ WorldStep(r) => Steps(r)' > Steps(r)]_vars
  BY <1>1
<1> QED
  BY <1>2, Typing, StagesInvariant, PTL DEF Spec, NoCircles

---------------------------------------------------------------------------
(* Everybody who waits is told, or waits for somebody *)

\* A worker that waits in acquire() with a cancelled future has been cancelled, and one
\* that has been cancelled does not wait with a pending one: whichever task cancels it,
\* and wherever it is just then, the cancellation reaches it (app.py:511, 544).
CancellationSeen(r) ==
    /\ future[r] = "cancelled" => WorkerCancelled(r)
    /\ future[r] = "pending" => ~WorkerCancelled(r)

CancellationsArrive == \A r \in Requests : CancellationSeen(r)

\* A step of r may wake another, and changes nothing else of what cancels it.
LEMMA OthersAtMostWoken ==
    ASSUME TypeOK, NEW r \in Requests, NEW q \in Requests, q # r,
           LoopStep(r) \/ WorldStep(r) \/ Chance(r)
    PROVE  future'[q] = future[q] \/ future'[q] = "woken"
<1> USE DEF TypeOK, QueueTypeOK, queueVars
<1>1. \A ws : \A fs \in Futures : WakeFirst(ws, fs)[q] = fs[q] \/ WakeFirst(ws, fs)[q] = "woken"
  <2> SUFFICES ASSUME NEW ws, NEW fs \in Futures
               PROVE  WakeFirst(ws, fs)[q] = fs[q] \/ WakeFirst(ws, fs)[q] = "woken"
    OBVIOUS
  <2>1. \A x : [fs EXCEPT ![x] = "woken"][q] = IF x = q THEN "woken" ELSE fs[q]
    BY DEF Futures
  <2> QED
    BY <2>1 DEF WakeFirst
<1>2. CASE CancelledInQueue(r)
  <2> DEFINE gone == [future EXCEPT ![r] = "none"]
  <2>1. gone \in Futures /\ gone[q] = future[q]
    BY DEF Futures
  <2>2. future' = gone \/ future' = WakeFirst(Without(waiters, r), gone)
    BY <1>2 DEF CancelledInQueue, LeaveWaiters
  <2> HIDE DEF gone
  <2> QED
    BY <1>1, <2>1, <2>2
<1>3. CASE CancelledRunning(r) \/ BackendEnds(r)
  <2>1. future' = WakeFirst(waiters, future) /\ future \in Futures
    BY <1>3 DEF CancelledRunning, BackendEnds, BackendEndsWith, ReleaseSlot, Futures
  <2> QED
    BY <1>1, <2>1
<1>4. CASE RunAtOnce(r) \/ WaitForSlot(r) \/ RunInTurn(r) \/ CancelledUnstarted(r)
  BY <1>4 DEF RunAtOnce, WaitForSlot, RunInTurn, CancelledUnstarted, TakeSlot, JoinWaiters, WakeUp
<1>5. CASE \/ Refused(r) \/ TurnedAway(r) \/ RefusedAfterCount(r) \/ TurnedAwayAfterCount(r)
           \/ Count(r) \/ Accept(r) \/ CallEnds(r) \/ CallAborted(r) \/ ClientLeaves(r)
  BY <1>5 DEF Refused, TurnedAway, RefusedAfterCount, TurnedAwayAfterCount, Count, Accept, Refuse,
              Reserve, CallEnds, CallAborted, ClientLeaves
<1>6. CASE \/ OpenStream(r) \/ StreamOpened(r) \/ StreamEnds(r) \/ Sent(r) \/ SendFails(r)
           \/ StreamClosed(r) \/ AnswerCancelledOutsideSlot(r)
  BY <1>6 DEF OpenStream, StreamOpened, StreamEnds, Sent, SendFails, StreamClosed,
              AnswerCancelledOutsideSlot
<1>7. CASE StreamFails(r) \/ StreamCancelled(r) \/ CallWakes(r) \/ CallCancelled(r)
  BY <1>7 DEF StreamFails, StreamCancelled, CallWakes, CallCancelled, CloseStream, CancelAnswer,
              CancelWait
<1> QED
  BY <1>2, <1>3, <1>4, <1>5, <1>6, <1>7 DEF LoopStep, WorldStep, Chance

\* A step of r itself takes it out of acquire(), puts it there uncancelled, cancels it
\* and its future, or leaves both alone.
LEMMA OwnCancellation ==
    ASSUME TypeOK, Stages, NEW r \in Requests, CancellationSeen(r),
           LoopStep(r) \/ WorldStep(r) \/ Chance(r)
    PROVE  CancellationSeen(r)'
<1> USE DEF TypeOK, QueueTypeOK, Stages, queueVars, taskVars
<1>1. ASSUME future'[r] = "none" PROVE CancellationSeen(r)'
  BY <1>1 DEF CancellationSeen
<1>2. CASE \/ Refused(r) \/ TurnedAway(r) \/ RefusedAfterCount(r) \/ TurnedAwayAfterCount(r)
           \/ Count(r) \/ Accept(r) \/ CallEnds(r)
  <2>1. future[r] = "none" /\ future' = future
    BY <1>2 DEF Refused, TurnedAway, RefusedAfterCount, TurnedAwayAfterCount, Count, Accept, Refuse,
                Reserve, CallEnds
  <2> QED
    BY <1>1, <2>1
<1>3. CASE CancelledRunning(r) \/ BackendEnds(r)
  <2>1. future[r] = "none" /\ ReleaseSlot
    BY <1>3 DEF CancelledRunning, BackendEnds, BackendEndsWith
  <2> QED
    BY <1>1, <2>1, ReleaseSlotStays
<1>4. CASE RunAtOnce(r) \/ CancelledUnstarted(r) \/ RunInTurn(r)
  BY <1>1, <1>4 DEF RunAtOnce, CancelledUnstarted, RunInTurn, EntersSlot, TakeSlot, WakeUp
<1>5. CASE CancelledInQueue(r)
  BY <1>1, <1>5, LeaveWaitersFuture DEF CancelledInQueue
<1>6. CASE \/ OpenStream(r) \/ StreamOpened(r) \/ StreamEnds(r) \/ Sent(r) \/ SendFails(r)
           \/ StreamClosed(r) \/ AnswerCancelledOutsideSlot(r)
  <2>1. future[r] = "none" /\ future' = future
    BY <1>6 DEF OpenStream, StreamOpened, StreamEnds, Sent, SendFails, StreamClosed,
                AnswerCancelledOutsideSlot, AnswerStep
  <2> QED
    BY <1>1, <2>1
<1>7. CASE WaitForSlot(r)
  BY <1>7 DEF WaitForSlot, EntersSlot, JoinWaiters, NowWorking, CancellationSeen, WorkerCancelled,
              AnswerCancelled
<1>8. CASE StreamFails(r) \/ StreamCancelled(r)
  BY <1>8 DEF StreamFails, StreamCancelled, CloseStream, CancelWait, CancellationSeen,
              WorkerCancelled
<1>9. CASE CallWakes(r) \/ CallCancelled(r)
  BY <1>9 DEF CallWakes, CallCancelled, CancelAnswer, CancelWait, CancellationSeen,
              WorkerCancelled, AnswerCancelled
<1>10. CASE CallAborted(r) \/ ClientLeaves(r)
  <2>1. future' = future /\ answer' = answer
    BY <1>10 DEF CallAborted, ClientLeaves
  <2>2. CASE call' = call
    BY <2>1, <2>2 DEF CancellationSeen, WorkerCancelled, AnswerCancelled
  <2>3. CASE call[r] = "counting"
    <3>1. future[r] = "none"
      BY <2>3
    <3> QED
      BY <2>1, <3>1, <1>1
  <2>4. CASE call[r] = "ending" /\ call'[r] = "aborted"
    BY <2>1, <2>4 DEF CancellationSeen, WorkerCancelled, AnswerCancelled
  <2> QED
    BY <1>10, <2>2, <2>3, <2>4 DEF CallAborted, ClientLeaves
<1> QED
  BY <1>2, <1>3, <1>4, <1>5, <1>6, <1>7, <1>8, <1>9, <1>10 DEF LoopStep, WorldStep, Chance

\* No cancellation is lost: a worker that is cancelled while it waits for the slot has a
\* future that is set or cancelled, so it runs again and leaves the line (app.py:511, 544).
THEOREM NoLostCancellation == Spec => []CancellationsArrive
<1>1. Init => CancellationsArrive
  BY DEF Init, QueueInit, CancellationsArrive, CancellationSeen
<1>2. ASSUME TypeOK, Stages, CancellationsArrive, [Next]_vars, NEW q \in Requests
      PROVE  CancellationSeen(q)'
  <2>1. CancellationSeen(q)
    BY <1>2 DEF CancellationsArrive
  <2>2. ASSUME NEW r \in Requests, r # q, LoopStep(r) \/ WorldStep(r) \/ Chance(r)
        PROVE  CancellationSeen(q)'
    <3>1. call'[q] = call[q] /\ answer'[q] = answer[q]
      BY <1>2, <2>2, OthersUntouched DEF Untouched
    <3>2. future'[q] = future[q] \/ future'[q] = "woken"
      BY <1>2, <2>2, OthersAtMostWoken
    <3> QED
      BY <2>1, <3>1, <3>2 DEF CancellationSeen, WorkerCancelled, AnswerCancelled
  <2>3. CASE Shutdown \/ UNCHANGED vars
    BY <2>1, <2>3 DEF Shutdown, vars, queueVars, taskVars, CancellationSeen, WorkerCancelled,
                      AnswerCancelled
  <2> QED
    BY <1>2, <2>1, <2>2, <2>3, OwnCancellation DEF Next
<1>3. TypeOK /\ Stages /\ CancellationsArrive /\ [Next]_vars => CancellationsArrive'
  BY <1>2 DEF CancellationsArrive
<1> QED
  BY <1>1, <1>3, Typing, StagesInvariant, PTL DEF Spec

\* r waits in acquire() and has been woken, or cancelled: it is its turn to act.
Acts(r) ==
    /\ worker[r] = "queued"
    /\ future[r] = "woken" \/ (future[r] = "cancelled" /\ WorkerCancelled(r))

\* Nobody waits for the slot without reason: who is in line acts itself, or somebody has
\* the slot, or the first in line acts.  There is no state of the lock, the counters and
\* the tasks in which all wait for all (queue.py:64-83).
NobodyIsStuck ==
    \A r \in Requests : worker[r] = "queued" =>
        \/ Acts(r)
        \/ \E q \in Requests : worker[q] = "running"
        \/ \E q \in Requests : q = waiters[1] /\ Acts(q)

\* The queue has no deadlock, for any number of requests (queue.py:64-83).
THEOREM LineAlwaysMoves == Spec => []NobodyIsStuck
<1>1. ASSUME TypeOK, Stages, LockInv, CancellationsArrive
      PROVE  NobodyIsStuck
  <2> SUFFICES ASSUME NEW r \in Requests, worker[r] = "queued", Running = {}
               PROVE  \E q \in Requests : q = waiters[1] /\ Acts(q)
    BY DEF NobodyIsStuck, Running
  <2>1. PICK i \in DOMAIN waiters : waiters[i] = r
    BY <1>1 DEF Stages, LockInv, Line
  <2>2. waiters \in Seq(Requests) /\ waiters # <<>> /\ 1 \in DOMAIN waiters
    BY <1>1, <2>1, NonEmpty DEF TypeOK, QueueTypeOK
  <2>3. ~locked
    BY <1>1 DEF LockInv, SlotExclusive
  <2>4. waiters[1] \in Requests /\ future[waiters[1]] \notin {"none", "pending"}
    BY <1>1, <2>2, <2>3 DEF LockInv, HandedOn, Line
  <2>5. future[waiters[1]] \in {"woken", "cancelled"} /\ worker[waiters[1]] = "queued"
    BY <1>1, <2>4 DEF TypeOK, QueueTypeOK, Stages
  <2> QED
    BY <1>1, <2>4, <2>5 DEF Acts, CancellationsArrive, CancellationSeen
<1> QED
  BY <1>1, Typing, StagesInvariant, LockInvariant, NoLostCancellation, PTL

---------------------------------------------------------------------------
(* The line *)

\* Only these two steps enter the slot, so nobody overtakes: the line is empty but
\* for requests that leave it, or it is the first of the line that enters.
LEMMA EntersInTurn ==
    ASSUME TypeOK, LockInv, NEW r \in Requests, RunAtOnce(r) \/ RunInTurn(r),
           NEW i \in DOMAIN waiters
    PROVE  future[waiters[i]] = "cancelled" \/ \E j \in 1 .. i : waiters[j] = r
<1>1. CASE RunAtOnce(r)
  BY <1>1 DEF RunAtOnce, TakeSlot, CanTake
<1>2. CASE RunInTurn(r)
  <2>1. future[r] = "woken"
    BY <1>2 DEF RunInTurn, WakeUp
  <2>2. PICK j \in DOMAIN waiters : waiters[j] = r
    BY <2>1 DEF LockInv, Line
  <2>3. j = 1
    BY <2>1, <2>2 DEF LockInv, Line
  <2>4. i >= 1
    <3>1. waiters \in Seq(Requests)
      BY DEF TypeOK, QueueTypeOK
    <3> QED
      BY <3>1
  <2> QED
    BY <2>2, <2>3, <2>4
<1> QED
  BY <1>1, <1>2

\* A step in which r enters the slot is one of the two.
LEMMA StartsIsEntering ==
    ASSUME TypeOK, Stages, LockInv, Next, NEW r \in Requests, Starts(r)
    PROVE  RunAtOnce(r) \/ RunInTurn(r)
<1>1. r \in Running' /\ r \notin Running
  BY DEF Starts, Running
<1>2. ~Shutdown
  BY DEF Shutdown, taskVars, Starts
<1>3. PICK q \in Requests : LoopStep(q) \/ WorldStep(q) \/ Chance(q)
  BY <1>2 DEF Next
<1>4. Kind(q)
  BY <1>3, Kinds
<1>5. q = r /\ Begins(q)
  BY <1>1, <1>4 DEF Kind, Quiet, Declined, Cut, LetIn, Begins, Ends, GivesUp
<1>6. ~(\/ Count(q) \/ CallWakes(q) \/ CallCancelled(q) \/ ClientLeaves(q)
        \/ WaitForSlot(q) \/ CancelledUnstarted(q) \/ Accept(q))
  BY <1>1, <1>5, CallSteps, WorkerSteps, AcceptSteps DEF Quiet, LetIn
<1>7. ~(\/ OpenStream(q) \/ StreamOpened(q) \/ StreamEnds(q) \/ Sent(q) \/ SendFails(q)
        \/ StreamFails(q) \/ StreamCancelled(q) \/ StreamClosed(q)
        \/ AnswerCancelledOutsideSlot(q))
  BY <1>1, <1>5, AnswerSteps DEF Quiet
<1>8. ~(\/ Refused(q) \/ TurnedAway(q) \/ RefusedAfterCount(q) \/ TurnedAwayAfterCount(q)
        \/ CallAborted(q))
  BY <1>1, <1>5, DeclineSteps DEF Declined, Cut
<1>9. ~(\/ CancelledRunning(q) \/ BackendEnds(q) \/ CancelledInQueue(q) \/ CallEnds(q))
  BY <1>1, <1>5, EndSteps, LeaveSteps DEF Ends, GivesUp
<1> QED
  BY <1>3, <1>5, <1>6, <1>7, <1>8, <1>9 DEF LoopStep, WorldStep, Chance

\* Requests that wait for the lock enter the slot in the order they began to wait
\* ("FIFO", queue.py:35).
THEOREM NobodyOvertakes == Spec => InTurn
<1>1. TypeOK /\ Stages /\ LockInv /\ [Next]_vars =>
        [\A r \in Requests : Starts(r) =>
            \A i \in DOMAIN waiters :
               \/ future[waiters[i]] = "cancelled"
               \/ \E j \in 1 .. i : waiters[j] = r]_vars
  BY StartsIsEntering, EntersInTurn
<1> QED
  BY <1>1, Typing, StagesInvariant, LockInvariant, PTL DEF Spec, InTurn

---------------------------------------------------------------------------
(* The abstract service *)

\* What the service sees of a request, case by case.
LEMMA Seen ==
    ASSUME NEW r \in Requests
    PROVE  /\ worker[r] = "running" => RequestState(r) = "served"
           /\ worker[r] # "running" /\ place[r] = "waiting" => RequestState(r) = "waiting"
           /\ worker[r] # "running" /\ place[r] = "none" /\ call[r] \in OpenCalls =>
                  RequestState(r) = "new"
           /\ worker[r] # "running" /\ (place[r] = "none" => call[r] \notin OpenCalls)
              /\ place[r] # "waiting" =>
                  RequestState(r) = "over"
  BY DEF RequestState, OpenCalls

\* The same of the next state.
LEMMA SeenNext ==
    ASSUME NEW r \in Requests
    PROVE  /\ worker'[r] = "running" => RequestState(r)' = "served"
           /\ worker'[r] # "running" /\ place'[r] = "waiting" => RequestState(r)' = "waiting"
           /\ worker'[r] # "running" /\ place'[r] = "none" /\ call'[r] \in OpenCalls =>
                  RequestState(r)' = "new"
           /\ worker'[r] # "running"
              /\ (place'[r] = "none" => call'[r] \notin OpenCalls)
              /\ place'[r] # "waiting" =>
                  RequestState(r)' = "over"
  BY DEF RequestState, OpenCalls

\* A request looks the same after a step that keeps its place, whether it runs, and
\* its call as far as it can still be let in.
LEMMA LooksTheSame ==
    ASSUME TypeOK, NEW q \in Requests, place'[q] = place[q], q \in Running' <=> q \in Running,
           place[q] # "none" \/ (call[q] \in OpenCalls <=> call'[q] \in OpenCalls)
    PROVE  RequestState(q)' = RequestState(q)
<1>1. place[q] \in {"none", "waiting", "gone"}
  BY DEF TypeOK, QueueTypeOK
<1>2. worker'[q] = "running" <=> worker[q] = "running"
  BY DEF Running
<1> QED
  BY <1>1, <1>2, Seen, SeenNext

\* One request that moves is a step of the service's variable.
LEMMA OneMoves ==
    ASSUME NEW r \in Requests, NEW from, NEW to,
           RequestState(r) = from, RequestState(r)' = to,
           \A q \in Requests \ {r} : RequestState(q)' = RequestState(q)
    PROVE  Service!Become(r, from, to)
<1>1. [q \in Requests |-> RequestState(q)'] =
          [[q \in Requests |-> RequestState(q)] EXCEPT ![r] = to]
  OBVIOUS
<1> QED
  BY <1>1 DEF Service!Become

\* In a step of one request the others look the same.
LEMMA OthersLookTheSame ==
    ASSUME TypeOK, NEW r \in Requests, Kind(r), NEW q \in Requests \ {r}
    PROVE  RequestState(q)' = RequestState(q)
<1>1. /\ call \in [Requests -> {"idle", "counting", "watching", "ending", "done", "aborted"}]
      /\ place \in [Requests -> {"none", "waiting", "gone"}]
  BY DEF TypeOK, QueueTypeOK
<1>2. place'[q] = place[q] /\ call'[q] = call[q]
  BY <1>1
  DEF Kind, Quiet, Declined, Cut, LetIn, Begins, Ends, GivesUp, StopWaiting, Moves
<1>3. q \in Running' <=> q \in Running
  BY DEF Kind, Quiet, Declined, Cut, LetIn, Begins, Ends, GivesUp
<1> QED
  BY <1>2, <1>3, LooksTheSame

\* The service's sets, in the gateway's terms: who waits holds a place, who is served
\* runs.
LEMMA ServiceSets ==
    ASSUME TypeOK
    PROVE  Service!Served = Running /\ Service!Waiting \subseteq Holding
<1>1. \A r \in Requests : RequestState(r) = "served" <=> worker[r] = "running"
  BY DEF RequestState
<1>2. \A r \in Requests : RequestState(r) = "waiting" => place[r] = "waiting"
  BY DEF RequestState
<1> QED
  BY <1>1, <1>2 DEF Service!Served, Service!Waiting, Running, Holding

\* The service counts as the gateway does.
LEMMA SameCount ==
    ASSUME NEW S
    PROVE  Service!Cardinality(S) = Cardinality(S)
  BY DEF Service!Cardinality, Cardinality

\* A request that is let in finds room in the service.
LEMMA AdmitStep ==
    ASSUME Inv, NEW r \in Requests, LetIn(r)
    PROVE  Service!Admit(r)
<1>1. RequestState(r) = "new"
  <2>1. place[r] = "none" /\ worker[r] # "running"
    BY DEF Inv, Stages, LetIn
  <2> QED
    BY <2>1, Seen DEF LetIn, OpenCalls
<1>2. RequestState(r)' = "waiting"
  <2>1. place'[r] = "waiting"
    BY DEF LetIn, Moves, Inv, TypeOK, QueueTypeOK
  <2>2. worker'[r] # "running"
    BY DEF LetIn, Running, Inv, Stages
  <2> QED
    BY <2>1, <2>2, SeenNext
<1>3. Service!Become(r, "new", "waiting")
  BY <1>1, <1>2, OneMoves, OthersLookTheSame DEF Kind, Inv
<1>4. Cardinality(Service!Waiting) <= Cardinality(Holding)
  BY ServiceSets, FiniteCounts, FS_Subset DEF Inv
<1>5. Cardinality(Service!Waiting) \in Nat
  BY ServiceSets, FiniteCounts, FS_Subset, FS_CardinalityType DEF Inv
<1>6. Cardinality(Holding) + Cardinality(Running) < 1 + QueueSize
  BY FiniteCounts, QueueSizeAssumption DEF LetIn, Full, Inv, Accounting
<1>7. Cardinality(Service!Waiting) + Cardinality(Service!Served) < 1 + QueueSize
  BY <1>4, <1>5, <1>6, FiniteCounts, ServiceSets, QueueSizeAssumption DEF Inv
<1> QED
  BY <1>3, <1>7, SameCount DEF Service!Admit

\* A request enters the slot while the service serves nobody.
LEMMA ServeStep ==
    ASSUME Inv, NEW r \in Requests, Begins(r)
    PROVE  Service!Serve(r)
<1>1. RequestState(r) = "waiting"
  BY Seen DEF Begins, Running
<1>2. RequestState(r)' = "served"
  BY SeenNext DEF Begins, Running
<1>3. Service!Served = {}
  BY ServiceSets DEF Inv, LockInv, SlotExclusive, Begins
<1> QED
  BY <1>1, <1>2, <1>3, OneMoves, OthersLookTheSame DEF Kind, Inv, Service!Serve

\* The slot is released: its place was gone since it started.
LEMMA FinishStep ==
    ASSUME Inv, NEW r \in Requests, Ends(r)
    PROVE  Service!Finish(r)
<1>1. RequestState(r) = "served"
  BY Seen DEF Ends, Running
<1>2. place'[r] = "gone" /\ worker'[r] # "running"
  BY DEF Ends, Running, Inv, Places
<1>3. RequestState(r)' = "over"
  BY <1>2, SeenNext
<1> QED
  BY <1>1, <1>3, OneMoves, OthersLookTheSame DEF Kind, Inv, Service!Finish

\* A request gives up, unless it has been served already.
LEMMA GiveUpStep ==
    ASSUME Inv, NEW r \in Requests, GivesUp(r)
    PROVE  Service!GiveUp(r) \/ \A q \in Requests : RequestState(q)' = RequestState(q)
<1>1. place[r] \in {"waiting", "gone"} /\ place \in [Requests -> {"none", "waiting", "gone"}]
  BY DEF GivesUp, Inv, TypeOK, QueueTypeOK, Places
<1>2. worker[r] # "running" /\ worker'[r] # "running" /\ place'[r] = "gone"
  BY <1>1 DEF GivesUp, Running, StopWaiting
<1>3. RequestState(r)' = "over"
  BY <1>2, SeenNext
<1>4. CASE place[r] = "waiting"
  BY <1>2, <1>3, <1>4, Seen, OneMoves, OthersLookTheSame DEF Kind, Inv, Service!GiveUp
<1>5. CASE place[r] = "gone"
  BY <1>2, <1>3, <1>5, Seen, OthersLookTheSame DEF Kind, Inv
<1> QED
  BY <1>1, <1>4, <1>5

\* A request without a place is turned away.
LEMMA TurnAwayStep ==
    ASSUME Inv, NEW r \in Requests, Declined(r)
    PROVE  Service!TurnAway(r)
<1>1. place[r] = "none" /\ place'[r] = "none" /\ worker[r] # "running" /\ worker'[r] # "running"
  BY DEF Declined, Inv, Stages, Running
<1>2. call[r] \in OpenCalls /\ call'[r] \notin OpenCalls
  BY DEF Declined, Moves, OpenCalls, Inv, TypeOK
<1> QED
  BY <1>1, <1>2, Seen, SeenNext, OneMoves, OthersLookTheSame DEF Kind, Inv, Service!TurnAway

\* Nothing the service sees: it counts, watches or ends, or is cut with its place taken.
LEMMA InvisibleStep ==
    ASSUME Inv, NEW r \in Requests, Quiet(r) \/ Cut(r)
    PROVE  \A q \in Requests : RequestState(q)' = RequestState(q)
<1>1. RequestState(r)' = RequestState(r)
  <2>1. CASE Quiet(r)
    <3>1. call[r] \in OpenCalls <=> call'[r] \in OpenCalls
      BY <2>1 DEF Quiet, Moves, OpenCalls, Inv, TypeOK
    <3> QED
      BY <2>1, <3>1, LooksTheSame DEF Quiet, Inv
  <2>2. CASE Cut(r)
    <3>1. place[r] # "none"
      BY <2>2 DEF Cut, Inv, Places
    <3> QED
      BY <2>2, <3>1, LooksTheSame DEF Cut, Inv
  <2> QED
    BY <2>1, <2>2
<1> QED
  BY <1>1, OthersLookTheSame DEF Kind, Inv

\* Every step of the gateway is a step of the service, or one it does not see.
LEMMA ServiceStep == Inv /\ [Next]_vars => [Service!Next]_([r \in Requests |-> RequestState(r)])
<1> SUFFICES ASSUME Inv, [Next]_vars
             PROVE  \/ Service!Next
                    \/ \A q \in Requests : RequestState(q)' = RequestState(q)
  OBVIOUS
<1>1. CASE Shutdown \/ UNCHANGED vars
  BY <1>1 DEF Shutdown, vars, queueVars, taskVars, worldVars, RequestState
<1>2. ASSUME NEW r \in Requests, LoopStep(r) \/ WorldStep(r) \/ Chance(r)
      PROVE  \/ Service!Next
             \/ \A q \in Requests : RequestState(q)' = RequestState(q)
  <2>1. Kind(r)
    BY <1>2, Kinds DEF Inv
  <2> QED
    BY <2>1, AdmitStep, ServeStep, FinishStep, GiveUpStep, TurnAwayStep, InvisibleStep
    DEF Kind, Service!Next
<1> QED
  BY <1>1, <1>2 DEF Next

\* The gateway implements the abstract service (queue.py:1-7), for any number of
\* requests and any queue size: one request is served at a time, at most queue_size
\* wait, and the rest are turned away.  That somebody is served, the fairness of
\* Service!Spec, is model-checked.
THEOREM GatewayIsService == Spec => Service!SafeSpec
<1>1. Init => Service!Init
  BY DEF Init, QueueInit, Service!Init, RequestState
<1>2. Spec => []Inv
  BY Typing, StagesInvariant, LockInvariant, QueueAccounting, PlacesInvariant, PTL DEF Inv
<1> QED
  BY <1>1, <1>2, ServiceStep, PTL DEF Spec, Service!SafeSpec

===========================================================================
