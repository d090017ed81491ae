--------------------------- MODULE GatewayProofs ---------------------------
(***************************************************************************)
(* What Gateway's runs check on three requests, proved for any number.     *)
(***************************************************************************)
EXTENDS Gateway, FiniteSetTheorems, SequenceTheorems, TLAPS

---------------------------------------------------------------------------
(* Removing a future from the lock's deque *)

\* Whatever r is, what Without leaves is a sequence of the same requests.
LEMMA WithoutType ==
    ASSUME NEW ws \in Seq(Requests), NEW r
    PROVE  Without(ws, r) \in Seq(Requests)
<1> DEFINE at == CHOOSE i \in DOMAIN ws : ws[i] = r
           n == Len(ws) - 1
           f == [i \in 1 .. n |-> IF i < at THEN ws[i] ELSE ws[i + 1]]
<1>1. CASE Len(ws) = 0
  <2>1. f = << >>
    BY <1>1
  <2> QED BY <2>1 DEF Without
<1>2. CASE Len(ws) # 0
  <2>1. n \in Nat
    BY <1>2
  <2>2. \A i \in 1 .. n : ws[i] \in Requests /\ ws[i + 1] \in Requests
    BY <2>1
  <2>3. f \in [1 .. n -> Requests]
    BY <2>2
  <2> QED BY <2>1, <2>3 DEF Without
<1> QED BY <1>1, <1>2

Futures == [Requests -> {"none", "pending", "woken", "cancelled"}]

\* Waking the first waiter sets a future of some request, or none.
LEMMA WakeFirstType ==
    ASSUME NEW ws, NEW fs \in Futures
    PROVE  WakeFirst(ws, fs) \in Futures
<1>1. \A x : [fs EXCEPT ![x] = "woken"] \in Futures
  BY DEF Futures
<1> QED BY <1>1 DEF WakeFirst

\* Leaving the slot keeps the queue's types.
LEMMA ReleaseSlotType ==
    ASSUME QueueTypeOK, ReleaseSlot
    PROVE  QueueTypeOK'
<1>1. future \in Futures
  BY DEF QueueTypeOK, Futures
<1>2. future' \in Futures
  BY <1>1, WakeFirstType DEF ReleaseSlot
<1>3. active \in Int /\ waiting \in Int
  BY DEF QueueTypeOK
<1>4. active' \in Int /\ published' \in Int \X Int
  BY <1>3 DEF ReleaseSlot
<1>5. locked' \in BOOLEAN /\ UNCHANGED <<waiting, place, waiters>>
  BY DEF ReleaseSlot
<1> QED BY <1>2, <1>4, <1>5 DEF QueueTypeOK, Futures

---------------------------------------------------------------------------
(* Type correctness *)

\* Every state of the gateway is type correct: the counters stay integers, the
\* deque holds requests only, and each task is in one of its stages.
THEOREM Typing == Spec => []TypeOK
<1>1. Init => TypeOK
  <2> SUFFICES ASSUME Init PROVE TypeOK
    OBVIOUS
  <2>1. waiters \in Seq(Requests)
    BY DEF Init, QueueInit
  <2>2. published \in Int \X Int
    BY DEF Init, QueueInit
  <2>3. place \in [Requests -> {"none", "waiting", "gone"}]
    BY DEF Init, QueueInit
  <2>4. future \in [Requests -> {"none", "pending", "woken", "cancelled"}]
    BY DEF Init, QueueInit
  <2>5. QueueTypeOK
    BY <2>1, <2>2, <2>3, <2>4 DEF Init, QueueInit, QueueTypeOK
  <2>7. /\ outcome \in [Requests -> Int] /\ status \in [Requests -> Int]
        /\ lines \in [Requests -> Nat]
    BY DEF Init, NoStatus
  <2>8. /\ call \in [Requests -> {"idle", "counting", "watching", "ending", "done", "aborted"}]
        /\ answer \in [Requests ->
              {"none", "new", "opening", "working", "sending", "closing", "done"}]
        /\ worker \in [Requests -> {"none", "new", "queued", "running", "ended"}]
    BY DEF Init
  <2> QED BY <2>5, <2>7, <2>8 DEF Init, TypeOK
<1>2. TypeOK /\ [Next]_vars => TypeOK'
  <2> SUFFICES ASSUME TypeOK, [Next]_vars
               PROVE  TypeOK'
    OBVIOUS
  <2> USE DEF TypeOK, QueueTypeOK
  <2>1. ASSUME NEW r \in Requests, RefusedAfterCount(r)
        PROVE  TypeOK'
    BY <2>1 DEF RefusedAfterCount, Refuse, queueVars, taskVars, worldVars
  <2>2. ASSUME NEW r \in Requests, TurnedAwayAfterCount(r)
        PROVE  TypeOK'
    BY <2>2 DEF TurnedAwayAfterCount, Refuse, queueVars, taskVars, worldVars
  <2>3. ASSUME NEW r \in Requests, Accept(r)
        PROVE  TypeOK'
    BY <2>3 DEF Accept, Reserve, queueVars, taskVars, worldVars
  <2>4. ASSUME NEW r \in Requests, RunAtOnce(r)
        PROVE  TypeOK'
    BY <2>4 DEF RunAtOnce, TakeSlot, Start, StopWaiting, StillWaiting, NowWorking, queueVars, taskVars, worldVars
  <2>5. ASSUME NEW r \in Requests, WaitForSlot(r)
        PROVE  TypeOK'
    BY <2>5 DEF WaitForSlot, JoinWaiters, NowWorking, queueVars, taskVars, worldVars
  <2>6. ASSUME NEW r \in Requests, RunInTurn(r)
        PROVE  TypeOK'
    <3>1. Without(waiters, r) \in Seq(Requests)
      BY WithoutType
    <3>2. WakeUp(r)
      BY <2>6 DEF RunInTurn
    <3>3. QueueTypeOK'
      BY <3>1, <3>2 DEF WakeUp, Start, StopWaiting, StillWaiting
    <3> QED BY <2>6, <3>3 DEF RunInTurn, queueVars, taskVars, worldVars
  <2>7. ASSUME NEW r \in Requests, CancelledInQueue(r)
        PROVE  TypeOK'
    <3>1. Without(waiters, r) \in Seq(Requests)
      BY WithoutType
    <3>2. LeaveWaiters(r)
      BY <2>7 DEF CancelledInQueue
    <3>3. QueueTypeOK'
      <4>1. [future EXCEPT ![r] = "none"] \in Futures
        BY DEF Futures
      <4>2. future' \in Futures
        BY <3>2, <4>1, WakeFirstType DEF LeaveWaiters
      <4>3. waiters' \in Seq(Requests) /\ locked' = locked
        BY <3>1, <3>2 DEF LeaveWaiters
      <4>4. /\ active' \in Int /\ waiting' \in Int /\ published' \in Int \X Int
            /\ place' \in [Requests -> {"none", "waiting", "gone"}]
        BY <3>2 DEF LeaveWaiters, GiveUp, StopWaiting, StillWaiting
      <4> QED BY <4>2, <4>3, <4>4 DEF Futures
    <3> QED BY <2>7, <3>3 DEF CancelledInQueue, EndCancelled, queueVars, taskVars, worldVars
  <2>8. ASSUME NEW r \in Requests, CancelledRunning(r)
        PROVE  TypeOK'
    <3>1. QueueTypeOK'
      BY <2>8, ReleaseSlotType DEF CancelledRunning
    <3> QED BY <2>8, <3>1 DEF CancelledRunning, EndCancelled, worldVars
  <2>9. ASSUME NEW r \in Requests, CancelledUnstarted(r)
        PROVE  TypeOK'
    BY <2>9 DEF CancelledUnstarted, EndCancelled, queueVars, taskVars, worldVars
  <2>10. ASSUME NEW r \in Requests, OpenStream(r)
        PROVE  TypeOK'
    BY <2>10 DEF OpenStream, AnswerStep, queueVars, taskVars, worldVars
  <2>11. ASSUME NEW r \in Requests, StreamEnds(r)
        PROVE  TypeOK'
    BY <2>11, StatusAssumption DEF StreamEnds, AnswerStep, Outcomes, queueVars, taskVars, worldVars
  <2>12. ASSUME NEW r \in Requests, StreamCancelled(r)
        PROVE  TypeOK'
    BY <2>12 DEF StreamCancelled, CloseStream, CancelWait, queueVars, taskVars, worldVars
  <2>13. ASSUME NEW r \in Requests, StreamClosed(r)
        PROVE  TypeOK'
    BY <2>13 DEF StreamClosed, queueVars, taskVars, worldVars
  <2>14. ASSUME NEW r \in Requests, AnswerCancelledOutsideSlot(r)
        PROVE  TypeOK'
    BY <2>14 DEF AnswerCancelledOutsideSlot, queueVars, taskVars, worldVars
  <2>15. ASSUME NEW r \in Requests, CallWakes(r)
        PROVE  TypeOK'
    BY <2>15 DEF CallWakes, CancelAnswer, CancelWait, CLIENT_CLOSED, queueVars, taskVars, worldVars
  <2>16. ASSUME NEW r \in Requests, CallEnds(r)
        PROVE  TypeOK'
    BY <2>16 DEF CallEnds, GiveUp, StopWaiting, StillWaiting, queueVars, taskVars, worldVars
  <2>17. ASSUME NEW r \in Requests, CallAborted(r)
        PROVE  TypeOK'
    BY <2>17 DEF CallAborted, queueVars, taskVars, worldVars
  <2>18. ASSUME NEW r \in Requests, CallCancelled(r)
        PROVE  TypeOK'
    BY <2>18 DEF CallCancelled, CancelAnswer, CancelWait, SHUTTING_DOWN, queueVars, taskVars, worldVars
  <2>19. ASSUME NEW r \in Requests, StreamOpened(r)
        PROVE  TypeOK'
    BY <2>19 DEF StreamOpened, AnswerStep, queueVars, taskVars, worldVars
  <2>20. ASSUME NEW r \in Requests, Sent(r)
        PROVE  TypeOK'
    BY <2>20 DEF Sent, AnswerStep, queueVars, taskVars, worldVars
  <2>21. ASSUME NEW r \in Requests, BackendEnds(r)
        PROVE  TypeOK'
    <3> PICK s \in Outcomes : BackendEndsWith(r, s)
      BY <2>21 DEF BackendEnds
    <3>1. QueueTypeOK'
      BY ReleaseSlotType DEF BackendEndsWith
    <3>2. s \in Int
      BY StatusAssumption DEF Outcomes
    <3>3. /\ worker' \in [Requests -> {"none", "new", "queued", "running", "ended"}]
          /\ outcome' \in [Requests -> Int]
          /\ UNCHANGED <<call, lines, worldVars>>
      BY <3>2 DEF BackendEndsWith
    <3>4. /\ failed' \subseteq Requests
          /\ status' \in [Requests -> Int]
          /\ answer' \in [Requests ->
               {"none", "new", "opening", "working", "sending", "closing", "done"}]
      <4>1. CASE r \in Streaming
        BY <4>1 DEF BackendEndsWith
      <4>2. CASE r \notin Streaming /\ s = 500
        <5>1. /\ answer' = [answer EXCEPT ![r] = "done"]
              /\ failed' = failed \cup {r}
              /\ status' = status
          BY <4>2 DEF BackendEndsWith
        <5> QED BY <5>1
      <4>3. CASE r \notin Streaming /\ s # 500
        <5>1. /\ answer' = [answer EXCEPT ![r] = "sending"]
              /\ status' = [status EXCEPT ![r] = s]
              /\ failed' = failed
          BY <4>3 DEF BackendEndsWith
        <5> QED BY <3>2, <5>1
      <4> QED BY <4>1, <4>2, <4>3
    <3> QED BY <3>1, <3>3, <3>4 DEF worldVars
  <2>22. ASSUME NEW r \in Requests, Refused(r)
        PROVE  TypeOK'
    BY <2>22, StatusAssumption DEF Refused, Refuse, queueVars, taskVars, worldVars
  <2>23. ASSUME NEW r \in Requests, TurnedAway(r)
        PROVE  TypeOK'
    BY <2>23 DEF TurnedAway, Refuse, queueVars, taskVars, worldVars
  <2>24. ASSUME NEW r \in Requests, Count(r)
        PROVE  TypeOK'
    BY <2>24 DEF Count, queueVars, taskVars, worldVars
  <2>25. ASSUME NEW r \in Requests, SendFails(r)
        PROVE  TypeOK'
    BY <2>25 DEF SendFails, AnswerStep, queueVars, taskVars, worldVars
  <2>26. ASSUME NEW r \in Requests, StreamFails(r)
        PROVE  TypeOK'
    BY <2>26 DEF StreamFails, CloseStream, CancelWait, queueVars, taskVars, worldVars
  <2>27. ASSUME NEW r \in Requests, ClientLeaves(r)
        PROVE  TypeOK'
    BY <2>27 DEF ClientLeaves, queueVars, taskVars, worldVars
  <2>28. CASE Shutdown
    BY <2>28 DEF Shutdown, queueVars, taskVars
  <2>29. CASE UNCHANGED vars
    BY <2>29 DEF vars, queueVars, taskVars, worldVars
  <2> QED
    BY <2>1, <2>2, <2>3, <2>4, <2>5, <2>6, <2>7, <2>8, <2>9, <2>10, <2>11,
       <2>12, <2>13, <2>14, <2>15, <2>16, <2>17, <2>18, <2>19, <2>20, <2>21,
       <2>22, <2>23, <2>24, <2>25, <2>26, <2>27, <2>28, <2>29 DEF Next,
       LoopStep, WorldStep, Chance
<1> QED BY <1>1, <1>2, PTL DEF Spec

---------------------------------------------------------------------------
(* The stages of a request *)

\* Waking a waiter or cancelling one leaves everybody's future where it is.
LEMMA WakeFirstStays ==
    ASSUME NEW ws, NEW fs \in Futures, NEW q \in Requests
    PROVE  WakeFirst(ws, fs)[q] = "none" <=> fs[q] = "none"
<1>1. \A x : [fs EXCEPT ![x] = "woken"][q] = IF x = q THEN "woken" ELSE fs[q]
  BY DEF Futures
<1>2. ASSUME fs[q] = "none", fs[ws[1]] = "pending"
      PROVE  ws[1] # q
  BY <1>2
<1> QED BY <1>1, <1>2 DEF WakeFirst

\* Cancelling a request takes its future, or another's, neither away nor adds one.
LEMMA CancelWaitStays ==
    ASSUME TypeOK, NEW r \in Requests, NEW q \in Requests
    PROVE  CancelWait(r)[q] = "none" <=> future[q] = "none"
BY DEF CancelWait, TypeOK, QueueTypeOK

\* Nor does leaving the slot: it sets a future at most.
LEMMA ReleaseSlotStays ==
    ASSUME TypeOK, ReleaseSlot, NEW q \in Requests
    PROVE  future'[q] = "none" <=> future[q] = "none"
<1>1. future \in Futures
  BY DEF TypeOK, QueueTypeOK, Futures
<1> QED BY <1>1, WakeFirstStays DEF ReleaseSlot

\* A request that leaves acquire() loses its future, and only that one.
LEMMA LeaveWaitersFuture ==
    ASSUME TypeOK, NEW r \in Requests, LeaveWaiters(r), NEW q \in Requests
    PROVE  future'[q] = "none" <=> q = r \/ future[q] = "none"
<1> DEFINE gone == [future EXCEPT ![r] = "none"]
<1>1. gone \in Futures
  BY DEF TypeOK, QueueTypeOK, Futures
<1>2. gone[q] = "none" <=> q = r \/ future[q] = "none"
  BY DEF TypeOK, QueueTypeOK
<1>3. future' = gone \/ future' = WakeFirst(Without(waiters, r), gone)
  BY DEF LeaveWaiters
<1> HIDE DEF gone
<1>4. WakeFirst(Without(waiters, r), gone)[q] = "none" <=> gone[q] = "none"
  BY <1>1, WakeFirstStays
<1>5. future'[q] = "none" <=> gone[q] = "none"
  BY <1>3, <1>4
<1> QED BY <1>2, <1>5

\* In every state, what a request holds fits the stage its tasks have reached.
THEOREM StagesInvariant == Spec => []Stages
<1>1. Init => Stages
  BY DEF Init, QueueInit, Stages
<1>2. TypeOK /\ Stages /\ [Next]_vars => Stages'
  <2> SUFFICES ASSUME TypeOK, Stages, [Next]_vars
               PROVE  Stages'
    OBVIOUS
  <2> USE DEF TypeOK, QueueTypeOK, Stages
  <2>1. ASSUME NEW r \in Requests, RefusedAfterCount(r)
        PROVE  Stages'
    BY <2>1 DEF RefusedAfterCount, Refuse, queueVars, taskVars, worldVars
  <2>2. ASSUME NEW r \in Requests, TurnedAwayAfterCount(r)
        PROVE  Stages'
    BY <2>2 DEF TurnedAwayAfterCount, Refuse, queueVars, taskVars, worldVars
  <2>3. ASSUME NEW r \in Requests, Accept(r)
        PROVE  Stages'
    BY <2>3 DEF Accept, Reserve, queueVars, taskVars, worldVars
  <2>4. ASSUME NEW r \in Requests, RunAtOnce(r)
        PROVE  Stages'
    BY <2>4 DEF RunAtOnce, TakeSlot, Start, StopWaiting, NowWorking,
       EntersSlot, queueVars, taskVars, worldVars
  <2>5. ASSUME NEW r \in Requests, WaitForSlot(r)
        PROVE  Stages'
    BY <2>5 DEF WaitForSlot, JoinWaiters, NowWorking, EntersSlot, queueVars,
       taskVars, worldVars
  <2>6. ASSUME NEW r \in Requests, RunInTurn(r)
        PROVE  Stages'
    BY <2>6 DEF RunInTurn, WakeUp, Start, StopWaiting, queueVars, taskVars,
       worldVars
  <2>7. ASSUME NEW r \in Requests, CancelledInQueue(r)
        PROVE  Stages'
    <3>1. LeaveWaiters(r) /\ EndCancelled(r) /\ worker[r] = "queued"
      BY <2>7 DEF CancelledInQueue
    <3>2. \A q \in Requests : future'[q] = "none" <=> q = r \/ future[q] = "none"
      BY <3>1, LeaveWaitersFuture
    <3>3. place' = [place EXCEPT ![r] = IF @ = "waiting" THEN "gone" ELSE @]
      <4>1. GiveUp(r)
        BY <3>1 DEF LeaveWaiters
      <4> QED BY <4>1 DEF GiveUp, StopWaiting
    <3> QED BY <3>1, <3>2, <3>3 DEF EndCancelled
  <2>8. ASSUME NEW r \in Requests, CancelledRunning(r)
        PROVE  Stages'
    <3>1. ReleaseSlot /\ EndCancelled(r) /\ worker[r] = "running"
      BY <2>8 DEF CancelledRunning
    <3>2. \A q \in Requests : future'[q] = "none" <=> future[q] = "none"
      BY <3>1, ReleaseSlotStays
    <3>3. UNCHANGED place
      BY <3>1 DEF ReleaseSlot
    <3> QED BY <3>1, <3>2, <3>3 DEF EndCancelled
  <2>9. ASSUME NEW r \in Requests, CancelledUnstarted(r)
        PROVE  Stages'
    BY <2>9 DEF CancelledUnstarted, EndCancelled, queueVars, taskVars,
       worldVars
  <2>10. ASSUME NEW r \in Requests, OpenStream(r)
        PROVE  Stages'
    BY <2>10 DEF OpenStream, AnswerStep, queueVars, taskVars, worldVars
  <2>11. ASSUME NEW r \in Requests, StreamEnds(r)
        PROVE  Stages'
    BY <2>11 DEF StreamEnds, AnswerStep, queueVars, taskVars, worldVars
  <2>12. ASSUME NEW r \in Requests, StreamCancelled(r)
        PROVE  Stages'
    BY <2>12, CancelWaitStays DEF StreamCancelled, CloseStream, queueVars,
       taskVars, worldVars
  <2>13. ASSUME NEW r \in Requests, StreamClosed(r)
        PROVE  Stages'
    BY <2>13 DEF StreamClosed, queueVars, taskVars, worldVars
  <2>14. ASSUME NEW r \in Requests, AnswerCancelledOutsideSlot(r)
        PROVE  Stages'
    BY <2>14 DEF AnswerCancelledOutsideSlot, queueVars, taskVars, worldVars
  <2>15. ASSUME NEW r \in Requests, CallWakes(r)
        PROVE  Stages'
    BY <2>15, CancelWaitStays DEF CallWakes, CancelAnswer, queueVars,
       taskVars, worldVars
  <2>16. ASSUME NEW r \in Requests, CallEnds(r)
        PROVE  Stages'
    BY <2>16 DEF CallEnds, GiveUp, StopWaiting, queueVars, taskVars, worldVars
  <2>17. ASSUME NEW r \in Requests, CallAborted(r)
        PROVE  Stages'
    BY <2>17 DEF CallAborted, queueVars, taskVars, worldVars
  <2>18. ASSUME NEW r \in Requests, CallCancelled(r)
        PROVE  Stages'
    BY <2>18, CancelWaitStays DEF CallCancelled, CancelAnswer, queueVars,
       taskVars, worldVars
  <2>19. ASSUME NEW r \in Requests, StreamOpened(r)
        PROVE  Stages'
    BY <2>19 DEF StreamOpened, AnswerStep, queueVars, taskVars, worldVars
  <2>20. ASSUME NEW r \in Requests, Sent(r)
        PROVE  Stages'
    BY <2>20 DEF Sent, AnswerStep, queueVars, taskVars, worldVars
  <2>21. ASSUME NEW r \in Requests, BackendEnds(r)
        PROVE  Stages'
    <3> PICK s \in Outcomes : BackendEndsWith(r, s)
      BY <2>21 DEF BackendEnds
    <3>1. ReleaseSlot /\ worker[r] = "running"
      BY DEF BackendEndsWith
    <3>2. \A q \in Requests : future'[q] = "none" <=> future[q] = "none"
      BY <3>1, ReleaseSlotStays
    <3>3. UNCHANGED place
      BY <3>1 DEF ReleaseSlot
    <3> QED BY <3>1, <3>2, <3>3 DEF BackendEndsWith
  <2>22. ASSUME NEW r \in Requests, Refused(r)
        PROVE  Stages'
    BY <2>22 DEF Refused, Refuse, queueVars, taskVars, worldVars
  <2>23. ASSUME NEW r \in Requests, TurnedAway(r)
        PROVE  Stages'
    BY <2>23 DEF TurnedAway, Refuse, queueVars, taskVars, worldVars
  <2>24. ASSUME NEW r \in Requests, Count(r)
        PROVE  Stages'
    BY <2>24 DEF Count, queueVars, taskVars, worldVars
  <2>25. ASSUME NEW r \in Requests, SendFails(r)
        PROVE  Stages'
    BY <2>25 DEF SendFails, AnswerStep, queueVars, taskVars, worldVars
  <2>26. ASSUME NEW r \in Requests, StreamFails(r)
        PROVE  Stages'
    BY <2>26, CancelWaitStays DEF StreamFails, CloseStream, queueVars,
       taskVars, worldVars
  <2>27. ASSUME NEW r \in Requests, ClientLeaves(r)
        PROVE  Stages'
    BY <2>27 DEF ClientLeaves, queueVars, taskVars, worldVars
  <2>28. CASE Shutdown
    BY <2>28 DEF Shutdown, queueVars, taskVars
  <2>29. CASE UNCHANGED vars
    BY <2>29 DEF vars, queueVars, taskVars, worldVars
  <2> QED
    BY <2>1, <2>2, <2>3, <2>4, <2>5, <2>6, <2>7, <2>8, <2>9, <2>10, <2>11,
       <2>12, <2>13, <2>14, <2>15, <2>16, <2>17, <2>18, <2>19, <2>20, <2>21,
       <2>22, <2>23, <2>24, <2>25, <2>26, <2>27, <2>28, <2>29 DEF Next,
       LoopStep, WorldStep, Chance
<1> QED BY <1>1, <1>2, Typing, PTL DEF Spec

---------------------------------------------------------------------------
(* The lock *)

LockInv == Line /\ HandedOn /\ SlotExclusive

\* A line that is not empty has a first.
LEMMA NonEmpty ==
    ASSUME NEW ws \in Seq(Requests)
    PROVE  ws # <<>> <=> 1 \in DOMAIN ws
<1>1. Len(ws) \in Nat /\ DOMAIN ws = 1 .. Len(ws)
  OBVIOUS
<1>2. ws = <<>> <=> Len(ws) = 0
  BY EmptySeq
<1> QED BY <1>1, <1>2

\* Without removes position at and closes the gap.
LEMMA WithoutAt ==
    ASSUME NEW ws \in Seq(Requests), NEW at \in DOMAIN ws,
           \A i, j \in DOMAIN ws : ws[i] = ws[j] => i = j
    PROVE  /\ DOMAIN Without(ws, ws[at]) = 1 .. Len(ws) - 1
           /\ \A i \in 1 .. Len(ws) - 1 :
                 Without(ws, ws[at])[i] = IF i < at THEN ws[i] ELSE ws[i + 1]
<1>1. (CHOOSE i \in DOMAIN ws : ws[i] = ws[at]) = at
  OBVIOUS
<1> QED BY <1>1 DEF Without

\* What is left are the other requests, each once, the first one first unless
\* it is the one removed.
LEMMA WithoutRest ==
    ASSUME NEW ws \in Seq(Requests), NEW at \in DOMAIN ws,
           \A i, j \in DOMAIN ws : ws[i] = ws[j] => i = j
    PROVE  LET rest == Without(ws, ws[at])
           IN  /\ \A i \in DOMAIN rest : \E j \in DOMAIN ws : rest[i] = ws[j] /\ j # at
               /\ \A j \in DOMAIN ws : j # at => \E i \in DOMAIN rest : rest[i] = ws[j]
               /\ \A i, j \in DOMAIN rest : rest[i] = rest[j] => i = j
               /\ \A i \in DOMAIN rest : rest[i] = ws[1] => i = 1
<1> DEFINE rest == Without(ws, ws[at])
           n == Len(ws)
<1>1. n \in Nat /\ DOMAIN ws = 1 .. n /\ at \in 1 .. n
  OBVIOUS
<1>2. /\ DOMAIN rest = 1 .. n - 1
      /\ \A i \in 1 .. n - 1 : rest[i] = IF i < at THEN ws[i] ELSE ws[i + 1]
  BY WithoutAt
<1> HIDE DEF rest, n
<1>3. \A i \in 1 .. n - 1 : IF i < at THEN i \in 1 .. n /\ i # at
                                      ELSE i + 1 \in 1 .. n /\ i + 1 # at
  BY <1>1
<1>4. \A i \in DOMAIN rest : \E j \in DOMAIN ws : rest[i] = ws[j] /\ j # at
  BY <1>1, <1>2, <1>3
<1>5. \A j \in DOMAIN ws : j # at => \E i \in DOMAIN rest : rest[i] = ws[j]
  <2> TAKE j \in DOMAIN ws
  <2> HAVE j # at
  <2>1. CASE j < at
    <3>1. j \in 1 .. n - 1 /\ rest[j] = ws[j]
      BY <1>1, <1>2, <2>1
    <3> QED BY <1>2, <3>1
  <2>2. CASE j > at
    <3>1. j - 1 \in 1 .. n - 1 /\ ~(j - 1 < at) /\ (j - 1) + 1 = j
      BY <1>1, <2>2
    <3>2. rest[j - 1] = ws[j]
      BY <1>2, <3>1
    <3> QED BY <1>2, <3>1, <3>2
  <2> QED BY <1>1, <2>1, <2>2
<1>6. \A i, j \in DOMAIN rest : rest[i] = rest[j] => i = j
  <2> TAKE i, j \in DOMAIN rest
  <2> DEFINE from(k) == IF k < at THEN k ELSE k + 1
  <2>1. from(i) \in DOMAIN ws /\ from(j) \in DOMAIN ws /\ rest[i] = ws[from(i)] /\ rest[j] = ws[from(j)]
    BY <1>1, <1>2, <1>3
  <2>2. rest[i] = rest[j] => from(i) = from(j)
    BY <2>1
  <2>3. from(i) = from(j) => i = j
    BY <1>1, <1>2
  <2> QED BY <2>2, <2>3
<1>7. \A i \in DOMAIN rest : rest[i] = ws[1] => i = 1
  <2> TAKE i \in DOMAIN rest
  <2> HAVE rest[i] = ws[1]
  <2>1. CASE i < at
    BY <1>1, <1>2, <2>1
  <2>2. CASE ~(i < at)
    <3>1. i + 1 \in DOMAIN ws /\ ws[i + 1] = ws[1]
      BY <1>1, <1>2, <1>3, <2>2
    <3>2. i + 1 = 1
      BY <1>1, <3>1
    <3> QED BY <1>1, <1>2, <3>2
  <2> QED BY <2>1, <2>2
<1> QED BY <1>4, <1>5, <1>6, <1>7 DEF rest

\* The line after a step that moves no future to or from "none", adds no woken
\* one, and leaves the deque alone.
LEMMA SameWaiters ==
    ASSUME TypeOK, Line, waiters' = waiters,
           \A q \in Requests : future'[q] = "none" <=> future[q] = "none",
           \A i \in DOMAIN waiters : future'[waiters[i]] = "woken" => i = 1 /\ ~locked'
    PROVE  Line'
<1>1. \A i \in DOMAIN waiters : waiters[i] \in Requests
  BY DEF TypeOK, QueueTypeOK
<1> QED BY <1>1 DEF Line

\* Nothing about the lock changes.
LEMMA LockUntouched ==
    ASSUME TypeOK, LockInv, UNCHANGED <<locked, waiters, future>>, Running' = Running
    PROVE  LockInv'
BY DEF LockInv, Line, HandedOn, SlotExclusive

\* A task that may be waiting in acquire() is cancelled.
LEMMA WaitCancelled ==
    ASSUME TypeOK, LockInv, NEW r \in Requests, future' = CancelWait(r),
           UNCHANGED <<locked, waiters>>, Running' = Running
    PROVE  LockInv'
<1>1. \A q \in Requests : /\ future'[q] = "none" <=> future[q] = "none"
                          /\ future'[q] = "woken" <=> future[q] = "woken"
                          /\ future'[q] = "pending" => future[q] = "pending"
  BY DEF CancelWait, TypeOK, QueueTypeOK
<1>2. \A i \in DOMAIN waiters : waiters[i] \in Requests
  BY DEF TypeOK, QueueTypeOK
<1>3. Line'
  BY <1>1, <1>2, SameWaiters DEF LockInv, Line
<1>4. HandedOn'
  <2>1. waiters # <<>> => waiters[1] \in Requests
    BY <1>2, NonEmpty DEF TypeOK, QueueTypeOK
  <2> QED BY <1>1, <2>1 DEF LockInv, HandedOn
<1> QED BY <1>3, <1>4 DEF LockInv, SlotExclusive

\* A newcomer takes the free lock: everybody in line is on the way out.
LEMMA SlotTaken ==
    ASSUME TypeOK, LockInv, NEW r \in Requests, TakeSlot(r),
           Running' = Running \cup {r}
    PROVE  LockInv'
<1>1. /\ ~locked /\ locked' = TRUE /\ UNCHANGED <<waiters, future>>
      /\ \A i \in DOMAIN waiters : future[waiters[i]] = "cancelled"
  BY DEF TakeSlot, CanTake
<1>2. Line'
  BY <1>1, SameWaiters DEF LockInv, Line
<1>3. Running' = {r}
  BY <1>1 DEF LockInv, SlotExclusive
<1> QED BY <1>1, <1>2, <1>3 DEF LockInv, HandedOn, SlotExclusive

\* A task that is not in line joins it, at the end.
LEMMA WaiterJoins ==
    ASSUME TypeOK, LockInv, NEW r \in Requests, JoinWaiters(r), future[r] = "none",
           Running' = Running
    PROVE  LockInv'
<1>1. /\ ~CanTake /\ locked' = locked
      /\ waiters' = Append(waiters, r)
      /\ future' = [future EXCEPT ![r] = "pending"]
  BY DEF JoinWaiters
<1>2. waiters \in Seq(Requests) /\ Len(waiters) \in Nat /\ DOMAIN waiters = 1 .. Len(waiters)
  BY DEF TypeOK, QueueTypeOK
<1>3. /\ DOMAIN waiters' = 1 .. Len(waiters) + 1
      /\ \A i \in DOMAIN waiters : waiters'[i] = waiters[i]
      /\ waiters'[Len(waiters) + 1] = r
  BY <1>1, <1>2
<1>4. \A i \in DOMAIN waiters : waiters[i] \in Requests /\ waiters[i] # r
  BY <1>2 DEF LockInv, Line
<1>5. \A q \in Requests : future'[q] = IF q = r THEN "pending" ELSE future[q]
  BY <1>1 DEF TypeOK, QueueTypeOK
<1>6. \A i \in DOMAIN waiters' : i \in DOMAIN waiters \/ i = Len(waiters) + 1
  BY <1>2, <1>3
<1>7. DOMAIN waiters \subseteq DOMAIN waiters' /\ Len(waiters) + 1 \in DOMAIN waiters'
  BY <1>2, <1>3
<1>8. Line'
  <2>1. (\A i \in DOMAIN waiters : future[waiters[i]] # "none")'
    BY <1>3, <1>4, <1>5, <1>6 DEF LockInv, Line
  <2>2. (\A q \in Requests : future[q] # "none" => \E i \in DOMAIN waiters : waiters[i] = q)'
    <3>1. ASSUME NEW q \in Requests, future'[q] # "none"
          PROVE  \E i \in DOMAIN waiters' : waiters'[i] = q
      <4>1. CASE q = r
        BY <1>3, <1>7, <4>1
      <4>2. CASE q # r
        <5>1. PICK i \in DOMAIN waiters : waiters[i] = q
          BY <1>5, <3>1, <4>2 DEF LockInv, Line
        <5> QED BY <1>3, <1>7, <5>1
      <4> QED BY <4>1, <4>2
    <3> QED BY <3>1
  <2>3. (\A i, j \in DOMAIN waiters : waiters[i] = waiters[j] => i = j)'
    BY <1>3, <1>4, <1>6 DEF LockInv, Line
  <2>4. (\A i \in DOMAIN waiters : future[waiters[i]] = "woken" => i = 1 /\ ~locked)'
    BY <1>1, <1>3, <1>4, <1>5, <1>6 DEF LockInv, Line
  <2> QED BY <2>1, <2>2, <2>3, <2>4 DEF Line
<1>9. HandedOn'
  <2> SUFFICES ASSUME ~locked PROVE future'[waiters'[1]] # "pending"
    BY <1>1 DEF HandedOn
  <2>1. 1 \in DOMAIN waiters
    BY <1>1, <1>2 DEF CanTake
  <2>2. waiters # <<>>
    BY <1>2, <2>1, NonEmpty
  <2> QED BY <1>3, <1>4, <1>5, <2>1, <2>2 DEF LockInv, HandedOn
<1> QED BY <1>1, <1>8, <1>9 DEF LockInv, SlotExclusive

\* What is left of the line when r leaves it, before anybody is woken.
LEMMA LineWithout ==
    ASSUME TypeOK, Line, NEW r \in Requests, future[r] # "none"
    PROVE  LET rest == Without(waiters, r)
           IN  /\ rest \in Seq(Requests)
               /\ \A i \in DOMAIN rest :
                     rest[i] # r /\ \E j \in DOMAIN waiters : rest[i] = waiters[j]
               /\ \A q \in Requests : q # r /\ future[q] # "none" =>
                     \E i \in DOMAIN rest : rest[i] = q
               /\ \A i, j \in DOMAIN rest : rest[i] = rest[j] => i = j
               /\ \A i \in DOMAIN rest : future[rest[i]] = "woken" => i = 1 /\ ~locked
<1> DEFINE rest == Without(waiters, r)
<1>1. PICK at \in DOMAIN waiters : waiters[at] = r
  BY DEF Line
<1>2. waiters \in Seq(Requests) /\ \A i, j \in DOMAIN waiters : waiters[i] = waiters[j] => i = j
  BY DEF TypeOK, QueueTypeOK, Line
<1>3. /\ \A i \in DOMAIN rest : \E j \in DOMAIN waiters : rest[i] = waiters[j] /\ j # at
      /\ \A j \in DOMAIN waiters : j # at => \E i \in DOMAIN rest : rest[i] = waiters[j]
      /\ \A i, j \in DOMAIN rest : rest[i] = rest[j] => i = j
      /\ \A i \in DOMAIN rest : rest[i] = waiters[1] => i = 1
  BY <1>1, <1>2, WithoutRest
<1>4. rest \in Seq(Requests)
  BY <1>2, WithoutType
<1> HIDE DEF rest
<1>5. \A i \in DOMAIN rest : rest[i] # r /\ \E j \in DOMAIN waiters : rest[i] = waiters[j]
  BY <1>1, <1>2, <1>3
<1>6. ASSUME NEW q \in Requests, q # r, future[q] # "none"
      PROVE  \E i \in DOMAIN rest : rest[i] = q
  <2>1. PICK j \in DOMAIN waiters : waiters[j] = q
    BY <1>6 DEF Line
  <2> QED BY <1>1, <1>3, <1>6, <2>1
<1>7. ASSUME NEW i \in DOMAIN rest, future[rest[i]] = "woken"
      PROVE  i = 1 /\ ~locked
  <2>1. PICK j \in DOMAIN waiters : rest[i] = waiters[j]
    BY <1>3
  <2>2. j = 1 /\ ~locked
    BY <1>7, <2>1 DEF Line
  <2> QED BY <1>3, <2>1, <2>2
<1> QED BY <1>3, <1>4, <1>5, <1>6, <1>7 DEF rest

\* The woken waiter enters the slot: it was first in line, nobody else is woken.
LEMMA WaiterRuns ==
    ASSUME TypeOK, LockInv, NEW r \in Requests, WakeUp(r),
           Running' = Running \cup {r}
    PROVE  LockInv'
<1> DEFINE rest == Without(waiters, r)
<1>1. /\ future[r] = "woken" /\ waiters' = rest
      /\ future' = [future EXCEPT ![r] = "none"] /\ locked' = TRUE
  BY DEF WakeUp
<1>2. /\ \A i \in DOMAIN rest :
            rest[i] # r /\ \E j \in DOMAIN waiters : rest[i] = waiters[j]
      /\ \A q \in Requests : q # r /\ future[q] # "none" =>
            \E i \in DOMAIN rest : rest[i] = q
      /\ \A i, j \in DOMAIN rest : rest[i] = rest[j] => i = j
  BY <1>1, LineWithout DEF LockInv
<1>3. \A q \in Requests : future'[q] = IF q = r THEN "none" ELSE future[q]
  BY <1>1 DEF TypeOK, QueueTypeOK
<1>4. \A i \in DOMAIN waiters : waiters[i] \in Requests
  BY DEF TypeOK, QueueTypeOK
<1>5. PICK at \in DOMAIN waiters : waiters[at] = r
  BY <1>1 DEF LockInv, Line
<1>6. at = 1 /\ ~locked
  BY <1>1, <1>5 DEF LockInv, Line
<1> HIDE DEF rest
<1>7. \A i \in DOMAIN rest : future'[rest[i]] \notin {"none", "woken"}
  <2> TAKE i \in DOMAIN rest
  <2>1. PICK j \in DOMAIN waiters : rest[i] = waiters[j]
    BY <1>2
  <2>2. rest[i] # r /\ rest[i] \in Requests /\ future[waiters[j]] # "none"
    BY <1>2, <1>4, <2>1 DEF LockInv, Line
  <2>3. future[waiters[j]] # "woken"
    BY <1>2, <1>5, <1>6, <2>1 DEF LockInv, Line
  <2> QED BY <1>3, <2>1, <2>2, <2>3
<1>8. Line'
  BY <1>1, <1>2, <1>3, <1>7 DEF Line
<1>9. Running' = {r}
  BY <1>6 DEF LockInv, SlotExclusive
<1> QED BY <1>1, <1>8, <1>9 DEF LockInv, HandedOn, SlotExclusive

\* Waking the first of a line that has at most its first woken.
LEMMA WakeFirstWakes ==
    ASSUME NEW ws \in Seq(Requests), NEW fs \in Futures,
           \A i, j \in DOMAIN ws : ws[i] = ws[j] => i = j,
           \A i \in DOMAIN ws : fs[ws[i]] = "woken" => i = 1
    PROVE  /\ \A i \in DOMAIN ws : WakeFirst(ws, fs)[ws[i]] = "woken" => i = 1
           /\ ws # <<>> => WakeFirst(ws, fs)[ws[1]] # "pending"
<1>1. ws # <<>> => 1 \in DOMAIN ws
  BY NonEmpty
<1>2. \A i \in DOMAIN ws : ws[i] \in Requests
  OBVIOUS
<1>3. CASE ws # <<>> /\ fs[ws[1]] = "pending"
  <2>1. WakeFirst(ws, fs) = [fs EXCEPT ![ws[1]] = "woken"]
    BY <1>3 DEF WakeFirst
  <2>2. \A q \in Requests : WakeFirst(ws, fs)[q] = IF q = ws[1] THEN "woken" ELSE fs[q]
    BY <2>1 DEF Futures
  <2> QED BY <1>1, <1>2, <2>2
<1>4. CASE ~(ws # <<>> /\ fs[ws[1]] = "pending")
  BY <1>4 DEF WakeFirst
<1> QED BY <1>3, <1>4

\* A cancelled waiter leaves; if the lock is free, the next one is woken.
LEMMA WaiterLeaves ==
    ASSUME TypeOK, LockInv, NEW r \in Requests, LeaveWaiters(r), Running' = Running
    PROVE  LockInv'
<1> DEFINE rest == Without(waiters, r)
           gone == [future EXCEPT ![r] = "none"]
<1>1. /\ future[r] # "none" /\ waiters' = rest /\ locked' = locked
      /\ future' = IF locked THEN gone ELSE WakeFirst(rest, gone)
  BY DEF LeaveWaiters
<1>2. /\ rest \in Seq(Requests)
      /\ \A i \in DOMAIN rest :
            rest[i] # r /\ \E j \in DOMAIN waiters : rest[i] = waiters[j]
      /\ \A q \in Requests : q # r /\ future[q] # "none" =>
            \E i \in DOMAIN rest : rest[i] = q
      /\ \A i, j \in DOMAIN rest : rest[i] = rest[j] => i = j
      /\ \A i \in DOMAIN rest : future[rest[i]] = "woken" => i = 1 /\ ~locked
  BY <1>1, LineWithout DEF LockInv
<1>3. gone \in Futures /\ \A q \in Requests : gone[q] = IF q = r THEN "none" ELSE future[q]
  BY DEF TypeOK, QueueTypeOK, Futures
<1> HIDE DEF rest, gone
<1>4. \A i \in DOMAIN rest : /\ rest[i] \in Requests /\ gone[rest[i]] # "none"
                             /\ gone[rest[i]] = "woken" => i = 1 /\ ~locked
  BY <1>2, <1>3 DEF LockInv, Line
<1>5. \A q \in Requests : future'[q] = "none" <=> gone[q] = "none"
  <2>1. \A q \in Requests : WakeFirst(rest, gone)[q] = "none" <=> gone[q] = "none"
    BY <1>3, WakeFirstStays
  <2> QED BY <1>1, <2>1
<1>6. /\ \A i \in DOMAIN rest : future'[rest[i]] = "woken" => i = 1 /\ ~locked
      /\ ~locked /\ rest # <<>> => future'[rest[1]] # "pending"
  <2>1. CASE locked
    BY <1>1, <1>4, <2>1
  <2>2. CASE ~locked
    <3>1. future' = WakeFirst(rest, gone)
      BY <1>1, <2>2
    <3>2. \A i \in DOMAIN rest : gone[rest[i]] = "woken" => i = 1
      BY <1>4
    <3>3. /\ \A i \in DOMAIN rest : WakeFirst(rest, gone)[rest[i]] = "woken" => i = 1
          /\ rest # <<>> => WakeFirst(rest, gone)[rest[1]] # "pending"
      BY <1>2, <1>3, <3>2, WakeFirstWakes
    <3> QED BY <2>2, <3>1, <3>3
  <2> QED BY <2>1, <2>2
<1>7. Line'
  <2>1. (\A i \in DOMAIN waiters : future[waiters[i]] # "none")'
    BY <1>1, <1>4, <1>5
  <2>2. (\A q \in Requests : future[q] # "none" => \E i \in DOMAIN waiters : waiters[i] = q)'
    BY <1>1, <1>2, <1>3, <1>5
  <2> QED BY <1>1, <1>2, <1>6, <2>1, <2>2 DEF Line
<1>8. HandedOn'
  BY <1>1, <1>6 DEF HandedOn
<1> QED BY <1>1, <1>7, <1>8 DEF LockInv, SlotExclusive

\* The one that runs releases the slot, and the first in line is woken.
LEMMA SlotReleased ==
    ASSUME TypeOK, LockInv, NEW r \in Running, ReleaseSlot, Running' = Running \ {r}
    PROVE  LockInv'
<1>1. locked
  BY DEF LockInv, SlotExclusive
<1>2. /\ locked' = FALSE /\ waiters' = waiters /\ future' = WakeFirst(waiters, future)
  BY DEF ReleaseSlot
<1>3. waiters \in Seq(Requests) /\ future \in Futures
  BY DEF TypeOK, QueueTypeOK, Futures
<1>4. /\ \A i \in DOMAIN waiters : future'[waiters[i]] = "woken" => i = 1
      /\ waiters # <<>> => future'[waiters[1]] # "pending"
  BY <1>1, <1>2, <1>3, WakeFirstWakes DEF LockInv, Line
<1>5. \A q \in Requests : future'[q] = "none" <=> future[q] = "none"
  BY ReleaseSlotStays
<1>6. Line'
  BY <1>2, <1>4, <1>5, SameWaiters DEF LockInv
<1>7. HandedOn'
  BY <1>2, <1>4 DEF HandedOn
<1>8. Running' = {}
  BY DEF LockInv, SlotExclusive
<1> QED BY <1>2, <1>6, <1>7, <1>8 DEF LockInv, SlotExclusive

\* A step whose task neither enters nor leaves the slot keeps who runs.
LEMMA SameRunning ==
    ASSUME TypeOK, NEW r \in Requests, NEW to, worker' = [worker EXCEPT ![r] = to],
           worker[r] # "running", to # "running"
    PROVE  Running' = Running
BY DEF Running, TypeOK

\* A worker that starts to run is one more that runs ...
LEMMA OneMoreRuns ==
    ASSUME TypeOK, NEW r \in Requests, worker' = [worker EXCEPT ![r] = "running"]
    PROVE  Running' = Running \cup {r}
BY DEF Running, TypeOK

\* ... and one that ends is one less.
LEMMA OneLessRuns ==
    ASSUME TypeOK, NEW r \in Requests, worker' = [worker EXCEPT ![r] = "ended"],
           worker[r] = "running"
    PROVE  r \in Running /\ Running' = Running \ {r}
BY DEF Running, TypeOK

\* In every state the lock is consistent: one request runs at most, it holds the
\* lock, the line is in order and no wake-up is lost.
THEOREM LockInvariant == Spec => []LockInv
<1>1. Init => LockInv
  <2> SUFFICES ASSUME Init PROVE LockInv
    OBVIOUS
  <2>1. waiters = <<>> /\ ~locked /\ Running = {}
    BY DEF Init, QueueInit, Running
  <2>2. DOMAIN waiters = {}
    BY <2>1
  <2>3. \A r \in Requests : future[r] = "none"
    BY DEF Init, QueueInit
  <2> QED BY <2>1, <2>2, <2>3 DEF LockInv, Line, HandedOn, SlotExclusive
<1>2. TypeOK /\ Stages /\ LockInv /\ [Next]_vars => LockInv'
  <2> SUFFICES ASSUME TypeOK, Stages, LockInv, [Next]_vars
               PROVE  LockInv'
    OBVIOUS
  <2>1. ASSUME NEW r \in Requests, RefusedAfterCount(r)
        PROVE  LockInv'
    <3>1. UNCHANGED <<locked, waiters, future>> /\ Running' = Running
      BY <2>1 DEF RefusedAfterCount, Refuse, queueVars, taskVars, Running
    <3> QED BY <3>1, LockUntouched
  <2>2. ASSUME NEW r \in Requests, TurnedAwayAfterCount(r)
        PROVE  LockInv'
    <3>1. UNCHANGED <<locked, waiters, future>> /\ Running' = Running
      BY <2>2 DEF TurnedAwayAfterCount, Refuse, queueVars, taskVars, Running
    <3> QED BY <3>1, LockUntouched
  <2>3. ASSUME NEW r \in Requests, Accept(r)
        PROVE  LockInv'
    <3>1. UNCHANGED <<locked, waiters, future>> /\ Running' = Running
      BY <2>3 DEF Accept, Reserve, queueVars, taskVars, Running
    <3> QED BY <3>1, LockUntouched
  <2>4. ASSUME NEW r \in Requests, RunAtOnce(r)
        PROVE  LockInv'
    <3>1. Running' = Running \cup {r}
      BY <2>4, OneMoreRuns DEF RunAtOnce
    <3> QED BY <2>4, <3>1, SlotTaken DEF RunAtOnce
  <2>5. ASSUME NEW r \in Requests, WaitForSlot(r)
        PROVE  LockInv'
    <3>1. worker[r] \in {"none", "new"}
      BY <2>5 DEF WaitForSlot, EntersSlot, Stages
    <3>2. future[r] = "none"
      BY <3>1 DEF Stages
    <3>3. Running' = Running
      BY <2>5, <3>1, SameRunning DEF WaitForSlot
    <3> QED BY <2>5, <3>2, <3>3, WaiterJoins DEF WaitForSlot
  <2>6. ASSUME NEW r \in Requests, RunInTurn(r)
        PROVE  LockInv'
    <3>1. Running' = Running \cup {r}
      BY <2>6, OneMoreRuns DEF RunInTurn
    <3> QED BY <2>6, <3>1, WaiterRuns DEF RunInTurn
  <2>7. ASSUME NEW r \in Requests, CancelledInQueue(r)
        PROVE  LockInv'
    <3>1. Running' = Running
      BY <2>7, SameRunning DEF CancelledInQueue, EndCancelled
    <3> QED BY <2>7, <3>1, WaiterLeaves DEF CancelledInQueue
  <2>8. ASSUME NEW r \in Requests, CancelledRunning(r)
        PROVE  LockInv'
    <3>1. r \in Running /\ Running' = Running \ {r}
      BY <2>8, OneLessRuns DEF CancelledRunning, EndCancelled
    <3> QED BY <2>8, <3>1, SlotReleased DEF CancelledRunning
  <2>9. ASSUME NEW r \in Requests, CancelledUnstarted(r)
        PROVE  LockInv'
    <3>1. UNCHANGED <<locked, waiters, future>>
      BY <2>9 DEF CancelledUnstarted, queueVars
    <3>2. worker[r] \in {"none", "new"} /\ \E to \in {"new", "ended"} : worker' = [worker EXCEPT ![r] = to]
      BY <2>9 DEF CancelledUnstarted, EndCancelled, Stages
    <3>3. Running' = Running
      BY <3>2, SameRunning
    <3> QED BY <3>1, <3>3, LockUntouched
  <2>10. ASSUME NEW r \in Requests, OpenStream(r)
        PROVE  LockInv'
    <3>1. UNCHANGED <<locked, waiters, future>> /\ Running' = Running
      BY <2>10 DEF OpenStream, queueVars, taskVars, Running
    <3> QED BY <3>1, LockUntouched
  <2>11. ASSUME NEW r \in Requests, StreamEnds(r)
        PROVE  LockInv'
    <3>1. UNCHANGED <<locked, waiters, future>> /\ Running' = Running
      BY <2>11 DEF StreamEnds, queueVars, taskVars, Running
    <3> QED BY <3>1, LockUntouched
  <2>12. ASSUME NEW r \in Requests, StreamCancelled(r)
        PROVE  LockInv'
    <3>1. UNCHANGED <<locked, waiters, worker>>
      BY <2>12 DEF StreamCancelled, CloseStream
    <3>2. Running' = Running
      BY <3>1 DEF Running
    <3>3. future' = CancelWait(r) \/ future' = future
      BY <2>12 DEF StreamCancelled, CloseStream
    <3> QED BY <3>1, <3>2, <3>3, WaitCancelled, LockUntouched
  <2>13. ASSUME NEW r \in Requests, StreamClosed(r)
        PROVE  LockInv'
    <3>1. UNCHANGED <<locked, waiters, future>> /\ Running' = Running
      BY <2>13 DEF StreamClosed, queueVars, taskVars, Running
    <3> QED BY <3>1, LockUntouched
  <2>14. ASSUME NEW r \in Requests, AnswerCancelledOutsideSlot(r)
        PROVE  LockInv'
    <3>1. UNCHANGED <<locked, waiters, future>> /\ Running' = Running
      BY <2>14 DEF AnswerCancelledOutsideSlot, queueVars, taskVars, Running
    <3> QED BY <3>1, LockUntouched
  <2>15. ASSUME NEW r \in Requests, CallWakes(r)
        PROVE  LockInv'
    <3>1. UNCHANGED <<locked, waiters, worker>>
      BY <2>15 DEF CallWakes, CancelAnswer
    <3>2. Running' = Running
      BY <3>1 DEF Running
    <3>3. future' = CancelWait(r) \/ future' = future
      BY <2>15 DEF CallWakes, CancelAnswer
    <3> QED BY <3>1, <3>2, <3>3, WaitCancelled, LockUntouched
  <2>16. ASSUME NEW r \in Requests, CallEnds(r)
        PROVE  LockInv'
    <3>1. UNCHANGED <<locked, waiters, future>> /\ Running' = Running
      BY <2>16 DEF CallEnds, GiveUp, queueVars, taskVars, Running
    <3> QED BY <3>1, LockUntouched
  <2>17. ASSUME NEW r \in Requests, CallAborted(r)
        PROVE  LockInv'
    <3>1. UNCHANGED <<locked, waiters, future>> /\ Running' = Running
      BY <2>17 DEF CallAborted, queueVars, taskVars, Running
    <3> QED BY <3>1, LockUntouched
  <2>18. ASSUME NEW r \in Requests, CallCancelled(r)
        PROVE  LockInv'
    <3>1. UNCHANGED <<locked, waiters, worker>>
      BY <2>18 DEF CallCancelled, CancelAnswer
    <3>2. Running' = Running
      BY <3>1 DEF Running
    <3>3. future' = CancelWait(r) \/ future' = future
      BY <2>18 DEF CallCancelled, CancelAnswer
    <3> QED BY <3>1, <3>2, <3>3, WaitCancelled, LockUntouched
  <2>19. ASSUME NEW r \in Requests, StreamOpened(r)
        PROVE  LockInv'
    <3>1. UNCHANGED <<locked, waiters, future>>
      BY <2>19 DEF StreamOpened, queueVars
    <3>2. worker[r] \in {"none", "new"} /\ \E to \in {"new", "ended"} : worker' = [worker EXCEPT ![r] = to]
      BY <2>19 DEF StreamOpened, AnswerStep, Stages
    <3>3. Running' = Running
      BY <3>2, SameRunning
    <3> QED BY <3>1, <3>3, LockUntouched
  <2>20. ASSUME NEW r \in Requests, Sent(r)
        PROVE  LockInv'
    <3>1. UNCHANGED <<locked, waiters, future>> /\ Running' = Running
      BY <2>20 DEF Sent, queueVars, taskVars, Running
    <3> QED BY <3>1, LockUntouched
  <2>21. ASSUME NEW r \in Requests, BackendEnds(r)
        PROVE  LockInv'
    <3>1. ReleaseSlot /\ worker[r] = "running" /\ worker' = [worker EXCEPT ![r] = "ended"]
      BY <2>21 DEF BackendEnds, BackendEndsWith
    <3>2. r \in Running /\ Running' = Running \ {r}
      BY <3>1, OneLessRuns
    <3> QED BY <3>1, <3>2, SlotReleased
  <2>22. ASSUME NEW r \in Requests, Refused(r)
        PROVE  LockInv'
    <3>1. UNCHANGED <<locked, waiters, future>> /\ Running' = Running
      BY <2>22 DEF Refused, Refuse, queueVars, taskVars, Running
    <3> QED BY <3>1, LockUntouched
  <2>23. ASSUME NEW r \in Requests, TurnedAway(r)
        PROVE  LockInv'
    <3>1. UNCHANGED <<locked, waiters, future>> /\ Running' = Running
      BY <2>23 DEF TurnedAway, Refuse, queueVars, taskVars, Running
    <3> QED BY <3>1, LockUntouched
  <2>24. ASSUME NEW r \in Requests, Count(r)
        PROVE  LockInv'
    <3>1. UNCHANGED <<locked, waiters, future>> /\ Running' = Running
      BY <2>24 DEF Count, queueVars, taskVars, Running
    <3> QED BY <3>1, LockUntouched
  <2>25. ASSUME NEW r \in Requests, SendFails(r)
        PROVE  LockInv'
    <3>1. UNCHANGED <<locked, waiters, future>> /\ Running' = Running
      BY <2>25 DEF SendFails, queueVars, taskVars, Running
    <3> QED BY <3>1, LockUntouched
  <2>26. ASSUME NEW r \in Requests, StreamFails(r)
        PROVE  LockInv'
    <3>1. UNCHANGED <<locked, waiters, worker>>
      BY <2>26 DEF StreamFails, CloseStream
    <3>2. Running' = Running
      BY <3>1 DEF Running
    <3>3. future' = CancelWait(r) \/ future' = future
      BY <2>26 DEF StreamFails, CloseStream
    <3> QED BY <3>1, <3>2, <3>3, WaitCancelled, LockUntouched
  <2>27. ASSUME NEW r \in Requests, ClientLeaves(r)
        PROVE  LockInv'
    <3>1. UNCHANGED <<locked, waiters, future>> /\ Running' = Running
      BY <2>27 DEF ClientLeaves, queueVars, taskVars, Running
    <3> QED BY <3>1, LockUntouched
  <2>28. CASE Shutdown
    <3>1. UNCHANGED <<locked, waiters, future>> /\ Running' = Running
      BY <2>28 DEF Shutdown, queueVars, taskVars, Running
    <3> QED BY <3>1, LockUntouched
  <2>29. CASE UNCHANGED vars
    <3>1. UNCHANGED <<locked, waiters, future>> /\ Running' = Running
      BY <2>29 DEF vars, queueVars, taskVars, Running
    <3> QED BY <3>1, LockUntouched
  <2> QED
    BY <2>1, <2>2, <2>3, <2>4, <2>5, <2>6, <2>7, <2>8, <2>9, <2>10, <2>11,
       <2>12, <2>13, <2>14, <2>15, <2>16, <2>17, <2>18, <2>19, <2>20, <2>21,
       <2>22, <2>23, <2>24, <2>25, <2>26, <2>27, <2>28, <2>29 DEF Next,
       LoopStep, WorldStep, Chance
<1> QED BY <1>1, <1>2, Typing, StagesInvariant, PTL DEF Spec

\* Two requests never hold the backend's slot together.
THEOREM OneAtATime == Spec => []SlotExclusive
<1>1. LockInv => SlotExclusive
  BY DEF LockInv
<1> QED BY <1>1, LockInvariant, PTL

\* A lock that is free never leaves the first in line asleep.
THEOREM NoLostWakeUp == Spec => []HandedOn
<1>1. LockInv => HandedOn
  BY DEF LockInv
<1> QED BY <1>1, LockInvariant, PTL

---------------------------------------------------------------------------
(* The counters *)

\* What the counters count is finite.
LEMMA FiniteCounts ==
    /\ IsFiniteSet(Holding) /\ IsFiniteSet(Running)
    /\ Cardinality(Holding) \in Nat /\ Cardinality(Running) \in Nat
<1>1. IsFiniteSet(Holding) /\ IsFiniteSet(Running)
  BY RequestsAssumption, FS_Subset DEF Holding, Running
<1> QED BY <1>1, FS_CardinalityType

\* A step that touches neither counters, places nor running workers.
LEMMA CountersUntouched ==
    ASSUME Accounting, UNCHANGED <<waiting, active, place, published>>, Running' = Running
    PROVE  Accounting'
BY DEF Accounting, Holding

\* reserve(), after full() has said no.
LEMMA PlaceTaken ==
    ASSUME TypeOK, Accounting, NEW r \in Requests, place[r] = "none", ~Full, Reserve(r),
           Running' = Running
    PROVE  Accounting'
<1>1. /\ waiting' = waiting + 1 /\ active' = active /\ published' = <<active, waiting + 1>>
      /\ place' = [place EXCEPT ![r] = "waiting"]
  BY DEF Reserve
<1>2. Holding' = Holding \cup {r} /\ r \notin Holding
  BY <1>1 DEF Holding, TypeOK, QueueTypeOK
<1>3. Cardinality(Holding') = Cardinality(Holding) + 1
  BY <1>2, FiniteCounts, FS_AddElement
<1>4. active + waiting < 1 + QueueSize
  BY QueueSizeAssumption DEF Full, TypeOK, QueueTypeOK
<1>5. waiting \in Int /\ active \in Int /\ QueueSize \in Int
  BY QueueSizeAssumption DEF TypeOK, QueueTypeOK
<1> QED BY <1>1, <1>3, <1>4, <1>5 DEF Accounting

\* give_up(), whether the request still waits or not.
LEMMA PlaceGivenUp ==
    ASSUME TypeOK, Accounting, NEW r \in Requests, GiveUp(r), Running' = Running
    PROVE  Accounting'
<1>1. CASE place[r] = "waiting"
  <2>1. /\ waiting' = waiting - 1 /\ active' = active /\ published' = <<active, waiting - 1>>
        /\ place' = [place EXCEPT ![r] = "gone"]
    BY <1>1 DEF GiveUp, StopWaiting, StillWaiting
  <2>2. Holding' = Holding \ {r} /\ r \in Holding
    BY <1>1, <2>1 DEF Holding, TypeOK, QueueTypeOK
  <2>3. Cardinality(Holding') = Cardinality(Holding) - 1
    BY <2>2, FiniteCounts, FS_RemoveElement
  <2>4. waiting \in Int /\ active \in Int /\ QueueSize \in Int
    BY QueueSizeAssumption DEF TypeOK, QueueTypeOK
  <2> QED BY <2>1, <2>3, <2>4 DEF Accounting
<1>2. CASE place[r] # "waiting"
  <2>1. waiting' = waiting /\ active' = active /\ published' = published
    BY <1>2 DEF GiveUp, StillWaiting
  <2>2. place' = place
    BY <1>2 DEF GiveUp, StopWaiting, TypeOK, QueueTypeOK
  <2> QED BY <2>1, <2>2, CountersUntouched
<1> QED BY <1>1, <1>2

\* A request that holds its place enters the slot.
LEMMA PlaceBecomesSlot ==
    ASSUME TypeOK, Accounting, NEW r \in Requests, place[r] = "waiting", r \notin Running,
           Start(r), Running' = Running \cup {r}
    PROVE  Accounting'
<1>1. /\ waiting' = waiting - 1 /\ active' = active + 1
      /\ published' = <<active + 1, waiting - 1>>
      /\ place' = [place EXCEPT ![r] = "gone"]
  BY DEF Start, StopWaiting, StillWaiting
<1>2. Holding' = Holding \ {r} /\ r \in Holding
  BY <1>1 DEF Holding, TypeOK, QueueTypeOK
<1>3. Cardinality(Holding') = Cardinality(Holding) - 1
  BY <1>2, FiniteCounts, FS_RemoveElement
<1>4. Cardinality(Running') = Cardinality(Running) + 1
  BY FiniteCounts, FS_AddElement
<1>5. waiting \in Int /\ active \in Int /\ QueueSize \in Int
  BY QueueSizeAssumption DEF TypeOK, QueueTypeOK
<1> QED BY <1>1, <1>3, <1>4, <1>5 DEF Accounting

\* The one that runs leaves the slot.
LEMMA SlotFreed ==
    ASSUME TypeOK, Accounting, NEW r \in Running, ReleaseSlot, Running' = Running \ {r}
    PROVE  Accounting'
<1>1. /\ waiting' = waiting /\ active' = active - 1 /\ published' = <<active - 1, waiting>>
      /\ place' = place
  BY DEF ReleaseSlot
<1>2. Holding' = Holding
  BY <1>1 DEF Holding
<1>3. Cardinality(Running') = Cardinality(Running) - 1
  BY FiniteCounts, FS_RemoveElement
<1>4. waiting \in Int /\ active \in Int /\ QueueSize \in Int
  BY QueueSizeAssumption DEF TypeOK, QueueTypeOK
<1> QED BY <1>1, <1>2, <1>3, <1>4 DEF Accounting

\* In every state the queue's counters and its published figures are right, and
\* no more than 1 + QueueSize requests are let in: for any number of requests, in
\* any order of accepting, starting, giving up and cancelling them.
THEOREM QueueAccounting == Spec => []Accounting
<1>1. Init => Accounting
  <2> SUFFICES ASSUME Init PROVE Accounting
    OBVIOUS
  <2>1. Holding = {} /\ Running = {}
    BY DEF Init, QueueInit, Holding, Running
  <2>2. Cardinality(Holding) = 0 /\ Cardinality(Running) = 0
    BY <2>1, FS_EmptySet
  <2> QED BY <2>2, QueueSizeAssumption DEF Init, QueueInit, Accounting
<1>2. TypeOK /\ Stages /\ Accounting /\ [Next]_vars => Accounting'
  <2> SUFFICES ASSUME TypeOK, Stages, Accounting, [Next]_vars
               PROVE  Accounting'
    OBVIOUS
  <2>1. ASSUME NEW r \in Requests, RefusedAfterCount(r)
        PROVE  Accounting'
    <3>1. UNCHANGED <<waiting, active, place, published>> /\ Running' = Running
      BY <2>1 DEF RefusedAfterCount, Refuse, queueVars, taskVars, Running
    <3> QED BY <3>1, CountersUntouched
  <2>2. ASSUME NEW r \in Requests, TurnedAwayAfterCount(r)
        PROVE  Accounting'
    <3>1. UNCHANGED <<waiting, active, place, published>> /\ Running' = Running
      BY <2>2 DEF TurnedAwayAfterCount, Refuse, queueVars, taskVars, Running
    <3> QED BY <3>1, CountersUntouched
  <2>3. ASSUME NEW r \in Requests, Accept(r)
        PROVE  Accounting'
    <3>1. place[r] = "none" /\ Running' = Running
      BY <2>3 DEF Accept, Stages, Running
    <3> QED BY <2>3, <3>1, PlaceTaken DEF Accept
  <2>4. ASSUME NEW r \in Requests, RunAtOnce(r)
        PROVE  Accounting'
    <3>1. Running' = Running \cup {r}
      BY <2>4, OneMoreRuns DEF RunAtOnce
    <3>2. place[r] = "waiting" /\ r \notin Running
      BY <2>4 DEF RunAtOnce, EntersSlot, Stages, Running
    <3>3. Start(r)
      BY <2>4 DEF RunAtOnce, TakeSlot
    <3> QED BY <3>1, <3>2, <3>3, PlaceBecomesSlot
  <2>5. ASSUME NEW r \in Requests, WaitForSlot(r)
        PROVE  Accounting'
    <3>1. worker[r] \in {"none", "new"}
      BY <2>5 DEF WaitForSlot, EntersSlot, Stages
    <3>2. Running' = Running
      BY <2>5, <3>1, SameRunning DEF WaitForSlot
    <3> QED BY <2>5, <3>2, CountersUntouched DEF WaitForSlot, JoinWaiters
  <2>6. ASSUME NEW r \in Requests, RunInTurn(r)
        PROVE  Accounting'
    <3>1. Running' = Running \cup {r}
      BY <2>6, OneMoreRuns DEF RunInTurn
    <3>2. place[r] = "waiting" /\ r \notin Running
      BY <2>6 DEF RunInTurn, Stages, Running
    <3>3. Start(r)
      BY <2>6 DEF RunInTurn, WakeUp
    <3> QED BY <3>1, <3>2, <3>3, PlaceBecomesSlot
  <2>7. ASSUME NEW r \in Requests, CancelledInQueue(r)
        PROVE  Accounting'
    <3>1. Running' = Running
      BY <2>7, SameRunning DEF CancelledInQueue, EndCancelled
    <3> QED BY <2>7, <3>1, PlaceGivenUp DEF CancelledInQueue, LeaveWaiters
  <2>8. ASSUME NEW r \in Requests, CancelledRunning(r)
        PROVE  Accounting'
    <3>1. r \in Running /\ Running' = Running \ {r}
      BY <2>8, OneLessRuns DEF CancelledRunning, EndCancelled
    <3> QED BY <2>8, <3>1, SlotFreed DEF CancelledRunning
  <2>9. ASSUME NEW r \in Requests, CancelledUnstarted(r)
        PROVE  Accounting'
    <3>1. UNCHANGED <<waiting, active, place, published>>
      BY <2>9 DEF CancelledUnstarted, queueVars
    <3>2. worker[r] \in {"none", "new"} /\ \E to \in {"new", "ended"} : worker' = [worker EXCEPT ![r] = to]
      BY <2>9 DEF CancelledUnstarted, EndCancelled, Stages
    <3>3. Running' = Running
      BY <3>2, SameRunning
    <3> QED BY <3>1, <3>3, CountersUntouched
  <2>10. ASSUME NEW r \in Requests, OpenStream(r)
        PROVE  Accounting'
    <3>1. UNCHANGED <<waiting, active, place, published>> /\ Running' = Running
      BY <2>10 DEF OpenStream, queueVars, taskVars, Running
    <3> QED BY <3>1, CountersUntouched
  <2>11. ASSUME NEW r \in Requests, StreamEnds(r)
        PROVE  Accounting'
    <3>1. UNCHANGED <<waiting, active, place, published>> /\ Running' = Running
      BY <2>11 DEF StreamEnds, queueVars, taskVars, Running
    <3> QED BY <3>1, CountersUntouched
  <2>12. ASSUME NEW r \in Requests, StreamCancelled(r)
        PROVE  Accounting'
    <3>1. UNCHANGED <<waiting, active, place, published>> /\ Running' = Running
      BY <2>12 DEF StreamCancelled, CloseStream, queueVars, taskVars, Running
    <3> QED BY <3>1, CountersUntouched
  <2>13. ASSUME NEW r \in Requests, StreamClosed(r)
        PROVE  Accounting'
    <3>1. UNCHANGED <<waiting, active, place, published>> /\ Running' = Running
      BY <2>13 DEF StreamClosed, queueVars, taskVars, Running
    <3> QED BY <3>1, CountersUntouched
  <2>14. ASSUME NEW r \in Requests, AnswerCancelledOutsideSlot(r)
        PROVE  Accounting'
    <3>1. UNCHANGED <<waiting, active, place, published>> /\ Running' = Running
      BY <2>14 DEF AnswerCancelledOutsideSlot, queueVars, taskVars, Running
    <3> QED BY <3>1, CountersUntouched
  <2>15. ASSUME NEW r \in Requests, CallWakes(r)
        PROVE  Accounting'
    <3>1. UNCHANGED <<waiting, active, place, published>> /\ Running' = Running
      BY <2>15 DEF CallWakes, CancelAnswer, queueVars, taskVars, Running
    <3> QED BY <3>1, CountersUntouched
  <2>16. ASSUME NEW r \in Requests, CallEnds(r)
        PROVE  Accounting'
    <3>1. Running' = Running
      BY <2>16 DEF CallEnds, Running
    <3> QED BY <2>16, <3>1, PlaceGivenUp DEF CallEnds
  <2>17. ASSUME NEW r \in Requests, CallAborted(r)
        PROVE  Accounting'
    <3>1. UNCHANGED <<waiting, active, place, published>> /\ Running' = Running
      BY <2>17 DEF CallAborted, queueVars, taskVars, Running
    <3> QED BY <3>1, CountersUntouched
  <2>18. ASSUME NEW r \in Requests, CallCancelled(r)
        PROVE  Accounting'
    <3>1. UNCHANGED <<waiting, active, place, published>> /\ Running' = Running
      BY <2>18 DEF CallCancelled, CancelAnswer, queueVars, taskVars, Running
    <3> QED BY <3>1, CountersUntouched
  <2>19. ASSUME NEW r \in Requests, StreamOpened(r)
        PROVE  Accounting'
    <3>1. UNCHANGED <<waiting, active, place, published>>
      BY <2>19 DEF StreamOpened, queueVars
    <3>2. worker[r] \in {"none", "new"} /\ \E to \in {"new", "ended"} : worker' = [worker EXCEPT ![r] = to]
      BY <2>19 DEF StreamOpened, AnswerStep, Stages
    <3>3. Running' = Running
      BY <3>2, SameRunning
    <3> QED BY <3>1, <3>3, CountersUntouched
  <2>20. ASSUME NEW r \in Requests, Sent(r)
        PROVE  Accounting'
    <3>1. UNCHANGED <<waiting, active, place, published>> /\ Running' = Running
      BY <2>20 DEF Sent, queueVars, taskVars, Running
    <3> QED BY <3>1, CountersUntouched
  <2>21. ASSUME NEW r \in Requests, BackendEnds(r)
        PROVE  Accounting'
    <3>1. ReleaseSlot /\ worker[r] = "running" /\ worker' = [worker EXCEPT ![r] = "ended"]
      BY <2>21 DEF BackendEnds, BackendEndsWith
    <3>2. r \in Running /\ Running' = Running \ {r}
      BY <3>1, OneLessRuns
    <3> QED BY <3>1, <3>2, SlotFreed
  <2>22. ASSUME NEW r \in Requests, Refused(r)
        PROVE  Accounting'
    <3>1. UNCHANGED <<waiting, active, place, published>> /\ Running' = Running
      BY <2>22 DEF Refused, Refuse, queueVars, taskVars, Running
    <3> QED BY <3>1, CountersUntouched
  <2>23. ASSUME NEW r \in Requests, TurnedAway(r)
        PROVE  Accounting'
    <3>1. UNCHANGED <<waiting, active, place, published>> /\ Running' = Running
      BY <2>23 DEF TurnedAway, Refuse, queueVars, taskVars, Running
    <3> QED BY <3>1, CountersUntouched
  <2>24. ASSUME NEW r \in Requests, Count(r)
        PROVE  Accounting'
    <3>1. UNCHANGED <<waiting, active, place, published>> /\ Running' = Running
      BY <2>24 DEF Count, queueVars, taskVars, Running
    <3> QED BY <3>1, CountersUntouched
  <2>25. ASSUME NEW r \in Requests, SendFails(r)
        PROVE  Accounting'
    <3>1. UNCHANGED <<waiting, active, place, published>> /\ Running' = Running
      BY <2>25 DEF SendFails, queueVars, taskVars, Running
    <3> QED BY <3>1, CountersUntouched
  <2>26. ASSUME NEW r \in Requests, StreamFails(r)
        PROVE  Accounting'
    <3>1. UNCHANGED <<waiting, active, place, published>> /\ Running' = Running
      BY <2>26 DEF StreamFails, CloseStream, queueVars, taskVars, Running
    <3> QED BY <3>1, CountersUntouched
  <2>27. ASSUME NEW r \in Requests, ClientLeaves(r)
        PROVE  Accounting'
    <3>1. UNCHANGED <<waiting, active, place, published>> /\ Running' = Running
      BY <2>27 DEF ClientLeaves, queueVars, taskVars, Running
    <3> QED BY <3>1, CountersUntouched
  <2>28. CASE Shutdown
    <3>1. UNCHANGED <<waiting, active, place, published>> /\ Running' = Running
      BY <2>28 DEF Shutdown, queueVars, taskVars, Running
    <3> QED BY <3>1, CountersUntouched
  <2>29. CASE UNCHANGED vars
    <3>1. UNCHANGED <<waiting, active, place, published>> /\ Running' = Running
      BY <2>29 DEF vars, queueVars, taskVars, Running
    <3> QED BY <3>1, CountersUntouched
  <2> QED
    BY <2>1, <2>2, <2>3, <2>4, <2>5, <2>6, <2>7, <2>8, <2>9, <2>10, <2>11,
       <2>12, <2>13, <2>14, <2>15, <2>16, <2>17, <2>18, <2>19, <2>20, <2>21,
       <2>22, <2>23, <2>24, <2>25, <2>26, <2>27, <2>28, <2>29 DEF Next,
       LoopStep, WorldStep, Chance
<1> QED BY <1>1, <1>2, Typing, StagesInvariant, PTL DEF Spec

===========================================================================
