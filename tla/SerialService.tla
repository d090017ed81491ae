--------------------------- MODULE SerialService ---------------------------
(***************************************************************************)
(* What gateway/queue.py promises, without its lock, tasks and counters:   *)
(* "One request at a time, a few waiting, the rest turned away".           *)
(***************************************************************************)
EXTENDS Integers, FiniteSets

CONSTANTS Requests, QueueSize

VARIABLE request   \* each request: "new", "waiting", "served" or "over"

Waiting == {r \in Requests : request[r] = "waiting"}
Served == {r \in Requests : request[r] = "served"}

Init == request = [r \in Requests |-> "new"]

Become(r, from, to) ==
    /\ request[r] = from
    /\ request' = [request EXCEPT ![r] = to]

\* Nobody is let in beyond one that is served and QueueSize that wait.
Admit(r) ==
    /\ Cardinality(Waiting) + Cardinality(Served) < 1 + QueueSize
    /\ Become(r, "new", "waiting")

TurnAway(r) == Become(r, "new", "over")

\* The backend serves one request at a time.
Serve(r) ==
    /\ Served = {}
    /\ Become(r, "waiting", "served")

Finish(r) == Become(r, "served", "over")

GiveUp(r) == Become(r, "waiting", "over")

Next ==
    \E r \in Requests : Admit(r) \/ TurnAway(r) \/ Serve(r) \/ Finish(r) \/ GiveUp(r)

\* The backend is not left idle while somebody waits, and finishes what it serves.
Fairness ==
    /\ WF_request(\E r \in Requests : Serve(r))
    /\ \A r \in Requests : WF_request(Finish(r))

SafeSpec == Init /\ [][Next]_request
Spec == SafeSpec /\ Fairness

===========================================================================
