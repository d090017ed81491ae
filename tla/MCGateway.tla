----------------------------- MODULE MCGateway -----------------------------
(***************************************************************************)
(* Small instances of Gateway for TLC.                                     *)
(***************************************************************************)
EXTENDS Gateway, TLC

\* Requests that ask for the same kind of answer are interchangeable.
Interchangeable ==
    Permutations(Streaming) \cup Permutations(Requests \ Streaming)

CONSTANT third   \* one of the requests

Disrupts(r) == RefusedAfterCount(r) \/ SendFails(r)

\* The server shuts down, a request is refused after the count or a last send fails only
\* before the third request is made: the run about liveness and the lock has these with
\* two requests, and without them three at once.
DisruptedEarly ==
    stopping' \/ (\E r \in Requests : Disrupts(r)) => call'[third] = "idle"

ServingSpec == Init /\ [][Next /\ DisruptedEarly]_vars /\ LoopFairness

===========================================================================
