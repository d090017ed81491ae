----------------------------- MODULE ServeStop -----------------------------
(***************************************************************************)
(* What "alab serve" and "alab stop" promise to whoever runs them, without *)
(* locks, files and start-up: one backend and one gateway at most; a serve *)
(* that ends well found or started each, one that fails leaves nothing of  *)
(* its own; a stop that ends well saw each down.                           *)
(***************************************************************************)
CONSTANTS Serves, Stops

Services == {"backend", "gateway"}
Commands == Serves \cup Stops

VARIABLES
    stage,     \* each command: "new", the service it deals with, or how it ended
    daemons,   \* each service's processes, named by the serve that started them
    excused    \* the stops that have said they could not end a process

vars == <<stage, daemons, excused>>

Init ==
    /\ stage = [c \in Commands |-> "new"]
    /\ daemons = [s \in Services |-> {}]
    /\ excused = {}

First(c) == IF c \in Serves THEN "backend" ELSE "gateway"
Following(c) == IF stage[c] # First(c) THEN "done"
                ELSE IF c \in Serves THEN "gateway" ELSE "backend"

Become(c, next) == stage' = [stage EXCEPT ![c] = next]
Without(s, c) == [daemons EXCEPT ![s] = @ \ {c}]

Begin(c) ==
    /\ stage[c] = "new"
    /\ Become(c, First(c))
    /\ UNCHANGED <<daemons, excused>>

\* A serve starts a process only where there is none.
Start(c) ==
    /\ stage[c] \in Services /\ daemons[stage[c]] = {}
    /\ daemons' = [daemons EXCEPT ![stage[c]] = {c}]
    /\ UNCHANGED <<stage, excused>>

\* A serve goes on, or ends with success, because the service has a process ...
Served(c) ==
    /\ stage[c] \in Services /\ daemons[stage[c]] # {}
    /\ Become(c, Following(c))
    /\ UNCHANGED <<daemons, excused>>

\* ... and a stop because it has none, or none any more.
Down(c) ==
    /\ stage[c] \in Services
    /\ Become(c, Following(c))
    /\ daemons' = [daemons EXCEPT ![stage[c]] = {}]
    /\ UNCHANGED excused

\* A process will not end: the stop says so, and still tries the other service.
Excuse(c) ==
    /\ stage[c] \in Services
    /\ Become(c, Following(c))
    /\ excused' = excused \cup {c}
    /\ UNCHANGED daemons

\* A serve that fails takes its own process along.
Fail(c) ==
    /\ stage[c] \in Services
    /\ Become(c, "failed")
    /\ daemons' = Without(stage[c], c)
    /\ UNCHANGED excused

\* A command is killed, or a serve cannot end its process, which then stays: as a
\* daemon, or, not recorded, known to nobody.
Vanish(c) ==
    /\ stage[c] \in Services
    /\ Become(c, "gone")
    /\ daemons' \in {daemons, Without(stage[c], c)}
    /\ UNCHANGED excused

Exit(s, c) ==
    /\ c \in daemons[s]
    /\ daemons' = Without(s, c)
    /\ UNCHANGED <<stage, excused>>

Next ==
    \/ \E c \in Commands : Begin(c) \/ Vanish(c)
    \/ \E c \in Serves : Start(c) \/ Served(c) \/ Fail(c)
    \/ \E c \in Stops : Down(c) \/ Excuse(c)
    \/ \E s \in Services, c \in Serves : Exit(s, c)

Spec == Init /\ [][Next]_vars

===========================================================================
