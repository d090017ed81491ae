----------------------------- MODULE Lifecycle -----------------------------
(***************************************************************************)
(* "alab serve" and "alab stop" (serve.py, cli.py) run at the same time    *)
(* over the backend and the gateway (backend/process.py and                *)
(* gateway/process.py, which have the same shape).  A command is a process *)
(* of its own; commands share only files under var/run and two flocks.  A  *)
(* daemon is named by the serve command that spawned it: its pid.          *)
(*                                                                         *)
(* SaveKeepingLock, AbortedAtOnce, CleanedUpAll, SpawnUnchecked and        *)
(* TerminateUnreported are slips that no action uses: they stand in for    *)
(* the definition below them to show that a property would notice.         *)
(***************************************************************************)
CONSTANTS
    Serves,      \* the "alab serve" commands
    Stops,       \* the "alab stop" commands
    ProfileOf,   \* the profile each serve command asks for
    None         \* no process: an absent file, a free lock

Services == {"backend", "gateway"}
Commands == Serves \cup Stops

ASSUME CommandsAssumption == Serves \cap Stops = {} /\ None \notin Commands

VARIABLES
    at,        \* how far each command is
    service,   \* the service it is dealing with
    proc,      \* each service's processes: "none", "loading", "ready" or "dead"
    record,    \* backend.json, gateway.json: the pid each names
    ready,     \* backend.ready.json, gateway.ready.json: likewise
    lock,      \* who holds backend.lock, gateway.lock
    failed     \* the stop commands that could not end a process (_cmd_stop's failed)

vars == <<at, service, proc, record, ready, lock, failed>>

TypeOK ==
    /\ at \in [Commands -> {"idle", "check", "start", "spawned", "aborting", "waiting",
                            "cleanup", "cleaning", "stop", "stopping", "done", "failed",
                            "unstopped", "killed", "orphaned", "abandoned"}]
    /\ service \in [Commands -> Services]
    /\ proc \in [Services -> [Serves -> {"none", "loading", "ready", "dead"}]]
    /\ record \in [Services -> Serves \cup {None}]
    /\ ready \in [Services -> Serves \cup {None}]
    /\ lock \in [Services -> Commands \cup {None}]
    /\ failed \subseteq Stops

Init ==
    /\ at = [c \in Commands |-> "idle"]
    /\ service = [c \in Commands |-> IF c \in Serves THEN "backend" ELSE "gateway"]
    /\ proc = [s \in Services |-> [c \in Serves |-> "none"]]
    /\ record = [s \in Services |-> None]
    /\ ready = [s \in Services |-> None]
    /\ lock = [s \in Services |-> None]
    /\ failed = {}

Live(s, c) == proc[s][c] \in {"loading", "ready"}

\* status() is RUNNING, LOADING or UNHEALTHY: the record names a live process.
Active(s) == record[s] # None /\ Live(s, record[s])

Goto(c, step) == at' = [at EXCEPT ![c] = step] /\ UNCHANGED service

\* serve starts the gateway after the backend; stop stops it before the backend.
GoOn(c) ==
    LET last == IF c \in Serves THEN "gateway" ELSE "backend"
    IN  IF service[c] = last THEN Goto(c, "done")
        ELSE /\ service' = [service EXCEPT ![c] = last]
             /\ at' = [at EXCEPT ![c] = IF c \in Serves THEN "check" ELSE "stop"]

Lock(c) == lock[service[c]] = None /\ lock' = [lock EXCEPT ![service[c]] = c]
Unlock(c) == lock' = [lock EXCEPT ![service[c]] = None]
\* A block under the lock that nobody else can be seen to interleave with.
UnderLock(c) == lock[service[c]] = None /\ UNCHANGED lock

\* _clear_files
Clear(s) == record' = [record EXCEPT ![s] = None] /\ ready' = [ready EXCEPT ![s] = None]

\* The command's process is named nowhere: save has not written the record.
Unrecorded(c) == at[c] \in {"spawned", "aborting"} /\ record[service[c]] # c

\* A process that was left there: its command was killed ("orphaned"), or could neither
\* save the record nor end the process ("abandoned").
Orphan(s, c) == at[c] \in {"orphaned", "abandoned"} /\ service[c] = s

Kill(s, c) == proc' = [proc EXCEPT ![s][c] = "dead"]

---------------------------------------------------------------------------
(* alab serve *)

\* The command starts: serve() has found an API key (it fails at once otherwise).
Begin(c) ==
    /\ at[c] = "idle"
    /\ Goto(c, IF c \in Serves THEN "check" ELSE "stop")
    /\ UNCHANGED <<proc, record, ready, lock, failed>>

\* _start_backend and _start_gateway: the unlocked status().
OtherProfile(c) ==
    /\ at[c] = "check" /\ Active(service[c])
    /\ ProfileOf[record[service[c]]] # ProfileOf[c]
    /\ Goto(c, "failed")
    /\ UNCHANGED <<proc, record, ready, lock, failed>>

AlreadyActive(c) ==
    /\ at[c] = "check" /\ Active(service[c])
    /\ ProfileOf[record[service[c]]] = ProfileOf[c]
    /\ GoOn(c)
    /\ UNCHANGED <<proc, record, ready, lock, failed>>

\* preflight() refuses: model, GPU limit or a port in use.
PreflightFails(c) ==
    /\ at[c] = "check" /\ ~Active(service[c])
    /\ Goto(c, "failed")
    /\ UNCHANGED <<proc, record, ready, lock, failed>>

PreflightPasses(c) ==
    /\ at[c] = "check" /\ ~Active(service[c])
    /\ \A d \in Serves : proc[service[c]][d] # "ready"
    /\ Goto(c, "start")
    /\ UNCHANGED <<proc, record, ready, lock, failed>>

\* start(): under the lock, status() says that another serve was first.
StartedMeanwhile(c) ==
    /\ at[c] = "start" /\ Active(service[c])
    /\ UnderLock(c)
    /\ GoOn(c)
    /\ UNCHANGED <<proc, record, ready, failed>>

SpawnUnchecked(c) ==
    /\ at[c] = "start"
    /\ Lock(c)
    /\ Clear(service[c])
    /\ proc' = [proc EXCEPT ![service[c]][c] = "loading"]
    /\ Goto(c, "spawned")
    /\ UNCHANGED failed

\* start(): clear what is left of an earlier run, and Popen.
Spawn(c) ==
    /\ at[c] = "start" /\ ~Active(service[c])
    /\ Lock(c)
    /\ Clear(service[c])
    /\ proc' = [proc EXCEPT ![service[c]][c] = "loading"]
    /\ Goto(c, "spawned")
    /\ UNCHANGED failed

SaveKeepingLock(c) ==
    /\ at[c] = "spawned"
    /\ record' = [record EXCEPT ![service[c]] = c]
    /\ Goto(c, "waiting")
    /\ UNCHANGED <<proc, ready, lock, failed>>

\* record.save(), then the lock is released for the wait.
Save(c) ==
    /\ at[c] = "spawned"
    /\ record' = [record EXCEPT ![service[c]] = c]
    /\ Unlock(c)
    /\ Goto(c, "waiting")
    /\ UNCHANGED <<proc, ready, failed>>

\* save() raises, before the record is replaced or, by Ctrl-C, just after: terminate()
\* begins, still under the lock ...
SaveFails(c) ==
    /\ at[c] = "spawned"
    /\ record' \in {record, [record EXCEPT ![service[c]] = c]}
    /\ Goto(c, "aborting")
    /\ UNCHANGED <<proc, ready, lock, failed>>

AbortedAtOnce(c) ==
    /\ at[c] = "aborting"
    /\ Unlock(c)
    /\ Goto(c, "failed")
    /\ UNCHANGED <<proc, record, ready, failed>>

\* ... and ends the process (if it does not: TerminateFails).  No file is cleared.
Aborted(c) ==
    /\ at[c] = "aborting"
    /\ Kill(service[c], c)
    /\ Unlock(c)
    /\ Goto(c, "failed")
    /\ UNCHANGED <<record, ready, failed>>

\* _wait_ready returns: the readiness record is ours and /health answers.
Started(c) ==
    /\ at[c] = "waiting"
    /\ ready[service[c]] = c /\ proc[service[c]][c] = "ready"
    /\ GoOn(c)
    /\ UNCHANGED <<proc, record, ready, lock, failed>>

\* _wait_ready raises: the process has exited ...
Exited(c) ==
    /\ at[c] = "waiting" /\ proc[service[c]][c] = "dead"
    /\ Goto(c, "cleanup")
    /\ UNCHANGED <<proc, record, ready, lock, failed>>

\* ... the time is up, or somebody pressed Ctrl-C.
StopsWaiting(c) ==
    /\ at[c] = "waiting" /\ Live(service[c], c)
    /\ Goto(c, "cleanup")
    /\ UNCHANGED <<proc, record, ready, lock, failed>>

\* The except block of start(): take the lock, terminate() ...
CleanUp(c) ==
    /\ at[c] = "cleanup"
    /\ Lock(c)
    /\ Goto(c, "cleaning")
    /\ UNCHANGED <<proc, record, ready, failed>>

CleanedUpAll(c) ==
    /\ at[c] = "cleaning"
    /\ Kill(service[c], c)
    /\ Clear(service[c])
    /\ Unlock(c)
    /\ Goto(c, "failed")
    /\ UNCHANGED failed

\* ... and clear the files only if they are about this process.
CleanedUp(c) ==
    /\ at[c] = "cleaning"
    /\ Kill(service[c], c)
    /\ IF record[service[c]] = c THEN Clear(service[c]) ELSE UNCHANGED <<record, ready>>
    /\ Unlock(c)
    /\ Goto(c, "failed")
    /\ UNCHANGED failed

---------------------------------------------------------------------------
(* alab stop *)

\* stop(): no record, or its process has exited.
NothingToStop(c) ==
    /\ at[c] = "stop" /\ ~Active(service[c])
    /\ UnderLock(c)
    /\ Clear(service[c])
    /\ GoOn(c)
    /\ UNCHANGED <<proc, failed>>

\* stop(): terminate() under the lock ...
StopBegins(c) ==
    /\ at[c] = "stop" /\ Active(service[c])
    /\ Lock(c)
    /\ Goto(c, "stopping")
    /\ UNCHANGED <<proc, record, ready, failed>>

\* ... until SIGTERM or SIGKILL has ended the process.
Stopped(c) ==
    /\ at[c] = "stopping"
    /\ Kill(service[c], record[service[c]])
    /\ Clear(service[c])
    /\ Unlock(c)
    /\ GoOn(c)
    /\ UNCHANGED failed

TerminateUnreported(c) ==
    /\ at[c] \in {"stopping", "cleaning", "aborting"}
    /\ Unlock(c)
    /\ IF c \in Stops THEN GoOn(c)
       ELSE Goto(c, IF Unrecorded(c) THEN "abandoned" ELSE "unstopped")
    /\ UNCHANGED <<proc, record, ready, failed>>

\* terminate() raises: the process did not exit after SIGKILL.  stop goes on to
\* the other service (cli.py:143), a serve command ends.
TerminateFails(c) ==
    /\ at[c] \in {"stopping", "cleaning", "aborting"}
    /\ Unlock(c)
    /\ IF c \in Stops
       THEN GoOn(c) /\ failed' = failed \cup {c}
       ELSE /\ Goto(c, IF Unrecorded(c) THEN "abandoned" ELSE "unstopped")
            /\ UNCHANGED failed
    /\ UNCHANGED <<proc, record, ready>>

---------------------------------------------------------------------------
(* What happens to the processes *)

\* A command is killed, or ends on Ctrl-C outside _wait_ready: its lock goes, its
\* daemon stays (start_new_session), for good if no record names it yet.
Killed(c) ==
    /\ at[c] \notin {"idle", "done", "failed", "unstopped", "killed", "orphaned", "abandoned"}
    /\ Goto(c, IF Unrecorded(c) THEN "orphaned" ELSE "killed")
    /\ lock' = [s \in Services |-> IF lock[s] = c THEN None ELSE lock[s]]
    /\ UNCHANGED <<proc, record, ready, failed>>

\* The daemon binds its port and writes its readiness record.
Loaded(s, c) ==
    /\ proc[s][c] = "loading"
    /\ \A d \in Serves : proc[s][d] # "ready"
    /\ proc' = [proc EXCEPT ![s][c] = "ready"]
    /\ ready' = [ready EXCEPT ![s] = c]
    /\ UNCHANGED <<at, service, record, lock, failed>>

\* It exits: it cannot load or bind, runs out of memory, or crashes.
DaemonExits(s, c) ==
    /\ Live(s, c)
    /\ Kill(s, c)
    /\ UNCHANGED <<at, service, record, ready, lock, failed>>

---------------------------------------------------------------------------

\* What a command does without waiting for a daemon or for the user.
Proceeds(c) ==
    \/ OtherProfile(c) \/ AlreadyActive(c) \/ PreflightFails(c) \/ PreflightPasses(c)
    \/ StartedMeanwhile(c) \/ Spawn(c) \/ Save(c) \/ SaveFails(c) \/ Aborted(c)
    \/ Started(c) \/ Exited(c) \/ CleanUp(c) \/ CleanedUp(c)

StopProceeds(c) ==
    NothingToStop(c) \/ StopBegins(c) \/ Stopped(c) \/ TerminateFails(c)

Next ==
    \/ \E c \in Serves : Proceeds(c) \/ StopsWaiting(c)
    \/ \E c \in Stops : StopProceeds(c)
    \/ \E c \in Commands : Begin(c) \/ Killed(c)
    \/ \E c \in Serves : TerminateFails(c)
    \/ \E s \in Services, c \in Serves : Loaded(s, c) \/ DaemonExits(s, c)

Spec == Init /\ [][Next]_vars

\* Commands keep running.  Nothing is assumed of daemons: one may load for ever,
\* and the start timeout (minutes) need not be near.
Fairness ==
    /\ \A c \in Serves : WF_vars(Proceeds(c))
    /\ \A c \in Stops : WF_vars(StopProceeds(c))

FairSpec == Spec /\ Fairness

---------------------------------------------------------------------------
(* What the commands promise *)

StageOf(c) ==
    CASE at[c] = "idle" -> "new"
      [] at[c] \in {"done", "failed"} -> at[c]
      [] at[c] \in {"unstopped", "killed", "orphaned", "abandoned"} -> "gone"
      [] OTHER -> service[c]

Daemons(s) == {c \in Serves : Live(s, c) /\ ~Orphan(s, c)}

Promise == INSTANCE ServeStop WITH
    stage <- [c \in Commands |-> StageOf(c)],
    daemons <- [s \in Services |-> Daemons(s)],
    excused <- failed

\* Locks, records and start-up implement ServeStop: in particular a serve or stop
\* that ends with success (exit code 0) has seen every service up, or down.
ImplementsServeStop == Promise!Spec

\* "two at once cannot start two backends" (backend/process.py:205): however
\* serve and stop commands overlap, are interrupted or killed, and fail.  Only beside
\* a process left unrecorded (Orphan) can a second one be: nobody knows of it.
OneProcess ==
    \A s \in Services : \A c, d \in Serves :
        Live(s, c) /\ Live(s, d) /\ ~Orphan(s, c) /\ ~Orphan(s, d) => c = d

\* A process that lives can be found and stopped: the record names it, or the
\* command that spawned it is between Popen and the end of save or of the terminate()
\* that follows a failed save (process.py:257-271), there with the lock, or left it so
\* (Orphan).  A clean-up must not clear the record of a later start.
Recorded ==
    \A s \in Services : \A c \in Serves :
        Live(s, c) => \/ record[s] = c
                      \/ at[c] \in {"spawned", "aborting"} /\ service[c] = s
                      \/ Orphan(s, c)

\* "On failure or timeout the new process is stopped" (process.py:242), whichever of
\* its failures a start met, save's included.  A start whose terminate() raises is not
\* "failed" but "unstopped" or "abandoned": there the sentence does not hold.
FailureLeavesNothing == \A c \in Serves : at[c] = "failed" => ~Live(service[c], c)

\* "The lock is only held while starting the process, so alab stop can end a
\* backend that is still loading" (process.py:243): stop comes to its end even
\* if no daemon ever loads and no start times out.
StopEnds == \A c \in Stops : at[c] = "stop" ~> at[c] \in {"done", "killed"}

\* "The gateway would count tokens and set limits for a model that is not
\* served" (serve.py:143): a live gateway and a live backend have one profile.
\* The code compares profiles only in the unlocked status().
ProfilesMatch ==
    \A c, d \in Serves :
        Live("gateway", c) /\ Live("backend", d)
            /\ ~Orphan("gateway", c) /\ ~Orphan("backend", d) =>
                ProfileOf[c] = ProfileOf[d]

\* "The gateway first, so no new request reaches a backend that is going away"
\* (cli.py:135): stop does not take the backend down under a live gateway.  The
\* gateway's lock is free again by then, and a serve command may just be there.
GatewayFirst ==
    \A c \in Stops : at[c] = "stopping" /\ service[c] = "backend" =>
        \A d \in Serves : Live("gateway", d) => Orphan("gateway", d)

===========================================================================
