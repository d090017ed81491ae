-------------------------- MODULE LifecycleProofs --------------------------
(***************************************************************************)
(* Proofs about Lifecycle, for any commands and profiles.  Who holds a     *)
(* lock follows from how far the commands are (Held); while a process is   *)
(* not yet recorded its record names no other (Spawned); together          *)
(* they make Recorded inductive, and OneProcess follows from it.  Then the *)
(* refinement of ServeStop, and that commands come to an end: a measure of *)
(* their steps, and that no two wait for each other.                       *)
(***************************************************************************)
EXTENDS Lifecycle, Integers, TLAPS

Holds(c) == at[c] \in {"spawned", "aborting", "cleaning", "stopping"}

\* The four stages under a lock are those of its holder.
Held ==
    /\ \A c \in Commands : Holds(c) => lock[service[c]] = c
    /\ \A s \in Services : lock[s] # None => service[lock[s]] = s /\ Holds(lock[s])

\* From Popen to the end of save, or of the terminate() after a failed save, the record
\* names no other process.
Spawned ==
    \A c \in Commands : at[c] \in {"spawned", "aborting"} => record[service[c]] \in {None, c}

\* Only serve commands spawn, and only once per service.
Fresh ==
    /\ \A c \in Stops : at[c] \notin {"spawned", "aborting"}
    /\ \A c \in Serves :
          /\ at[c] = "idle" => service[c] = "backend"
          /\ at[c] \in {"idle", "check", "start", "failed"} => ~Live(service[c], c)
          /\ service[c] = "backend" => ~Live("gateway", c)

Inv == TypeOK /\ Held /\ Spawned /\ Recorded /\ Fresh

---------------------------------------------------------------------------

\* The variables of Lifecycle keep their types, whatever the commands do.
THEOREM Typing == Spec => []TypeOK
<1>1. Init => TypeOK
  BY DEF Init, TypeOK, Commands, Services
<1>2. TypeOK /\ [Next]_vars => TypeOK'
  <2> SUFFICES ASSUME TypeOK, [Next]_vars PROVE TypeOK'
    OBVIOUS
  <2> USE DEF TypeOK, Commands
  <2>1. ASSUME NEW c \in Commands, Begin(c) \/ Killed(c) PROVE TypeOK'
    BY <2>1 DEF Begin, Killed, Goto
  <2>2. ASSUME NEW c \in Serves,
               \/ OtherProfile(c) \/ PreflightFails(c) \/ PreflightPasses(c)
               \/ Exited(c) \/ StopsWaiting(c)
        PROVE TypeOK'
    BY <2>2 DEF OtherProfile, PreflightFails, PreflightPasses, Exited, StopsWaiting, Goto
  <2>3. ASSUME NEW c \in Serves, AlreadyActive(c) \/ StartedMeanwhile(c) \/ Started(c)
        PROVE TypeOK'
    BY <2>3 DEF AlreadyActive, StartedMeanwhile, Started, UnderLock, GoOn, Goto, Services
  <2>4. ASSUME NEW c \in Serves, Spawn(c) PROVE TypeOK'
    BY <2>4 DEF Spawn, Lock, Clear, Goto
  <2>5. ASSUME NEW c \in Serves, Save(c) PROVE TypeOK'
    BY <2>5 DEF Save, Unlock, Goto
  <2>14. ASSUME NEW c \in Serves, SaveFails(c) PROVE TypeOK'
    BY <2>14 DEF SaveFails, Goto
  <2>16. ASSUME NEW c \in Serves, Aborted(c) PROVE TypeOK'
    <3>1. proc' \in [Services -> [Serves -> {"none", "loading", "ready", "dead"}]]
      BY <2>16 DEF Aborted, Kill
    <3> QED
      BY <2>16, <3>1 DEF Aborted, Unlock, Goto
  <2>6. ASSUME NEW c \in Serves, CleanUp(c) PROVE TypeOK'
    BY <2>6 DEF CleanUp, Lock, Goto
  <2>7. ASSUME NEW c \in Serves, CleanedUp(c) PROVE TypeOK'
    <3>1. proc' \in [Services -> [Serves -> {"none", "loading", "ready", "dead"}]]
      BY <2>7 DEF CleanedUp, Kill
    <3>2. record' \in [Services -> Serves \cup {None}] /\ ready' \in [Services -> Serves \cup {None}]
      BY <2>7 DEF CleanedUp, Clear
    <3> QED
      BY <2>7, <3>1, <3>2 DEF CleanedUp, Unlock, Goto
  <2>8. ASSUME NEW c \in Stops, NothingToStop(c) PROVE TypeOK'
    BY <2>8 DEF NothingToStop, UnderLock, Clear, GoOn, Goto, Services
  <2>9. ASSUME NEW c \in Stops, StopBegins(c) PROVE TypeOK'
    BY <2>9 DEF StopBegins, Lock, Goto
  <2>10. ASSUME NEW c \in Stops, Stopped(c) PROVE TypeOK'
    BY <2>10 DEF Stopped, Kill, Clear, Unlock, GoOn, Goto, Services
  <2>11. ASSUME NEW c \in Commands, TerminateFails(c) PROVE TypeOK'
    BY <2>11 DEF TerminateFails, Unlock, GoOn, Goto, Services
  <2>12. ASSUME NEW s \in Services, NEW c \in Serves, Loaded(s, c)
         PROVE TypeOK'
    <3>1. proc' \in [Services -> [Serves -> {"none", "loading", "ready", "dead"}]]
      BY <2>12 DEF Loaded
    <3> QED
      BY <2>12, <3>1 DEF Loaded
  <2>15. ASSUME NEW s \in Services, NEW c \in Serves, DaemonExits(s, c)
         PROVE TypeOK'
    <3>1. proc' \in [Services -> [Serves -> {"none", "loading", "ready", "dead"}]]
      BY <2>15 DEF DaemonExits, Kill
    <3> QED
      BY <2>15, <3>1 DEF DaemonExits
  <2>13. CASE UNCHANGED vars
    BY <2>13 DEF vars
  <2> QED
    BY <2>1, <2>2, <2>3, <2>4, <2>5, <2>6, <2>7, <2>8, <2>9, <2>10, <2>11, <2>12, <2>13,
       <2>14, <2>15, <2>16
    DEF Next, Proceeds, StopProceeds
<1> QED
  BY <1>1, <1>2, PTL DEF Spec

---------------------------------------------------------------------------

\* Nothing runs, nothing is recorded, nobody holds a lock.
LEMMA InitInv == Init => Inv
<1> SUFFICES ASSUME Init PROVE Inv
  OBVIOUS
<1>1. TypeOK
  BY DEF Init, TypeOK, Commands, Services
<1>2. Held
  BY DEF Init, Held, Holds
<1>3. Spawned
  BY DEF Init, Spawned
<1>4. Recorded
  BY DEF Init, Recorded, Live
<1>5. Fresh
  BY DEF Init, Fresh, Live, Commands, Services
<1> QED
  BY <1>1, <1>2, <1>3, <1>4, <1>5 DEF Inv

\* A step that moves one command between stages outside the locks, and touches
\* neither processes nor files.
LEMMA Moves ==
    ASSUME Inv, TypeOK', NEW c \in Commands, ~Holds(c),
           at[c] \notin {"orphaned", "abandoned"},
           UNCHANGED <<proc, record, lock>>,
           \A d \in Commands \ {c} : at'[d] = at[d] /\ service'[d] = service[d],
           at'[c] \notin {"idle", "spawned", "aborting", "cleaning", "stopping"},
           c \in Serves =>
               /\ service'[c] = "backend" => service[c] = "backend"
               /\ at'[c] \in {"check", "start", "failed"} =>
                     IF service'[c] = service[c] THEN ~Live(service[c], c)
                     ELSE service[c] = "backend"
    PROVE  Inv'
<1> USE DEF Inv, Commands
<1>1. Held'
  <2>1. ASSUME NEW d \in Commands, Holds(d)' PROVE lock'[service'[d]] = d
    BY <2>1 DEF Held, Holds
  <2>2. ASSUME NEW s \in Services, lock'[s] # None
        PROVE service'[lock'[s]] = s /\ Holds(lock[s])'
    <3>1. lock[s] \in Commands /\ service[lock[s]] = s /\ Holds(lock[s])
      BY <2>2 DEF Held, TypeOK
    <3> QED
      BY <3>1 DEF Holds
  <2> QED
    BY <2>1, <2>2 DEF Held, Holds
<1>2. Spawned'
  BY DEF Spawned
<1>3. Recorded'
  BY DEF Recorded, Orphan, Live, Holds
<1>4. Fresh'
  <2>1. \A d \in Stops : at'[d] \notin {"spawned", "aborting"}
    BY DEF Fresh
  <2>2. ASSUME NEW d \in Serves
        PROVE  /\ at'[d] = "idle" => service'[d] = "backend"
               /\ at'[d] \in {"idle", "check", "start", "failed"} => ~Live(service[d], d)'
               /\ service'[d] = "backend" => ~Live("gateway", d)'
    <3>1. CASE d # c
      BY <3>1 DEF Fresh, Live
    <3>2. CASE d = c
      <4>1. service'[c] \in Services
        BY DEF TypeOK
      <4>2. service[c] = "backend" => ~Live("gateway", c)
        BY <3>2 DEF Fresh
      <4>3. at'[c] \in {"check", "start", "failed"} => ~Live(service'[c], c)
        BY <3>2, <4>1, <4>2 DEF Services
      <4> QED
        BY <3>2, <4>2, <4>3 DEF Live
    <3> QED BY <3>1, <3>2
  <2> QED
    BY <2>1, <2>2 DEF Fresh
<1> QED
  BY <1>1, <1>2, <1>3, <1>4

\* A command takes the lock of its service.
LEMMA HeldTaken ==
    ASSUME TypeOK, TypeOK', Held, NEW c \in Commands, Lock(c), UNCHANGED service,
           \A d \in Commands \ {c} : at'[d] = at[d], Holds(c)'
    PROVE  Held'
<1>1. \A s \in Services : lock'[s] = IF s = service[c] THEN c ELSE lock[s]
  BY DEF TypeOK, Lock
<1>2. ASSUME NEW d \in Commands, Holds(d)' PROVE lock'[service'[d]] = d
  <2>1. CASE d = c
    BY <2>1, <1>1 DEF TypeOK
  <2>2. CASE d # c
    <3>1. Holds(d) /\ service[d] \in Services
      BY <1>2, <2>2 DEF Holds, TypeOK
    <3>2. lock[service[d]] = d
      BY <3>1 DEF Held
    <3>3. service[d] # service[c]
      BY <3>2, CommandsAssumption DEF Lock
    <3> QED
      BY <3>1, <3>2, <3>3, <1>1
  <2> QED
    BY <2>1, <2>2
<1>3. ASSUME NEW s \in Services, lock'[s] # None
      PROVE service'[lock'[s]] = s /\ Holds(lock[s])'
  <2>1. CASE s = service[c]
    BY <2>1, <1>1
  <2>2. CASE s # service[c]
    <3>1. lock'[s] = lock[s] /\ service[lock[s]] = s /\ Holds(lock[s]) /\ lock[s] \in Commands
      BY <1>1, <1>3, <2>2 DEF Held, TypeOK
    <3> QED
      BY <3>1, <2>2 DEF Holds
  <2> QED
    BY <2>1, <2>2
<1> QED
  BY <1>2, <1>3 DEF Held

\* The lock a command holds is free again, because it let go or was killed.
LEMMA HeldReleased ==
    ASSUME TypeOK, TypeOK', Held, NEW c \in Commands,
           \A s \in Services : lock'[s] = IF lock[s] = c THEN None ELSE lock[s],
           \A d \in Commands \ {c} : at'[d] = at[d] /\ service'[d] = service[d], ~Holds(c)'
    PROVE  Held'
<1>1. ASSUME NEW d \in Commands, Holds(d)' PROVE lock'[service'[d]] = d
  <2>1. d # c /\ Holds(d) /\ service'[d] = service[d] /\ service[d] \in Services
    BY <1>1 DEF Holds, TypeOK
  <2>2. lock[service[d]] = d
    BY <2>1 DEF Held
  <2> QED
    BY <2>1, <2>2
<1>2. ASSUME NEW s \in Services, lock'[s] # None
      PROVE service'[lock'[s]] = s /\ Holds(lock[s])'
  <2>1. /\ lock'[s] = lock[s] /\ lock[s] # c /\ lock[s] \in Commands
        /\ service[lock[s]] = s /\ Holds(lock[s])
    BY <1>2 DEF Held, TypeOK
  <2> QED
    BY <2>1 DEF Holds
<1> QED
  BY <1>1, <1>2 DEF Held

\* Letting go of the lock of one's own service is letting go of all one holds.
LEMMA UnlockReleases ==
    ASSUME TypeOK, Held, NEW c \in Commands, Holds(c), Unlock(c)
    PROVE  \A s \in Services : lock'[s] = IF lock[s] = c THEN None ELSE lock[s]
<1>1. lock[service[c]] = c /\ service[c] \in Services
  BY DEF Held, TypeOK
<1>2. \A s \in Services : lock[s] = c => s = service[c]
  BY CommandsAssumption DEF Held
<1> QED
  BY <1>1, <1>2 DEF TypeOK, Unlock

\* A live process that a locked service's holder did not spawn is recorded, or
\* an orphan.
LEMMA RecordedUnderLock ==
    ASSUME TypeOK, Held, Recorded, NEW s \in Services, NEW d \in Serves, Live(s, d),
           lock[s] # d, ~Orphan(s, d)
    PROVE  record[s] = d
BY DEF Held, Recorded, Holds, Commands

---------------------------------------------------------------------------

\* Popen under the lock: what the record named before is dead.
LEMMA SpawnStep ==
    ASSUME Inv, TypeOK', NEW c \in Serves, Spawn(c)
    PROVE  Inv'
<1> DEFINE s == service[c]
<1>1. /\ s \in Services /\ c \in Commands /\ lock[s] = None
      /\ \A d \in Commands \ {c} : at'[d] = at[d]
      /\ at[c] = "start" /\ at'[c] = "spawned" /\ service' = service
  BY DEF Spawn, Lock, Goto, Inv, TypeOK, Commands
<1>2. \A d \in Serves : Live(s, d) => Orphan(s, d)
  <2> SUFFICES ASSUME NEW d \in Serves, Live(s, d), ~Orphan(s, d) PROVE FALSE
    OBVIOUS
  <2>1. record[s] = d
    BY <1>1, RecordedUnderLock, CommandsAssumption DEF Inv, Commands
  <2> QED
    BY <2>1, CommandsAssumption DEF Spawn, Active, Commands
<1>3. /\ \A t \in Services : record'[t] = IF t = s THEN None ELSE record[t]
      /\ \A t \in Services, d \in Serves :
            proc'[t][d] = IF t = s /\ d = c THEN "loading" ELSE proc[t][d]
  BY <1>1 DEF Spawn, Clear, Inv, TypeOK
<1>4. Held'
  BY <1>1, HeldTaken DEF Spawn, Inv, Holds
<1>5. Spawned'
  BY <1>1, <1>3 DEF Spawned, Inv, TypeOK
<1>6. Recorded'
  <2> SUFFICES ASSUME NEW t \in Services, NEW d \in Serves, Live(t, d)'
               PROVE \/ record'[t] = d \/ Orphan(t, d)'
                     \/ at'[d] \in {"spawned", "aborting"} /\ service'[d] = t
    BY DEF Recorded
  <2>1. CASE t = s
    BY <2>1, <1>1, <1>2, <1>3 DEF Live, Orphan, Commands
  <2>2. CASE t # s
    BY <2>2, <1>1, <1>3 DEF Live, Orphan, Recorded, Inv, Commands
  <2> QED
    BY <2>1, <2>2
<1>7. Fresh'
  <2>1. \A d \in Stops : at'[d] \notin {"spawned", "aborting"}
    BY <1>1, CommandsAssumption DEF Fresh, Inv, Commands
  <2>2. ASSUME NEW d \in Serves
        PROVE  /\ at'[d] = "idle" => service'[d] = "backend"
               /\ at'[d] \in {"idle", "check", "start", "failed"} => ~Live(service[d], d)'
               /\ service'[d] = "backend" => ~Live("gateway", d)'
    <3>1. CASE d = c
      BY <3>1, <1>1, <1>3 DEF Fresh, Live, Inv, Services
    <3>2. CASE d # c
      <4>1. at'[d] = at[d] /\ \A t \in Services : proc'[t][d] = proc[t][d]
        BY <3>2, <1>1, <1>3 DEF Commands
      <4>2. service[d] \in Services
        BY DEF Inv, TypeOK, Commands
      <4> QED
        BY <4>1, <4>2, <1>1 DEF Fresh, Live, Inv, Services
    <3> QED BY <3>1, <3>2
  <2> QED
    BY <2>1, <2>2 DEF Fresh
<1> QED
  BY <1>4, <1>5, <1>6, <1>7 DEF Inv

\* Taking a lock, to clean up or to stop, changes nothing else.
LEMMA LockTakenStep ==
    ASSUME Inv, TypeOK', NEW c \in Commands,
           (c \in Serves /\ CleanUp(c)) \/ (c \in Stops /\ StopBegins(c))
    PROVE  Inv'
<1>1. /\ \A d \in Commands \ {c} : at'[d] = at[d]
      /\ at'[c] \in {"cleaning", "stopping"} /\ service' = service
      /\ UNCHANGED <<proc, record>> /\ Lock(c)
      /\ at[c] \notin {"spawned", "aborting", "orphaned", "abandoned"}
  BY DEF CleanUp, StopBegins, Goto, Inv, TypeOK
<1>2. Held'
  BY <1>1, HeldTaken DEF Inv, Holds
<1>3. Spawned'
  BY <1>1 DEF Spawned, Inv
<1>4. Recorded'
  BY <1>1 DEF Recorded, Orphan, Inv, Live, Commands
<1>5. Fresh'
  BY <1>1 DEF Fresh, Inv, Live, Commands
<1> QED
  BY <1>2, <1>3, <1>4, <1>5 DEF Inv

\* The record names the new process before the lock is released.
LEMMA SaveStep ==
    ASSUME Inv, TypeOK', NEW c \in Serves, Save(c)
    PROVE  Inv'
<1> DEFINE s == service[c]
<1>1. /\ s \in Services /\ c \in Commands /\ lock[s] = c /\ Holds(c) /\ record[s] \in {None, c}
      /\ \A d \in Commands \ {c} : at'[d] = at[d]
      /\ at[c] = "spawned" /\ at'[c] = "waiting" /\ service' = service /\ proc' = proc
  BY DEF Save, Goto, Inv, TypeOK, Commands, Holds, Held, Spawned
<1>2. \A t \in Services : record'[t] = IF t = s THEN c ELSE record[t]
  BY <1>1 DEF Save, Inv, TypeOK
<1>3. Held'
  BY <1>1, UnlockReleases, HeldReleased DEF Save, Inv, Holds
<1>4. Spawned'
  <2> SUFFICES ASSUME NEW d \in Commands, at'[d] \in {"spawned", "aborting"}
               PROVE record'[service'[d]] \in {None, d}
    BY DEF Spawned
  <2>1. d # c /\ at[d] \in {"spawned", "aborting"} /\ service[d] \in Services
    BY <1>1 DEF Inv, TypeOK
  <2>2. service[d] # s
    BY <1>1, <2>1 DEF Inv, Held, Holds
  <2> QED
    BY <2>1, <2>2, <1>1, <1>2 DEF Inv, Spawned
<1>5. Recorded'
  <2> SUFFICES ASSUME NEW t \in Services, NEW d \in Serves, Live(t, d)'
               PROVE \/ record'[t] = d \/ Orphan(t, d)'
                     \/ at'[d] \in {"spawned", "aborting"} /\ service'[d] = t
    BY DEF Recorded
  <2>1. Live(t, d) /\ d \in Commands
    BY <1>1 DEF Live, Commands
  <2>2. CASE d = c
    BY <2>1, <2>2, <1>1, <1>2, CommandsAssumption DEF Recorded, Orphan, Inv
  <2>3. CASE d # c /\ Orphan(t, d)
    BY <2>1, <2>3, <1>1 DEF Orphan
  <2>4. CASE d # c /\ ~Orphan(t, d) /\ t = s
    BY <2>1, <2>4, <1>1, RecordedUnderLock, CommandsAssumption DEF Inv
  <2>5. CASE d # c /\ ~Orphan(t, d) /\ t # s
    BY <2>1, <2>5, <1>1, <1>2 DEF Recorded, Inv
  <2> QED
    BY <2>2, <2>3, <2>4, <2>5
<1>6. Fresh'
  BY <1>1 DEF Fresh, Inv, Live, Commands
<1> QED
  BY <1>3, <1>4, <1>5, <1>6 DEF Inv

\* The holder of a lock kills process k of its service, clears the record if it
\* names k, and lets go.
LEMMA KillUnderLock ==
    ASSUME Inv, TypeOK', NEW c \in Commands, NEW k, Holds(c), Unlock(c), Kill(service[c], k),
           k = c \/ (c \in Stops /\ k = record[service[c]]),
           \A d \in Commands \ {c} : at'[d] = at[d] /\ service'[d] = service[d],
           at'[c] \notin {"idle", "spawned", "aborting", "cleaning", "stopping"},
           c \in Serves => service'[c] = service[c],
           \A t \in Services : \/ record'[t] = record[t]
                               \/ t = service[c] /\ record[t] = k /\ record'[t] = None
    PROVE  Inv'
<1> DEFINE s == service[c]
<1>1. s \in Services /\ lock[s] = c
  BY DEF Inv, TypeOK, Held
<1>2. \A t \in Services, d \in Serves :
         proc'[t][d] = IF t = s /\ d = k THEN "dead" ELSE proc[t][d]
  BY <1>1 DEF Kill, Inv, TypeOK
<1>3. Held'
  BY UnlockReleases, HeldReleased DEF Inv, Holds
<1>4. Spawned'
  <2> SUFFICES ASSUME NEW d \in Commands, at'[d] \in {"spawned", "aborting"}
               PROVE record'[service'[d]] \in {None, d}
    BY DEF Spawned
  <2>1. /\ at[d] \in {"spawned", "aborting"}
        /\ service'[d] = service[d] /\ service[d] \in Services
    BY DEF Inv, TypeOK
  <2> QED
    BY <2>1 DEF Inv, Spawned
<1>5. Recorded'
  <2> SUFFICES ASSUME NEW t \in Services, NEW d \in Serves, Live(t, d)'
               PROVE \/ record'[t] = d \/ Orphan(t, d)'
                     \/ at'[d] \in {"spawned", "aborting"} /\ service'[d] = t
    BY DEF Recorded
  <2>1. Live(t, d) /\ ~(t = s /\ d = k) /\ d \in Commands
    BY <1>2 DEF Live, Commands
  <2>4. CASE Orphan(t, d)
    BY <2>1, <2>4 DEF Orphan, Holds
  <2>2. CASE ~Orphan(t, d) /\ t = s
    <3>1. d # c
      BY <2>1, <2>2, CommandsAssumption
    <3>2. record[s] = d
      BY <3>1, <2>1, <2>2, <1>1, RecordedUnderLock DEF Inv
    <3> QED
      BY <3>2, <2>1, <2>2, <1>1
  <2>3. CASE ~Orphan(t, d) /\ t # s
    <3>1. record[t] = d \/ (d # c /\ at[d] \in {"spawned", "aborting"} /\ service[d] = t)
      BY <2>1, <2>3 DEF Recorded, Inv
    <3> QED
      BY <3>1, <2>1, <2>3
  <2> QED
    BY <2>2, <2>3, <2>4
<1>6. Fresh'
  <2>1. \A d \in Stops : at'[d] \notin {"spawned", "aborting"}
    BY DEF Fresh, Inv, Commands
  <2>2. ASSUME NEW d \in Serves
        PROVE  /\ at'[d] = "idle" => service'[d] = "backend"
               /\ at'[d] \in {"idle", "check", "start", "failed"} => ~Live(service[d], d)'
               /\ service'[d] = "backend" => ~Live("gateway", d)'
    <3>1. \A t \in Services : Live(t, d)' => Live(t, d)
      BY <1>2 DEF Live
    <3>2. service'[d] = service[d] /\ service[d] \in Services /\ "gateway" \in Services
      BY DEF Inv, TypeOK, Commands, Services
    <3>3. CASE d = c
      <4>1. ~Live(service[d], d)'
        BY <3>2, <3>3, <1>1, <1>2, CommandsAssumption DEF Live
      <4> QED
        BY <4>1, <3>1, <3>2, <3>3 DEF Fresh, Inv
    <3>4. CASE d # c
      <4>1. at'[d] = at[d]
        BY <3>4 DEF Commands
      <4>2. ~Live(service[d], d) => ~Live(service[d], d)'
        BY <3>1, <3>2 DEF Live
      <4> QED
        BY <4>1, <4>2, <3>1, <3>2 DEF Fresh, Inv
    <3> QED
      BY <3>3, <3>4
  <2> QED
    BY <2>1, <2>2 DEF Fresh
<1> QED
  BY <1>3, <1>4, <1>5, <1>6 DEF Inv

\* A command lets go of its lock, killed or with nothing done.
LEMMA LetsGo ==
    ASSUME Inv, TypeOK', NEW c \in Commands, UNCHANGED <<proc, record>>,
           \A s \in Services : lock'[s] = IF lock[s] = c THEN None ELSE lock[s],
           \A d \in Commands \ {c} : at'[d] = at[d] /\ service'[d] = service[d],
           at[c] \notin {"orphaned", "abandoned"},
           Unrecorded(c) => at'[c] \in {"orphaned", "abandoned"},
           at'[c] \notin {"idle", "check", "start", "failed",
                          "spawned", "aborting", "cleaning", "stopping"},
           c \in Serves => service'[c] = service[c]
    PROVE  Inv'
<1>1. Held'
  BY HeldReleased DEF Inv, Holds
<1>2. Spawned'
  BY DEF Spawned, Inv, TypeOK
<1>3. Recorded'
  <2> SUFFICES ASSUME NEW t \in Services, NEW d \in Serves, Live(t, d)'
               PROVE \/ record'[t] = d \/ Orphan(t, d)'
                     \/ at'[d] \in {"spawned", "aborting"} /\ service'[d] = t
    BY DEF Recorded
  <2>1. \/ record[t] = d
        \/ at[d] \in {"spawned", "aborting", "orphaned", "abandoned"} /\ service[d] = t
    BY DEF Recorded, Orphan, Inv, Live
  <2>2. CASE d = c
    BY <2>1, <2>2 DEF Orphan, Unrecorded
  <2>3. CASE d # c
    BY <2>1, <2>3 DEF Orphan, Commands
  <2> QED
    BY <2>2, <2>3
<1>4. Fresh'
  BY DEF Fresh, Inv, Live, Commands
<1> QED
  BY <1>1, <1>2, <1>3, <1>4 DEF Inv

\* save() raises: its command keeps the lock, and the record names it or nobody.
LEMMA SaveFailsStep ==
    ASSUME Inv, TypeOK', NEW c \in Serves, SaveFails(c)
    PROVE  Inv'
<1> DEFINE s == service[c]
<1>1. /\ s \in Services /\ c \in Commands /\ lock[s] = c /\ Holds(c) /\ record[s] \in {None, c}
      /\ \A d \in Commands \ {c} : at'[d] = at[d]
      /\ at[c] = "spawned" /\ at'[c] = "aborting" /\ UNCHANGED <<service, proc, lock>>
  BY DEF SaveFails, Goto, Inv, TypeOK, Commands, Holds, Held, Spawned
<1>2. \A t \in Services : record'[t] = record[t] \/ (t = s /\ record'[t] = c)
  BY <1>1 DEF SaveFails, Inv, TypeOK
<1>3. Held'
  <2>1. \A d \in Commands : Holds(d)' <=> Holds(d)
    BY <1>1 DEF Holds
  <2>2. \A t \in Services : lock[t] # None => lock[t] \in Commands
    BY DEF Inv, TypeOK
  <2> QED
    BY <1>1, <2>1, <2>2 DEF Held, Inv
<1>4. Spawned'
  <2> SUFFICES ASSUME NEW d \in Commands, at'[d] \in {"spawned", "aborting"}, d # c
               PROVE record'[service'[d]] \in {None, d}
    BY <1>1, <1>2 DEF Spawned
  <2>1. at[d] \in {"spawned", "aborting"} /\ service[d] \in Services
    BY <1>1 DEF Inv, TypeOK
  <2>2. service[d] # s
    BY <1>1, <2>1 DEF Inv, Held, Holds
  <2> QED
    BY <2>1, <2>2, <1>1, <1>2 DEF Inv, Spawned
<1>5. Recorded'
  <2> SUFFICES ASSUME NEW t \in Services, NEW d \in Serves, Live(t, d)'
               PROVE \/ record'[t] = d \/ Orphan(t, d)'
                     \/ at'[d] \in {"spawned", "aborting"} /\ service'[d] = t
    BY DEF Recorded
  <2>1. Live(t, d) /\ d \in Commands
    BY <1>1 DEF Live, Commands
  <2>2. CASE d = c
    BY <2>1, <2>2, <1>1, <1>2, CommandsAssumption DEF Recorded, Orphan, Inv
  <2>3. CASE d # c /\ Orphan(t, d)
    BY <2>1, <2>3, <1>1 DEF Orphan
  <2>4. CASE d # c /\ ~Orphan(t, d) /\ t = s
    BY <2>1, <2>4, <1>1, RecordedUnderLock, CommandsAssumption DEF Inv
  <2>5. CASE d # c /\ ~Orphan(t, d) /\ t # s
    BY <2>1, <2>5, <1>1, <1>2 DEF Recorded, Inv
  <2> QED
    BY <2>2, <2>3, <2>4, <2>5
<1>6. Fresh'
  BY <1>1 DEF Fresh, Inv, Live, Commands
<1> QED
  BY <1>3, <1>4, <1>5, <1>6 DEF Inv

\* stop() without a live process clears a record that names none.
LEMMA NothingToStopStep ==
    ASSUME Inv, TypeOK', NEW c \in Stops, NothingToStop(c)
    PROVE  Inv'
<1> DEFINE s == service[c]
<1>1. /\ s \in Services /\ c \in Commands /\ c \notin Serves /\ lock[s] = None
      /\ \A d \in Commands \ {c} : at'[d] = at[d] /\ service'[d] = service[d]
      /\ at[c] = "stop" /\ at'[c] \in {"stop", "done"} /\ UNCHANGED <<lock, proc>>
  BY CommandsAssumption
  DEF NothingToStop, UnderLock, GoOn, Goto, Inv, TypeOK, Commands
<1>2. \A t \in Services : record'[t] = IF t = s THEN None ELSE record[t]
  BY <1>1 DEF NothingToStop, Clear, Inv, TypeOK
<1>3. \A d \in Serves : Live(s, d) => Orphan(s, d)
  <2> SUFFICES ASSUME NEW d \in Serves, Live(s, d), ~Orphan(s, d) PROVE FALSE
    OBVIOUS
  <2>1. record[s] = d
    BY <1>1, RecordedUnderLock, CommandsAssumption DEF Inv, Commands
  <2> QED
    BY <2>1, CommandsAssumption DEF NothingToStop, Active, Commands
<1>4. Held'
  <2>1. ASSUME NEW d \in Commands, Holds(d)' PROVE lock'[service'[d]] = d
    BY <2>1, <1>1 DEF Held, Holds, Inv
  <2>2. ASSUME NEW t \in Services, lock'[t] # None
        PROVE service'[lock'[t]] = t /\ Holds(lock[t])'
    <3>1. lock[t] \in Commands /\ service[lock[t]] = t /\ Holds(lock[t])
      BY <1>1, <2>2 DEF Held, Inv, TypeOK
    <3>2. lock[t] # c
      BY <3>1, <1>1 DEF Holds
    <3>3. at'[lock[t]] = at[lock[t]] /\ service'[lock[t]] = service[lock[t]]
      BY <3>1, <3>2, <1>1
    <3>4. lock'[t] = lock[t]
      BY <1>1
    <3> QED
      BY <3>1, <3>3, <3>4 DEF Holds
  <2> QED
    BY <2>1, <2>2 DEF Held
<1>5. Spawned'
  <2> SUFFICES ASSUME NEW d \in Commands, at'[d] \in {"spawned", "aborting"}
               PROVE record'[service'[d]] \in {None, d}
    BY DEF Spawned
  <2>1. /\ d # c /\ at[d] \in {"spawned", "aborting"}
        /\ service'[d] = service[d] /\ service[d] \in Services
    BY <1>1 DEF Inv, TypeOK
  <2>2. record[service[d]] \in {None, d}
    BY <2>1 DEF Inv, Spawned
  <2> QED
    BY <2>1, <2>2, <1>2
<1>6. Recorded'
  BY <1>1, <1>2, <1>3 DEF Recorded, Orphan, Inv, Live, Commands
<1>7. Fresh'
  BY <1>1, CommandsAssumption DEF Fresh, Inv, Live, Commands
<1> QED
  BY <1>4, <1>5, <1>6, <1>7 DEF Inv

\* Daemons never come to life by themselves, and hold no lock.
LEMMA DaemonStep ==
    ASSUME Inv, TypeOK', UNCHANGED <<at, service, record, lock>>,
           \A s \in Services, c \in Serves : Live(s, c)' => Live(s, c)
    PROVE  Inv'
<1>1. Held' /\ Spawned'
  BY DEF Inv, Held, Spawned, Holds
<1>2. Recorded'
  BY DEF Inv, Recorded, Orphan
<1>3. Fresh'
  <2>1. \A c \in Serves : ~Live(service[c], c) => ~Live(service[c], c)'
    BY DEF Inv, TypeOK, Live, Commands
  <2>2. \A c \in Serves : ~Live("gateway", c) => ~Live("gateway", c)'
    BY DEF Services
  <2> QED
    BY <2>1, <2>2 DEF Inv, Fresh
<1> QED
  BY <1>1, <1>2, <1>3 DEF Inv

---------------------------------------------------------------------------

\* Every step, and every stutter, keeps the invariant.
LEMMA InvNext == Inv /\ [Next]_vars /\ TypeOK' => Inv'
<1> SUFFICES ASSUME Inv, [Next]_vars, TypeOK' PROVE Inv'
  OBVIOUS
<1>1. ASSUME NEW c \in Commands, Begin(c) PROVE Inv'
  <2>1. /\ \A d \in Commands \ {c} : at'[d] = at[d]
        /\ at[c] = "idle" /\ at'[c] \in {"check", "stop"}
        /\ UNCHANGED <<proc, record, lock, service>>
    BY <1>1 DEF Begin, Goto, Inv, TypeOK
  <2> QED
    BY <2>1, Moves DEF Holds, Fresh, Inv
<1>2. ASSUME NEW c \in Serves,
             \/ OtherProfile(c) \/ PreflightFails(c) \/ PreflightPasses(c)
             \/ Exited(c) \/ StopsWaiting(c)
      PROVE Inv'
  <2>1. /\ c \in Commands /\ \A d \in Commands \ {c} : at'[d] = at[d]
        /\ \/ at[c] = "check" /\ at'[c] \in {"failed", "start"}
           \/ at[c] = "waiting" /\ at'[c] = "cleanup"
        /\ UNCHANGED <<proc, record, lock, service>>
    BY <1>2
    DEF OtherProfile, PreflightFails, PreflightPasses, Exited, StopsWaiting, Goto, Inv,
        TypeOK, Commands
  <2> QED
    BY <2>1, Moves DEF Holds, Fresh, Inv
<1>3. ASSUME NEW c \in Serves, AlreadyActive(c) \/ StartedMeanwhile(c) \/ Started(c)
      PROVE Inv'
  <2>1. /\ c \in Commands /\ at[c] \in {"check", "start", "waiting"}
        /\ UNCHANGED <<proc, record, lock>> /\ GoOn(c)
    BY <1>3 DEF AlreadyActive, StartedMeanwhile, Started, UnderLock, Commands
  <2>2. CASE service[c] = "gateway"
    <3>1. /\ \A d \in Commands \ {c} : at'[d] = at[d]
          /\ at'[c] = "done" /\ service' = service
      BY <2>1, <2>2 DEF GoOn, Goto, Inv, TypeOK
    <3> QED
      BY <2>1, <3>1, Moves DEF Holds
  <2>3. CASE service[c] = "backend"
    <3>1. /\ \A d \in Commands \ {c} : at'[d] = at[d] /\ service'[d] = service[d]
          /\ at'[c] = "check" /\ service'[c] = "gateway"
      BY <1>3, <2>1, <2>3 DEF GoOn, Inv, TypeOK, Services
    <3> QED
      BY <2>1, <2>3, <3>1, Moves DEF Holds
  <2> QED
    BY <2>1, <2>2, <2>3 DEF Inv, TypeOK, Services
<1>4. ASSUME NEW c \in Serves, Aborted(c) PROVE Inv'
  <2>1. /\ c \in Commands /\ Holds(c) /\ Unlock(c) /\ Kill(service[c], c) /\ record' = record
        /\ \A d \in Commands \ {c} : at'[d] = at[d]
        /\ at'[c] = "failed" /\ service' = service
    BY <1>4 DEF Aborted, Goto, Holds, Inv, TypeOK, Commands
  <2> QED
    BY <2>1, KillUnderLock
<1>5. ASSUME NEW c \in Serves, CleanedUp(c) PROVE Inv'
  <2>1. /\ c \in Commands /\ Holds(c) /\ Unlock(c) /\ Kill(service[c], c)
        /\ \A d \in Commands \ {c} : at'[d] = at[d]
        /\ at'[c] = "failed" /\ service' = service
    BY <1>5 DEF CleanedUp, Goto, Holds, Inv, TypeOK, Commands
  <2>2. \A t \in Services : \/ record'[t] = record[t]
                            \/ t = service[c] /\ record[t] = c /\ record'[t] = None
    BY <1>5 DEF CleanedUp, Clear, Inv, TypeOK
  <2> QED
    BY <2>1, <2>2, KillUnderLock
<1>6. ASSUME NEW c \in Stops, Stopped(c) PROVE Inv'
  <2> DEFINE k == record[service[c]]
  <2>1. /\ c \in Commands /\ c \notin Serves /\ Holds(c) /\ Unlock(c) /\ Kill(service[c], k)
        /\ \A d \in Commands \ {c} : at'[d] = at[d] /\ service'[d] = service[d]
        /\ at'[c] \in {"stop", "done"}
    BY <1>6, CommandsAssumption DEF Stopped, GoOn, Goto, Holds, Inv, TypeOK, Commands
  <2>2. \A t \in Services : \/ record'[t] = record[t]
                            \/ t = service[c] /\ record[t] = k /\ record'[t] = None
    BY <1>6 DEF Stopped, Clear, Inv, TypeOK
  <2> QED
    BY <2>1, <2>2, KillUnderLock
<1>7. ASSUME NEW c \in Commands, TerminateFails(c) PROVE Inv'
  <2>1. /\ Holds(c) /\ Unlock(c) /\ at[c] \notin {"orphaned", "abandoned"}
        /\ UNCHANGED <<proc, record>>
    BY <1>7 DEF TerminateFails, Holds
  <2>2. /\ \A d \in Commands \ {c} : at'[d] = at[d] /\ service'[d] = service[d]
        /\ at'[c] \in {"stop", "done", "unstopped", "abandoned"}
        /\ c \in Serves => service'[c] = service[c] /\ (Unrecorded(c) => at'[c] = "abandoned")
    BY <1>7, CommandsAssumption DEF TerminateFails, GoOn, Goto, Inv, TypeOK
  <2>3. c \in Stops => ~Unrecorded(c)
    BY <1>7 DEF Fresh, Inv, Unrecorded
  <2> QED
    BY <2>1, <2>2, <2>3, UnlockReleases, LetsGo DEF Inv, Commands
<1>8. ASSUME NEW c \in Commands, Killed(c) PROVE Inv'
  <2>1. /\ UNCHANGED <<proc, record>> /\ service' = service
        /\ \A d \in Commands \ {c} : at'[d] = at[d]
        /\ at'[c] \in {"killed", "orphaned"}
        /\ at[c] \notin {"orphaned", "abandoned"} /\ (Unrecorded(c) => at'[c] = "orphaned")
        /\ \A s \in Services : lock'[s] = IF lock[s] = c THEN None ELSE lock[s]
    BY <1>8 DEF Killed, Goto, Inv, TypeOK
  <2> QED
    BY <2>1, LetsGo
<1>9. ASSUME NEW s \in Services, NEW c \in Serves, Loaded(s, c) \/ DaemonExits(s, c)
      PROVE Inv'
  <2>1. \A t \in Services, d \in Serves : Live(t, d)' => Live(t, d)
    BY <1>9 DEF Loaded, DaemonExits, Kill, Live, Inv, TypeOK
  <2> QED
    BY <1>9, <2>1, DaemonStep DEF Loaded, DaemonExits
<1>10. CASE UNCHANGED vars
  BY <1>10 DEF vars, Inv, TypeOK, Held, Holds, Spawned, Recorded, Orphan, Fresh, Live
<1> QED
  BY <1>1, <1>2, <1>3, <1>4, <1>5, <1>6, <1>7, <1>8, <1>9, <1>10, SpawnStep, SaveStep,
     SaveFailsStep, LockTakenStep, NothingToStopStep
  DEF Next, Proceeds, StopProceeds, Commands

\* The invariant holds in every state.
LEMMA Invariance == Spec => []Inv
<1>1. Inv /\ [Next]_vars /\ TypeOK' => Inv'
  BY InvNext
<1> QED
  BY <1>1, InitInv, Typing, PTL DEF Spec

\* Every process that lives is named by its record; or the command that spawned it is
\* about to save it or to end it (process.py:257-271), under the lock, or was killed or
\* failed to end it just then.
THEOREM EveryDaemonRecorded == Spec => []Recorded
BY Invariance, PTL DEF Inv

\* Two commands at once never start two backends, or two gateways (but for
\* orphans).
THEOREM OneDaemonEach == Spec => []OneProcess
<1>1. Inv => OneProcess
  <2> SUFFICES ASSUME Inv, NEW s \in Services, NEW c \in Serves, NEW d \in Serves,
                      Live(s, c), Live(s, d), ~Orphan(s, c), ~Orphan(s, d), c # d
               PROVE FALSE
    BY DEF OneProcess
  <2>1. ASSUME NEW e \in Serves, at[e] \in {"spawned", "aborting"}, service[e] = s
        PROVE record[s] \in {None, e} /\ lock[s] = e
    BY <2>1 DEF Inv, Spawned, Held, Holds, Commands
  <2> QED
    BY <2>1, CommandsAssumption DEF Inv, Recorded, Commands
<1> QED
  BY <1>1, Invariance, PTL

\* A serve command that has failed, in whatever way, leaves no process of its own behind,
\* unless it says that SIGKILL did not end it (TerminateFails).
THEOREM NothingAfterFailure == Spec => []FailureLeavesNothing
<1>1. Inv => FailureLeavesNothing
  BY DEF Inv, Fresh, FailureLeavesNothing
<1> QED
  BY <1>1, Invariance, PTL

---------------------------------------------------------------------------
(* Lifecycle implements ServeStop *)

\* What no record names: a process that was left unrecorded.  And a stop begins with the gateway.
Known ==
    /\ \A s \in Services, c \in Serves : record[s] = c => ~Orphan(s, c)
    /\ \A c \in Stops : at[c] = "idle" => service[c] = "gateway"

\* A command that goes on to its other service, or ends, is the only one to move.
LEMMA MovesOnAlone ==
    ASSUME TypeOK, NEW c \in Commands, GoOn(c)
    PROVE  /\ \A d \in Commands \ {c} : at'[d] = at[d] /\ service'[d] = service[d]
           /\ at'[c] \in {"check", "stop", "done"}
BY DEF GoOn, Goto, TypeOK, Commands

\* A record is written by the command that spawned the process, which is alive then,
\* and there is none at the moment in which a kill makes an orphan.
LEMMA KnownNext == Inv /\ TypeOK' /\ Known /\ [Next]_vars => Known'
<1> SUFFICES ASSUME Inv, TypeOK', Known, [Next]_vars PROVE Known'
  OBVIOUS
<1> USE DEF Commands
<1>0. TypeOK
  BY DEF Inv
<1>1. ASSUME NEW c \in Commands,
             \A d \in Commands \ {c} : at'[d] = at[d] /\ service'[d] = service[d],
             at'[c] \notin {"idle", "orphaned", "abandoned"},
             \A s \in Services : record'[s] \in {record[s], None}
      PROVE Known'
  BY <1>1, CommandsAssumption DEF Known, Orphan
<1>2. ASSUME NEW c \in Serves, Save(c) PROVE Known'
  BY <1>2, CommandsAssumption DEF Save, Goto, Known, Orphan, Inv, TypeOK
<1>3. ASSUME NEW c \in Serves, SaveFails(c) PROVE Known'
  BY <1>3, CommandsAssumption DEF SaveFails, Goto, Known, Orphan, Inv, TypeOK
<1>14. ASSUME NEW c \in Serves, Aborted(c) PROVE Known'
  BY <1>14, <1>1 DEF Aborted, Goto, Inv, TypeOK
<1>15. ASSUME NEW c \in Commands, UNCHANGED <<record, service>>,
              \A d \in Commands \ {c} : at'[d] = at[d],
              at'[c] \in {"killed", "unstopped", "orphaned", "abandoned"},
              at'[c] \in {"orphaned", "abandoned"} => Unrecorded(c)
       PROVE Known'
  BY <1>15, CommandsAssumption DEF Known, Orphan, Unrecorded
<1>4. ASSUME NEW c \in Commands, Killed(c) PROVE Known'
  BY <1>4, <1>15 DEF Killed, Goto, Inv, TypeOK
<1>5. ASSUME NEW s \in Services, NEW c \in Serves, Loaded(s, c) \/ DaemonExits(s, c)
      PROVE Known'
  BY <1>5 DEF Loaded, DaemonExits, Known, Orphan
<1>6. CASE UNCHANGED vars
  BY <1>6 DEF vars, Known, Orphan
<1>7. ASSUME NEW c \in Commands, Begin(c) PROVE Known'
  BY <1>7, <1>1 DEF Begin, Goto, Inv, TypeOK
<1>8. ASSUME NEW c \in Serves,
             \/ OtherProfile(c) \/ PreflightFails(c) \/ PreflightPasses(c)
             \/ Exited(c) \/ StopsWaiting(c) \/ CleanUp(c)
      PROVE Known'
  <2>1. UNCHANGED record /\ \E step \in {"failed", "start", "cleanup", "cleaning"} : Goto(c, step)
    BY <1>8 DEF OtherProfile, PreflightFails, PreflightPasses, Exited, StopsWaiting, CleanUp
  <2>2. /\ \A d \in Commands \ {c} : at'[d] = at[d] /\ service'[d] = service[d]
        /\ at'[c] \notin {"idle", "orphaned", "abandoned"}
    BY <2>1, <1>0 DEF Goto, TypeOK
  <2> QED
    BY <2>1, <2>2, <1>1
<1>9. ASSUME NEW c \in Serves, AlreadyActive(c) \/ StartedMeanwhile(c) \/ Started(c)
      PROVE Known'
  <2>1. UNCHANGED record /\ GoOn(c)
    BY <1>9 DEF AlreadyActive, StartedMeanwhile, Started
  <2> QED
    BY <2>1, <1>0, <1>1, MovesOnAlone
<1>10. ASSUME NEW c \in Serves, Spawn(c) \/ CleanedUp(c) PROVE Known'
  <2>1. \E step \in {"spawned", "failed"} : Goto(c, step)
    BY <1>10 DEF Spawn, CleanedUp
  <2>2. /\ \A d \in Commands \ {c} : at'[d] = at[d] /\ service'[d] = service[d]
        /\ at'[c] \notin {"idle", "orphaned", "abandoned"}
    BY <2>1, <1>0 DEF Goto, TypeOK
  <2>3. UNCHANGED record \/ Clear(service[c])
    BY <1>10 DEF Spawn, CleanedUp
  <2>4. \A s \in Services : record'[s] \in {record[s], None}
    BY <2>3, <1>0 DEF Clear, TypeOK
  <2> QED
    BY <2>2, <2>4, <1>1
<1>11. ASSUME NEW c \in Stops, NothingToStop(c) \/ Stopped(c) PROVE Known'
  <2>1. GoOn(c) /\ Clear(service[c])
    BY <1>11 DEF NothingToStop, Stopped
  <2>2. \A s \in Services : record'[s] \in {record[s], None}
    BY <2>1 DEF Clear, Inv, TypeOK
  <2> QED
    BY <2>1, <2>2, <1>0, <1>1, MovesOnAlone
<1>12. ASSUME NEW c \in Stops, StopBegins(c) PROVE Known'
  BY <1>12, <1>1 DEF StopBegins, Goto, Inv, TypeOK
<1>13. ASSUME NEW c \in Commands, TerminateFails(c) PROVE Known'
  <2>1. UNCHANGED record
    BY <1>13 DEF TerminateFails
  <2>2. CASE c \in Stops
    BY <1>13, <2>1, <2>2, <1>0, <1>1, MovesOnAlone DEF TerminateFails
  <2>3. CASE c \notin Stops
    BY <1>13, <2>3, <1>15 DEF TerminateFails, Goto, Inv, TypeOK
  <2> QED
    BY <2>2, <2>3
<1> QED
  BY <1>2, <1>3, <1>4, <1>5, <1>6, <1>7, <1>8, <1>9, <1>10, <1>11,
     <1>12, <1>13, <1>14
  DEF Next, Proceeds, StopProceeds

\* Known holds in every state.
LEMMA KnownInvariance == Spec => []Known
<1>1. Init => Known
  BY CommandsAssumption DEF Init, Known, Orphan, Commands
<1>2. Inv => TypeOK
  BY DEF Inv
<1> QED
  BY <1>1, <1>2, KnownNext, Invariance, PTL DEF Spec

Busy(c) == at[c] \in {"check", "start", "spawned", "aborting", "waiting", "cleanup",
                      "cleaning", "stop", "stopping"}

\* A command's stage in ServeStop, before and after a step.
LEMMA StageNow ==
    ASSUME NEW c \in Commands
    PROVE  /\ at[c] = "idle" => StageOf(c) = "new"
           /\ Busy(c) => StageOf(c) = service[c]
BY DEF StageOf, Busy

LEMMA StageNext ==
    ASSUME NEW c \in Commands
    PROVE  /\ at'[c] \in {"done", "failed"} => StageOf(c)' = at'[c]
           /\ at'[c] \in {"unstopped", "killed", "orphaned", "abandoned"} => StageOf(c)' = "gone"
           /\ Busy(c)' => StageOf(c)' = service'[c]
BY DEF StageOf, Busy

\* A step of one command changes one stage.
LEMMA OneStage ==
    ASSUME NEW c \in Commands, NEW next, StageOf(c)' = next,
           \A d \in Commands \ {c} : at'[d] = at[d] /\ service'[d] = service[d]
    PROVE  Promise!Become(c, next)
<1>1. \A d \in Commands \ {c} : StageOf(d)' = StageOf(d)
  BY DEF StageOf
<1> QED
  BY <1>1 DEF Promise!Become

\* The stages of all commands, as ServeStop sees them.
AllStages == [c \in Commands |-> StageOf(c)]

\* A step inside a stage changes none.
LEMMA NoStage ==
    ASSUME NEW c \in Commands, Busy(c), Busy(c)', service'[c] = service[c],
           \A d \in Commands \ {c} : at'[d] = at[d] /\ service'[d] = service[d]
    PROVE  AllStages' = AllStages
<1>1. \A d \in Commands \ {c} : StageOf(d)' = StageOf(d)
  BY DEF StageOf
<1> QED
  BY <1>1, StageNow, StageNext DEF AllStages

\* A command that goes on is in its next stage, or done.
LEMMA GoesOn ==
    ASSUME Inv, NEW c \in Commands, Busy(c), GoOn(c)
    PROVE  Promise!Become(c, Promise!Following(c)) /\ StageOf(c) \in Services
<1>1. StageOf(c) = service[c] /\ service[c] \in Services
  BY StageNow DEF Inv, TypeOK
<1>2. \A d \in Commands \ {c} : at'[d] = at[d] /\ service'[d] = service[d]
  BY DEF GoOn, Goto, Inv, TypeOK
<1>3. StageOf(c)' = Promise!Following(c)
  <2> DEFINE last == IF c \in Serves THEN "gateway" ELSE "backend"
  <2>1. Promise!Following(c) = IF service[c] = last THEN "done" ELSE last
    BY <1>1 DEF Promise!Following, Promise!First, Services
  <2>2. CASE service[c] = last
    BY <2>1, <2>2, StageNext DEF GoOn, Goto, Inv, TypeOK
  <2>3. CASE service[c] # last
    <3>1. service'[c] = last /\ Busy(c)'
      BY <2>3 DEF GoOn, Busy, Inv, TypeOK
    <3> QED
      BY <2>1, <2>3, <3>1, StageNext
  <2> QED
    BY <2>2, <2>3
<1> QED
  BY <1>1, <1>2, <1>3, OneStage

\* The daemons of every service, as ServeStop sees them.
AllDaemons == [s \in Services |-> Daemons(s)]

\* A command that neither makes nor ends a process leaves the daemons as they are.
LEMMA SameDaemons ==
    ASSUME NEW c \in Commands,
           \A s \in Services, d \in Serves : Live(s, d)' <=> Live(s, d),
           \A d \in Commands \ {c} : at'[d] = at[d] /\ service'[d] = service[d],
           {at[c], at'[c]} \cap {"orphaned", "abandoned"} = {}
    PROVE  AllDaemons' = AllDaemons
<1>1. \A s \in Services, d \in Serves : Orphan(s, d)' <=> Orphan(s, d)
  BY DEF Orphan, Commands
<1> QED
  BY <1>1 DEF AllDaemons, Daemons

\* At most one daemon for each service.
LEMMA AtMostOne ==
    ASSUME Inv, NEW s \in Services, NEW c \in Serves, lock[s] # c, c \in Daemons(s)
    PROVE  record[s] = c
BY RecordedUnderLock DEF Inv, Daemons

\* The record of an active service names one of its daemons.
LEMMA ActiveIsDaemon ==
    ASSUME Inv, Known, NEW s \in Services, Active(s)
    PROVE  record[s] \in Daemons(s)
BY DEF Inv, TypeOK, Known, Active, Daemons

\* serve() goes on past a service: a daemon was there, or is there now.
LEMMA ServedStep ==
    ASSUME Inv, Known, NEW c \in Serves, AlreadyActive(c) \/ StartedMeanwhile(c) \/ Started(c)
    PROVE  Promise!Served(c)
<1>1. /\ c \in Commands /\ at[c] \in {"check", "start", "waiting"} /\ GoOn(c)
      /\ UNCHANGED <<proc, failed>> /\ service[c] \in Services
  BY DEF AlreadyActive, StartedMeanwhile, Started, Commands, Inv, TypeOK
<1>2. Promise!Become(c, Promise!Following(c)) /\ StageOf(c) = service[c]
  BY <1>1, GoesOn, StageNow DEF Busy
<1>3. Daemons(service[c]) # {}
  <2>1. CASE Active(service[c])
    BY <2>1, <1>1, ActiveIsDaemon
  <2>2. CASE Started(c)
    BY <2>2 DEF Started, Daemons, Live, Orphan
  <2> QED
    BY <2>1, <2>2 DEF AlreadyActive, StartedMeanwhile
<1>4. AllDaemons' = AllDaemons
  <2>1. /\ \A d \in Commands \ {c} : at'[d] = at[d] /\ service'[d] = service[d]
        /\ at'[c] \in {"done", "check"}
    BY <1>1 DEF GoOn, Goto, Inv, TypeOK
  <2> QED
    BY <2>1, <1>1, SameDaemons DEF Live
<1> QED
  BY <1>1, <1>2, <1>3, <1>4 DEF Promise!Served, Promise!Services, Services, AllDaemons

\* Popen, where the lock's holder has found no daemon.
LEMMA StartStep ==
    ASSUME Inv, Known, NEW c \in Serves, NEW s \in Services, s = service[c], Spawn(c)
    PROVE  Promise!Start(c) /\ AllStages' = AllStages
<1>1. /\ c \in Commands /\ s \in Services /\ lock[s] = None /\ service' = service
      /\ at[c] = "start" /\ at'[c] = "spawned"
      /\ \A d \in Commands \ {c} : at'[d] = at[d]
  BY DEF Spawn, Lock, Goto, Commands, Inv, TypeOK
<1>2. Daemons(s) = {}
  <2> SUFFICES ASSUME NEW d \in Daemons(s) PROVE FALSE
    OBVIOUS
  <2>1. d \in Serves /\ record[s] = d /\ Live(s, d)
    BY <1>1, AtMostOne, CommandsAssumption DEF Daemons, Commands
  <2> QED
    BY <2>1, CommandsAssumption DEF Spawn, Active, Commands
<1>3. \A t \in Services, d \in Serves :
         proc'[t][d] = IF t = s /\ d = c THEN "loading" ELSE proc[t][d]
  BY <1>1 DEF Spawn, Inv, TypeOK
<1>4. \A t \in Services : Daemons(t)' = IF t = s THEN {c} ELSE Daemons(t)
  <2>1. \A t \in Services, d \in Serves : Orphan(t, d)' <=> Orphan(t, d)
    BY <1>1 DEF Orphan, Commands
  <2>2. ~Orphan(s, c)
    BY <1>1 DEF Orphan
  <2>3. \A t \in Services \ {s} : Daemons(t)' = Daemons(t)
    BY <2>1, <1>3 DEF Daemons, Live
  <2>4. \A d \in Serves : d \in Daemons(s)' <=> d = c
    BY <2>1, <2>2, <1>1, <1>2, <1>3 DEF Daemons, Live
  <2>5. Daemons(s)' = {c}
    BY <2>4 DEF Daemons
  <2> QED
    BY <2>3, <2>5
<1>5. StageOf(c) = s /\ AllStages' = AllStages
  BY <1>1, StageNow, NoStage DEF Busy
<1> QED
  BY <1>1, <1>2, <1>4, <1>5 DEF Promise!Start, Promise!Services, Services, Spawn, AllStages

\* A serve fails with nothing started, or takes its own process along.
LEMMA FailStep ==
    ASSUME Inv, NEW c \in Serves, NEW s \in Services, s = service[c],
           OtherProfile(c) \/ PreflightFails(c) \/ Aborted(c) \/ CleanedUp(c)
    PROVE  Promise!Fail(c)
<1>1. /\ c \in Commands /\ s \in Services /\ service' = service /\ failed' = failed
      /\ at[c] \in {"check", "aborting", "cleaning"} /\ at'[c] = "failed"
      /\ \A d \in Commands \ {c} : at'[d] = at[d]
  BY DEF OtherProfile, PreflightFails, Aborted, CleanedUp, Goto, Commands, Inv, TypeOK
<1>2. Promise!Become(c, "failed") /\ StageOf(c) = s
  BY <1>1, StageNow, StageNext, OneStage DEF Busy
<1>3. /\ \A t \in Services, d \in Serves : ~(t = s /\ d = c) => (Live(t, d)' <=> Live(t, d))
      /\ ~Live(s, c)'
  <2>1. CASE at[c] = "check"
    BY <2>1, <1>1 DEF OtherProfile, PreflightFails, Aborted, CleanedUp, Live, Inv, Fresh
  <2>2. CASE at[c] # "check"
    BY <2>2, <1>1 DEF OtherProfile, PreflightFails, Aborted, CleanedUp, Kill, Live, Inv, TypeOK
  <2> QED
    BY <2>1, <2>2
<1>4. \A t \in Services, d \in Serves : Orphan(t, d)' <=> Orphan(t, d)
  BY <1>1 DEF Orphan, Commands
<1>5. \A t \in Services : Daemons(t)' = IF t = s THEN Daemons(t) \ {c} ELSE Daemons(t)
  BY <1>3, <1>4 DEF Daemons
<1> QED
  BY <1>1, <1>2, <1>5 DEF Promise!Fail, Promise!Without, Promise!Services, Services

\* stop() goes on past a service: nothing of it is left but orphans.
LEMMA DownStep ==
    ASSUME Inv, NEW c \in Stops, NEW s \in Services, s = service[c], NothingToStop(c) \/ Stopped(c)
    PROVE  Promise!Down(c)
<1>1. /\ c \in Commands /\ c \notin Serves /\ s \in Services /\ failed' = failed
      /\ at[c] \in {"stop", "stopping"} /\ at'[c] \in {"stop", "done"} /\ GoOn(c)
      /\ \A d \in Commands \ {c} : at'[d] = at[d] /\ service'[d] = service[d]
      /\ lock[s] \in {c, None}
  BY CommandsAssumption
  DEF NothingToStop, Stopped, UnderLock, GoOn, Goto, Commands, Inv, TypeOK, Held, Holds
<1>2. Promise!Become(c, Promise!Following(c)) /\ StageOf(c) = s
  BY <1>1, GoesOn, StageNow DEF Busy
<1>3. \A d \in Daemons(s) : record[s] = d
  BY <1>1, AtMostOne, CommandsAssumption DEF Daemons, Commands
<1>4. \A t \in Services, d \in Serves : Orphan(t, d)' <=> Orphan(t, d)
  BY <1>1 DEF Orphan, Commands
<1>5. CASE NothingToStop(c)
  <2>1. Daemons(s) = {}
    BY <1>3, <1>5, CommandsAssumption DEF NothingToStop, Active, Daemons, Commands
  <2>2. \A t \in Services : Daemons(t)' = Daemons(t)
    BY <1>4, <1>5 DEF NothingToStop, Daemons, Live
  <2> QED
    BY <2>1, <2>2, <1>1, <1>2 DEF Promise!Down, Promise!Services, Services
<1>6. CASE Stopped(c)
  <2>1. \A t \in Services, d \in Serves :
           proc'[t][d] = IF t = s /\ d = record[s] THEN "dead" ELSE proc[t][d]
    BY <1>1, <1>6 DEF Stopped, Kill, Inv, TypeOK
  <2>2. Daemons(s)' = {}
    BY <2>1, <1>1, <1>3, <1>4 DEF Daemons, Live
  <2>3. \A t \in Services \ {s} : Daemons(t)' = Daemons(t)
    BY <2>1, <1>4 DEF Daemons, Live
  <2> QED
    BY <2>2, <2>3, <1>1, <1>2 DEF Promise!Down, Promise!Services, Services
<1> QED
  BY <1>5, <1>6

\* A command ends under way, killed or with its process alive: what it had spawned and
\* not recorded is an orphan from now on, and no daemon.
LEMMA GoneStep ==
    ASSUME Inv, NEW c \in Commands, NEW s \in Services, s = service[c], Busy(c),
           UNCHANGED <<proc, service, failed>>, \A d \in Commands \ {c} : at'[d] = at[d],
           at'[c] \in {"killed", "unstopped", "orphaned", "abandoned"}
    PROVE  Promise!Vanish(c)
<1>1. Promise!Become(c, "gone") /\ StageOf(c) = s
  BY StageNow, StageNext, OneStage
<1>2. CASE at'[c] \in {"orphaned", "abandoned"}
  <2>1. \A t \in Services, d \in Serves :
           Orphan(t, d)' <=> Orphan(t, d) \/ (t = s /\ d = c)
    BY <1>2 DEF Orphan, Busy, Commands
  <2>2. \A t \in Services : Daemons(t)' = IF t = s THEN Daemons(t) \ {c} ELSE Daemons(t)
    BY <2>1 DEF Daemons, Live
  <2> QED
    BY <2>2, <1>1 DEF Promise!Vanish, Promise!Without, Promise!Services, Services
<1>3. CASE at'[c] \in {"killed", "unstopped"}
  <2>1. AllDaemons' = AllDaemons
    BY <1>3, SameDaemons DEF Live, Busy
  <2> QED
    BY <2>1, <1>1 DEF Promise!Vanish, Promise!Services, Services, AllDaemons
<1> QED
  BY <1>2, <1>3

\* terminate() raises: a stop goes on and remembers, a serve ends there.
LEMMA ExcuseStep ==
    ASSUME Inv, NEW c \in Commands, TerminateFails(c)
    PROVE  IF c \in Stops THEN Promise!Excuse(c) ELSE Promise!Vanish(c)
<1>1. /\ at[c] \in {"stopping", "cleaning", "aborting"} /\ service[c] \in Services
      /\ \A d \in Commands \ {c} : at'[d] = at[d] /\ service'[d] = service[d]
      /\ proc' = proc /\ (c \in Stops => at'[c] \in {"stop", "done"})
  BY CommandsAssumption DEF TerminateFails, GoOn, Goto, Inv, TypeOK
<1>2. CASE c \in Stops
  <2>1. Promise!Become(c, Promise!Following(c)) /\ StageOf(c) \in Services
    BY <1>1, <1>2, GoesOn DEF Busy, TerminateFails
  <2>2. AllDaemons' = AllDaemons
    BY <1>1, <1>2, SameDaemons DEF Live
  <2> QED
    BY <2>1, <2>2, <1>2 DEF TerminateFails, Promise!Excuse, Promise!Services, Services, AllDaemons
<1>3. CASE c \notin Stops
  <2>1. at'[c] \in {"unstopped", "abandoned"} /\ UNCHANGED <<failed, service>>
    BY <1>3 DEF TerminateFails, Goto, Inv, TypeOK
  <2> QED
    BY <2>1, <1>1, <1>3, GoneStep DEF Busy
<1> QED
  BY <1>2, <1>3

\* A command is killed: what it spawned is an orphan, or stays a daemon.
LEMMA VanishStep ==
    ASSUME Inv, NEW c \in Commands, NEW s \in Services, s = service[c], Killed(c)
    PROVE  Promise!Vanish(c)
<1>1. /\ Busy(c) /\ UNCHANGED <<proc, service, failed>>
      /\ \A d \in Commands \ {c} : at'[d] = at[d]
      /\ at'[c] \in {"killed", "orphaned"}
  BY DEF Killed, Goto, Busy, Inv, TypeOK
<1> QED
  BY <1>1, GoneStep

\* A daemon exits; of an orphan nobody sees it.
LEMMA ExitStep ==
    ASSUME Inv, NEW s \in Services, NEW c \in Serves, DaemonExits(s, c)
    PROVE  Promise!Exit(s, c) \/ UNCHANGED Promise!vars
<1>1. AllStages' = AllStages /\ failed' = failed
  BY DEF DaemonExits, StageOf, AllStages
<1>2. \A t \in Services, d \in Serves :
         /\ Orphan(t, d)' <=> Orphan(t, d)
         /\ Live(t, d)' <=> Live(t, d) /\ ~(t = s /\ d = c)
  BY DEF DaemonExits, Kill, Live, Orphan, Inv, TypeOK
<1>3. \A t \in Services : Daemons(t)' = IF t = s THEN Daemons(t) \ {c} ELSE Daemons(t)
  BY <1>2 DEF Daemons
<1>4. CASE c \in Daemons(s)
  BY <1>1, <1>3, <1>4 DEF Promise!Exit, Promise!Without, AllStages
<1>5. CASE c \notin Daemons(s)
  <2>1. AllDaemons' = AllDaemons
    BY <1>3, <1>5 DEF AllDaemons
  <2> QED
    BY <2>1, <1>1 DEF Promise!vars, AllDaemons, AllStages
<1> QED
  BY <1>4, <1>5

\* A command begins with its first service.
LEMMA BeginStep ==
    ASSUME Inv, Known, NEW c \in Commands, Begin(c)
    PROVE  Promise!Begin(c)
<1>1. /\ at[c] = "idle" /\ Busy(c)' /\ UNCHANGED <<proc, service, failed>>
      /\ \A d \in Commands \ {c} : at'[d] = at[d]
      /\ at'[c] \in {"check", "stop"}
  BY DEF Begin, Goto, Busy, Inv, TypeOK
<1>2. service[c] = Promise!First(c)
  BY <1>1 DEF Promise!First, Inv, Fresh, Known, Commands
<1>3. StageOf(c) = "new" /\ StageOf(c)' = Promise!First(c)
  BY <1>1, <1>2, StageNow, StageNext
<1>4. Promise!Become(c, Promise!First(c))
  BY <1>1, <1>3, OneStage
<1>5. AllDaemons' = AllDaemons
  BY <1>1, SameDaemons DEF Live
<1> QED
  BY <1>1, <1>3, <1>4, <1>5 DEF Promise!Begin, AllDaemons

\* A daemon that has loaded lived before.
LEMMA LoadedStep ==
    ASSUME Inv, NEW s \in Services, NEW c \in Serves, Loaded(s, c)
    PROVE  UNCHANGED Promise!vars
<1>1. AllStages' = AllStages /\ failed' = failed
  BY DEF Loaded, StageOf, AllStages
<1>2. \A t \in Services, d \in Serves :
         (Orphan(t, d)' <=> Orphan(t, d)) /\ (Live(t, d)' <=> Live(t, d))
  BY DEF Loaded, Live, Orphan, Inv, TypeOK
<1>3. AllDaemons' = AllDaemons
  BY <1>2 DEF AllDaemons, Daemons
<1> QED
  BY <1>1, <1>3 DEF Promise!vars, AllStages, AllDaemons

\* The other steps change neither a stage nor a daemon.
LEMMA InvisibleStep ==
    ASSUME Inv, NEW c \in Commands,
           \/ c \in Serves /\ PreflightPasses(c)
           \/ c \in Serves /\ (Save(c) \/ SaveFails(c))
           \/ c \in Serves /\ (Exited(c) \/ StopsWaiting(c) \/ CleanUp(c))
           \/ c \in Stops /\ StopBegins(c)
    PROVE  UNCHANGED Promise!vars
<1>1. /\ Busy(c) /\ Busy(c)' /\ UNCHANGED <<service, proc, failed>>
      /\ \A d \in Commands \ {c} : at'[d] = at[d]
  BY DEF PreflightPasses, Save, SaveFails, Exited, StopsWaiting, CleanUp, StopBegins, Goto, Busy,
         Inv, TypeOK
<1>2. AllStages' = AllStages
  BY <1>1, NoStage
<1>3. AllDaemons' = AllDaemons
  BY <1>1, SameDaemons DEF Live, Busy
<1> QED
  BY <1>1, <1>2, <1>3 DEF Promise!vars, AllStages, AllDaemons

\* Every step of the commands and the daemons is a step of ServeStop, or invisible.
LEMMA PromiseStep == Inv /\ Known /\ [Next]_vars => [Promise!Next]_(Promise!vars)
<1> SUFFICES ASSUME Inv, Known, [Next]_vars PROVE Promise!Next \/ UNCHANGED Promise!vars
  OBVIOUS
<1>1. ASSUME NEW c \in Serves,
             \/ AlreadyActive(c) \/ StartedMeanwhile(c) \/ Started(c) \/ Spawn(c)
             \/ OtherProfile(c) \/ PreflightFails(c) \/ Aborted(c) \/ CleanedUp(c)
      PROVE Promise!Next
  <2>1. service[c] \in Services
    BY DEF Inv, TypeOK, Commands
  <2> QED
    BY <1>1, <2>1, ServedStep, StartStep, FailStep DEF Promise!Next
<1>2. ASSUME NEW c \in Stops, NothingToStop(c) \/ Stopped(c) PROVE Promise!Next
  <2>1. service[c] \in Services
    BY DEF Inv, TypeOK, Commands
  <2> QED
    BY <1>2, <2>1, DownStep DEF Promise!Next
<1>3. ASSUME NEW c \in Commands, TerminateFails(c) PROVE Promise!Next
  BY <1>3, ExcuseStep DEF Promise!Next, Promise!Commands, Commands
<1>4. ASSUME NEW c \in Commands, Killed(c) PROVE Promise!Next
  <2>1. service[c] \in Services
    BY DEF Inv, TypeOK
  <2> QED
    BY <1>4, <2>1, VanishStep DEF Promise!Next, Promise!Commands, Commands
<1>5. ASSUME NEW c \in Commands, Begin(c) PROVE Promise!Next
  BY <1>5, BeginStep DEF Promise!Next, Promise!Commands, Commands
<1>6. ASSUME NEW s \in Services, NEW c \in Serves, DaemonExits(s, c)
      PROVE Promise!Next \/ UNCHANGED Promise!vars
  BY <1>6, ExitStep DEF Promise!Next, Promise!Services, Services
<1>7. ASSUME NEW s \in Services, NEW c \in Serves, Loaded(s, c)
      PROVE UNCHANGED Promise!vars
  BY <1>7, LoadedStep
<1>8. ASSUME NEW c \in Serves,
             \/ PreflightPasses(c) \/ Save(c) \/ SaveFails(c)
             \/ Exited(c) \/ StopsWaiting(c) \/ CleanUp(c)
      PROVE UNCHANGED Promise!vars
  BY <1>8, InvisibleStep DEF Commands
<1>9. ASSUME NEW c \in Stops, StopBegins(c) PROVE UNCHANGED Promise!vars
  BY <1>9, InvisibleStep DEF Commands
<1>10. CASE UNCHANGED vars
  BY <1>10 DEF vars, Promise!vars, StageOf, Daemons, Live, Orphan
<1> QED
  BY <1>1, <1>2, <1>3, <1>4, <1>5, <1>6, <1>7, <1>8, <1>9, <1>10
  DEF Next, Proceeds, StopProceeds, Commands

\* "alab serve" and "alab stop" keep what ServeStop says, for any number of commands
\* that overlap, fail or are killed (serve.py:199-213, cli.py:134-150): a serve starts
\* a process only where there is none, and ends well only where there is one; if it
\* fails it takes its own along; a stop ends well only past services that were down.
THEOREM ServeAndStopKeepPromise == Spec => ImplementsServeStop
<1>1. Init => Promise!Init
  <2> SUFFICES ASSUME Init PROVE Promise!Init
    OBVIOUS
  <2>1. \A c \in Commands : StageOf(c) = "new"
    BY StageNow DEF Init
  <2>2. \A s \in Services : Daemons(s) = {}
    BY DEF Init, Daemons, Live
  <2> QED
    BY <2>1, <2>2 DEF Init, Promise!Init, Promise!Commands, Promise!Services, Commands, Services
<1> QED
  BY <1>1, PromiseStep, Invariance, KnownInvariance, PTL DEF Spec, ImplementsServeStop, Promise!Spec

---------------------------------------------------------------------------
(* Commands come to an end *)

\* How far a command is with the service it is dealing with.
Rank(c) ==
    CASE at[c] \in {"check", "stop"} -> 1
      [] at[c] \in {"start", "stopping"} -> 2
      [] at[c] = "spawned" -> 3
      [] at[c] \in {"waiting", "aborting"} -> 4
      [] at[c] = "cleanup" -> 5
      [] at[c] = "cleaning" -> 6

Last(c) == IF c \in Serves THEN "gateway" ELSE "backend"

\* The steps a command can have taken, counted over both services.
Steps(c) ==
    IF at[c] = "idle" THEN 0
    ELSE IF ~Busy(c) THEN 13
    ELSE IF service[c] = Last(c) THEN 6 + Rank(c)
    ELSE Rank(c)

\* A step of c's own.
StepOf(c) ==
    \/ c \in Serves /\ (Proceeds(c) \/ StopsWaiting(c) \/ TerminateFails(c))
    \/ c \in Stops /\ StopProceeds(c)
    \/ Begin(c) \/ Killed(c)

\* No command goes round: its own steps bring it nearer its end, and no step of another
\* command or of a daemon sends it back.
NoCircles ==
    [][\A c \in Commands :
          /\ Steps(c)' \in Steps(c) .. 13
          /\ StepOf(c) => Steps(c)' > Steps(c)]_vars

\* What Steps is made of, before and after a step.
LEMMA StepsNow ==
    ASSUME NEW c \in Commands
    PROVE  /\ Steps(c) \in 0 .. 13
           /\ Busy(c) => Rank(c) \in 1 .. 6
           /\ Busy(c) => Steps(c) = IF service[c] = Last(c) THEN 6 + Rank(c) ELSE Rank(c)
<1>1. Busy(c) => Rank(c) \in 1 .. 6 /\ at[c] # "idle"
  BY DEF Busy, Rank
<1> QED
  BY <1>1 DEF Steps

LEMMA StepsNext ==
    ASSUME NEW c \in Commands
    PROVE  /\ Steps(c)' \in 0 .. 13
           /\ Busy(c)' => Rank(c)' \in 1 .. 6
           /\ Busy(c)' => Steps(c)' = IF service'[c] = Last(c) THEN 6 + Rank(c)' ELSE Rank(c)'
           /\ ~Busy(c)' /\ at'[c] # "idle" => Steps(c)' = 13
<1>1. Busy(c)' => Rank(c)' \in 1 .. 6 /\ at'[c] # "idle"
  BY DEF Busy, Rank
<1> QED
  BY <1>1 DEF Steps, Last

\* A command that moves on within a service.
LEMMA FurtherOn ==
    ASSUME NEW c \in Commands, Busy(c), service'[c] = service[c],
           (~Busy(c)' /\ at'[c] # "idle") \/ (Busy(c)' /\ Rank(c)' > Rank(c))
    PROVE  Steps(c)' > Steps(c)
<1>1. /\ Rank(c) \in 1 .. 6
      /\ Steps(c) = IF service[c] = Last(c) THEN 6 + Rank(c) ELSE Rank(c)
  BY StepsNow
<1>2. CASE ~Busy(c)' /\ at'[c] # "idle"
  BY <1>1, <1>2, StepsNext
<1>3. CASE Busy(c)' /\ Rank(c)' > Rank(c)
  <2>1. /\ Rank(c)' \in 1 .. 6
        /\ Steps(c)' = IF service[c] = Last(c) THEN 6 + Rank(c)' ELSE Rank(c)'
    BY <1>3, StepsNext
  <2> QED
    BY <1>1, <1>3, <2>1
<1> QED
  BY <1>2, <1>3

\* A command that goes on to its other service, or is done.
LEMMA OnToTheNext ==
    ASSUME TypeOK, TypeOK', NEW c \in Commands, Busy(c), GoOn(c)
    PROVE  Steps(c)' > Steps(c)
<1>1. CASE service[c] = Last(c)
  <2>1. at'[c] = "done" /\ service'[c] = service[c]
    BY <1>1 DEF GoOn, Goto, Last, TypeOK
  <2> QED
    BY <2>1, FurtherOn DEF Busy
<1>2. CASE service[c] # Last(c)
  <2>1. at'[c] \in {"check", "stop"} /\ service'[c] = Last(c)
    BY <1>2 DEF GoOn, Last, TypeOK
  <2>2. Steps(c)' = 7
    BY <2>1 DEF Steps, Rank, Busy, Last
  <2>3. Steps(c) \in 1 .. 6
    BY <1>2, StepsNow
  <2> QED
    BY <2>2, <2>3
<1> QED
  BY <1>1, <1>2

\* Each step of a command brings it nearer its end, and moves no other command.
LEMMA OwnStep ==
    ASSUME TypeOK, TypeOK', NEW c \in Commands, StepOf(c)
    PROVE  /\ Steps(c)' > Steps(c)
           /\ \A d \in Commands \ {c} : at'[d] = at[d] /\ service'[d] = service[d]
<1>1. ASSUME NEW step, Goto(c, step), Busy(c), step # "idle",
             step \notin {"done", "failed", "unstopped", "killed", "orphaned", "abandoned"} =>
                 Rank(c)' > Rank(c)
      PROVE  /\ Steps(c)' > Steps(c)
             /\ \A d \in Commands \ {c} : at'[d] = at[d] /\ service'[d] = service[d]
  <2>1. at'[c] = step /\ service' = service /\ \A d \in Commands \ {c} : at'[d] = at[d]
    BY <1>1 DEF Goto, TypeOK
  <2>2. (~Busy(c)' /\ at'[c] # "idle") \/ (Busy(c)' /\ Rank(c)' > Rank(c))
    BY <1>1, <2>1 DEF Busy, TypeOK
  <2> QED
    BY <1>1, <2>1, <2>2, FurtherOn
<1>2. ASSUME GoOn(c), Busy(c)
      PROVE  /\ Steps(c)' > Steps(c)
             /\ \A d \in Commands \ {c} : at'[d] = at[d] /\ service'[d] = service[d]
  BY <1>2, OnToTheNext, MovesOnAlone
<1>3. CASE Begin(c)
  <2>1. at[c] = "idle" /\ at'[c] \in {"check", "stop"} /\ service' = service
        /\ \A d \in Commands \ {c} : at'[d] = at[d]
    BY <1>3 DEF Begin, Goto, TypeOK
  <2>2. Steps(c) = 0
    BY <2>1 DEF Steps
  <2>3. Steps(c)' \in {1, 7}
    BY <2>1 DEF Steps, Rank, Busy
  <2> QED
    BY <2>1, <2>2, <2>3
<1>4. CASE Killed(c)
  BY <1>1, <1>4 DEF Killed, Busy, TypeOK
<1>5. CASE OtherProfile(c) \/ PreflightFails(c) \/ Aborted(c) \/ CleanedUp(c)
  BY <1>1, <1>5 DEF OtherProfile, PreflightFails, Aborted, CleanedUp, Busy
<1>6. CASE AlreadyActive(c) \/ StartedMeanwhile(c) \/ Started(c)
  BY <1>2, <1>6 DEF AlreadyActive, StartedMeanwhile, Started, Busy
<1>7. CASE PreflightPasses(c) \/ Spawn(c) \/ Save(c) \/ SaveFails(c)
  BY <1>1, <1>7 DEF PreflightPasses, Spawn, Save, SaveFails, Goto, Busy, Rank, TypeOK
<1>8. CASE Exited(c) \/ StopsWaiting(c) \/ CleanUp(c) \/ StopBegins(c)
  BY <1>1, <1>8 DEF Exited, StopsWaiting, CleanUp, StopBegins, Goto, Busy, Rank, TypeOK
<1>9. CASE NothingToStop(c) \/ Stopped(c)
  BY <1>2, <1>9 DEF NothingToStop, Stopped, Busy
<1>10. CASE TerminateFails(c)
  BY <1>1, <1>2, <1>10 DEF TerminateFails, Busy
<1> QED
  BY <1>3, <1>4, <1>5, <1>6, <1>7, <1>8, <1>9, <1>10 DEF StepOf, Proceeds, StopProceeds

\* Where a command is, it leaves by a step of its own only.
LEMMA OthersStand ==
    ASSUME TypeOK, TypeOK', [Next]_vars, NEW c \in Commands
    PROVE  StepOf(c) \/ (at'[c] = at[c] /\ service'[c] = service[c])
<1>1. ASSUME NEW d \in Commands, StepOf(d), d # c
      PROVE  at'[c] = at[c] /\ service'[c] = service[c]
  BY <1>1, OwnStep
<1>2. ASSUME NEW s \in Services, NEW d \in Serves, Loaded(s, d) \/ DaemonExits(s, d)
      PROVE  at' = at /\ service' = service
  BY <1>2 DEF Loaded, DaemonExits
<1>3. CASE UNCHANGED vars
  BY <1>3 DEF vars
<1> QED
  BY <1>1, <1>2, <1>3 DEF Next, StepOf, Commands

\* A command has at most thirteen steps to take (serve.py:199-213, cli.py:134-150): no
\* part of serve or stop is tried again, however commands and daemons get in its way.
THEOREM CommandsComeNearer == Spec => NoCircles
<1>1. ASSUME TypeOK, TypeOK', [Next]_vars, NEW c \in Commands
      PROVE  /\ Steps(c)' \in Steps(c) .. 13
             /\ StepOf(c) => Steps(c)' > Steps(c)
  <2>1. ASSUME at'[c] = at[c], service'[c] = service[c] PROVE Steps(c)' = Steps(c)
    BY <2>1 DEF Steps, Busy, Rank, Last
  <2>2. StepOf(c) \/ (at'[c] = at[c] /\ service'[c] = service[c])
    BY <1>1, OthersStand
  <2>3. StepOf(c) => Steps(c)' > Steps(c)
    BY <1>1, OwnStep
  <2>4. Steps(c) \in 0 .. 13 /\ Steps(c)' \in 0 .. 13
    BY StepsNow, StepsNext
  <2> QED
    BY <2>1, <2>2, <2>3, <2>4
<1>2. TypeOK /\ TypeOK' /\ [Next]_vars =>
          [\A c \in Commands :
               /\ Steps(c)' \in Steps(c) .. 13
               /\ StepOf(c) => Steps(c)' > Steps(c)]_vars
  BY <1>1
<1> QED
  BY <1>2, Typing, PTL DEF Spec, NoCircles

\* c's next step waits for nothing: neither for a lock nor for a daemon.
Acts(c) ==
    \/ at[c] = "check" \/ Holds(c)
    \/ at[c] \in {"start", "cleanup", "stop"} /\ lock[service[c]] = None
    \/ at[c] = "waiting" /\ ~Live(service[c], c)

\* A command that is under way acts, or waits for its own daemon to load, or for a
\* command that holds the lock and acts.  Nobody waits for a lock while a model loads.
NobodyIsStuck ==
    \A c \in Commands : Busy(c) =>
        \/ Acts(c)
        \/ at[c] = "waiting" /\ Live(service[c], c)
        \/ \E d \in Commands \ {c} : lock[service[c]] = d /\ service[d] = service[c] /\ Holds(d)

\* No two commands wait for each other, and none waits for a lock whose holder waits for
\* anything ("the lock is only held while starting the process", backend/process.py:243).
\* With CommandsComeNearer: when the others have had their steps, a stop finds its lock free.
THEOREM NoDeadlock == Spec => []NobodyIsStuck
<1>1. Inv => NobodyIsStuck
  <2> SUFFICES ASSUME Inv, NEW c \in Commands, at[c] \in {"start", "cleanup", "stop"},
                      lock[service[c]] # None
               PROVE  \E d \in Commands \ {c} :
                          lock[service[c]] = d /\ service[d] = service[c] /\ Holds(d)
    BY DEF NobodyIsStuck, Acts, Holds, Busy
  <2>1. service[c] \in Services /\ lock[service[c]] \in Commands
    BY DEF Inv, TypeOK
  <2>2. service[lock[service[c]]] = service[c] /\ Holds(lock[service[c]])
    BY <2>1 DEF Inv, Held
  <2>3. ~Holds(c)
    BY DEF Holds
  <2> QED
    BY <2>1, <2>2, <2>3
<1> QED
  BY <1>1, Invariance, PTL

---------------------------------------------------------------------------
(* What is read under a lock stays true *)

\* A record changes under the lock of its service only when the lock is let go, or when
\* the start that holds it writes its own (and then Ctrl-C comes).
RecordStands ==
    [][\A s \in Services : lock[s] # None =>
          \/ record'[s] = record[s] \/ lock'[s] = None
          \/ record'[s] = lock[s] /\ at[lock[s]] = "spawned"]_vars

\* A stop that has begun has a process to end.
Found == \A c \in Stops : at[c] = "stopping" => record[service[c]] # None

LEMMA RecordStandsStep ==
    ASSUME Inv, [Next]_vars, NEW s \in Services, lock[s] # None
    PROVE  \/ record'[s] = record[s] \/ lock'[s] = None
           \/ record'[s] = lock[s] /\ at[lock[s]] = "spawned"
<1> USE DEF Inv, TypeOK, Commands
<1>1. CASE record' = record
  BY <1>1
<1>2. ASSUME NEW c \in Serves, Spawn(c) PROVE record'[s] = record[s]
  BY <1>2 DEF Spawn, Lock, Clear
<1>3. ASSUME NEW c \in Serves, Save(c) PROVE record'[s] = record[s] \/ lock'[s] = None
  BY <1>3 DEF Save, Unlock
<1>7. ASSUME NEW c \in Serves, SaveFails(c)
      PROVE record'[s] = record[s] \/ (record'[s] = lock[s] /\ at[lock[s]] = "spawned")
  <2>1. lock[service[c]] = c
    BY <1>7 DEF SaveFails, Held, Holds
  <2> QED
    BY <1>7, <2>1 DEF SaveFails
<1>4. ASSUME NEW c \in Serves, CleanedUp(c) PROVE record'[s] = record[s] \/ lock'[s] = None
  BY <1>4 DEF CleanedUp, Clear, Unlock
<1>5. ASSUME NEW c \in Stops, NothingToStop(c) PROVE record'[s] = record[s]
  BY <1>5 DEF NothingToStop, UnderLock, Clear
<1>6. ASSUME NEW c \in Stops, Stopped(c) PROVE record'[s] = record[s] \/ lock'[s] = None
  BY <1>6 DEF Stopped, Clear, Unlock
<1> QED
  BY <1>1, <1>2, <1>3, <1>4, <1>5, <1>6, <1>7
  DEF Next, Proceeds, StopProceeds, OtherProfile, AlreadyActive, PreflightFails,
      PreflightPasses, StartedMeanwhile, Aborted, Started, Exited, StopsWaiting, CleanUp,
      StopBegins, TerminateFails, Begin, Killed, Loaded, DaemonExits, vars

\* A command begins to stop a service only where it has found a record.
LEMMA FoundNext ==
    ASSUME Inv, Inv', Found, [Next]_vars, NEW c \in Stops, at'[c] = "stopping"
    PROVE  record'[service'[c]] # None
<1>1. c \in Commands /\ c \notin Serves /\ TypeOK /\ TypeOK'
  BY CommandsAssumption DEF Inv, Commands
<1>2. CASE StepOf(c)
  <2>1. ASSUME GoOn(c) PROVE FALSE
    BY <1>1, <2>1, MovesOnAlone
  <2>2. StopBegins(c)
    BY <1>1, <1>2, <2>1
    DEF StepOf, StopProceeds, NothingToStop, Stopped, TerminateFails, Begin, Killed, Goto, TypeOK
  <2> QED
    BY <2>2 DEF StopBegins, Goto, Active
<1>3. CASE at'[c] = at[c] /\ service'[c] = service[c]
  <2>1. /\ service[c] \in Services /\ lock[service[c]] = c /\ lock'[service[c]] = c /\ c # None
        /\ record[service[c]] # None /\ at[c] = "stopping"
    BY <1>1, <1>3, CommandsAssumption DEF Inv, TypeOK, Held, Holds, Found
  <2> QED
    BY <1>1, <1>3, <2>1, RecordStandsStep
<1> QED
  BY <1>1, <1>2, <1>3, OthersStand

\* "alab stop" ends the process that its record named when the lock was taken: the record
\* is there and stays while terminate() waits for seconds (backend/process.py:345-365), and
\* a failed start compares the record under the same lock (process.py:276-279).
THEOREM StopEndsWhatItFound == Spec => []Found /\ RecordStands
<1>1. Init => Found
  BY DEF Init, Found, Commands
<1>2. Inv /\ Inv' /\ Found /\ [Next]_vars => Found'
  BY FoundNext DEF Found
<1>3. Inv /\ [Next]_vars =>
          [\A s \in Services : lock[s] # None =>
              \/ record'[s] = record[s] \/ lock'[s] = None
              \/ record'[s] = lock[s] /\ at[lock[s]] = "spawned"]_vars
  BY RecordStandsStep
<1>4. Spec => []Found
  BY <1>1, <1>2, Invariance, PTL DEF Spec
<1>5. Spec => RecordStands
  BY <1>3, Invariance, PTL DEF Spec, RecordStands
<1> QED
  BY <1>4, <1>5

===========================================================================
