# A verification project for agent-lab

`alab` serves one language model on one machine. It downloads the model, runs a
backend process that holds it, and a gateway process in front of the backend
that speaks the OpenAI protocol, checks API keys, counts tokens and keeps a
short queue. This directory holds TLA+ models of the parts of it that keep state
and run concurrently, TLC runs over small instances, and TLAPS proofs for every
value of the constants.

Paths below are relative to `src/src/agent_lab/` unless they start with `src/`.

## 1. The system

| Component | State it keeps | Operations | Interacts with | What is hard |
|---|---|---|---|---|
| Request queue (`gateway/queue.py`) | two counters, a `Place` per request, an `asyncio.Lock` with its deque of futures | `full`, `reserve`, `give_up`, `slot` | called by the chat endpoint; `on_change` reports its figures | cancelled waiters, the gap between release and wake-up |
| Chat endpoint (`gateway/app.py`) | three tasks per request, the log record | `chat`, `ChatResponse.__call__`, `_stream`, `_complete`, `backend_chunks` | queue, backend, client, counting thread | every await can be interleaved, cancelled or fail |
| Keep-alive hand-over (`_with_heartbeats`) | a producer task, a bounded queue | read, hand over, time out, leave | chat endpoint | a timer that races with an item; leaving while the producer is anywhere |
| Token limits (`gateway/translate.py`, `config.py`) | none; rules between numbers | `parse_profile`, `prepare`, `limit`, `_effort` | chat endpoint, backend defaults | boundaries; two renderings that must agree |
| Prompt counting (`gateway/tokens.py`) | a tokenizer | `count` in a thread | chat endpoint | what was read before it is stale after it |
| API keys (`gateway/keys.py`) | `keys.toml`, `keys.lock`, the gateway's copy with its stamp | `create`, `revoke`, `KeyStore.check` | commands and gateway share only the file | replacement between `stat` and `read`; failed reads; kills |
| serve and stop (`serve.py`, `cli.py`, `backend/process.py`, `gateway/process.py`) | two records, two readiness records, two locks, two daemons | `start`, `stop`, `status`, `preflight`, `terminate` | processes that share files | commands at the same time, killed or interrupted; daemons that crash or never load |
| Model download (`pull.py`) | model files, partial files, `state.json`, a lock | `pull`, `_download`, `local_state` | registry, network, disk, `alab serve` | kills between two writes, retries, wrong bytes, changed files, a look while a pull runs |
| Registry (`registry.py`) | `models.toml` | `get_entry`, `write_entry` | pull and serve read an entry once, then act on it | another revision is pinned in between |
| Gateway process (`gateway/server.py`, `gateway/__main__.py`) | socket, readiness record, queue file | run, shut down | serve/stop, chat endpoint | cancellation at shutdown |
| Backend process (`backend/launch.py`, `backend/settings.py`) | loaded model, memory use and peak, two records, a watchdog thread | load, generate, sample, exit | serve/stop, `alab status`, the GPU limit | two threads, one of which may die; a full disk; exits at any time |
| gpu-limit (`gpulimit.py`) | a sysctl of the kernel | `apply`, `revert` | the user, sudo, other writers | another writer between reading, asking and setting; refusal or Ctrl-C half-way |
| doctor (`doctor.py`, `macos.py`) | none | `check_gpu_limit` and other checks | serve's preflight | several readings at several moments; readings that fail |
| Paths, toolchain, other endpoints | files or nothing | validate, print | everything | little |

What makes them correct:

- **Queue and chat endpoint.** One request in the backend at a time; never more
  than one running and `queue_size` waiting; counters equal to what they count;
  no wake-up lost; nobody overtaken; whoever leaves, fails or is cancelled gives
  back what it held; the log line says what happened.
- **Hand-over.** No chunk lost, repeated or reordered; after it has been left, the
  backend is free.
- **Token limits.** Prompt and answer fit the context; the backend renders what the
  gateway counted, as far as one of them can know what the other has loaded.
- **Keys.** A revoked key is rejected and a new one accepted by the next check; no
  command undoes another.
- **serve and stop.** One backend and one gateway; each can be found and stopped; a
  failed start leaves nothing; stop ends; the gateway and the backend are of one
  profile.
- **Download.** "Downloaded" means that the registry's files are there, verified,
  also when a pull runs while serve looks; bad files go; a pull ends.
- **gpu-limit.** A command that reports success has read the value it reports; the
  system keeps its headroom.
- **Backend process.** It is watched from its first allocation, and ends before Metal
  refuses memory, whatever becomes of the thread that generates.

The `hazards` of `PROJECT.json` list where in the code each of these could go
wrong, and which property would notice.

## 2. The modules

```
SerialService  <-- refined by --  Gateway  -- extends -->  RequestQueue
                                  |     \
                              MCGateway  MCGatewayOrder
                                  GatewayProofs <- GatewayServiceProofs
Relay  <-- refined by --  Heartbeats  <- HeartbeatsProofs
             (the worker of a streaming request in Gateway, in detail)
TokenLimits  <- TokenLimitsProofs
Keys         <- MCKeys,        KeysProofs
ServeStop  <-- refined by --  Lifecycle  <- MCLifecycle, LifecycleProofs
Pull         <- MCPull,        PullProofs
GpuLimit     <- MemoryGuard <- MCMemoryGuard, MemoryGuardProofs
```

### RequestQueue, Gateway: a request and its tasks

`RequestQueue` has an operator for what each call does to the queue between two
awaits: `Reserve`, `GiveUp`, `Start` (`_leave(place, start=True)`), and the steps
of `slot()`: `TakeSlot` and `JoinWaiters` (acquire), `WakeUp` (acquire resumes),
`LeaveWaiters` (acquire is cancelled), `ReleaseSlot`. `asyncio.Lock` is modelled
as the library has it: `_locked`, a deque of futures, and a future that is
"pending", "woken" or "cancelled". `waiting`, `active`, `place` and `published`
(what `on_change` was last told) are the code's own variables.

`Gateway` adds the tasks. `call` is the server's task in `chat()` and
`ChatResponse.__call__`; `answer` is the task that runs `_stream` or
`_complete`; `worker` is the task that runs `backend_chunks`, which is the answer
itself for a request without `stream`, and the producer of `_with_heartbeats` for
one with it. An action is what one task does between two awaits: that is all that
can be observed, since asyncio tasks are switched only there. `ClientLeaves`,
`StreamFails`, `SendFails`, `BackendEnds` and `Shutdown` are the world. A
cancelled task is not a variable: it is cancelled exactly when `call` has moved to
"ending" or "aborted" (`AnswerCancelled`), or when its answer is "closing"
(`WorkerCancelled`). The contents of messages, the JSON and the errors' wording
are left out; a status is a number.

### SerialService: what the queue promises

Five steps (`Admit`, `TurnAway`, `Serve`, `Finish`, `GiveUp`) on one variable.
`Gateway!RequestState` maps the tasks to it. `ImplementsService` says that every
behaviour of `Gateway` is one of `SerialService`, fairness included.

### Relay, Heartbeats: the hand-over

Producer, bounded queue and consumer of `_with_heartbeats`. Gateway has all of
this as one worker; here are its own races: the time-out that fires when an item
has just come, `put()` on a full queue, cancelling the producer anywhere, and a
close of the backend's stream that raises.

`Relay` says what all this is to `_stream`: one loop over the backend's chunks. Each
is passed on once and in order, an end is told behind the last of them, an error
as an error, and the backend is free before `_stream` goes on. Its steps are those
that `Gateway` has for a stream (the header of `Relay` pairs them), so `Relay` is
what `Gateway` takes for granted of the hand-over. `ImplementsRelay` maps a
backend's end that is still in line to `Pending`, and the generator and its producer
to `Backend`. It is a safety specification: that chunks arrive and leaving ends are
`Delivered` and `LeavingEnds`, since one thing can keep leaving from ending (`Stranded`).

### ServeStop, Lifecycle: serve and stop

Commands are processes; what they share are the two records, the two readiness
records, the two locks and the daemons. `backend/process.py` and
`gateway/process.py` have the same shape, so one set of actions serves both, with
`service[c]` the one a command is at: serve goes from backend to gateway, stop the
other way. A step under a lock that nobody else can be seen to interleave with is
one action (`NothingToStop`, `StartedMeanwhile`); where a command holds the lock
across something that takes time (Popen to save, terminate) there are two. A save that
fails (`SaveFails`, also Ctrl-C on either side of its `os.replace`) leaves the lock with
the command, which is "aborting" while it terminates its process: that may take its time,
be killed, end well (`Aborted`) or raise (`TerminateFails`). A
command may be killed anywhere (`Killed`), and a daemon may exit anywhere
(`DaemonExits`) or load for ever. A kill before the record is saved, or a terminate()
that raises after a save that failed, leaves an `Orphan`; see 4. `failed` is the flag of the same name in `_cmd_stop`
(`cli.py:134-150`): a stop that could not end a process says so, tries the other
service all the same, and exits with 1. Out of scope: a record that somebody edits,
and a pid that is used again (the code asks whether the pid's command line is that of
the daemon, so only a second daemon with the same pid could be mistaken for the first).

`ServeStop` says what the commands promise to whoever runs them, without locks,
records and start-up, in eight steps on three variables: how far a command is, the
processes of each service, and which stops have said that they could not end one. A
serve starts a process only where there is none and goes on only past a service that
has one; a failed serve takes its own process along; a stop leaves a service without
a process (`Down`) or says that it could not (`Excuse`). Nothing in it depends on what
another command read earlier, and that is what the locks have to achieve:
`ImplementsServeStop` maps the stages of a command to the service it is at
(`StageOf`), live processes that are not orphans to `daemons` (`Daemons`), and
`failed` to `excused`. It is a safety specification; that stop ends is `StopEnds`.

### Keys: commands and the gateway's copy

`create` and `revoke` read and replace `keys.toml` under a lock. `KeyStore.check`
is split where the file can change under it: the stamp is taken in one step
(`CheckChanged`) and the file read in another (`Load`). The stamp (inode, mtime,
size) is a version that is new with every change. `ever` and `always` are
history variables: the keys that were valid at some, or at every, moment of the
check that is under way.

### Pull: the download, the registry and serve's look

One action per step of `pull()` and `_download()` that reads or writes a disk or
the network. The bytes of a file are named by their hash: one of `Contents`, which
registry entries list, or "wrong". A partial file is named by its hash as in the
code; it has a length, and its bytes are right or not. A record of `state.json` is
what its hash says about the file as it is now: "stale" when size and mtime are no
longer the file's, otherwise the hash.

`Enter` reads the registry (`cli.py:32`) and `Begin` takes the lock, so another
revision may be written (`Locked`) and pulled in between. Pulls can be given again
and again; `Pulls` is how many there are at a time.

`local_state` is not a predicate but a process: it reads the entry (`LookBegins`),
loads the records (`LookLoads`), asks for each file whether it is there
(`LooksFor`), then for each whether its record still describes it (`LookMatches`),
with a pull's steps in between. An answer other than "downloaded" makes serve
refuse, so the look is over. `calm` is a history variable: since the look began
nobody changed a file by hand, and no pull of another revision ran. Without it the
answer can be wrong, because the code holds no lock; with it `DownloadedIsGood` says
that it is right, and stays right while serve goes on.

### GpuLimit, MemoryGuard: the memory of the backend

`GpuLimit` has the commands `gpu-limit apply` and `revert` as processes that read
the sysctl (`ApplyReads`, `RevertReads`), decide (`Decides`: refuse, nothing to do, or
ask), run sudo, read again (`ReadsAgain`) and compare (`Verify`), beside other writers
(`OtherWrites`) and reboots. A reading and what is made of it are two steps: between
line 183 of `gpulimit.py` and the report in line 195 MLX is imported and asked. Sizes are
counted in bytes and in MB, with `MIB` bytes to the MB, so that the rounding in
`ceiling_mb`, `effective_mb` and `parse_profile` is there. Any reading may fail
(`Reading`). `disturbed` is a history variable: the commands that rely on a reading after
which somebody wrote the sysctl.

`MemoryGuard` extends it with serve's check of the limit (`PreflightReads`,
`PreflightPasses`: two of the readings, at two moments) and the backend process:
the thread that loads and generates, the watchdog thread with its samples, the
memory record that both write, and every way for the process to end. The backend loads
the profile again when it starts (`ServerStarts`, `launch.py:373`), and it may have been
edited since. When the generation thread is at its end (`GenerationDies`) the process
exits if mlx-lm returns with `_generation_failed` set ("dying"); there is no `finally`,
so an error that passes through leaves a process without that thread ("idle"). A record is
written by `os.replace`, so it is one step; in what order the two threads write is
not fixed. `moved` is a history variable: the sysctl, or the limit in the profile,
changed since preflight read it.

### TokenLimits

The rules between `max_context`, `max_output_tokens` and `min_output_tokens`,
`limit()`, `_effort()` and what `prepare()` makes of them; all inputs are chosen
in `Init` and `Prepare`. `default` is the gateway's `enable_thinking` and `served` the
backend's: each process loads the profile for itself (`server.py:144`,
`launch.py:373`), and a backend may be started at any time (`BackendLoads`).

Each module also has a few definitions that no action uses, named in its header.
Each is a plausible slip in the code it stands next to (a dropped guard, a
forgotten status, a lock kept too long). Put in the place of the definition below
it, it makes one property false: that is how we know that the property says
something.

## 3. The runs

Run one with `tlc -config X.cfg M` in this directory.

| Run | Instance | What it shows |
|---|---|---|
| `gateway` (MCGateway.cfg) | two streaming requests and one other, `QueueSize` 1, one refusal status and one backend error | `TypeOK`, `Accounting`, `NothingLeftBehind`, `HonestLine` with everything that can go wrong |
| `gateway_serving` (MCGatewayServe.cfg) | three requests that all get in (`QueueSize` 2), a backend that need not answer; shutdown, a refusal after the count and failing last sends with two of the three | `SlotExclusive`, `HandedOn`, `InTurn`, `LeaverGone`, `EveryCallEnds`, `ImplementsService` |
| `gateway_order` (MCGatewayOrder.cfg) | one streaming request and one other | `ArrivalOrder` is violated (finding 1) |
| `heartbeats` (Heartbeats.cfg) | five chunks, a queue of two, closes that may fail | `InOrder`, `CompleteEnd`, `ClosedAfterwards`, `LeavingEnds`, `Delivered`, `ImplementsRelay` |
| `lifecycle` (MCLifecycle.cfg) | two serve commands of different profiles and one stop, all at once; a third serve once the first two are over; one of the first two is killed, cannot save its record or cannot end its process | `OneProcess`, `Recorded`, `FailureLeavesNothing`, `StopEnds`, `ImplementsServeStop` |
| `lifecycle_profiles` | two serve commands of different profiles, one stop | `ProfilesMatch` is violated (finding 2) |
| `lifecycle_order` | two serve commands of one profile, one stop | `GatewayFirst` is violated (finding 3) |
| `keys` (MCKeys.cfg) | three creates and two revokes over two names, one edit, one read error | `RevokedIsRejected`, `CreatedIsAccepted`, `Books` |
| `keys_reread` | the same without edits | `TakesEffect` is violated (finding 4) |
| `pull` (MCPull.cfg) | two pulls at a time (one with `--recheck`), any number in all; two revisions, two files of two chunks, two attempts; one file or the registry changed by hand | `DownloadedIsGood`, `NothingBadKept`, `SuccessDownloads`, `PullEnds` |
| `memory` (MCMemoryGuard.cfg) | one apply and one revert, three profiles, another writer, two backends one after the other, three levels of memory; the commands are over when a backend starts to load | `SuccessInForce`, `HeadroomKept`, `WatchdogFirst`, `Watched`, `RecordsAgree`, `ExcessEnds` |
| `limits` (TokenLimits.cfg) | limits 1..5, prompts 0..6 | `AnswerFits`, `RoomForAnswer`, `RendersAsCounted` |

Why the bounds are enough for the interesting cases:

- *Three requests, one place* let one run, one wait and one be turned away, or one
  run and two stand in line when `QueueSize` is 2; a cancelled waiter between a
  releaser and a follower needs exactly three. `SYMMETRY` is used only in the run
  without liveness properties, and permutes only requests of one kind, which no
  definition tells apart. In `gateway_serving` the shutdown, `RefusedAfterCount` and
  `SendFails` happen only before the request `third` is made (`DisruptedEarly`), so
  they meet two requests. Each request is made once: the system stops, so these
  runs do not check for deadlock; `EveryCallEnds` says what it would.
- *Five chunks, queue of two*: the queue fills, one item waits in `put()`, one is
  being sent, and one is still to come. `maxsize` is 64 in the code; only full
  and not full differ.
- *Two serves, one stop* is the least at which a late clean-up can meet the record
  of a later start; the third serve finds what the others have left, of its own
  profile or another. One mishap among the first two serves (a kill, a save that fails, a
  process that does not end) is enough for a record without a process, a process without
  a record, and a lock let go in mid-start; stop meets them all, at any time. The proofs
  cover any number of each, at once.
- *Three creates, two revokes over two names*: a name that is taken, that is free
  again, and that is not involved.
- *Two files of two chunks, two attempts*: a partial file can be empty, part,
  complete and too long; one file can fail while the other succeeds, and a look can
  have passed one file and not the other. The older revision has two files with the
  same bytes, hence one partial file; the newer has other bytes for the first and no
  second. `MaxChanges`, `MaxEdits` and `MaxErrors` bound what the user or the disk
  does, not the program. A change by hand and a new revision in one behaviour are
  left to the proofs, which have no such bound.
- *2 bytes to the MB, 13 bytes of memory, a default of 5 bytes, headroom of 1 MB*:
  both the memory and the default are no whole number of MB, so every conversion
  rounds. The levels 0, 3 and 4 are below, at and above the limit of the first profile;
  the third has another limit, for a profile that is edited. Two backends let a record of
  the first meet the second. gpu-limit commands overlap each other, preflight and all that
  others do, but are over before a backend starts its watchdog (`QuietNext`): a backend
  that is up sees of them only that the sysctl changes, and `OtherWrites` changes it at any
  time. The proofs have no such order.
- *Limits 1..5, prompts 0..6* reach every order between the three limits and the
  prompt, equality and a distance of one included.

### Fairness

- `LoopFairness` (Gateway), and the weak fairness of `Heartbeats`: the event loop
  runs every task that is ready. Nothing is assumed about the order.
- `WorldAnswers` is no fairness but the hypothesis of `EveryCallEnds` and of the
  fairness half of `ImplementsService`: the backend's stream ends at some time and
  clients read what they are sent. The code sets no read time-out on the backend
  (`app.py:164`): generation is bounded by `max_tokens`, so this is an assumption
  about the backend and its users. The fairness half of `ImplementsService` supposes too
  that the server is not shut down: a call that is then cut off in `gather` keeps its
  place (`NothingLeftBehind`). `EveryCallEnds` does not; `LeaverGone` does without both. No fairness for
  anything in `Chance`: nobody has to leave or fail.
- `Lifecycle!Fairness`: a command that can go on does. Nothing is assumed of daemons
  or of start time-outs, so `StopEnds` holds even when a model loads for ever.
  `StopsWaiting`, `Loaded` and `DaemonExits` are not fair.
- `Pull!FairSpec`: a pull goes on, and the network answers, fails or ends a
  response; the time-outs of the HTTP client (`pull.py:41-42`) justify that.
- `MemoryGuard!FairSpec`: the operating system runs the watchdog thread. Nobody has to
  load, generate, sample, free memory, die or stop.

`MCGatewayOrder` restricts its model further, to asyncio running first steps in
the order in which tasks were created, so that its counterexample is one that
CPython can produce.

## 4. What was found

1. `ArrivalOrder` (doc and code differ). `gateway/queue.py:4` says "Requests wait
   here in arrival order". They wait in the order in which their workers reach
   `slot()`; a streaming request gets there only after its headers are sent and its
   producer has started, so a request without `stream` that came later can pass it.
   What holds is `InTurn`: nobody is overtaken once in line.
2. `ProfilesMatch` (bug). `serve.py:142-147` refuses to put a gateway in front of
   a backend of another profile, but compares before the lock. Under the lock,
   `start()` returns whatever backend is active, and serve goes on to start the
   gateway of its own profile. Two serve commands at once can end that way.
3. `GatewayFirst` (doc and code differ). `cli.py:135`: "The gateway first, so no new
   request reaches a backend that is going away". stop takes the two locks one
   after the other, and a serve command that has already passed the backend can
   start a gateway in between.
4. `TakesEffect` (bug). If opening or reading `keys.toml` fails for a moment, the
   gateway keeps no key but stores the file's stamp: it rejects valid keys until
   the file changes again (`gateway/keys.py:160-169`).

Two states the code can reach are exceptions written into properties rather than
findings, because the code promises nothing about them. `Stranded` (Heartbeats):
closing the backend's stream raises while the hand-over queue is full, and
producer and consumer wait for each other. `Orphan` (Lifecycle): a serve command
is killed between Popen and the end of saving the record, or the record cannot be saved
and terminate() then raises because the process outlives SIGKILL
(`backend/process.py:269-271`, `339-340`, likewise `gateway/process.py:117-119`). Either
way the process lives, is named nowhere, and the lock is free. A later serve finds no
backend and may start a second one, and a stop ends with success past the first. So
"two at once cannot start two backends" (`backend/process.py:205`) and "On failure or
timeout the new process is stopped" (line 242) do not hold beside such a process;
`OneProcess`, `Recorded` and `ServeStop` leave it out of account and say so.

Seven smaller observations, met while modelling, which no run is about:

- `cli.py:118` prints "cancelled; nothing was changed" on Ctrl-C, also when sudo
  has already set the limit (`Interrupted` in the stage "set").
- `gpulimit.py:180` says "Raise the limit", but on a machine whose own default is
  above the profile's value, apply lowers the limit in force.
- preflight checks the limit once; `gpu-limit revert` under a running backend is not
  refused. The backend loads the profile after preflight did, and its limit may be
  another by then. `WatchdogFirst` therefore speaks of limits that stay (`moved`).
- `gpulimit.py:193` compares what line 183 read before MLX was imported and asked. A
  write in between makes "is already ...; nothing to do" wrong when it is printed, and
  the exit code 0 with it; the same holds, for a shorter time, of lines 217 and 175.
  `SuccessInForce` speaks of the moment of the reading and the time until the next write.
- `gateway/translate.py:212` and `218` rely on the backend's default being the gateway's.
  The two processes load the profile at different times, and no code compares the values.
  With two profiles (finding 2), or one that was edited before only the backend was
  started again, a request without `reasoning_effort`, or with "none" while the gateway's
  default is off, is counted in one rendering and generated in another.
  `RendersAsCounted` says that it is these requests and no others.
- `launch.py:33-34` says that the process exits if the generation thread dies. That is so
  when mlx-lm's function returns with `_generation_failed` set (lines 294-299); if it
  raises, the exit is not reached. Which of the two happens is mlx-lm's affair, so no
  property is about it.
- `pull.py:339` says that the directory will "hold exactly the registry's files"; a
  file of an older revision that the entry no longer lists stays there.
  `SuccessDownloads` speaks of the files listed.

## 5. What is proved

Check with `tlapm M.tla`. The proofs hold for every value of the constants under
the ASSUMEs of the modules (`RequestsAssumption`: finitely many requests;
`QueueSizeAssumption`, `StreamingAssumption`, `StatusAssumption`, `CloseAssumption`,
`CommandsAssumption`, `BoundsAssumption`, `ConstantsAssumption`,
`SizesAssumption`, `NoneAssumption`, `EntryAssumption`, `ProfilesAssumption`,
`MachineAssumption`, `LevelsAssumption`), which TLC evaluates in the runs.

**GatewayProofs.** Four invariants, each proved with the help of the ones before.

- `Typing`: `TypeOK`.
- `StagesInvariant`: `Stages`, which ties `call`, `answer`, `worker`, `place` and
  `future` of one request together. Without it a request could start with no
  place, or have a future outside `acquire()`.
- `LockInvariant`: `Line /\ HandedOn /\ SlotExclusive`. None of the three is
  inductive alone. That no two requests run needs that only the head of the deque
  can be woken, and only while the lock is free (`Line`); that the head is woken
  needs that a cancelled head will still take its step, which passes the wake-up
  on. The lemmas `SlotTaken`, `WaiterJoins`, `WaiterRuns`, `WaiterLeaves` and
  `SlotReleased` are the five things the lock can do. `OneAtATime` and
  `NoLostWakeUp` follow.
- `QueueAccounting`: `Accounting`, with the cardinality lemmas `PlaceTaken`,
  `PlaceGivenUp`, `PlaceBecomesSlot` and `SlotFreed`.

**GatewayServiceProofs.** `PlacesInvariant` adds who holds a place and that a call
that is over has no task, and `CutInvariant` that only a shutdown cuts a call off;
`CallsLeaveNothing` (`NothingLeftBehind`) and `NobodyOvertakes` (`InTurn`) follow. Two
consequences that no run states: `IdleQueueIsEmpty` (with no call under way, after any
history, the counters are zero, the slot is free and the deque empty: `Accounting`
and `SlotExclusive` of a system in which nobody holds anything) and `OverIsForGood` (no
step ever changes the tasks, the place or the log record of a call that is over).

What is safety in `EveryCallEnds` is proved as well, in two halves. `RequestsComeNearer`
is the measure: no step takes a task of any request back, and each step of a request
takes one forward, of at most fourteen. `LineAlwaysMoves` says that nobody waits without
reason: whoever is in line acts itself, or somebody has the slot, or the first in line
acts. It needs `HandedOn` for a wake-up and `NoLostCancellation` for a cancellation: a
cancelled worker never waits with a pending future, whichever task cancelled it. That
`LoopFairness` and `WorldAnswers` then make every call end is left to TLC.

`GatewayIsService` proves
`Spec => Service!SafeSpec`: the initial states map to the initial state and every
step to one of the five abstract steps or a stutter, by a lemma for each abstract
step (`AdmitStep`, `ServeStep`, `FinishStep`, `GiveUpStep`, `TurnAwayStep`) and one
for the invisible ones. `LinesAreHonest` (`HonestLine`) rests on `RecordsHonest`,
which says for each stage of a request what its status may be: 200 is set when the
headers go out, long before anybody knows how the answer ends, so the invariant ties
a 200 to a worker that is still under way or to an outcome that deserves it.
`StatusAssumption` says that refusals and backend errors are never 200, and backend
errors never 499.

**HeartbeatsProofs.** `HandOverInvariant`: `Tasks` (what producer and consumer may
be doing together), `InOrder` (what was relayed, taken, queued and held back, one
after the other, is what arrived), `LastItem` (at most one end is in line, behind every chunk),
`EndIsEnd` (the producer of a stream that was reported as ended is over) and
`CompleteEnd`. `InOrder` alone is not inductive: that a time-out takes nothing needs
`Tasks`, and that nothing follows an end needs `LastItem`. `ChunksInOrder`,
`EndMeansComplete` and `FreeAfterwards` follow. `HandOverRelays` proves
`ImplementsRelay` as the run checks it: each action is a step of `Relay` or none. It
needs `Closing` besides: once the backend's stream is closed an end is the last in
line, so what `Pending` says is what will be told. `LeavingHasAWayOut` and
`LeavingIsFinal` are what is safety in `LeavingEnds`: once the consumer has left,
nothing is read or sent any more, both tasks can only end, and the consumer waits for
nothing but a cancellation that the producer will see, unless a close raised (then
`CloseMayFail`, and the state may be `Stranded`). `ChunksMoveOn` is what
is safety in `Delivered`: a chunk that is owed is at the head of the queue, or the
producer has it in hand with room to put it, so the two never wait for each other; each
turn of the consumer with a chunk in the queue relays it, and after a keep-alive it does
not wait again before it has.

**LifecycleProofs.** The inductive invariant is `TypeOK`, `Held` (exactly the
commands in a locked step hold their service's lock), `Spawned` (from Popen until the
record is saved, or the process ended because it could not be, the record names that
process or none), `Recorded`, and `Fresh` (a command that has not
spawned has no process, and one that failed no live one). `OneDaemonEach`,
`EveryDaemonRecorded` and `NothingAfterFailure` follow, for any number of
commands. `ServeAndStopKeepPromise` proves `ImplementsServeStop` as the run checks it.
It needs `Known` besides: a record never names an orphan of either kind, so the process that a
command finds in it is one that `ServeStop` has too; and a stop starts at the gateway.
Each lemma ending in `Step` shows one abstract step, or that there is none to see;
`OneProcess` is what makes `Start` and `Down` possible there.

Three results that no run states. `CommandsComeNearer` is the measure behind `StopEnds`:
counted over both services a command has at most thirteen steps (`Steps`), each of its own
brings it nearer its end (`OwnStep`), and no step of another command or of a daemon moves
it (`OthersStand`). `NoDeadlock`: a command under way acts, or waits for the daemon it
started, or for a lock whose holder acts without waiting for anything; this is `Held`,
read as "the lock is only held while starting the process". Together they say that, when
finitely many commands have taken their steps, a stop finds its lock free; that they take
them is fairness, and left to TLC. `StopEndsWhatItFound`: a record changes under the lock
of its service only as the lock is let go, or by the start that holds it, so what `stop()` has read before the seconds
of `terminate()` is still so when it clears the files (`Stopped` reads it then).

**KeysProofs.** `BooksInv` says that a command that saves holds the lock and has
read what is still in the file. `StoreInv` says that a copy whose stamp is the
file's has the file's keys, unless a read failed. `KeysAreKept`,
`RevokedKeysAreRejected` and `CreatedKeysAreAccepted` follow. Three stronger statements
beyond the runs: `CommandsTakeEffectAtOnce` (a create or revoke is one atomic step on
the keys as they are at that moment, and nothing else changes them), `OneKeyPerName`
(both rest on `NamesInv`: what a command found when it read allows it to save), and
`ChecksDecideRightly` (an answer is right of the file at the very moment it is decided,
where the properties of the run ask only for some moment of the check).

**PullProofs.** Only the pull with the lock runs (`OneRuns`); the records
(`RecordsAreRight`), the pull's copy of them (`CopyIsRight`) and what a look has
loaded of them (`SeenIsRight`) are right of the files as they are now; what is settled
at each stage of a pull (`Settled`); and what a calm look has seen is as its entry
lists it (`LookIsRight`). The last is inductive because a pull of the same revision
deletes only files that differ from the entry (`ScanBadStep`), which such a look has
not passed, and puts only bytes that the entry lists in place (`PlaceStep`). `Typing`,
`RecordsRight`, `DownloadedMeansGood`, `BadFilesGo` and `SuccessMeansDownloaded`
follow, for any revisions, files, pulls and changes. `PullsComeNearer` is the measure
behind `PullEnds`: each step of a running pull leaves it with fewer files to scan or to
download, or at a later attempt, a later stage of the attempt, or with more bytes
(`Nearer`), and no other process sends it back (`Undisturbed`). That this order is
well-founded, and that the steps are taken, is left to TLC: the one is induction over
data, the other fairness.

**MemoryGuardProofs.** `CommandInv` (what a command is about to write passed the
checks of a profile; what it has read and not yet compared is in force, unless somebody
wrote since; and so is what it reported) gives `SuccessIsInForce` and `HeadroomIsKept`. `LimitKnown`, with the arithmetic of `SufficientLimit` (what
`check_gpu_limit` accepts is above `metal_memory_limit` at every rounding), gives
`WatchdogComesFirst`. `AlwaysWatched` and `RecordsAlwaysAgree` (through `RecordInv`:
the memory record is written before the readiness record names the process).
`ExcessIsCutShort` is what is safety in `ExcessEnds`: above the limit no sample can be
taken, a sample that is being recorded or fails leads back to the check, and nothing
else moves the watchdog, so at most three of its steps are left before the exit.

**TokenLimitsProofs.** Arithmetic over all limits: `AnswersFit`, `RoomKept`. And
`RenderedAsCounted`, through `Switched` (what is counted is the switch that is sent, or the
gateway's own default), for every pair of defaults and every restart of the backend.

**Only model-checked**: all liveness (`EveryCallEnds`, `LeaverGone`, `StopEnds`,
`LeavingEnds`, `Delivered`, `PullEnds`, `ExcessEnds`) and the fairness half
of `ImplementsService`, which are out of the prover's reach: for all of them but
`LeaverGone` the measure, or that nobody waits in vain, is proved as said
above. The four violated properties have no theorem: TLC shows their counterexamples.

## 6. What is not modelled

- Paths, toolchain, bootstrap, the stateless endpoints and the checks of doctor
  that only print: no state of their own. Of the registry, parsing and the questions
  to Hugging Face (`lock_entry`); and two `models lock --write` at once for
  different models, of which one can be lost, as `write_entry` holds no lock: a
  developer's command, and nothing in the repository promises otherwise.
- Validation of request and profile fields, formatting, logging and wording.
- The tokenizer, the HTTP client and server, the file system: libraries, modelled
  by what the code relies on (`os.replace` is atomic, `flock` goes with its
  process, asyncio switches only at an await).
- A change of a model file by hand while a pull runs: `remember` takes size and mtime
  after the hash (`pull.py:412`), and the code has no defence. An unreadable
  `state.json` counts as empty, which is a state the model has anyway.
- The tunnel of `src/docs/design.md` is not written at this commit.

## 7. Plan

Done, in the order of importance: queue and chat endpoint, serve and stop, keys,
download with the registry and serve's look, hand-over, limits, gpu-limit and the
backend's memory, all with proofs of their safety. Next:

1. `Gateway` over `Relay`: its streams take `Relay`'s steps, chunks included, so that
   the two refinements meet in one statement.
2. serve against a backend that is still loading: a second serve finds it active and
   starts the gateway at once (`serve.py:148`); what that answers until the backend is
   ready.
