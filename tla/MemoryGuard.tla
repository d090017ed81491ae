---------------------------- MODULE MemoryGuard ----------------------------
(***************************************************************************)
(* The memory of the backend process: serve's check of the GPU limit       *)
(* (serve.py, doctor.py), and the process itself (backend/launch.py) with  *)
(* its two threads, the one that loads the model and generates and the     *)
(* watchdog that ends the process when MLX uses too much.  The limit is    *)
(* that of GpuLimit, which commands and others change at any time.         *)
(*                                                                         *)
(* SaysReadyFirst, SeesOldExcess and SampleEndsWatch are slips that no     *)
(* action uses: they stand in for the definition below them to show that a *)
(* property would notice.                                                  *)
(***************************************************************************)
EXTENDS GpuLimit

CONSTANTS
    Levels,    \* the amounts of memory MLX may use (a bound)
    MaxRuns    \* how many backends are started (a bound)

ASSUME LevelsAssumption == Levels \subseteq Nat /\ 0 \in Levels /\ MaxRuns \in Nat

NoRecord == [pid |-> 0, active |-> 0, peak |-> 0]

VARIABLES
    process,   \* "down", "checking" (preflight reads), "checked" (it has passed),
               \* "starting", "loading", "loaded", "recorded" (the memory record is
               \* written), "serving", "dying" (mlx-lm says that its generation failed) or
               \* "idle" (nothing loads or generates, and the process stays)
    pid,       \* of the last backend
    seen,      \* the sysctl value that preflight has read
    moved,     \* the sysctl or the profile's limit has changed since this serve's preflight
               \* read it
    forced,    \* this serve's preflight was passed with --force only
    needed,    \* gpu_wired_limit_mb of the profile preflight is for
    limit,     \* metal_memory_limit of the profile as it was last loaded
    active,    \* mx.get_active_memory()
    peak,      \* mx.get_peak_memory()
    watchdog,  \* "off", "watching", "sampling" (in on_sample) or "exceeded"
    sample,    \* the reading on_sample was called with
    memory,    \* backend.memory.json
    ready      \* backend.ready.json: the pid it names, or 0

serveVars == <<seen, forced, needed, limit>>
usageVars == <<active, peak, watchdog, sample>>
recordVars == <<memory, ready>>
vars == <<limitVars, process, pid, moved, serveVars, usageVars, recordVars>>

Up == {"loading", "loaded", "recorded", "serving", "dying", "idle"}

TypeOK ==
    /\ LimitTypeOK
    /\ process \in {"down", "checking", "checked", "starting"} \cup Up
    /\ pid \in Nat
    /\ seen \in Nat \cup {Unknown}
    /\ moved \in BOOLEAN /\ forced \in BOOLEAN
    /\ needed \in Nat /\ limit \in Nat
    /\ active \in Levels /\ peak \in Levels /\ sample \in Levels
    /\ watchdog \in {"off", "watching", "sampling", "exceeded"}
    /\ memory \in [pid : Nat, active : Levels, peak : Levels]
    /\ ready \in Nat

Init ==
    /\ LimitInit
    /\ process = "down"
    /\ pid = 0
    /\ seen = Unknown
    /\ moved = FALSE /\ forced = FALSE
    /\ needed = 0 /\ limit = 0
    /\ active = 0 /\ peak = 0 /\ sample = 0
    /\ watchdog = "off"
    /\ memory = NoRecord
    /\ ready = 0

---------------------------------------------------------------------------
(* alab serve *)

\* check_gpu_limit says OK, from what it could read.
LimitSuffices(mb, sysctl, metal, physical) ==
    /\ ~(physical # Unknown /\ mb > Ceiling(physical))
    /\ Effective(sysctl, metal) # Unknown
    /\ Effective(sysctl, metal) >= mb

\* preflight reads the sysctl, for the valid profile p that serve has loaded.
PreflightReads(p, sysctl) ==
    /\ process = "down" /\ pid < MaxRuns /\ Valid(p)
    /\ process' = "checking"
    /\ seen' = sysctl
    /\ limit' = p.metal
    /\ needed' = p.wired
    /\ UNCHANGED <<limitVars, pid, moved, forced, usageVars, recordVars>>

\* What preflight read is local to it.
PreflightOver == seen' = Unknown /\ needed' = 0

\* Nor does anything of one serve and its backend reach the next.
ServeOver == PreflightOver /\ limit' = 0 /\ moved' = FALSE /\ forced' = FALSE

\* Then it asks MLX, and for the physical memory.  A limit that is too low or
\* unknown ends the command unless it is told to go on with --force.
PreflightPasses(metal, physical) ==
    /\ process = "checking"
    /\ process' = "checked"
    /\ forced' = ~LimitSuffices(needed, seen, metal, physical)
    /\ PreflightOver
    /\ UNCHANGED <<limitVars, pid, moved, limit, usageVars, recordVars>>

\* The command ends in preflight or before Popen (a port in use, Ctrl-C).
ServeEnds ==
    /\ process \in {"checking", "checked"}
    /\ process' = "down"
    /\ ServeOver
    /\ UNCHANGED <<limitVars, pid, usageVars, recordVars>>

\* start(): the files of the last backend go, and a new one is spawned.
Spawned ==
    /\ process = "checked"
    /\ process' = "starting"
    /\ pid' = pid + 1
    /\ memory' = NoRecord
    /\ ready' = 0
    /\ UNCHANGED <<limitVars, moved, serveVars, usageVars>>

\* alab stop, once the process is gone.
FilesCleared ==
    /\ process = "down"
    /\ memory' = NoRecord
    /\ ready' = 0
    /\ UNCHANGED <<limitVars, process, pid, moved, serveVars, usageVars>>

---------------------------------------------------------------------------
(* run(), and the thread that loads and generates *)

Step(from, to) ==
    /\ process = from
    /\ process' = to
    /\ UNCHANGED <<limitVars, pid, moved, serveVars, usageVars>>

\* The backend loads the profile itself, as it is by now.  The hooks are installed and the
\* watchdog is started, then the server.
ServerStarts ==
    /\ process = "starting"
    /\ process' = "loading"
    /\ \E p \in Profiles : Valid(p) /\ limit' = p.metal
    /\ moved' = (moved \/ limit' # limit)
    /\ watchdog' = "watching"
    /\ UNCHANGED <<limitVars, pid, seen, forced, needed, active, peak, sample, recordVars>>

\* MLX allocates and frees as it loads and generates; its limit is a soft one.
MemoryChanges ==
    /\ process \in {"loading", "serving"}
    /\ \E level \in Levels :
          /\ active' = level
          /\ peak' = IF level > peak THEN level ELSE peak
    /\ UNCHANGED <<limitVars, process, pid, moved, serveVars, watchdog, sample, recordVars>>

Loaded == Step("loading", "loaded") /\ UNCHANGED recordVars

SaysReadyFirst ==
    /\ Step("loaded", "recorded")
    /\ ready' = pid
    /\ UNCHANGED memory

\* write_json(memory_path, memory_record(mx))
RecordsMemory ==
    /\ Step("loaded", "recorded")
    /\ memory' = [pid |-> pid, active |-> active, peak |-> peak]
    /\ UNCHANGED ready

\* write_json(ready_path, info)
SaysReady ==
    /\ Step("recorded", "serving")
    /\ ready' = pid
    /\ UNCHANGED memory

\* The generation thread is at its end, by an error of its own or by a record it cannot
\* write.  Whether mlx-lm returns with _generation_failed set, or lets the error through
\* to run_generate, which then does not come to its own exit, is mlx-lm's affair.
GenerationDies ==
    /\ \E from \in {"loaded", "recorded", "serving"}, to \in {"dying", "idle"} : Step(from, to)
    /\ UNCHANGED recordVars

---------------------------------------------------------------------------
(* The watchdog *)

Watch(from, to) ==
    /\ process \in Up
    /\ watchdog = from
    /\ watchdog' = to
    /\ UNCHANGED <<limitVars, process, pid, moved, serveVars, active, peak, ready>>

SeesOldExcess ==
    /\ sample > limit
    /\ Watch("watching", "exceeded")
    /\ UNCHANGED <<sample, memory>>

\* check_memory gives a reason to stop.
SeesExcess ==
    /\ active > limit
    /\ Watch("watching", "exceeded")
    /\ UNCHANGED <<sample, memory>>

\* The reading fails: without one there is no guard.
SeesNothing ==
    /\ Watch("watching", "exceeded")
    /\ UNCHANGED <<sample, memory>>

\* A reading within the limit, and the time for a sample.
TakesSample ==
    /\ active <= limit
    /\ Watch("watching", "sampling")
    /\ sample' = active
    /\ UNCHANGED memory

\* The reading is gone when on_sample is.
Sampled == Watch("sampling", "watching") /\ sample' = 0

\* record_memory(active): the peak is read now, after the reading.
RecordsSample == Sampled /\ memory' = [pid |-> pid, active |-> sample, peak |-> peak]

SampleEndsWatch == Watch("sampling", "off") /\ sample' = 0 /\ UNCHANGED memory

\* on_sample raises: "the guard itself keeps running".
SampleFails == Sampled /\ UNCHANGED memory

---------------------------------------------------------------------------
(* The end of the process *)

\* os._exit, a signal or a crash: all of its memory is free at once.
Gone ==
    /\ process' = "down"
    /\ active' = 0 /\ peak' = 0 /\ sample' = 0
    /\ watchdog' = "off"
    /\ ServeOver
    /\ UNCHANGED <<pid, recordVars>>

\* _memory_exceeded
WatchdogExits == watchdog = "exceeded" /\ Gone /\ UNCHANGED limitVars

\* After GENERATION_DIED_GRACE.
GenerationExits == process = "dying" /\ Gone /\ UNCHANGED limitVars

\* A bad tool parser, a model that does not load, an exception in server.main(),
\* SIGTERM or a crash.
BackendEnds == process \in {"starting"} \cup Up /\ Gone /\ UNCHANGED limitVars

\* The sysctl, the commands and all processes start over; files stay.
Reboot == LimitForgotten /\ Gone

---------------------------------------------------------------------------

\* What others do to the sysctl, as the serve command and the backend see it.
LimitChanges ==
    /\ moved' = (process # "down" /\ (moved \/ wired' # wired))
    /\ UNCHANGED <<process, pid, serveVars, usageVars, recordVars>>

CommandSteps == \E c \in Commands : CommandStep(c) /\ LimitChanges
OthersWrite == OtherWrites /\ LimitChanges

Preflight ==
    \/ \E p \in Profiles, sysctl \in Reading(wired) : PreflightReads(p, sysctl)
    \/ \E metal \in Reading(InForce), physical \in Reading(Memory) :
           PreflightPasses(metal, physical)

WatchdogStep == SeesExcess \/ RecordsSample \/ SampleFails \/ WatchdogExits

Next ==
    \/ CommandSteps \/ OthersWrite
    \/ Preflight \/ ServeEnds \/ Spawned \/ FilesCleared
    \/ ServerStarts \/ MemoryChanges \/ Loaded \/ RecordsMemory \/ SaysReady \/ GenerationDies
    \/ WatchdogStep \/ SeesNothing \/ TakesSample
    \/ GenerationExits \/ BackendEnds \/ Reboot

Spec == Init /\ [][Next]_vars

\* The operating system runs the watchdog.  Nobody has to load, sample, die or stop.
FairSpec == Spec /\ WF_vars(WatchdogStep)

---------------------------------------------------------------------------
(* What the guard promises *)

\* A command that reports success, that it has set its value or that there was nothing to
\* do, has read that value, and it is in force until somebody writes the sysctl after that
\* reading: no overlapping apply, revert or other writer makes it take another value for its
\* own.  A write between the reading (gpulimit.py:174, 183, 216) and the report (193-195,
\* 217-219) makes the report wrong; the code does not read again.
SuccessInForce ==
    \A c \in Commands : stage[c] = "done" /\ c \notin disturbed => wired = value[c]

\* Whatever the command read, and however often it was overtaken, gpu-limit leaves
\* HEADROOM_MB to the system (gpulimit.py:5-6).
HeadroomKept ==
    [][wired' # wired /\ (\E c \in Commands : SudoSets(c)) =>
          wired' = SYSTEM_DEFAULT \/ (wired' + HEADROOM_MB) * MIB <= Memory]_vars

\* The watchdog's limit is below what the GPU may wire, so it can end the process
\* before Metal refuses (config.py:287-294, serve.py:38-45): unless serve was forced, or
\* somebody changed the sysctl or the profile's limit after preflight had read it.
WatchdogFirst ==
    process \in {"checked", "starting"} \cup Up /\ ~forced /\ ~moved => limit < InForce

\* From its first allocation on the backend is watched: a sample that cannot be
\* recorded does not end the guard (launch.py:203-207).
Watched == process \in Up => watchdog # "off"

\* What alab status shows of a backend that says it is ready: a memory record of this
\* very process, whose peak is at least its use, whichever thread wrote it last.
RecordsAgree ==
    /\ ready # 0 => ready = pid /\ memory.pid = pid
    /\ memory.active <= memory.peak

\* Above its limit the backend does not stay: it frees memory or it exits, whatever
\* the other thread does and in whichever way it ends (launch.py:14-18).
ExcessEnds == active > limit /\ process \in Up ~> active <= limit \/ process = "down"

===========================================================================
