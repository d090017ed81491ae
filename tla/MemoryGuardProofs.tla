------------------------- MODULE MemoryGuardProofs -------------------------
(***************************************************************************)
(* What MemoryGuard promises, for any commands, profiles, machine and      *)
(* amounts of memory; and that the watchdog, once MLX is above its limit,  *)
(* only comes nearer the exit.                                             *)
(***************************************************************************)
EXTENDS MemoryGuard, TLAPS

\* Every variable of the machine, the commands and the backend keeps its type.
THEOREM Typing == Spec => []TypeOK
<1>1. Init => TypeOK
  <2> SUFFICES ASSUME Init PROVE TypeOK
    OBVIOUS
  <2>1. LimitTypeOK
    BY DEF Init, LimitInit, LimitTypeOK, SYSTEM_DEFAULT, Unknown
  <2>2. memory \in [pid : Nat, active : Levels, peak : Levels]
    BY LevelsAssumption DEF Init, NoRecord
  <2>3. active \in Levels /\ peak \in Levels /\ sample \in Levels
    BY LevelsAssumption DEF Init
  <2> QED BY <2>1, <2>2, <2>3 DEF Init, TypeOK
<1>2. TypeOK /\ [Next]_vars => TypeOK'
  <2> SUFFICES ASSUME TypeOK, [Next]_vars PROVE TypeOK'
    OBVIOUS
  <2> USE DEF TypeOK, LimitTypeOK, Up, serveVars, usageVars, recordVars, limitVars
  <2>1. CASE CommandSteps
    <3>1. PICK c \in Commands : CommandStep(c) /\ LimitChanges
      BY <2>1 DEF CommandSteps
    <3>2. CASE ApplyReads(c)
      <4>1. \A p \in Profiles : p.wired \in Nat
        BY ProfilesAssumption
      <4>2. LimitTypeOK'
        BY <3>1, <3>2, <4>1 DEF ApplyReads, Reads, Reading, Unknown
      <4> QED BY <3>1, <4>2 DEF LimitChanges
    <3>3. CASE SudoSets(c)
      BY <3>1, <3>3 DEF SudoSets, Write, LimitChanges
    <3>4. ASSUME NEW what \in {"failed", "done", "asking", "setting", "set"}, Report(c, what)
          PROVE  LimitTypeOK'
      BY <3>4 DEF Report, Unknown
    <3>5. CASE \/ Confirmed(c) \/ Declined(c) \/ SudoWithoutEffect(c) \/ SudoFails(c)
               \/ Decides(c) \/ Verify(c) \/ Interrupted(c)
      <4>1. \E what \in {"failed", "done", "asking", "setting", "set"} : Report(c, what)
        BY <3>5 DEF Confirmed, Declined, SudoWithoutEffect, SudoFails, Decides, Verify, Interrupted
      <4> QED BY <3>1, <3>4, <4>1 DEF LimitChanges
    <3>6. CASE RevertReads(c) \/ ReadsAgain(c)
      BY <3>1, <3>6 DEF RevertReads, ReadsAgain, Reads, Reading, Unknown, LimitChanges
    <3> QED BY <3>1, <3>2, <3>3, <3>5, <3>6 DEF CommandStep, Begins
  <2>2. CASE OthersWrite
    BY <2>2, MachineAssumption DEF OthersWrite, OtherWrites, Write, LimitChanges
  <2>3. CASE \E p \in Profiles, sysctl \in Reading(wired) : PreflightReads(p, sysctl)
    BY <2>3, ProfilesAssumption DEF PreflightReads, Reading, Unknown
  <2>4. CASE \E metal \in Reading(InForce), physical \in Reading(Memory) :
               PreflightPasses(metal, physical)
    BY <2>4 DEF PreflightPasses, PreflightOver, LimitSuffices, Unknown
  <2>5. CASE ServeEnds \/ Spawned \/ FilesCleared
    <3>1. CASE ServeEnds
      BY <3>1 DEF ServeEnds, ServeOver, PreflightOver, Unknown
    <3>2. CASE Spawned \/ FilesCleared
      BY <3>2, LevelsAssumption DEF Spawned, FilesCleared, NoRecord
    <3> QED BY <2>5, <3>1, <3>2
  <2>6. CASE ServerStarts \/ MemoryChanges
    <3>1. \A p \in Profiles : p.metal \in Nat
      BY ProfilesAssumption
    <3> QED BY <2>6, <3>1 DEF ServerStarts, MemoryChanges
  <2>7. CASE Loaded \/ RecordsMemory \/ SaysReady \/ GenerationDies
    BY <2>7 DEF Loaded, RecordsMemory, SaysReady, GenerationDies, Step
  <2>8. CASE SeesExcess \/ RecordsSample \/ SampleFails \/ SeesNothing \/ TakesSample
    BY <2>8, LevelsAssumption
    DEF SeesExcess, RecordsSample, SampleFails, Sampled, SeesNothing, TakesSample, Watch
  <2>9. CASE WatchdogExits \/ GenerationExits \/ BackendEnds
    BY <2>9, LevelsAssumption DEF WatchdogExits, GenerationExits, BackendEnds, Gone,
       ServeOver, PreflightOver, Unknown
  <2>10. CASE Reboot
    BY <2>10, LevelsAssumption DEF Reboot, LimitForgotten, Write, Over, Gone, ServeOver,
       PreflightOver, Unknown, SYSTEM_DEFAULT
  <2>11. CASE UNCHANGED vars
    BY <2>11 DEF vars
  <2> QED BY <2>1, <2>2, <2>3, <2>4, <2>5, <2>6, <2>7, <2>8, <2>9, <2>10, <2>11
          DEF Next, Preflight, WatchdogStep
<1> QED BY <1>1, <1>2, PTL DEF Spec

---------------------------------------------------------------------------
(* gpu-limit *)

\* What a command is to set: revert the default, apply nothing above the ceiling.
ValuesRight ==
    \A c \in Commands :
        /\ c \in Reverting => value[c] = SYSTEM_DEFAULT
        /\ c \in Applying /\ stage[c] \in {"asking", "setting"} => value[c] <= Ceiling(Memory)

\* What a command has read and not yet compared, and nobody has written since, is there.
ReadingsRight ==
    \A c \in Commands :
        stage[c] \in {"reading", "verifying"} /\ c \notin disturbed => read[c] \in {wired, Unknown}

CommandInv == ValuesRight /\ ReadingsRight /\ SuccessInForce

LEMMA CommandInvInit == Init => CommandInv
  BY DEF Init, LimitInit, CommandInv, ValuesRight, ReadingsRight, SuccessInForce, SYSTEM_DEFAULT

LEMMA CommandInvNext == TypeOK /\ CommandInv /\ [Next]_vars => CommandInv'
<1> SUFFICES ASSUME TypeOK, CommandInv, [Next]_vars PROVE CommandInv'
  OBVIOUS
<1> USE DEF CommandInv
<1>0. /\ stage \in [Commands -> {"idle", "reading", "asking", "setting", "set", "verifying",
                             "done", "failed"}]
      /\ value \in [Commands -> Nat] /\ read \in [Commands -> Nat \cup {Unknown}]
      /\ wired \in Nat
  BY DEF TypeOK, LimitTypeOK
<1>1. CASE CommandSteps
  <2>1. PICK c \in Commands : CommandStep(c) /\ LimitChanges
    BY <1>1 DEF CommandSteps
  <2>2. ASSUME NEW from, NEW to \in {"reading", "verifying"}, Reads(c, from, to),
               UNCHANGED value \/ (c \in Applying /\ \A d \in Commands \ {c} : value'[d] = value[d])
        PROVE  CommandInv'
    <3>1. /\ stage'[c] \in {"reading", "verifying"} /\ read'[c] \in {wired, Unknown}
          /\ wired' = wired
      BY <1>0, <2>2 DEF Reads, Reading
    <3>2. c \in Reverting => value'[c] = SYSTEM_DEFAULT
      BY <2>2, CommandsAssumption DEF ValuesRight
    <3>3. ASSUME NEW d \in Commands, d # c
          PROVE  /\ stage'[d] = stage[d] /\ read'[d] = read[d] /\ value'[d] = value[d]
                 /\ d \notin disturbed' => d \notin disturbed
      BY <1>0, <2>2, <3>3 DEF Reads
    <3>4. ValuesRight'
      BY <3>1, <3>2, <3>3 DEF ValuesRight
    <3>5. ReadingsRight'
      BY <3>1, <3>3 DEF ReadingsRight
    <3>6. SuccessInForce'
      BY <3>1, <3>3 DEF SuccessInForce
    <3> QED BY <3>4, <3>5, <3>6
  <2>3. CASE ApplyReads(c) \/ RevertReads(c) \/ ReadsAgain(c)
    <3>1. \E from, to :
             /\ to \in {"reading", "verifying"} /\ Reads(c, from, to)
             /\ \/ UNCHANGED value
                \/ c \in Applying /\ \A d \in Commands \ {c} : value'[d] = value[d]
      BY <1>0, <2>3 DEF ApplyReads, RevertReads, ReadsAgain
    <3> QED BY <2>2, <3>1
  <2>4. ASSUME NEW what \in {"failed", "done", "asking", "setting", "set"}, Report(c, what),
               c \in Applying /\ what \in {"asking", "setting"} => value[c] <= Ceiling(Memory),
               what = "done" /\ c \notin disturbed => wired = value[c]
        PROVE  CommandInv'
    <3>1. stage'[c] = what /\ UNCHANGED <<wired, value>>
      BY <1>0, <2>4 DEF Report
    <3>2. \A d \in Commands \ {c} : /\ stage'[d] = stage[d] /\ read'[d] = read[d]
                                    /\ d \in disturbed' <=> d \in disturbed
      BY <1>0, <2>4 DEF Report
    <3>3. what = "done" => disturbed' = disturbed
      BY <2>4 DEF Report
    <3>4. ValuesRight'
      BY <2>4, <3>1, <3>2 DEF ValuesRight
    <3>5. ReadingsRight' /\ SuccessInForce'
      BY <2>4, <3>1, <3>2, <3>3 DEF ReadingsRight, SuccessInForce
    <3> QED BY <3>4, <3>5
  <2>5. stage[c] \in {"reading", "verifying"} /\ c \notin disturbed /\ read[c] = value[c] =>
            wired = value[c]
    BY <1>0 DEF ReadingsRight, Unknown
  <2>6. CASE Decides(c)
    <3>1. PICK physical \in Reading(Memory) :
               LET refused == c \in Applying /\ (physical = Unknown \/ value[c] > Ceiling(physical))
               IN  Report(c, IF refused THEN "failed"
                             ELSE IF read[c] = value[c] THEN "done" ELSE "asking")
      BY <2>6 DEF Decides
    <3>2. PICK what \in {"failed", "done", "asking"} :
               /\ Report(c, what)
               /\ c \in Applying /\ what # "failed" => physical # Unknown /\ ~(value[c] > Ceiling(physical))
               /\ what = "done" => read[c] = value[c]
      BY <3>1
    <3>3. c \in Applying /\ what = "asking" => value[c] <= Ceiling(Memory)
      <4>1. Ceiling(Memory) \in Int
        BY MachineAssumption DEF Ceiling
      <4> QED BY <1>0, <3>2, <4>1 DEF Reading
    <3>4. what = "done" /\ c \notin disturbed => wired = value[c]
      BY <2>5, <2>6, <3>2 DEF Decides
    <3> QED BY <2>4, <3>2, <3>3, <3>4
  <2>7. CASE Verify(c)
    <3>1. PICK what \in {"failed", "done"} : Report(c, what) /\ (what = "done" => read[c] = value[c])
      BY <2>7 DEF Verify
    <3>2. what = "done" /\ c \notin disturbed => wired = value[c]
      BY <2>5, <2>7, <3>1 DEF Verify
    <3> QED BY <2>4, <3>1, <3>2
  <2>8. CASE Confirmed(c)
    <3>1. Report(c, "setting") /\ stage[c] = "asking"
      BY <2>8 DEF Confirmed
    <3>2. c \in Applying => value[c] <= Ceiling(Memory)
      BY <3>1 DEF ValuesRight
    <3> QED BY <2>4, <3>1, <3>2
  <2>9. CASE Declined(c) \/ SudoWithoutEffect(c) \/ SudoFails(c) \/ Interrupted(c)
    <3>1. PICK what \in {"failed", "set"} : Report(c, what)
      BY <2>9 DEF Declined, SudoWithoutEffect, SudoFails, Interrupted
    <3> QED BY <2>4, <3>1
  <2>10. CASE SudoSets(c)
    <3>1. /\ stage' = [stage EXCEPT ![c] = "set"] /\ UNCHANGED value
          /\ disturbed' = {d \in Commands : stage[d] \in {"reading", "verifying", "done"}}
      BY <2>10 DEF SudoSets, Write
    <3>2. ValuesRight'
      BY <1>0, <3>1 DEF ValuesRight
    <3>3. ReadingsRight' /\ SuccessInForce'
      BY <1>0, <3>1 DEF ReadingsRight, SuccessInForce
    <3> QED BY <3>2, <3>3
  <2> QED BY <2>1, <2>3, <2>6, <2>7, <2>8, <2>9, <2>10 DEF CommandStep, Begins
<1>2. CASE OthersWrite
  BY <1>2 DEF OthersWrite, OtherWrites, Write, ValuesRight, ReadingsRight, SuccessInForce
<1>3. CASE Reboot
  BY <1>0, <1>3 DEF Reboot, LimitForgotten, Write, Over, ValuesRight, ReadingsRight, SuccessInForce
<1>4. CASE UNCHANGED limitVars
  BY <1>4 DEF limitVars, ValuesRight, ReadingsRight, SuccessInForce
<1> QED BY <1>1, <1>2, <1>3, <1>4
        DEF Next, Preflight, WatchdogStep, PreflightReads, PreflightPasses, ServeEnds, Spawned,
        FilesCleared, ServerStarts, MemoryChanges, Loaded, RecordsMemory, SaysReady,
        GenerationDies, Step, SeesExcess, RecordsSample, SampleFails, Sampled, SeesNothing,
        TakesSample, Watch, WatchdogExits, GenerationExits, BackendEnds, vars

LEMMA Commanding == Spec => []CommandInv
<1>1. Spec => []TypeOK
  BY Typing
<1> QED BY <1>1, CommandInvInit, CommandInvNext, PTL DEF Spec

\* A gpu-limit command that reports success has read its value, which is in force until
\* somebody writes after that reading, whichever commands and programs wrote before it and
\* however long it took to report.
THEOREM SuccessIsInForce == Spec => []SuccessInForce
<1>1. CommandInv => SuccessInForce
  BY DEF CommandInv
<1> QED BY <1>1, Commanding, PTL

\* No gpu-limit command takes the headroom that is left to the system.
THEOREM HeadroomIsKept == Spec => HeadroomKept
<1>1. TypeOK /\ CommandInv /\ [Next]_vars =>
        [wired' # wired /\ (\E c \in Commands : SudoSets(c)) =>
          wired' = SYSTEM_DEFAULT \/ (wired' + HEADROOM_MB) * MIB <= Memory]_vars
  <2> SUFFICES ASSUME TypeOK, CommandInv, NEW c \in Commands, SudoSets(c)
               PROVE  wired' = SYSTEM_DEFAULT \/ (wired' + HEADROOM_MB) * MIB <= Memory
    OBVIOUS
  <2>1. wired' = value[c] /\ value[c] \in Nat /\ stage[c] = "setting"
    BY DEF SudoSets, Write, TypeOK, LimitTypeOK
  <2>2. CASE c \in Reverting
    BY <2>1, <2>2 DEF CommandInv, ValuesRight
  <2>3. CASE c \in Applying
    <3>1. value[c] <= Memory \div MIB - HEADROOM_MB
      BY <2>1, <2>3 DEF CommandInv, ValuesRight, Ceiling
    <3>2. /\ Memory \div MIB \in Nat /\ (Memory \div MIB) * MIB <= Memory
          /\ MIB \in Nat \ {0} /\ HEADROOM_MB \in Nat /\ Memory \in Nat
      BY MachineAssumption, Z3
    <3>3. value[c] + HEADROOM_MB <= Memory \div MIB
      BY <2>1, <3>1, <3>2
    <3>4. \A x, y, z \in Nat : x <= y => x * z <= y * z
      BY Z3
    <3>5. (value[c] + HEADROOM_MB) * MIB <= (Memory \div MIB) * MIB
      BY <2>1, <3>2, <3>3, <3>4
    <3>6. (value[c] + HEADROOM_MB) * MIB \in Int /\ (Memory \div MIB) * MIB \in Int
      BY <2>1, <3>2
    <3> QED BY <2>1, <3>2, <3>5, <3>6
  <2> QED BY <2>2, <2>3 DEF Commands
<1> QED BY <1>1, Typing, Commanding, PTL DEF Spec, HeadroomKept

---------------------------------------------------------------------------
(* The backend *)

\* What the locals of preflight say of the limit, and what is left of it later.
LimitKnown ==
    /\ process = "checking" => limit < needed * MIB /\ needed > 0
    /\ process = "checking" /\ ~moved => seen \in {wired, Unknown}
    /\ WatchdogFirst

\* A limit that suffices is above the watchdog's, whatever the rounding.
LEMMA SufficientLimit ==
    ASSUME NEW mb \in Nat \ {0}, NEW metal \in Nat, metal < mb * MIB, wired \in Nat,
           NEW sysctl \in {wired, Unknown}, NEW recommends \in {InForce, Unknown},
           NEW physical, LimitSuffices(mb, sysctl, recommends, physical)
    PROVE  metal < InForce
<1>1. sysctl = wired
  BY DEF LimitSuffices, Effective, Unknown, SYSTEM_DEFAULT
<1>2. MIB \in Nat \ {0} /\ Recommended \in Nat /\ mb * MIB \in Nat
  BY MachineAssumption
<1>3. CASE wired # SYSTEM_DEFAULT
  <2>1. wired >= mb
    BY <1>1, <1>3 DEF LimitSuffices, Effective, Unknown
  <2>2. \A x, y, z \in Nat : x <= y => x * z <= y * z
    BY Z3
  <2>3. mb * MIB <= wired * MIB /\ wired * MIB \in Nat
    BY <1>2, <2>1, <2>2
  <2> QED BY <1>2, <1>3, <2>3 DEF InForce
<1>4. CASE wired = SYSTEM_DEFAULT
  <2>1. InForce = Recommended /\ recommends = Recommended
    BY <1>1, <1>2, <1>4 DEF LimitSuffices, Effective, InForce, Unknown, SYSTEM_DEFAULT
  <2>2. Recommended \div MIB >= mb
    BY <1>1, <1>2, <1>4, <2>1 DEF LimitSuffices, Effective, Unknown, SYSTEM_DEFAULT
  <2>3. Recommended \div MIB \in Nat /\ (Recommended \div MIB) * MIB <= Recommended
    BY <1>2, Z3
  <2>4. \A x, y, z \in Nat : x <= y => x * z <= y * z
    BY Z3
  <2>5. mb * MIB <= (Recommended \div MIB) * MIB /\ (Recommended \div MIB) * MIB \in Nat
    BY <1>2, <2>2, <2>3, <2>4
  <2> QED BY <1>2, <2>1, <2>3, <2>5
<1> QED BY <1>3, <1>4

\* Unless serve was forced or the limit has changed since, the watchdog's limit is
\* below what the GPU may wire, for every machine, profile and rounding.
THEOREM WatchdogComesFirst == Spec => []WatchdogFirst
<1>1. Init => LimitKnown
  BY DEF Init, LimitKnown, WatchdogFirst, Up
<1>2. TypeOK /\ LimitKnown /\ [Next]_vars => LimitKnown'
  <2> SUFFICES ASSUME TypeOK, LimitKnown, [Next]_vars PROVE LimitKnown'
    OBVIOUS
  <2> USE DEF LimitKnown, WatchdogFirst, Up
  <2>1. CASE CommandSteps \/ OthersWrite
    <3>1. LimitChanges
      BY <2>1 DEF CommandSteps, OthersWrite
    <3>2. process # "down" /\ ~moved' => ~moved /\ wired' = wired
      BY <3>1 DEF LimitChanges, TypeOK
    <3>3. UNCHANGED <<process, seen, forced, needed, limit>>
      BY <3>1 DEF LimitChanges, serveVars
    <3>4. process # "down" /\ ~moved' => InForce' = InForce
      BY <3>2 DEF InForce
    <3> QED BY <3>2, <3>3, <3>4
  <2>2. CASE \E p \in Profiles, sysctl \in Reading(wired) : PreflightReads(p, sysctl)
    <3>1. PICK p \in Profiles, sysctl \in Reading(wired) : PreflightReads(p, sysctl)
      BY <2>2
    <3>2. process' = "checking" /\ limit' = p.metal /\ needed' = p.wired
            /\ seen' = sysctl /\ wired' = wired /\ Valid(p)
      BY <3>1 DEF PreflightReads, limitVars
    <3> QED BY <3>2, ProfilesAssumption DEF Valid, Reading
  <2>3. CASE \E metal \in Reading(InForce), physical \in Reading(Memory) :
               PreflightPasses(metal, physical)
    <3>1. PICK metal \in Reading(InForce), physical \in Reading(Memory) :
               PreflightPasses(metal, physical)
      BY <2>3
    <3>2. /\ process = "checking" /\ process' = "checked"
          /\ forced' = ~LimitSuffices(needed, seen, metal, physical)
          /\ moved' = moved /\ limit' = limit /\ wired' = wired
      BY <3>1 DEF PreflightPasses, limitVars
    <3>3. ASSUME ~forced', ~moved' PROVE limit < InForce
      <4>1. LimitSuffices(needed, seen, metal, physical) /\ seen \in {wired, Unknown}
        BY <3>2, <3>3
      <4>2. needed \in Nat \ {0} /\ limit \in Nat /\ limit < needed * MIB /\ wired \in Nat
        BY <3>2 DEF TypeOK, LimitTypeOK
      <4> QED BY <3>1, <4>1, <4>2, SufficientLimit DEF Reading
    <3> QED BY <3>2, <3>3 DEF InForce
  <2>4. CASE ServeEnds \/ FilesCleared \/ WatchdogExits \/ GenerationExits \/ BackendEnds \/ Reboot
    <3>1. process' = "down"
      BY <2>4 DEF ServeEnds, FilesCleared, WatchdogExits, GenerationExits, BackendEnds, Reboot, Gone
    <3> QED BY <3>1
  <2>5. CASE ServerStarts
    <3>1. /\ process = "starting" /\ process' = "loading" /\ wired' = wired /\ forced' = forced
          /\ moved' = (moved \/ limit' # limit)
      BY <2>5 DEF ServerStarts, limitVars
    <3>2. ~moved' => ~moved /\ limit' = limit
      BY <3>1 DEF TypeOK
    <3> QED BY <3>1, <3>2 DEF InForce
  <2>6. CASE \/ Spawned \/ MemoryChanges
             \/ Loaded \/ RecordsMemory \/ SaysReady \/ GenerationDies
             \/ SeesExcess \/ RecordsSample \/ SampleFails \/ SeesNothing \/ TakesSample
    <3>1. /\ UNCHANGED <<wired, moved, forced, limit>>
          /\ process \in {"checked", "starting"} \cup Up
          /\ process' \in {"starting"} \cup Up
      BY <2>6 DEF Spawned, MemoryChanges, Loaded, RecordsMemory, SaysReady,
         GenerationDies, Step, SeesExcess, RecordsSample, SampleFails, Sampled, SeesNothing,
         TakesSample, Watch, limitVars, serveVars
    <3> QED BY <3>1 DEF InForce
  <2>7. CASE UNCHANGED vars
    BY <2>7 DEF vars, limitVars, serveVars, InForce
  <2> QED BY <2>1, <2>2, <2>3, <2>4, <2>5, <2>6, <2>7 DEF Next, Preflight, WatchdogStep
<1>3. LimitKnown => WatchdogFirst
  BY DEF LimitKnown
<1> QED BY <1>1, <1>2, <1>3, Typing, PTL DEF Spec

\* Samples that fail, and whatever the other thread does, never leave a backend that
\* loads or serves without its watchdog.
THEOREM AlwaysWatched == Spec => []Watched
<1>1. Init => Watched
  BY DEF Init, Watched, Up
<1>2. Watched /\ [Next]_vars => Watched'
  BY DEF Watched, Up, Next, CommandSteps, OthersWrite, LimitChanges, Preflight, PreflightReads,
     PreflightPasses, ServeEnds, Spawned, FilesCleared, ServerStarts, MemoryChanges, Loaded,
     RecordsMemory, SaysReady, GenerationDies, Step, WatchdogStep, SeesExcess, RecordsSample,
     SampleFails, Sampled, SeesNothing, TakesSample, Watch, WatchdogExits, GenerationExits, BackendEnds,
     Reboot, Gone, usageVars, vars
<1> QED BY <1>1, <1>2, PTL DEF Spec

\* What the two threads know when they write: readings are no more than the peak, and
\* the memory record is this process's before it says that it is ready.
RecordInv ==
    /\ active <= peak /\ sample <= peak
    /\ process \in {"recorded", "serving"} => memory.pid = pid
    /\ RecordsAgree

\* The records that alab status reads agree with each other and with the process,
\* whichever thread wrote last.
THEOREM RecordsAlwaysAgree == Spec => []RecordsAgree
<1>1. Init => RecordInv
  BY DEF Init, RecordInv, RecordsAgree, NoRecord
<1>2. TypeOK /\ RecordInv /\ [Next]_vars => RecordInv'
  <2> SUFFICES ASSUME TypeOK, RecordInv, [Next]_vars PROVE RecordInv'
    OBVIOUS
  <2> USE DEF RecordInv, RecordsAgree
  <2>1. active \in Nat /\ peak \in Nat /\ sample \in Nat /\ Levels \subseteq Nat /\ pid \in Nat
    BY LevelsAssumption DEF TypeOK
  <2>2. CASE CommandSteps \/ OthersWrite \/ UNCHANGED vars
    BY <2>2 DEF CommandSteps, OthersWrite, LimitChanges, usageVars, recordVars, vars
  <2>3. CASE Preflight \/ ServeEnds
    BY <2>3 DEF Preflight, PreflightReads, PreflightPasses, ServeEnds, usageVars, recordVars
  <2>4. CASE Spawned \/ FilesCleared
    BY <2>4 DEF Spawned, FilesCleared, NoRecord, usageVars
  <2>5. CASE ServerStarts \/ Loaded \/ RecordsMemory \/ SaysReady \/ GenerationDies
    BY <2>5 DEF ServerStarts, Loaded, RecordsMemory, SaysReady, GenerationDies, Step, usageVars,
       recordVars
  <2>6. CASE MemoryChanges
    BY <2>1, <2>6 DEF MemoryChanges, recordVars
  <2>7. CASE SeesExcess \/ SeesNothing \/ TakesSample \/ SampleFails
    BY <2>1, <2>7 DEF SeesExcess, SeesNothing, TakesSample, SampleFails, Sampled, Watch
  <2>8. CASE RecordsSample
    BY <2>1, <2>8 DEF RecordsSample, Sampled, Watch
  <2>9. CASE WatchdogExits \/ GenerationExits \/ BackendEnds \/ Reboot
    BY <2>9 DEF WatchdogExits, GenerationExits, BackendEnds, Reboot, Gone, recordVars
  <2> QED BY <2>2, <2>3, <2>4, <2>5, <2>6, <2>7, <2>8, <2>9 DEF Next, WatchdogStep
<1>3. RecordInv => RecordsAgree
  BY DEF RecordInv
<1> QED BY <1>1, <1>2, <1>3, Typing, PTL DEF Spec

---------------------------------------------------------------------------
(* The watchdog's way out *)

Excess == active > limit /\ process \in Up

\* The steps that the watchdog has before it until it ends the process.
ToExit ==
    CASE watchdog = "sampling" -> 3
      [] watchdog = "watching" -> 2
      [] watchdog = "exceeded" -> 1
      [] watchdog = "off" -> 0

\* While MLX stays above the limit, each step of the watchdog brings the exit nearer, and
\* nothing that commands, the other thread or a failing sample do puts it off.
ExitComesNearer ==
    [][Excess /\ Excess' =>
          /\ ToExit' \in 1 .. ToExit
          /\ WatchdogStep => ToExit' < ToExit]_vars

\* The limit of a backend that is up is its own, and what others do leaves the watchdog alone.
LEMMA WatchdogAlone ==
    ASSUME \/ CommandSteps \/ OthersWrite \/ MemoryChanges \/ Loaded \/ RecordsMemory
           \/ SaysReady \/ GenerationDies \/ UNCHANGED vars \/ FilesCleared
    PROVE  watchdog' = watchdog
BY DEF CommandSteps, OthersWrite, LimitChanges, MemoryChanges, Loaded, RecordsMemory, SaysReady,
       GenerationDies, Step, FilesCleared, usageVars, vars

\* A backend above its limit is at most three steps of its watchdog from the exit, however
\* long it goes on allocating (launch.py:14-18, 188-217): what ExcessEnds needs beside
\* fairness.
THEOREM ExcessIsCutShort == Spec => ExitComesNearer
<1>1. ASSUME TypeOK, Watched, [Next]_vars, Excess, Excess'
      PROVE  ToExit' \in 1 .. ToExit /\ (WatchdogStep => ToExit' < ToExit)
  <2>1. watchdog \in {"watching", "sampling", "exceeded"} /\ active \in Nat /\ limit \in Nat
    BY <1>1, LevelsAssumption DEF TypeOK, Watched, Excess
  <2>2. ASSUME Gone PROVE FALSE
    BY <1>1, <2>2 DEF Gone, Excess, Up
  <2>3. CASE WatchdogStep
    <3>1. \/ watchdog = "watching" /\ watchdog' = "exceeded"
          \/ watchdog = "sampling" /\ watchdog' = "watching"
      BY <2>2, <2>3 DEF WatchdogStep, SeesExcess, RecordsSample, SampleFails, Sampled, WatchdogExits, Watch
    <3> QED
      BY <3>1 DEF ToExit
  <2>4. CASE SeesNothing
    <3>1. watchdog = "watching" /\ watchdog' = "exceeded"
      BY <2>4 DEF SeesNothing, Watch
    <3> QED
      BY <3>1, <2>3 DEF ToExit
  <2>5. CASE watchdog' = watchdog
    <3>1. ToExit' = ToExit /\ ToExit \in 1 .. 3
      BY <2>1, <2>5 DEF ToExit
    <3> QED
      BY <2>3, <3>1
  <2>6. ~TakesSample
    BY <1>1, <2>1 DEF TakesSample, Excess
  <2>7. ~Preflight /\ ~ServeEnds /\ ~Spawned /\ ~ServerStarts
    BY <1>1 DEF Preflight, PreflightReads, PreflightPasses, ServeEnds, Spawned, ServerStarts,
       Excess, Up
  <2>8. ~GenerationExits /\ ~BackendEnds /\ ~Reboot
    BY <2>2 DEF GenerationExits, BackendEnds, Reboot
  <2> QED
    BY <1>1, <2>3, <2>4, <2>5, <2>6, <2>7, <2>8, WatchdogAlone DEF Next
<1>2. TypeOK /\ Watched /\ [Next]_vars =>
          [Excess /\ Excess' =>
              /\ ToExit' \in 1 .. ToExit
              /\ WatchdogStep => ToExit' < ToExit]_vars
  BY <1>1
<1> QED
  BY <1>2, Typing, AlwaysWatched, PTL DEF Spec, ExitComesNearer

===========================================================================
