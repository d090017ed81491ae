------------------------------ MODULE GpuLimit ------------------------------
(***************************************************************************)
(* alab gpu-limit (gpulimit.py) and whoever else changes the sysctl it     *)
(* changes: commands that read the limit, ask, run sudo and read again.    *)
(* Between a reading and what a command makes of it anybody may write.     *)
(* Sizes in bytes and in MB are counted apart, MIB bytes to the MB.        *)
(*                                                                         *)
(* VerifyTrusting, CeilingWithoutHeadroom and ValidUpToLimit are slips     *)
(* that no action uses: they stand in for the definition below them to     *)
(* show that a property would notice.                                      *)
(***************************************************************************)
EXTENDS Integers

CONSTANTS
    Applying,      \* the gpu-limit apply commands
    Reverting,     \* the gpu-limit revert commands
    Profiles,      \* [metal: metal_memory_limit in bytes, wired: gpu_wired_limit_mb]
    OtherLimits,   \* what other programs write to the sysctl, in MB
    MIB,           \* 1024**2
    Memory,        \* physical memory in bytes
    Recommended,   \* Metal's recommended working set in bytes, while the sysctl is 0
    HEADROOM_MB    \* 3 * 1024

Commands == Applying \cup Reverting

ASSUME CommandsAssumption == Applying \cap Reverting = {}
ASSUME ProfilesAssumption ==
    \A p \in Profiles : p = [metal |-> p.metal, wired |-> p.wired] /\ p.metal \in Nat \ {0}
                            /\ p.wired \in Nat \ {0}
ASSUME MachineAssumption ==
    /\ OtherLimits \subseteq Nat
    /\ MIB \in Nat \ {0} /\ HEADROOM_MB \in Nat
    /\ Memory \in Nat \ {0} /\ Recommended \in Nat \ {0}

SYSTEM_DEFAULT == 0
Unknown == -1      \* None: what cannot be read

VARIABLES
    wired,      \* iogpu.wired_limit_mb in the kernel
    stage,      \* of a command: "idle", "reading" (it has read the sysctl and looks at MLX
                \* and the memory), "asking", "setting" (sudo runs), "set" (sudo exited with
                \* 0), "verifying" (it has read again), "done" (it reports success) or "failed"
    value,      \* the value a command is to set
    read,       \* what a command has read and not yet decided upon
    disturbed   \* the commands that rely on a reading after which the sysctl was written

limitVars == <<wired, stage, value, read, disturbed>>

LimitTypeOK ==
    /\ wired \in Nat
    /\ stage \in [Commands -> {"idle", "reading", "asking", "setting", "set", "verifying",
                             "done", "failed"}]
    /\ value \in [Commands -> Nat]
    /\ read \in [Commands -> Nat \cup {Unknown}]
    /\ disturbed \subseteq Commands

LimitInit ==
    /\ wired = SYSTEM_DEFAULT
    /\ stage = [c \in Commands |-> "idle"]
    /\ value = [c \in Commands |-> SYSTEM_DEFAULT]
    /\ read = [c \in Commands |-> Unknown]
    /\ disturbed = {}

Over(c) == stage[c] \in {"done", "failed"}

ValidUpToLimit(p) == p.metal <= p.wired * MIB

\* parse_profile's rule: the watchdog's limit is below the wired limit.
Valid(p) == p.metal < p.wired * MIB

CeilingWithoutHeadroom(memory) == memory \div MIB

\* ceiling_mb
Ceiling(memory) == memory \div MIB - HEADROOM_MB

\* effective_mb(): the sysctl value, or Metal's recommendation while it is 0.
Effective(limit, metal) ==
    IF limit # Unknown /\ limit # SYSTEM_DEFAULT THEN limit
    ELSE IF limit = SYSTEM_DEFAULT /\ metal # Unknown THEN metal \div MIB
    ELSE Unknown

\* What the kernel lets the GPU wire now, in bytes: Metal recommends as much.
InForce == IF wired = SYSTEM_DEFAULT THEN Recommended ELSE wired * MIB

\* sysctl_int and read_metal_info: what there is, or None.
Reading(x) == {x, Unknown}

\* Somebody writes the sysctl: what a command has read before says no more what there is.
Write(limit) ==
    /\ wired' = limit
    /\ disturbed' = {c \in Commands : stage[c] \in {"reading", "verifying", "done"}}

---------------------------------------------------------------------------
(* apply, revert and _set *)

Report(c, what) ==
    /\ stage' = [stage EXCEPT ![c] = what]
    /\ read' = [read EXCEPT ![c] = Unknown]
    /\ disturbed' = IF what = "done" THEN disturbed ELSE disturbed \ {c}
    /\ UNCHANGED <<wired, value>>

Reads(c, from, to) ==
    /\ stage[c] = from
    /\ stage' = [stage EXCEPT ![c] = to]
    /\ \E limit \in Reading(wired) : read' = [read EXCEPT ![c] = limit]
    /\ disturbed' = disturbed \ {c}
    /\ UNCHANGED wired

\* The sysctl is the first of the readings of read_state(); revert has no other.
ApplyReads(c) ==
    /\ c \in Applying
    /\ Reads(c, "idle", "reading")
    /\ \E p \in Profiles : Valid(p) /\ value' = [value EXCEPT ![c] = p.wired]

RevertReads(c) ==
    /\ c \in Reverting
    /\ Reads(c, "idle", "reading")
    /\ UNCHANGED value

\* apply, which has asked MLX and for the physical memory meanwhile, refuses what is above
\* the ceiling; either command has nothing to do if the value it read is the right one.
Decides(c) ==
    /\ stage[c] = "reading"
    /\ \E memory \in Reading(Memory) :
           LET refused == c \in Applying /\ (memory = Unknown \/ value[c] > Ceiling(memory))
           IN  Report(c, IF refused THEN "failed"
                         ELSE IF read[c] = value[c] THEN "done" ELSE "asking")

Begins(c) == ApplyReads(c) \/ RevertReads(c)

\* At the terminal, or by --yes.
Confirmed(c) == stage[c] = "asking" /\ Report(c, "setting")
Declined(c) == stage[c] = "asking" /\ Report(c, "failed")

\* sudo sysctl exits with 0, having set the value or (as the code allows for) not.
SudoSets(c) ==
    /\ stage[c] = "setting"
    /\ stage' = [stage EXCEPT ![c] = "set"]
    /\ Write(value[c])
    /\ UNCHANGED <<value, read>>

SudoWithoutEffect(c) == stage[c] = "setting" /\ Report(c, "set")

\* No password, or the kernel refuses the value.
SudoFails(c) == stage[c] = "setting" /\ Report(c, "failed")

VerifyTrusting(c) == stage[c] = "set" /\ Report(c, "done")

ReadsAgain(c) == Reads(c, "set", "verifying") /\ UNCHANGED value

\* The value that was read again is compared: another one means failure.
Verify(c) == stage[c] = "verifying" /\ Report(c, IF read[c] = value[c] THEN "done" ELSE "failed")

\* Ctrl-C, before or after sudo has run.
Interrupted(c) ==
    /\ stage[c] \in {"reading", "asking", "setting", "set", "verifying"}
    /\ Report(c, "failed")

CommandStep(c) ==
    \/ Begins(c) \/ Decides(c) \/ Confirmed(c) \/ Declined(c)
    \/ SudoSets(c) \/ SudoWithoutEffect(c) \/ SudoFails(c)
    \/ ReadsAgain(c) \/ Verify(c) \/ Interrupted(c)

\* Somebody else with sudo rights.
OtherWrites ==
    /\ \E limit \in OtherLimits : Write(limit)
    /\ UNCHANGED <<stage, value, read>>

\* The kernel forgets the value, and the commands are gone.
LimitForgotten ==
    /\ Write(SYSTEM_DEFAULT)
    /\ stage' = [c \in Commands |-> IF Over(c) THEN stage[c] ELSE "failed"]
    /\ read' = [c \in Commands |-> Unknown]
    /\ UNCHANGED value

===========================================================================
