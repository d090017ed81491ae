--------------------------- MODULE MCMemoryGuard ---------------------------
(***************************************************************************)
(* A small instance of MemoryGuard for TLC: 2 bytes to the MB, 13 bytes of *)
(* memory, 1 MB of headroom.  The default of 5 bytes is just enough for    *)
(* the first profile; the limits of the second are too close, and the      *)
(* third asks for all of the memory.                                       *)
(***************************************************************************)
EXTENDS MemoryGuard

MCProfiles == {[metal |-> 3, wired |-> 2], [metal |-> 4, wired |-> 2], [metal |-> 4, wired |-> 6]}

UnderWay(c) == stage[c] # "idle" /\ ~Over(c)

\* gpu-limit commands run beside serve's preflight and each other, and end before a backend
\* starts its watchdog; beside a backend that is up only others write the sysctl, which it
\* cannot tell from a command.
QuietNext ==
    /\ Next
    /\ process = "starting" /\ process' = "loading" => \A c \in Commands : ~UnderWay(c)
    /\ process \in Up => \A c \in Commands : ~UnderWay(c)'

QuietSpec == Init /\ [][QuietNext]_vars /\ WF_vars(WatchdogStep)

===========================================================================
