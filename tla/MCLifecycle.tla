---------------------------- MODULE MCLifecycle ----------------------------
(***************************************************************************)
(* Small instances of Lifecycle for TLC.                                   *)
(***************************************************************************)
EXTENDS Lifecycle, TLC

CONSTANTS a, b, later, p, q

OneProfile == [c \in Serves |-> p]
TwoProfiles == [c \in Serves |-> IF c = b THEN q ELSE p]

Ended(c) == at[c] \in {"done", "failed", "unstopped", "killed", "orphaned", "abandoned"}

Mishap(c) == at[c] \in {"aborting", "killed", "orphaned", "unstopped", "abandoned"}

\* A third serve command comes when the first two are over: it finds what they have
\* left.  Only one of those two meets with a mishap: it is killed, cannot save its record
\* (which counts until its process has been ended), or cannot end its process.
LaterNext ==
    /\ Next
    /\ Begin(later) => \A c \in Serves \ {later} : Ended(c)
    /\ \A c \in Serves :
          Killed(c) \/ SaveFails(c) \/ TerminateFails(c) =>
              c # later /\ \A d \in Serves \ {c} : ~Mishap(d)

LaterSpec == Init /\ [][LaterNext]_vars /\ Fairness

\* Every process ends on SIGKILL: what is left is how the commands interleave.
StoppableSpec == Init /\ [][Next /\ \A c \in Commands : ~TerminateFails(c)]_vars

===========================================================================
