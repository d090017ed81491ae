-------------------------------- MODULE Keys --------------------------------
(***************************************************************************)
(* API keys (gateway/keys.py): "alab keys create" and "revoke" change      *)
(* keys.toml under a lock, while the gateway checks the keys of requests   *)
(* against the copy it re-reads whenever the file's stamp has changed.     *)
(* A key is named for the create command that made it.                     *)
(*                                                                         *)
(* BeginUnlocked, CheckTrusting and LoadKeepingStamp are slips that no     *)
(* action uses: they stand in for the definition below them to show that a *)
(* property would notice.                                                  *)
(***************************************************************************)
EXTENDS Naturals

CONSTANTS
    Creates,      \* the "keys create" commands, and the keys they make
    Revokes,      \* the "keys revoke" commands
    NameOf,       \* the name each command is given
    None,
    MaxEdits,     \* how often somebody edits the file by hand (a bound)
    MaxErrors     \* how often open() or read() fails in the gateway (a bound)

Commands == Creates \cup Revokes

ASSUME CommandsAssumption == Creates \cap Revokes = {} /\ None \notin Commands
ASSUME BoundsAssumption == MaxEdits \in Nat /\ MaxErrors \in Nat

VARIABLES
    entries,    \* the keys in keys.toml
    broken,     \* keys.toml is no valid file
    version,    \* its stamp: inode, mtime and size, new with every change
    edits,      \* how often it was edited
    at,         \* each command: "idle", "saving", "done", "failed" or "killed"
    loaded,     \* the entries a command has read
    lock,       \* who holds keys.lock
    stamp,      \* KeyStore._stamp
    hashes,     \* KeyStore._hashes
    check,      \* KeyStore.check: "idle", "stat" (stamp taken) or "answered"
    asked,      \* the key it is asked about
    seen,       \* the stamp stat() returned
    answer,     \* "accepted" or "rejected"
    errors,     \* how often reading failed
    misread,    \* it failed in this check
    ever,       \* the keys that were valid at some moment of this check
    always,     \* the keys that were valid at every moment of it
    revoked     \* the keys revoke commands have removed

fileVars == <<entries, broken, version, edits>>
commandVars == <<at, loaded, lock, revoked>>
storeVars == <<stamp, hashes, check, asked, seen, answer, errors, misread>>
vars == <<fileVars, commandVars, storeVars, ever, always>>

TypeOK ==
    /\ entries \subseteq Creates
    /\ broken \in BOOLEAN
    /\ version \in Nat
    /\ edits \in 0 .. MaxEdits
    /\ at \in [Commands -> {"idle", "saving", "done", "failed", "killed"}]
    /\ loaded \in [Commands -> SUBSET Creates]
    /\ lock \in Commands \cup {None}
    /\ stamp \in Nat /\ seen \in Nat
    /\ hashes \subseteq Creates
    /\ check \in {"idle", "stat", "answered"}
    /\ asked \in Creates \cup {None}
    /\ answer \in {"none", "accepted", "rejected"}
    /\ errors \in 0 .. MaxErrors
    /\ misread \in BOOLEAN
    /\ ever \subseteq Creates /\ always \subseteq Creates /\ revoked \subseteq Creates

\* There is no file yet: stat() fails and the stamp is None, here 0.
Init ==
    /\ entries = {}
    /\ broken = FALSE
    /\ version = 0
    /\ edits = 0
    /\ at = [c \in Commands |-> "idle"]
    /\ loaded = [c \in Commands |-> {}]
    /\ lock = None
    /\ stamp = 0
    /\ hashes = {}
    /\ check = "idle"
    /\ asked = None
    /\ seen = 0
    /\ answer = "none"
    /\ errors = 0
    /\ misread = FALSE
    /\ ever = {}
    /\ always = {}
    /\ revoked = {}

\* What load() returns of the file: nothing of a broken one.
Valid == IF broken THEN {} ELSE entries

\* The file changes.  A check that is under way sees it in two states.
FileChanges ==
    /\ version' = version + 1
    /\ ever' = ever \cup Valid'
    /\ always' = always \cap Valid'

---------------------------------------------------------------------------
(* create() and revoke() *)

\* A name that is taken, a name that is not there, or a file that is broken.
Refuses(c) ==
    \/ broken
    \/ c \in Creates /\ \E e \in entries : NameOf[e] = NameOf[c]
    \/ c \in Revokes /\ \A e \in entries : NameOf[e] # NameOf[c]

BeginUnlocked(c) ==
    /\ at[c] = "idle" /\ ~Refuses(c)
    /\ loaded' = [loaded EXCEPT ![c] = entries]
    /\ at' = [at EXCEPT ![c] = "saving"]
    /\ UNCHANGED <<fileVars, lock, revoked, storeVars, ever, always>>

\* Under the lock the command reads the file ...
Begin(c) ==
    /\ at[c] = "idle" /\ ~Refuses(c)
    /\ lock = None
    /\ lock' = c
    /\ loaded' = [loaded EXCEPT ![c] = entries]
    /\ at' = [at EXCEPT ![c] = "saving"]
    /\ UNCHANGED <<fileVars, revoked, storeVars, ever, always>>

Refused(c) ==
    /\ at[c] = "idle" /\ Refuses(c)
    /\ lock = None
    /\ at' = [at EXCEPT ![c] = "failed"]
    /\ UNCHANGED <<fileVars, loaded, lock, revoked, storeVars, ever, always>>

Named(c) == {e \in loaded[c] : NameOf[e] = NameOf[c]}

\* ... and replaces it; a key that is created is shown to the user.
Save(c) ==
    /\ at[c] = "saving"
    /\ entries' = IF c \in Creates THEN loaded[c] \cup {c} ELSE loaded[c] \ Named(c)
    /\ revoked' = IF c \in Creates THEN revoked ELSE revoked \cup Named(c)
    /\ broken' = FALSE
    /\ FileChanges
    /\ at' = [at EXCEPT ![c] = "done"]
    /\ lock' = None
    /\ UNCHANGED <<edits, loaded, storeVars>>

\* Killed before os.replace: the file is as it was.
Killed(c) ==
    /\ at[c] = "saving"
    /\ at' = [at EXCEPT ![c] = "killed"]
    /\ lock' = None
    /\ UNCHANGED <<fileVars, loaded, revoked, storeVars, ever, always>>

\* Somebody breaks the file with an editor, or repairs it.
Edit ==
    /\ edits < MaxEdits /\ version > 0
    /\ broken' = ~broken
    /\ edits' = edits + 1
    /\ FileChanges
    /\ UNCHANGED <<entries, commandVars, storeVars>>

---------------------------------------------------------------------------
(* KeyStore.check(), one call at a time, between the commands' steps *)

Decide(known) ==
    /\ answer' = IF asked' \in known THEN "accepted" ELSE "rejected"
    /\ check' = "answered"

CheckTrusting(k) ==
    /\ check = "idle"
    /\ stamp > 0
    /\ asked' = k
    /\ ever' = Valid /\ always' = Valid
    /\ misread' = FALSE
    /\ Decide(hashes)
    /\ UNCHANGED <<fileVars, commandVars, stamp, hashes, seen, errors>>

\* stat() finds the stamp unchanged: the copy serves.
CheckUnchanged(k) ==
    /\ check = "idle"
    /\ version = stamp /\ version > 0
    /\ asked' = k
    /\ ever' = Valid /\ always' = Valid
    /\ misread' = FALSE
    /\ Decide(hashes)
    /\ UNCHANGED <<fileVars, commandVars, stamp, hashes, seen, errors>>

\* stat() finds another stamp, or no file.
CheckChanged(k) ==
    /\ check = "idle"
    /\ version # stamp \/ version = 0
    /\ asked' = k
    /\ seen' = version
    /\ check' = "stat"
    /\ ever' = Valid /\ always' = Valid
    /\ misread' = FALSE
    /\ UNCHANGED <<fileVars, commandVars, stamp, hashes, answer, errors>>

LoadKeepingStamp ==
    /\ check = "stat"
    /\ stamp' = seen
    /\ asked' = asked
    /\ Decide(Valid)
    /\ UNCHANGED <<fileVars, commandVars, hashes, seen, errors, misread, ever, always>>

\* load(): the file may have changed since stat(); then its stamp differs from
\* the one that is kept, and the next check reads it again.
Load ==
    /\ check = "stat"
    /\ hashes' = Valid
    /\ stamp' = seen
    /\ asked' = asked
    /\ Decide(Valid)
    /\ UNCHANGED <<fileVars, commandVars, seen, errors, misread, ever, always>>

\* load() cannot open or read the file: no key is accepted, and the stamp is
\* kept all the same.
LoadFails ==
    /\ check = "stat" /\ version > 0
    /\ errors < MaxErrors
    /\ errors' = errors + 1
    /\ misread' = TRUE
    /\ hashes' = {}
    /\ stamp' = seen
    /\ asked' = asked
    /\ Decide({})
    /\ UNCHANGED <<fileVars, commandVars, seen, ever, always>>

\* The request goes on; the next one may come.
Answered ==
    /\ check = "answered"
    /\ check' = "idle"
    /\ asked' = None
    /\ answer' = "none"
    /\ UNCHANGED <<fileVars, commandVars, stamp, hashes, seen, errors, misread, ever, always>>

---------------------------------------------------------------------------

Next ==
    \/ \E c \in Commands : Begin(c) \/ Refused(c) \/ Save(c) \/ Killed(c)
    \/ \E k \in Creates : CheckUnchanged(k) \/ CheckChanged(k)
    \/ Load \/ LoadFails \/ Answered \/ Edit

Spec == Init /\ [][Next]_vars

---------------------------------------------------------------------------
(* What the keys promise *)

\* "new and revoked keys take effect without a restart" (keys.py:7-8), the half
\* that protects: a key is accepted only if it was valid at some moment of the
\* check.  The stamp is taken before the file is read, so a copy that is older
\* than its stamp never stays.
RevokedIsRejected == answer = "accepted" => asked \in ever

\* The half that serves: as long as the gateway could always read the file, a key
\* that was valid all through the check is accepted.
CreatedIsAccepted == answer = "rejected" /\ errors = 0 => asked \notin always

\* The same, said of every check in which reading the file did not fail ("The
\* gateway re-reads the file whenever it changes", keys.py:7).  A failed read
\* leaves no key and the file's stamp, so the checks after it do not read again.
TakesEffect == answer = "rejected" /\ ~misread => asked \notin always

\* Commands that overlap or are killed lose no key and bring none back: the file
\* holds the keys that were created, less those revoked (keys.py:107-143).
Books == entries = {c \in Creates : at[c] = "done"} \ revoked

===========================================================================
