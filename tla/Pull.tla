-------------------------------- MODULE Pull --------------------------------
(***************************************************************************)
(* "alab pull" (pull.py): read the model's registry entry, scan its files, *)
(* download the missing ones into partial files, verify and move them into *)
(* place, and remember in state.json what was verified.  A pull may be     *)
(* killed at any step, the network may fail or lie, somebody may change    *)
(* the files in between, and "alab models lock" may write another revision *)
(* to the registry.  "alab serve" looks (local_state) at any time.         *)
(*                                                                         *)
(* A file's bytes are named by their hash: one of Contents, or "wrong" for *)
(* any that no registry entry lists.  A record of state.json holds size    *)
(* and mtime of the file it is about; here it is "stale" when they are not *)
(* the file's any more, and otherwise it is the recorded hash.             *)
(*                                                                         *)
(* KeptRecord, ScanKeepingBad, ChunkUnbounded, RetriesForEver and          *)
(* MismatchUnreported are slips that no action uses: they stand in for the *)
(* definition below them to show that a property would notice.             *)
(***************************************************************************)
EXTENDS Integers

CONSTANTS
    Files,        \* the files of all revisions of the model
    Contents,     \* the hashes of their bytes
    Revisions,    \* the entries the registry may have for the model
    First,        \* the one it has at first
    Entry,        \* for each of them, the hash of every file it lists
    Size,         \* the size of each file, in chunks (a bound)
    Pulls,        \* the "alab pull" commands
    Rechecks,     \* those with --recheck
    Retries,      \* RETRIES: how often a download is tried
    None,
    MaxChanges    \* how often somebody changes a file or the entry by hand (a bound)

ASSUME ConstantsAssumption ==
    /\ Size \in Nat \ {0} /\ Retries \in Nat \ {0} /\ MaxChanges \in Nat
    /\ Rechecks \subseteq Pulls /\ None \notin Pulls \cup Files \cup Revisions
ASSUME EntryAssumption ==
    /\ Contents \cap {"none", "wrong", "stale"} = {}
    /\ First \in Revisions
    /\ \A e \in Revisions : DOMAIN Entry[e] \subseteq Files /\ Entry[e] \in [DOMAIN Entry[e] -> Contents]

Listed(e) == DOMAIN Entry[e]

VARIABLES
    registry,    \* the revision in models.toml
    target,      \* the bytes of each file in its place, "none" if it is not there
    have,        \* how much there is of each partial download; it is named by its hash
    sound,       \* whether the bytes of the partial download are right
    verified,    \* state.json: the recorded hash of each file, "none" or "stale"
    failed,      \* state.json: the files whose last download did not match
    lock,        \* the pull that holds the lock
    at,          \* how far each pull is
    entry,       \* the revision each pull has read from the registry
    unscanned, missing, mismatched,   \* its sets of files
    known, bad,  \* its copy of the records (verified, failed)
    file,        \* the file it downloads
    attempt,     \* which attempt that is
    changes,     \* how often somebody changed a file or the entry by hand
    look,        \* a local_state serve has called: "idle", "loading", "presence", "matching",
                 \* or "downloaded" when that is its answer
    lookEntry,   \* the revision it is asked about
    seen,        \* the records it has loaded
    unseen,      \* the files it still has to see in this pass
    calm         \* since it began nobody changed a file by hand, and no pull of another
                 \* revision ran (a history variable)

diskVars == <<target, have, sound, verified, failed>>
memoryVars == <<unscanned, missing, mismatched, known, bad, file, attempt>>
runVars == <<lock, at, entry, memoryVars>>
worldVars == <<registry, changes>>
lookVars == <<look, lookEntry, seen, unseen, calm>>
vars == <<diskVars, runVars, worldVars, lookVars>>

Bytes == Contents \cup {"none", "wrong"}
Records == [Files -> Bytes \cup {"stale"}]

TypeOK ==
    /\ registry \in Revisions
    /\ target \in [Files -> Bytes]
    /\ have \in [Contents -> 0 .. Size + 1]
    /\ sound \in [Contents -> BOOLEAN]
    /\ verified \in Records /\ known \in Records /\ seen \in Records
    /\ failed \subseteq Files /\ bad \subseteq Files
    /\ lock \in Pulls \cup {None}
    /\ at \in [Pulls -> {"idle", "entered", "scanning", "room", "next", "fetching", "reading",
                         "checking", "placing", "placed", "done"}]
    /\ entry \in [Pulls -> Revisions \cup {None}]
    /\ unscanned \subseteq Files /\ missing \subseteq Files /\ mismatched \subseteq Files
    /\ file \in Files \cup {None}
    /\ attempt \in 1 .. Retries
    /\ changes \in 0 .. MaxChanges
    /\ look \in {"idle", "loading", "presence", "matching", "downloaded"}
    /\ lookEntry \in Revisions \cup {None}
    /\ unseen \subseteq Files
    /\ calm \in BOOLEAN

Unknown == [f \in Files |-> "none"]

Init ==
    /\ registry = First
    /\ target = Unknown
    /\ have = [c \in Contents |-> 0]
    /\ sound = [c \in Contents |-> TRUE]
    /\ verified = Unknown
    /\ failed = {}
    /\ lock = None
    /\ at = [p \in Pulls |-> "idle"]
    /\ entry = [p \in Pulls |-> None]
    /\ unscanned = {} /\ missing = {} /\ mismatched = {}
    /\ known = Unknown
    /\ bad = {}
    /\ file = None
    /\ attempt = 1
    /\ changes = 0
    /\ look = "idle" /\ lookEntry = None /\ seen = Unknown /\ unseen = {} /\ calm = TRUE

Goto(p, step) == at' = [at EXCEPT ![p] = step]

\* The pull ends; the lock and what it knew go with it.
EndAs(p, how) ==
    /\ Goto(p, how)
    /\ lock' = None
    /\ entry' = [entry EXCEPT ![p] = None]
    /\ unscanned' = {} /\ missing' = {} /\ mismatched' = {}
    /\ known' = Unknown /\ bad' = {}
    /\ file' = None /\ attempt' = 1

\* It ends without the lock.
GivesUp(p) ==
    /\ Goto(p, "idle")
    /\ entry' = [entry EXCEPT ![p] = None]
    /\ UNCHANGED <<lock, memoryVars>>

KeptRecord(records, f) == records

\* A record of a file that is replaced, changed or deleted describes it no more.
Outdated(records, f) == [records EXCEPT ![f] = IF @ = "none" THEN @ ELSE "stale"]

\* f is replaced, changed or deleted: the records do not describe it any more.
Replaced(f, bytes) ==
    /\ target' = [target EXCEPT ![f] = bytes]
    /\ verified' = Outdated(verified, f)
    /\ seen' = Outdated(seen, f)
    /\ UNCHANGED <<look, lookEntry, unseen>>

\* One file is over: on to the next.
NextFile(p) == Goto(p, "next") /\ file' = None /\ attempt' = 1

\* _Records.save
SaveAs(records, names) == verified' = records /\ failed' = names

\* The hash the pull's entry lists for a file.
Wanted(p, f) == Entry[entry[p]][f]

\* The pull is past its look at the registry and not over.
Running(p) == at[p] \notin {"idle", "done", "entered"}

---------------------------------------------------------------------------
(* _cmd_pull reads the entry, pull() takes the lock *)

\* registry.get_entry, before the lock.
Enter(p) ==
    /\ at[p] \in {"idle", "done"}
    /\ entry' = [entry EXCEPT ![p] = registry]
    /\ Goto(p, "entered")
    /\ UNCHANGED <<diskVars, lock, memoryVars, worldVars, lookVars>>

AlreadyRunning(p) ==
    /\ at[p] = "entered" /\ lock # None
    /\ GivesUp(p)
    /\ UNCHANGED <<diskVars, worldVars, lookVars>>

\* The lock, _remove_stray_partials, _Records.load.
Begin(p) ==
    /\ at[p] = "entered" /\ lock = None
    /\ lock' = p
    /\ Goto(p, "scanning")
    /\ have' = [c \in Contents |->
                    IF \E f \in Listed(entry[p]) : Wanted(p, f) = c THEN have[c] ELSE 0]
    /\ known' = verified /\ bad' = failed
    /\ unscanned' = Listed(entry[p]) /\ missing' = {} /\ mismatched' = {}
    /\ calm' = (calm /\ (look = "idle" \/ entry[p] = lookEntry))
    /\ UNCHANGED <<target, sound, verified, failed, entry, file, attempt, worldVars, look,
                   lookEntry, seen, unseen>>

---------------------------------------------------------------------------
(* 1. Which files are already in place and verified? *)

\* known_sha256, or the hash of the file now.
Hashed(p, f) == p \in Rechecks \/ known[f] \in {"none", "stale"}
Sha256(p, f) == IF Hashed(p, f) THEN target[f] ELSE known[f]

ScanMissing(p, f) ==
    /\ at[p] = "scanning" /\ f \in unscanned /\ target[f] = "none"
    /\ unscanned' = unscanned \ {f}
    /\ missing' = missing \cup {f}
    /\ known' = [known EXCEPT ![f] = "none"]
    /\ UNCHANGED <<diskVars, lock, at, entry, mismatched, bad, file, attempt, worldVars,
                   lookVars>>

ScanGood(p, f) ==
    /\ at[p] = "scanning" /\ f \in unscanned /\ target[f] # "none"
    /\ Sha256(p, f) = Wanted(p, f)
    /\ unscanned' = unscanned \ {f}
    /\ known' = [known EXCEPT ![f] = Sha256(p, f)]
    /\ bad' = IF Hashed(p, f) THEN bad \ {f} ELSE bad
    /\ UNCHANGED <<diskVars, lock, at, entry, missing, mismatched, file, attempt, worldVars,
                   lookVars>>

ScanKeepingBad(p, f) ==
    /\ at[p] = "scanning" /\ f \in unscanned /\ target[f] # "none"
    /\ Sha256(p, f) # Wanted(p, f)
    /\ unscanned' = unscanned \ {f}
    /\ known' = [known EXCEPT ![f] = Sha256(p, f)]
    /\ bad' = IF Hashed(p, f) THEN bad \ {f} ELSE bad
    /\ UNCHANGED <<diskVars, lock, at, entry, missing, mismatched, file, attempt, worldVars,
                   lookVars>>

\* It does not match the registry: it is deleted, to be downloaded again.
ScanBad(p, f) ==
    /\ at[p] = "scanning" /\ f \in unscanned /\ target[f] # "none"
    /\ Sha256(p, f) # Wanted(p, f)
    /\ unscanned' = unscanned \ {f}
    /\ missing' = missing \cup {f}
    /\ Replaced(f, "none")
    /\ known' = [known EXCEPT ![f] = "none"]
    /\ bad' = IF Hashed(p, f) THEN bad \ {f} ELSE bad
    /\ UNCHANGED <<have, sound, failed, lock, at, entry, mismatched, file, attempt, worldVars,
                   calm>>

Scanned(p) ==
    /\ at[p] = "scanning" /\ unscanned = {}
    /\ SaveAs(known, bad)
    /\ Goto(p, "room")
    /\ UNCHANGED <<target, have, sound, lock, entry, memoryVars, worldVars, lookVars>>

\* 2. Is there room for the rest?
NoRoom(p) ==
    /\ at[p] = "room"
    /\ EndAs(p, "idle")
    /\ UNCHANGED <<diskVars, worldVars, lookVars>>

Room(p) ==
    /\ at[p] = "room"
    /\ Goto(p, "next")
    /\ UNCHANGED <<diskVars, lock, entry, memoryVars, worldVars, lookVars>>

---------------------------------------------------------------------------
(* 3. Download: _download *)

\* How much of the file has been downloaded.
Fetched(p) == have[Wanted(p, file)]

StartFile(p, f) ==
    /\ at[p] = "next" /\ f \in missing
    /\ file' = f
    /\ Goto(p, "fetching")
    /\ UNCHANGED <<diskVars, lock, entry, unscanned, missing, mismatched, known, bad, attempt,
                   worldVars, lookVars>>

SetPartial(c, n, right) ==
    /\ have' = [have EXCEPT ![c] = n]
    /\ sound' = [sound EXCEPT ![c] = right]
    /\ UNCHANGED <<target, verified, failed>>

\* An attempt finds too many bytes and drops them.
Oversized(p) ==
    /\ at[p] = "fetching" /\ Fetched(p) > Size
    /\ SetPartial(Wanted(p, file), 0, TRUE)
    /\ UNCHANGED <<runVars, worldVars, lookVars>>

\* It finds all of them there.
Complete(p) ==
    /\ at[p] = "fetching" /\ Fetched(p) = Size
    /\ Goto(p, "checking")
    /\ UNCHANGED <<diskVars, lock, entry, memoryVars, worldVars, lookVars>>

\* The server continues where the partial file ends (206) ...
Resume(p) ==
    /\ at[p] = "fetching" /\ Fetched(p) \in 1 .. Size - 1
    /\ Goto(p, "reading")
    /\ UNCHANGED <<diskVars, lock, entry, memoryVars, worldVars, lookVars>>

\* ... or starts over.
Restart(p) ==
    /\ at[p] = "fetching" /\ Fetched(p) < Size
    /\ SetPartial(Wanted(p, file), 0, TRUE)
    /\ Goto(p, "reading")
    /\ UNCHANGED <<lock, entry, memoryVars, worldVars, lookVars>>

ChunkUnbounded(p) ==
    /\ at[p] = "reading"
    /\ \E right \in BOOLEAN : SetPartial(Wanted(p, file), Fetched(p) + 1, sound[Wanted(p, file)] /\ right)
    /\ UNCHANGED <<runVars, worldVars, lookVars>>

\* A chunk arrives, the right one or not; reading stops after one too many.
Chunk(p) ==
    /\ at[p] = "reading" /\ Fetched(p) <= Size
    /\ \E right \in BOOLEAN : SetPartial(Wanted(p, file), Fetched(p) + 1, sound[Wanted(p, file)] /\ right)
    /\ UNCHANGED <<runVars, worldVars, lookVars>>

RetriesForEver(p) == Goto(p, "fetching") /\ UNCHANGED <<lock, entry, memoryVars>>

\* The next attempt, or the end of the pull.
Again(p) ==
    IF attempt = Retries
    THEN EndAs(p, "idle")
    ELSE /\ attempt' = attempt + 1
         /\ Goto(p, "fetching")
         /\ UNCHANGED <<lock, entry, unscanned, missing, mismatched, known, bad, file>>

\* A transient error, before or after the response.
FetchFails(p) ==
    /\ at[p] = "reading" \/ (at[p] = "fetching" /\ Fetched(p) < Size)
    /\ Again(p)
    /\ UNCHANGED <<diskVars, worldVars, lookVars>>

\* An error no retry can help, such as a 404.
FetchRefused(p) ==
    /\ at[p] = "fetching" /\ Fetched(p) < Size
    /\ EndAs(p, "idle")
    /\ UNCHANGED <<diskVars, worldVars, lookVars>>

\* The response ends after all the bytes, too early, or with too many of them.
ResponseComplete(p) ==
    /\ at[p] = "reading" /\ Fetched(p) = Size
    /\ Goto(p, "checking")
    /\ UNCHANGED <<diskVars, lock, entry, memoryVars, worldVars, lookVars>>

ResponseShort(p) ==
    /\ at[p] = "reading" /\ Fetched(p) < Size
    /\ Again(p)
    /\ UNCHANGED <<diskVars, worldVars, lookVars>>

ResponseLong(p) ==
    /\ at[p] = "reading" /\ Fetched(p) > Size
    /\ SetPartial(Wanted(p, file), 0, TRUE)
    /\ EndAs(p, "idle")
    /\ UNCHANGED <<worldVars, lookVars>>

---------------------------------------------------------------------------
(* 3. Verify and move into place *)

Matches(p) ==
    /\ at[p] = "checking" /\ sound[Wanted(p, file)]
    /\ Goto(p, "placing")
    /\ UNCHANGED <<diskVars, lock, entry, memoryVars, worldVars, lookVars>>

MismatchUnreported(p) ==
    /\ at[p] = "checking" /\ ~sound[Wanted(p, file)]
    /\ have' = [have EXCEPT ![Wanted(p, file)] = 0]
    /\ sound' = [sound EXCEPT ![Wanted(p, file)] = TRUE]
    /\ bad' = bad \cup {file}
    /\ SaveAs(known, bad')
    /\ missing' = missing \ {file}
    /\ NextFile(p)
    /\ UNCHANGED <<target, lock, entry, unscanned, mismatched, known, worldVars, lookVars>>

Mismatch(p) ==
    /\ at[p] = "checking" /\ ~sound[Wanted(p, file)]
    /\ have' = [have EXCEPT ![Wanted(p, file)] = 0]
    /\ sound' = [sound EXCEPT ![Wanted(p, file)] = TRUE]
    /\ bad' = bad \cup {file}
    /\ SaveAs(known, bad')
    /\ mismatched' = mismatched \cup {file}
    /\ missing' = missing \ {file}
    /\ NextFile(p)
    /\ UNCHANGED <<target, lock, entry, unscanned, known, worldVars, lookVars>>

\* partial.replace(target)
Place(p) ==
    /\ at[p] = "placing"
    /\ Replaced(file, IF sound[Wanted(p, file)] THEN Wanted(p, file) ELSE "wrong")
    /\ have' = [have EXCEPT ![Wanted(p, file)] = 0]
    /\ known' = Outdated(known, file)
    /\ Goto(p, "placed")
    /\ UNCHANGED <<sound, failed, lock, entry, unscanned, missing, mismatched, bad, file,
                   attempt, worldVars, calm>>

Remember(p) ==
    /\ at[p] = "placed"
    /\ known' = [known EXCEPT ![file] = Wanted(p, file)]
    /\ bad' = bad \ {file}
    /\ SaveAs(known', bad')
    /\ missing' = missing \ {file}
    /\ NextFile(p)
    /\ UNCHANGED <<target, have, sound, lock, entry, unscanned, mismatched, worldVars, lookVars>>

SomeMismatched(p) ==
    /\ at[p] = "next" /\ missing = {} /\ mismatched # {}
    /\ EndAs(p, "idle")
    /\ UNCHANGED <<diskVars, worldVars, lookVars>>

Done(p) ==
    /\ at[p] = "next" /\ missing = {} /\ mismatched = {}
    /\ SaveAs(known, {})
    /\ EndAs(p, "done")
    /\ UNCHANGED <<target, have, sound, worldVars, lookVars>>

---------------------------------------------------------------------------
(* local_state: the records first, then the files one by one.  Any state but *)
(* "downloaded" makes serve refuse: that look is over.                       *)

Refuse ==
    /\ look' = "idle"
    /\ lookEntry' = None /\ seen' = Unknown /\ unseen' = {} /\ calm' = TRUE

\* get_entry, in serve's preflight.
LookBegins ==
    /\ look = "idle"
    /\ look' = "loading"
    /\ lookEntry' = registry
    /\ calm' = \A p \in Pulls : Running(p) => entry[p] = registry
    /\ UNCHANGED <<diskVars, runVars, worldVars, seen, unseen>>

\* _Records.load, and the names in it whose verification failed.
LookLoads ==
    /\ look = "loading"
    /\ IF failed \cap Listed(lookEntry) # {}
       THEN Refuse
       ELSE /\ look' = "presence"
            /\ seen' = verified
            /\ unseen' = Listed(lookEntry)
            /\ UNCHANGED <<lookEntry, calm>>
    /\ UNCHANGED <<diskVars, runVars, worldVars>>

\* is_file, for one file after another.
LooksFor(f) ==
    /\ look = "presence" /\ f \in unseen
    /\ IF target[f] # "none"
       THEN unseen' = unseen \ {f} /\ UNCHANGED <<look, lookEntry, seen, calm>>
       ELSE Refuse
    /\ UNCHANGED <<diskVars, runVars, worldVars>>

AllPresent ==
    /\ look = "presence" /\ unseen = {}
    /\ look' = "matching"
    /\ unseen' = Listed(lookEntry)
    /\ UNCHANGED <<diskVars, runVars, worldVars, lookEntry, seen, calm>>

\* known_sha256, for one file after another.
LookMatches(f) ==
    /\ look = "matching" /\ f \in unseen
    /\ IF seen[f] = Entry[lookEntry][f]
       THEN unseen' = unseen \ {f} /\ UNCHANGED <<look, lookEntry, seen, calm>>
       ELSE Refuse
    /\ UNCHANGED <<diskVars, runVars, worldVars>>

AllMatch ==
    /\ look = "matching" /\ unseen = {}
    /\ look' = "downloaded"
    /\ seen' = Unknown
    /\ UNCHANGED <<diskVars, runVars, worldVars, lookEntry, unseen, calm>>

LookGoesOn ==
    \/ LookBegins \/ LookLoads \/ AllPresent \/ AllMatch
    \/ \E f \in Files : LooksFor(f) \/ LookMatches(f)

---------------------------------------------------------------------------

\* Ctrl-C or a crash: what is on disk stays, what the process knew is lost.
Killed(p) ==
    /\ at[p] \notin {"idle", "done"}
    /\ IF lock = p
       THEN EndAs(p, "idle")
       ELSE GivesUp(p)
    /\ UNCHANGED <<diskVars, worldVars, lookVars>>

\* Somebody deletes or overwrites a file, or puts one there, while no pull runs.
Changed(f) ==
    /\ lock = None /\ changes < MaxChanges
    /\ changes' = changes + 1
    /\ \E bytes \in Bytes : Replaced(f, bytes)
    /\ calm' = (look = "idle")
    /\ UNCHANGED <<have, sound, failed, runVars, registry>>

\* "alab models lock --write" (write_entry) pins the model to a revision.
Locked(e) ==
    /\ e # registry /\ changes < MaxChanges
    /\ changes' = changes + 1
    /\ registry' = e
    /\ UNCHANGED <<diskVars, runVars, lookVars>>

Proceeds(p) ==
    \/ AlreadyRunning(p) \/ Begin(p)
    \/ \E f \in Files : ScanMissing(p, f) \/ ScanGood(p, f) \/ ScanBad(p, f) \/ StartFile(p, f)
    \/ Scanned(p) \/ NoRoom(p) \/ Room(p)
    \/ Oversized(p) \/ Complete(p) \/ Resume(p) \/ Restart(p) \/ Chunk(p)
    \/ FetchFails(p) \/ FetchRefused(p)
    \/ ResponseComplete(p) \/ ResponseShort(p) \/ ResponseLong(p)
    \/ Matches(p) \/ Mismatch(p) \/ Place(p) \/ Remember(p) \/ SomeMismatched(p) \/ Done(p)

Next ==
    \/ \E p \in Pulls : Enter(p) \/ Proceeds(p) \/ Killed(p)
    \/ LookGoesOn
    \/ \E f \in Files : Changed(f)
    \/ \E e \in Revisions : Locked(e)

Spec == Init /\ [][Next]_vars

\* A pull keeps running, and the network answers, fails or ends a response.
FairSpec == Spec /\ \A p \in Pulls : WF_vars(Proceeds(p))

---------------------------------------------------------------------------
(* What a pull promises *)

IsAsListed(e) == \A f \in Listed(e) : target[f] = Entry[e][f]

\* What local_state says of them when nothing happens while it looks.
Downloaded(e) ==
    /\ failed \cap Listed(e) = {}
    /\ \A f \in Listed(e) : target[f] # "none" /\ verified[f] = Entry[e][f]

\* What "alab serve" goes by (serve.py:32-37): after a look that said "downloaded" the
\* files are those of the entry, and stay so while pulls of that revision come and
\* go, whatever was killed before, unless somebody changes a file or a pull of
\* another revision begins.
DownloadedIsGood == look = "downloaded" /\ calm => IsAsListed(lookEntry)

\* A record never says more of a file than its hash would.
RecordsAreRight ==
    \A f \in Files : verified[f] \in Contents \cup {"wrong"} => target[f] = verified[f]

\* "Make var/models/<id>/ hold exactly the registry's files, verified" (pull.py:339):
\* a pull that succeeds leaves the model downloaded, at the revision it has read.
SuccessDownloads ==
    [][\A p \in Pulls, e \in Revisions :
          at[p] # "done" /\ at'[p] = "done" /\ entry[p] = e => Downloaded(e)']_vars

\* "A file that does not match the registry, before or after downloading, is
\* deleted" (pull.py:342): past the scan no such file is in place.
NothingBadKept ==
    \A p \in Pulls :
        Running(p) /\ at[p] # "scanning" =>
            \A f \in Listed(entry[p]) : target[f] \in {"none", Wanted(p, f)}

\* Retries end: a pull that goes on comes to an end, however the network fails.
PullEnds == \A p \in Pulls : at[p] = "entered" ~> at[p] \in {"idle", "done"}

===========================================================================
