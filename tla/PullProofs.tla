----------------------------- MODULE PullProofs -----------------------------
(***************************************************************************)
(* Proofs about Pull, for all files, contents, revisions and pulls: what   *)
(* is downloaded is right, and no pull turns in a circle.                  *)
(***************************************************************************)
EXTENDS Pull, TLAPS

WithFile(p) == at[p] \in {"fetching", "reading", "checking", "placing", "placed"}

DiskTypes ==
    /\ target \in [Files -> Bytes]
    /\ have \in [Contents -> 0 .. Size + 1]
    /\ sound \in [Contents -> BOOLEAN]
    /\ verified \in Records
    /\ failed \subseteq Files

PullTypes ==
    /\ lock \in Pulls \cup {None}
    /\ at \in [Pulls -> {"idle", "entered", "scanning", "room", "next", "fetching", "reading",
                         "checking", "placing", "placed", "done"}]
    /\ entry \in [Pulls -> Revisions \cup {None}]
    /\ unscanned \subseteq Files /\ missing \subseteq Files /\ mismatched \subseteq Files
    /\ known \in Records /\ bad \subseteq Files
    /\ file \in Files \cup {None}
    /\ attempt \in 1 .. Retries

LookTypes ==
    /\ registry \in Revisions
    /\ changes \in 0 .. MaxChanges
    /\ look \in {"idle", "loading", "presence", "matching", "downloaded"}
    /\ lookEntry \in Revisions \cup {None}
    /\ seen \in Records
    /\ unseen \subseteq Files
    /\ calm \in BOOLEAN

\* Only the pull that holds the lock is under way, and it has read an entry.
OneRuns ==
    \A p \in Pulls :
        /\ Running(p) => lock = p
        /\ at[p] \notin {"idle", "done"} => entry[p] \in Revisions

\* While a pull runs nobody else touches the files, so its copy of the records
\* stays right, even where it is ahead of state.json or behind it.
CopyIsRight ==
    (\E p \in Pulls : Running(p)) =>
        \A f \in Files : known[f] \in Contents \cup {"wrong"} => target[f] = known[f]

\* The files a running pull has dealt with are recorded as listed.
Settled ==
    \A p \in Pulls : Running(p) =>
        /\ unscanned \subseteq Listed(entry[p]) /\ missing \subseteq Listed(entry[p])
        /\ \A f \in Listed(entry[p]) \ (unscanned \cup missing \cup mismatched) :
               known[f] = Wanted(p, f)
        /\ \A f \in Listed(entry[p]) \ unscanned : target[f] \in {"none", Wanted(p, f)}
        /\ at[p] # "scanning" => unscanned = {}
        /\ WithFile(p) => file \in missing
        /\ at[p] = "placing" => sound[Wanted(p, file)]
        /\ at[p] = "placed" => target[file] = Wanted(p, file)

\* What a look has loaded is right of the files as they are now: the stat of a file
\* that was replaced since does not match.
SeenIsRight ==
    \A f \in Files : seen[f] \in Contents \cup {"wrong"} => target[f] = seen[f]

\* What a calm look has seen stays as it was.
LookIsRight ==
    /\ look # "idle" => lookEntry \in Revisions
    /\ look = "downloaded" => unseen = {}
    /\ look # "idle" /\ calm =>
           /\ \A p \in Pulls : Running(p) => entry[p] = lookEntry
           /\ look \in {"matching", "downloaded"} =>
                  \A f \in Listed(lookEntry) \ unseen : target[f] = Entry[lookEntry][f]

Inv ==
    /\ DiskTypes /\ PullTypes /\ LookTypes
    /\ OneRuns /\ RecordsAreRight /\ CopyIsRight /\ Settled
    /\ SeenIsRight /\ LookIsRight

---------------------------------------------------------------------------

\* What an entry lists: files of the model, with a hash each.
LEMMA Listing ==
    ASSUME NEW e \in Revisions, NEW f \in Listed(e)
    PROVE  f \in Files /\ Entry[e][f] \in Contents
  BY EntryAssumption DEF Listed

\* A hash is no other kind of bytes.
LEMMA HashesApart == \A c \in Contents : c \notin {"none", "wrong", "stale"}
  BY EntryAssumption

\* Nothing is on disk, no pull runs, and nobody looks.
LEMMA InitInv == Init => Inv
<1> SUFFICES ASSUME Init
             PROVE  Inv
  OBVIOUS
<1> USE DEF Init
<1>1. Unknown \in Records
  BY DEF Unknown, Records, Bytes
<1>2. DiskTypes
  BY <1>1, ConstantsAssumption DEF DiskTypes, Bytes, Unknown
<1>3. PullTypes /\ LookTypes
  BY <1>1, ConstantsAssumption, EntryAssumption DEF PullTypes, LookTypes
<1>4. OneRuns /\ CopyIsRight /\ Settled /\ LookIsRight
  BY DEF OneRuns, CopyIsRight, Settled, LookIsRight, Running
<1>5. RecordsAreRight /\ SeenIsRight
  BY EntryAssumption DEF RecordsAreRight, SeenIsRight, Unknown
<1> QED
  BY <1>2, <1>3, <1>4, <1>5 DEF Inv

\* Two pulls that run are the same.
LEMMA Alone ==
    ASSUME OneRuns, NEW p \in Pulls, NEW q \in Pulls, Running(p), Running(q)
    PROVE  p = q
  BY DEF OneRuns

\* The file a pull downloads is one its entry lists.
LEMMA ItsFile ==
    ASSUME Inv, NEW p \in Pulls, WithFile(p)
    PROVE  /\ Running(p) /\ entry[p] \in Revisions
           /\ file \in Files /\ file \in Listed(entry[p])
           /\ Wanted(p, file) \in Contents
<1>1. Running(p)
  BY DEF WithFile, Running
<1>2. entry[p] \in Revisions /\ file \in Listed(entry[p])
  BY <1>1 DEF Inv, OneRuns, Settled, Running
<1> QED
  BY <1>1, <1>2, Listing DEF Wanted

\* A step that leaves the files, the records and the look alone, and starts no pull.
LEMMA NothingSeen ==
    ASSUME Inv, UNCHANGED <<target, lookVars>>,
           \A p \in Pulls : Running(p)' => Running(p) /\ entry'[p] = entry[p]
    PROVE  SeenIsRight' /\ LookIsRight'
<1>1. SeenIsRight'
  BY DEF Inv, SeenIsRight, lookVars
<1>2. LookIsRight'
  BY DEF Inv, LookIsRight, lookVars
<1> QED
  BY <1>1, <1>2

---------------------------------------------------------------------------
(* A pull that goes on *)

\* Turns of the pull that touch nothing on disk.
LEMMA TurnStep ==
    ASSUME Inv, NEW p \in Pulls,
           \/ Room(p) \/ Complete(p) \/ Resume(p) \/ ResponseComplete(p) \/ Matches(p)
           \/ \E f \in Files : StartFile(p, f)
    PROVE  Inv'
<1> USE DEF Room, Complete, Resume, ResponseComplete, Matches, StartFile, Goto, diskVars,
            memoryVars, worldVars
<1>1. DiskTypes' /\ PullTypes' /\ LookTypes'
  BY DEF Inv, DiskTypes, PullTypes, LookTypes, lookVars
<1>2. OneRuns'
  BY DEF Inv, OneRuns, PullTypes, Running
<1>3. RecordsAreRight' /\ CopyIsRight'
  BY DEF Inv, RecordsAreRight, CopyIsRight, PullTypes, Running
<1>4. Settled'
  BY DEF Inv, Settled, OneRuns, PullTypes, Running, WithFile, Wanted
<1>5. SeenIsRight' /\ LookIsRight'
  <2>1. \A q \in Pulls : Running(q)' => Running(q) /\ entry'[q] = entry[q]
    BY DEF Inv, PullTypes, Running
  <2> QED
    BY <2>1, NothingSeen
<1> QED
  BY <1>1, <1>2, <1>3, <1>4, <1>5 DEF Inv

\* A pull that ends without success, with the lock or without it, knows nothing
\* any more and makes no claims on the files.
LEMMA OverStep ==
    ASSUME Inv, NEW p \in Pulls, (lock = p /\ EndAs(p, "idle")) \/ GivesUp(p),
           UNCHANGED <<diskVars, worldVars, lookVars>>
    PROVE  Inv'
<1> USE DEF EndAs, GivesUp, Goto, diskVars, memoryVars, worldVars
<1>1. DiskTypes' /\ PullTypes' /\ LookTypes'
  BY ConstantsAssumption DEF Inv, DiskTypes, PullTypes, LookTypes, lookVars, Unknown, Records, Bytes
<1>2. OneRuns'
  BY DEF Inv, OneRuns, PullTypes, Running
<1>3. RecordsAreRight' /\ CopyIsRight'
  BY EntryAssumption DEF Inv, RecordsAreRight, CopyIsRight, PullTypes, Running, Unknown
<1>4. Settled'
  <2>1. CASE lock = p /\ EndAs(p, "idle")
    BY <2>1 DEF Inv, Settled, OneRuns, PullTypes, Running
  <2>2. CASE GivesUp(p)
    BY <2>2 DEF Inv, Settled, OneRuns, PullTypes, Running, WithFile, Wanted
  <2> QED
    BY <2>1, <2>2
<1>5. SeenIsRight' /\ LookIsRight'
  <2>1. \A q \in Pulls : Running(q)' => Running(q) /\ entry'[q] = entry[q]
    BY DEF Inv, PullTypes, Running
  <2> QED
    BY <2>1, NothingSeen
<1> QED
  BY <1>1, <1>2, <1>3, <1>4, <1>5 DEF Inv

\* The partial files: their sizes stay in bounds, and nothing else is touched.
LEMMA PartialStep ==
    ASSUME Inv, NEW p \in Pulls, Oversized(p) \/ Restart(p) \/ Chunk(p)
    PROVE  Inv'
<1> USE DEF Oversized, Restart, Chunk, SetPartial, Goto, runVars, memoryVars, worldVars
<1>0. WithFile(p) /\ at[p] # "placing" /\ at[p] # "placed"
  BY DEF WithFile
<1>1. Wanted(p, file) \in Contents
  BY <1>0, ItsFile
<1>2. DiskTypes'
  <2>1. have[Wanted(p, file)] \in 0 .. Size + 1 /\ Size \in Nat
    BY <1>1, ConstantsAssumption DEF Inv, DiskTypes
  <2>2. CASE Chunk(p)
    <3>1. have[Wanted(p, file)] + 1 \in 0 .. Size + 1
      BY <2>1, <2>2 DEF Fetched
    <3> QED
      BY <1>1, <2>2, <3>1 DEF Inv, DiskTypes, Fetched
  <2>3. CASE Oversized(p) \/ Restart(p)
    <3>1. 0 \in 0 .. Size + 1
      BY <2>1
    <3> QED
      BY <1>1, <2>3, <3>1 DEF Inv, DiskTypes
  <2> QED
    BY <2>2, <2>3
<1>3. PullTypes' /\ LookTypes'
  BY DEF Inv, PullTypes, LookTypes, lookVars
<1>4. OneRuns'
  BY DEF Inv, OneRuns, PullTypes, Running
<1>5. RecordsAreRight' /\ CopyIsRight'
  BY DEF Inv, RecordsAreRight, CopyIsRight, PullTypes, Running
<1>6. Settled'
  <2>1. \A q \in Pulls : Running(q)' => q = p
    BY <1>0, <1>4 DEF Inv, OneRuns, PullTypes, Running, WithFile
  <2>2. at'[p] \in {"fetching", "reading"}
    BY DEF Inv, PullTypes
  <2> QED
    BY <1>0, <2>1, <2>2 DEF Inv, Settled, PullTypes, Running, WithFile, Wanted
<1>7. SeenIsRight' /\ LookIsRight'
  <2>1. \A q \in Pulls : Running(q)' => Running(q) /\ entry'[q] = entry[q]
    BY DEF Inv, PullTypes, Running
  <2> QED
    BY <2>1, NothingSeen
<1> QED
  BY <1>2, <1>3, <1>4, <1>5, <1>6, <1>7 DEF Inv

\* An attempt that fails leaves the file missing, for the next attempt.
LEMMA AttemptStep ==
    ASSUME Inv, NEW p \in Pulls, attempt # Retries, Again(p), WithFile(p), at[p] # "placed",
           UNCHANGED <<diskVars, worldVars, lookVars>>
    PROVE  Inv'
<1> USE DEF Again, Goto, diskVars, worldVars
<1>1. DiskTypes' /\ PullTypes' /\ LookTypes'
  BY ConstantsAssumption DEF Inv, DiskTypes, PullTypes, LookTypes, lookVars
<1>2. OneRuns'
  BY DEF Inv, OneRuns, PullTypes, Running, WithFile
<1>3. RecordsAreRight' /\ CopyIsRight'
  BY DEF Inv, RecordsAreRight, CopyIsRight, PullTypes, Running, WithFile
<1>4. Settled'
  BY DEF Inv, Settled, OneRuns, PullTypes, Running, WithFile, Wanted
<1>5. SeenIsRight' /\ LookIsRight'
  <2>1. \A q \in Pulls : Running(q)' => Running(q) /\ entry'[q] = entry[q]
    BY DEF Inv, PullTypes, Running, WithFile
  <2> QED
    BY <2>1, NothingSeen
<1> QED
  BY <1>1, <1>2, <1>3, <1>4, <1>5 DEF Inv

\* A response with too many bytes: the partial file goes, and the pull ends.
LEMMA LongStep ==
    ASSUME Inv, NEW p \in Pulls, ResponseLong(p)
    PROVE  Inv'
<1> USE DEF ResponseLong, SetPartial, EndAs, Goto, worldVars
<1>1. Wanted(p, file) \in Contents /\ lock = p
  BY ItsFile DEF WithFile, Inv, OneRuns
<1>2. DiskTypes' /\ PullTypes' /\ LookTypes'
  BY <1>1, ConstantsAssumption
  DEF Inv, DiskTypes, PullTypes, LookTypes, lookVars, Unknown, Records, Bytes
<1>3. OneRuns' /\ RecordsAreRight' /\ CopyIsRight' /\ Settled'
  <2>1. \A q \in Pulls : ~Running(q)'
    BY <1>1 DEF Inv, OneRuns, PullTypes, Running
  <2>2. OneRuns'
    BY <2>1 DEF Inv, OneRuns, PullTypes, Running
  <2>3. RecordsAreRight' /\ CopyIsRight' /\ Settled'
    BY <2>1 DEF Inv, RecordsAreRight, CopyIsRight, Settled
  <2> QED
    BY <2>2, <2>3
<1>4. SeenIsRight' /\ LookIsRight'
  <2>1. \A q \in Pulls : Running(q)' => Running(q) /\ entry'[q] = entry[q]
    BY DEF Inv, PullTypes, Running
  <2> QED
    BY <2>1, NothingSeen
<1> QED
  BY <1>2, <1>3, <1>4 DEF Inv

\* Scanning: a file counts as dealt with only if its hash, or a record that is
\* right, says so.
LEMMA ScanStep ==
    ASSUME Inv, NEW p \in Pulls, NEW f \in Files, ScanMissing(p, f) \/ ScanGood(p, f)
    PROVE  Inv'
<1> USE DEF ScanMissing, ScanGood, diskVars, worldVars
<1>1. DiskTypes' /\ PullTypes' /\ LookTypes'
  BY DEF Inv, DiskTypes, PullTypes, LookTypes, lookVars, Records, Sha256, Bytes
<1>2. OneRuns' /\ RecordsAreRight'
  BY DEF Inv, OneRuns, RecordsAreRight, PullTypes, Running
<1>3. CopyIsRight'
  BY EntryAssumption
  DEF Inv, CopyIsRight, PullTypes, DiskTypes, Records, Running, Sha256, Hashed, Bytes
<1>4. Settled'
  <2>1. \A q \in Pulls : Running(q)' => q = p /\ Running(p)
    BY DEF Inv, OneRuns, PullTypes, Running
  <2>2. target[f] = "none" \/ (target[f] = Wanted(p, f) /\ known'[f] = Wanted(p, f))
    BY EntryAssumption
    DEF Inv, CopyIsRight, PullTypes, DiskTypes, Records, Running, Sha256, Hashed, Bytes
  <2>3. /\ entry' = entry /\ at' = at /\ target' = target /\ at[p] = "scanning"
        /\ unscanned' \subseteq unscanned /\ missing' \subseteq missing \cup {f}
        /\ f \in unscanned
    OBVIOUS
  <2>4. Running(p) => Listed(entry[p]) \subseteq Files
    BY Listing DEF Inv, OneRuns, Running
  <2>5. Running(p) =>
          \A g \in Listed(entry[p]) \ (unscanned' \cup missing' \cup mismatched') :
              known'[g] = Wanted(p, g)
    BY <2>2, <2>4 DEF Inv, Settled, PullTypes, Records
  <2>6. Running(p) =>
          \A g \in Listed(entry[p]) \ unscanned' : target[g] \in {"none", Wanted(p, g)}
    BY <2>2 DEF Inv, Settled
  <2> QED
    BY <2>1, <2>3, <2>5, <2>6 DEF Inv, Settled, Running, WithFile, Wanted
<1>5. SeenIsRight' /\ LookIsRight'
  <2>1. \A q \in Pulls : Running(q)' => Running(q) /\ entry'[q] = entry[q]
    BY DEF Running
  <2> QED
    BY <2>1, NothingSeen
<1> QED
  BY <1>1, <1>2, <1>3, <1>4, <1>5 DEF Inv

\* The pull's copy of the records becomes state.json.
LEMMA SaveStep ==
    ASSUME Inv, NEW p \in Pulls, Scanned(p) \/ Done(p)
    PROVE  Inv'
<1> USE DEF Scanned, Done, SaveAs, EndAs, Goto, memoryVars, worldVars
<1>1. Running(p) /\ lock = p
  BY DEF Inv, OneRuns, Running
<1>2. DiskTypes' /\ PullTypes' /\ LookTypes'
  BY ConstantsAssumption
  DEF Inv, DiskTypes, PullTypes, LookTypes, lookVars, Unknown, Records, Bytes
<1>3. OneRuns'
  BY <1>1 DEF Inv, OneRuns, PullTypes, Running
<1>4. RecordsAreRight'
  BY <1>1 DEF Inv, RecordsAreRight, CopyIsRight
<1>5. CopyIsRight'
  BY <1>1, EntryAssumption DEF Inv, CopyIsRight, PullTypes, Unknown
<1>6. Settled'
  BY <1>1 DEF Inv, Settled, OneRuns, PullTypes, Running, WithFile, Wanted
<1>7. SeenIsRight' /\ LookIsRight'
  <2>1. \A q \in Pulls : Running(q)' => Running(q) /\ entry'[q] = entry[q]
    BY DEF Inv, PullTypes, Running
  <2> QED
    BY <2>1, NothingSeen
<1> QED
  BY <1>2, <1>3, <1>4, <1>5, <1>6, <1>7 DEF Inv

\* A download that did not match is recorded as failed, one that did as verified.
LEMMA VerdictStep ==
    ASSUME Inv, NEW p \in Pulls, Mismatch(p) \/ Remember(p)
    PROVE  Inv'
<1> USE DEF Mismatch, Remember, SaveAs, NextFile, Goto, worldVars
<1>1. /\ Running(p) /\ lock = p /\ file \in Files /\ file \in missing
      /\ Wanted(p, file) \in Contents
  BY ItsFile DEF WithFile, Inv, OneRuns, Settled
<1>2. DiskTypes'
  <2>1. known' \in Records
    BY <1>1 DEF Inv, PullTypes, Records, Bytes
  <2>2. have' \in [Contents -> 0 .. Size + 1] /\ sound' \in [Contents -> BOOLEAN]
    <3>1. 0 \in 0 .. Size + 1
      BY ConstantsAssumption
    <3> QED
      BY <1>1, <3>1 DEF Inv, DiskTypes
  <2>3. verified' \in Records /\ failed' \subseteq Files /\ target' = target
    BY <1>1, <2>1 DEF Inv, DiskTypes, PullTypes
  <2> QED
    BY <2>2, <2>3 DEF Inv, DiskTypes
<1>3. PullTypes' /\ LookTypes'
  BY <1>1, ConstantsAssumption DEF Inv, PullTypes, LookTypes, lookVars, Records, Bytes
<1>4. OneRuns'
  BY <1>1 DEF Inv, OneRuns, PullTypes, Running
<1>5. CopyIsRight' /\ RecordsAreRight'
  <2>1. Remember(p) => target[file] = Wanted(p, file)
    BY <1>1 DEF Inv, Settled
  <2> QED
    BY <1>1, <2>1 DEF Inv, RecordsAreRight, CopyIsRight, PullTypes, Records
<1>6. Settled'
  <2>1. \A q \in Pulls : Running(q)' => q = p
    BY <1>1, <1>4 DEF Inv, OneRuns, PullTypes, Running
  <2>2. at'[p] = "next" /\ entry' = entry /\ unscanned' = unscanned /\ target' = target
    BY DEF Inv, PullTypes
  <2>3. \A f \in Listed(entry[p]) \ (unscanned \cup missing' \cup mismatched') :
            known'[f] = Wanted(p, f)
    <3>1. Listed(entry[p]) \subseteq Files
      BY <1>1, Listing DEF Inv, OneRuns, Running
    <3> QED
      BY <1>1, <3>1 DEF Inv, Settled, PullTypes, Records
  <2> QED
    BY <1>1, <2>1, <2>2, <2>3 DEF Inv, Settled, Running, WithFile, Wanted
<1>7. SeenIsRight' /\ LookIsRight'
  <2>1. \A q \in Pulls : Running(q)' => Running(q) /\ entry'[q] = entry[q]
    BY <1>1 DEF Inv, PullTypes, Running
  <2> QED
    BY <2>1, NothingSeen
<1> QED
  BY <1>2, <1>3, <1>4, <1>5, <1>6, <1>7 DEF Inv

---------------------------------------------------------------------------
(* Files replaced *)

\* Replacing a file outdates its records, in state.json and in what a look has read.
LEMMA ReplacedKeeps ==
    ASSUME Inv, NEW f \in Files, NEW bytes \in Bytes, Replaced(f, bytes)
    PROVE  /\ target' \in [Files -> Bytes] /\ verified' \in Records /\ seen' \in Records
           /\ RecordsAreRight' /\ SeenIsRight'
<1> USE DEF Replaced, Outdated
<1>1. target' \in [Files -> Bytes] /\ verified' \in Records /\ seen' \in Records
  BY DEF Inv, DiskTypes, LookTypes, Records, Bytes
<1>2. RecordsAreRight' /\ SeenIsRight'
  BY EntryAssumption
  DEF Inv, DiskTypes, LookTypes, Records, Bytes, RecordsAreRight, SeenIsRight
<1> QED
  BY <1>1, <1>2

\* A file that does not match is deleted, and no look that is calm has passed it: what
\* such a look has seen is as the same entry lists it.
LEMMA ScanBadStep ==
    ASSUME Inv, NEW p \in Pulls, NEW f \in Files, ScanBad(p, f)
    PROVE  Inv'
<1> USE DEF ScanBad, worldVars
<1>1. /\ Running(p) /\ lock = p /\ entry[p] \in Revisions
      /\ f \in Listed(entry[p]) /\ "none" \in Bytes
  BY DEF Inv, OneRuns, Running, Settled, Bytes
<1>2. target[f] # Wanted(p, f)
  BY EntryAssumption
  DEF Inv, CopyIsRight, PullTypes, DiskTypes, Records, Running, Sha256, Hashed, Bytes
<1>3. DiskTypes' /\ PullTypes' /\ LookTypes' /\ RecordsAreRight' /\ SeenIsRight'
  <2>1. /\ target' \in [Files -> Bytes] /\ verified' \in Records /\ seen' \in Records
        /\ RecordsAreRight' /\ SeenIsRight'
    BY <1>1, ReplacedKeeps
  <2> QED
    BY <2>1 DEF Inv, DiskTypes, PullTypes, LookTypes, Replaced, Records, Bytes
<1>4. OneRuns'
  BY DEF Inv, OneRuns, Running
<1>5. CopyIsRight'
  BY EntryAssumption
  DEF Inv, CopyIsRight, PullTypes, DiskTypes, Records, Running, Replaced
<1>6. Settled'
  <2>1. \A q \in Pulls : Running(q)' => q = p
    BY <1>1, <1>4 DEF Inv, OneRuns, Running
  <2>2. Listed(entry[p]) \subseteq Files
    BY <1>1, Listing
  <2>3. /\ \A g \in Listed(entry[p]) \ (unscanned' \cup missing' \cup mismatched) :
              known'[g] = Wanted(p, g)
        /\ \A g \in Listed(entry[p]) \ unscanned' : target'[g] \in {"none", Wanted(p, g)}
    BY <1>1, <2>2 DEF Inv, Settled, PullTypes, DiskTypes, Records, Replaced
  <2> QED
    BY <1>1, <2>1, <2>3 DEF Inv, Settled, Running, WithFile, Wanted
<1>7. LookIsRight'
  <2>1. look \in {"matching", "downloaded"} /\ calm => f \notin Listed(lookEntry) \ unseen
    BY <1>1, <1>2 DEF Inv, LookIsRight, Wanted
  <2> QED
    BY <2>1 DEF Inv, LookIsRight, Replaced, Running, DiskTypes
<1> QED
  BY <1>3, <1>4, <1>5, <1>6, <1>7 DEF Inv

\* Only bytes that matched are moved into place.
LEMMA PlaceStep ==
    ASSUME Inv, NEW p \in Pulls, Place(p)
    PROVE  Inv'
<1> USE DEF Place, Goto, worldVars
<1>1. /\ Running(p) /\ lock = p /\ entry[p] \in Revisions
      /\ file \in Files /\ file \in Listed(entry[p]) /\ file \in missing
      /\ Wanted(p, file) \in Contents /\ Wanted(p, file) \in Bytes
  BY ItsFile DEF WithFile, Inv, OneRuns, Settled, Bytes
<1>2. Replaced(file, Wanted(p, file))
  BY <1>1 DEF Inv, Settled
<1>3. target'[file] = Wanted(p, file)
  BY <1>1, <1>2 DEF Inv, DiskTypes, Replaced
<1>4. DiskTypes' /\ PullTypes' /\ LookTypes' /\ RecordsAreRight' /\ SeenIsRight'
  <2>1. /\ target' \in [Files -> Bytes] /\ verified' \in Records /\ seen' \in Records
        /\ RecordsAreRight' /\ SeenIsRight'
    BY <1>1, <1>2, ReplacedKeeps
  <2>2. have' \in [Contents -> 0 .. Size + 1]
    BY <1>1, ConstantsAssumption DEF Inv, DiskTypes
  <2>3. known' \in Records
    BY DEF Inv, PullTypes, Records, Outdated
  <2> QED
    BY <1>2, <2>1, <2>2, <2>3 DEF Inv, DiskTypes, PullTypes, LookTypes, Replaced
<1>5. OneRuns'
  BY <1>1 DEF Inv, OneRuns, PullTypes, Running
<1>6. CopyIsRight'
  BY <1>1, <1>2, EntryAssumption
  DEF Inv, CopyIsRight, PullTypes, DiskTypes, Records, Replaced, Outdated
<1>7. Settled'
  <2>1. \A q \in Pulls : Running(q)' => q = p
    BY <1>1, <1>5 DEF Inv, OneRuns, PullTypes, Running
  <2>2. Listed(entry[p]) \subseteq Files /\ at'[p] = "placed"
    BY <1>1, Listing DEF Inv, PullTypes
  <2>3. /\ \A g \in Listed(entry[p]) \ (unscanned \cup missing \cup mismatched) :
              known'[g] = Wanted(p, g)
        /\ \A g \in Listed(entry[p]) \ unscanned : target'[g] \in {"none", Wanted(p, g)}
    BY <1>1, <1>2, <1>3, <2>2
    DEF Inv, Settled, PullTypes, DiskTypes, Records, Replaced, Outdated
  <2> QED
    BY <1>1, <1>3, <2>1, <2>2, <2>3 DEF Inv, Settled, Running, WithFile, Wanted
<1>8. LookIsRight'
  <2>1. \A q \in Pulls : Running(q)' => Running(q) /\ entry'[q] = entry[q]
    BY <1>1 DEF Inv, PullTypes, Running
  <2>2. look # "idle" /\ calm => target'[file] = Entry[lookEntry][file]
    BY <1>1, <1>3 DEF Inv, LookIsRight, Wanted
  <2> QED
    BY <1>2, <2>1, <2>2 DEF Inv, LookIsRight, Replaced, DiskTypes
<1> QED
  BY <1>4, <1>5, <1>6, <1>7, <1>8 DEF Inv

\* Somebody else changes a file only while no pull runs, and its records show it.
LEMMA ChangedStep ==
    ASSUME Inv, NEW f \in Files, Changed(f)
    PROVE  Inv'
<1> USE DEF Changed, runVars, memoryVars
<1>1. PICK bytes \in Bytes : Replaced(f, bytes)
  OBVIOUS
<1>2. /\ target' \in [Files -> Bytes] /\ verified' \in Records /\ seen' \in Records
      /\ RecordsAreRight' /\ SeenIsRight'
  BY <1>1, ReplacedKeeps
<1>3. DiskTypes' /\ PullTypes' /\ LookTypes'
  BY <1>1, <1>2, ConstantsAssumption DEF Inv, DiskTypes, PullTypes, LookTypes, Replaced
<1>4. OneRuns' /\ CopyIsRight' /\ Settled'
  <2>1. \A p \in Pulls : ~Running(p)'
    BY ConstantsAssumption DEF Inv, OneRuns, Running
  <2>2. OneRuns'
    BY DEF Inv, OneRuns, Running
  <2> QED
    BY <2>1, <2>2 DEF CopyIsRight, Settled
<1>5. LookIsRight'
  BY <1>1 DEF Inv, LookIsRight, Replaced
<1> QED
  BY <1>2, <1>3, <1>4, <1>5 DEF Inv

---------------------------------------------------------------------------
(* Beginnings, the registry, and the look *)

\* A pull that begins takes every file for unscanned, and the records as they are.
LEMMA BeginStep ==
    ASSUME Inv, NEW p \in Pulls, Begin(p)
    PROVE  Inv'
<1> USE DEF Begin, Goto, worldVars
<1>1. /\ entry[p] \in Revisions /\ Listed(entry[p]) \subseteq Files
      /\ \A q \in Pulls : ~Running(q)
  BY ConstantsAssumption, Listing DEF Inv, OneRuns, Running
<1>2. DiskTypes'
  <2>1. 0 \in 0 .. Size + 1
    BY ConstantsAssumption
  <2> QED
    BY <2>1 DEF Inv, DiskTypes
<1>3. PullTypes' /\ LookTypes'
  BY <1>1 DEF Inv, DiskTypes, PullTypes, LookTypes
<1>4. OneRuns'
  BY <1>1 DEF Inv, OneRuns, PullTypes, Running
<1>5. RecordsAreRight' /\ CopyIsRight' /\ SeenIsRight'
  BY DEF Inv, RecordsAreRight, CopyIsRight, SeenIsRight
<1>6. Settled'
  <2>1. \A q \in Pulls : Running(q)' => q = p
    BY <1>1 DEF Inv, PullTypes, Running
  <2>2. at'[p] = "scanning"
    BY DEF Inv, PullTypes
  <2> QED
    BY <2>1, <2>2 DEF Settled, WithFile
<1>7. LookIsRight'
  <2>1. \A q \in Pulls : Running(q)' => q = p
    BY <1>1 DEF Inv, PullTypes, Running
  <2> QED
    BY <2>1 DEF Inv, LookIsRight
<1> QED
  BY <1>2, <1>3, <1>4, <1>5, <1>6, <1>7 DEF Inv

\* Reading the registry and writing to it concern no pull that runs.
LEMMA RegistryStep ==
    ASSUME Inv, (\E p \in Pulls : Enter(p)) \/ (\E e \in Revisions : Locked(e))
    PROVE  Inv'
<1> USE DEF Enter, Locked, Goto, diskVars, runVars, memoryVars, worldVars
<1>1. DiskTypes' /\ PullTypes' /\ LookTypes'
  BY ConstantsAssumption DEF Inv, DiskTypes, PullTypes, LookTypes, lookVars
<1>2. \A q \in Pulls : Running(q)' => Running(q) /\ entry'[q] = entry[q] /\ at'[q] = at[q]
  BY DEF Inv, PullTypes, Running
<1>3. OneRuns'
  BY DEF Inv, OneRuns, PullTypes, LookTypes, Running
<1>4. RecordsAreRight' /\ CopyIsRight'
  BY <1>2 DEF Inv, RecordsAreRight, CopyIsRight
<1>5. Settled'
  BY <1>2 DEF Inv, Settled, WithFile, Wanted
<1>6. SeenIsRight' /\ LookIsRight'
  BY <1>2, NothingSeen
<1> QED
  BY <1>1, <1>3, <1>4, <1>5, <1>6 DEF Inv

\* A look reads the files one at a time, after the records; it changes nothing.
LEMMA LookStep ==
    ASSUME Inv, LookGoesOn
    PROVE  Inv'
<1>1. UNCHANGED <<diskVars, runVars, worldVars>>
  BY DEF LookGoesOn, LookBegins, LookLoads, AllPresent, AllMatch, LooksFor, LookMatches
<1>2. DiskTypes' /\ PullTypes' /\ OneRuns' /\ RecordsAreRight' /\ CopyIsRight' /\ Settled'
  BY <1>1
  DEF Inv, DiskTypes, PullTypes, OneRuns, RecordsAreRight, CopyIsRight, Settled, Running,
      WithFile, Wanted, diskVars, runVars, memoryVars
<1>3. Unknown \in Records /\ \A f \in Files : Unknown[f] = "none"
  BY DEF Unknown, Records, Bytes
<1>4. lookEntry \in Revisions => Listed(lookEntry) \subseteq Files
  BY Listing
<1>5. LookTypes' /\ SeenIsRight' /\ LookIsRight'
  <2> USE DEF Inv, LookTypes, SeenIsRight, LookIsRight, Running, diskVars, runVars, worldVars
  <2>1. CASE LookBegins
    BY <2>1 DEF LookBegins
  <2>2. CASE LookLoads
    BY <2>2, <1>3, <1>4, EntryAssumption
    DEF LookLoads, Refuse, RecordsAreRight, DiskTypes
  <2>3. CASE AllPresent
    BY <2>3, <1>4 DEF AllPresent
  <2>4. CASE AllMatch
    BY <2>4, <1>3, EntryAssumption DEF AllMatch
  <2>5. ASSUME NEW f \in Files, LooksFor(f)
        PROVE  LookTypes' /\ SeenIsRight' /\ LookIsRight'
    BY <2>5, <1>3, EntryAssumption DEF LooksFor, Refuse
  <2>6. ASSUME NEW f \in Files, LookMatches(f)
        PROVE  LookTypes' /\ SeenIsRight' /\ LookIsRight'
    <3>1. CASE seen[f] = Entry[lookEntry][f]
      <4>1. f \in Listed(lookEntry) => target[f] = Entry[lookEntry][f]
        BY <2>6, <3>1, Listing DEF LookMatches
      <4> QED
        BY <2>6, <3>1, <4>1 DEF LookMatches
    <3>2. CASE seen[f] # Entry[lookEntry][f]
      BY <2>6, <3>2, <1>3, EntryAssumption DEF LookMatches, Refuse
    <3> QED
      BY <3>1, <3>2
  <2> QED
    BY <2>1, <2>2, <2>3, <2>4, <2>5, <2>6 DEF LookGoesOn
<1> QED
  BY <1>2, <1>5 DEF Inv

\* The ends of a pull other than success.
LEMMA EndStep ==
    ASSUME Inv, NEW p \in Pulls,
           \/ AlreadyRunning(p) \/ NoRoom(p) \/ FetchRefused(p) \/ SomeMismatched(p)
           \/ FetchFails(p) \/ ResponseShort(p) \/ Killed(p)
    PROVE  Inv'
<1>1. CASE AlreadyRunning(p)
  BY <1>1, OverStep DEF AlreadyRunning
<1>2. CASE NoRoom(p) \/ FetchRefused(p) \/ SomeMismatched(p)
  <2>1. Running(p) /\ lock = p
    BY <1>2 DEF NoRoom, FetchRefused, SomeMismatched, Running, Inv, OneRuns
  <2> QED
    BY <1>2, <2>1, OverStep DEF NoRoom, FetchRefused, SomeMismatched
<1>3. CASE FetchFails(p) \/ ResponseShort(p)
  <2>1. WithFile(p) /\ at[p] # "placed" /\ lock = p
    BY <1>3 DEF FetchFails, ResponseShort, WithFile, Running, Inv, OneRuns
  <2>2. Again(p) /\ UNCHANGED <<diskVars, worldVars, lookVars>>
    BY <1>3 DEF FetchFails, ResponseShort
  <2>3. CASE attempt = Retries
    BY <2>1, <2>2, <2>3, OverStep DEF Again
  <2>4. CASE attempt # Retries
    BY <2>1, <2>2, <2>4, AttemptStep
  <2> QED
    BY <2>3, <2>4
<1>4. CASE Killed(p)
  BY <1>4, OverStep DEF Killed
<1> QED
  BY <1>1, <1>2, <1>3, <1>4

\* Every step, and every stutter, keeps the invariant.
LEMMA InvNext == Inv /\ [Next]_vars => Inv'
<1> SUFFICES ASSUME Inv, [Next]_vars
             PROVE  Inv'
  OBVIOUS
<1>1. CASE UNCHANGED vars
  BY <1>1
  DEF vars, diskVars, runVars, memoryVars, worldVars, lookVars, Inv, DiskTypes, PullTypes,
      LookTypes, OneRuns, RecordsAreRight, CopyIsRight, Settled, SeenIsRight, LookIsRight,
      Running, WithFile, Wanted
<1>2. ASSUME NEW p \in Pulls, Enter(p) \/ Killed(p)
      PROVE  Inv'
  BY <1>2, RegistryStep, EndStep
<1>3. ASSUME NEW p \in Pulls, Proceeds(p)
      PROVE  Inv'
  BY <1>3, BeginStep, EndStep, ScanStep, ScanBadStep, TurnStep, SaveStep, PartialStep,
     LongStep, VerdictStep, PlaceStep
  DEF Proceeds
<1>4. ASSUME NEW f \in Files, Changed(f)
      PROVE  Inv'
  BY <1>4, ChangedStep
<1>5. CASE LookGoesOn
  BY <1>5, LookStep
<1>6. ASSUME NEW e \in Revisions, Locked(e)
      PROVE  Inv'
  BY <1>6, RegistryStep
<1> QED
  BY <1>1, <1>2, <1>3, <1>4, <1>5, <1>6 DEF Next

\* The invariant holds in every state.
LEMMA Invariance == Spec => []Inv
  BY InitInv, InvNext, PTL DEF Spec

---------------------------------------------------------------------------

\* The types, with what they bound: a partial file never grows past one chunk too
\* many, and no file is tried more than RETRIES times.
THEOREM Typing == Spec => []TypeOK
<1>1. Inv => TypeOK
  BY DEF Inv, DiskTypes, PullTypes, LookTypes, TypeOK
<1> QED
  BY <1>1, Invariance, PTL

\* A record of state.json never says more of a file than its hash would, whatever
\* pulls were killed and whatever changed on disk (pull.py:113-130).
THEOREM RecordsRight == Spec => []RecordsAreRight
<1>1. Inv => RecordsAreRight
  BY DEF Inv
<1> QED
  BY <1>1, Invariance, PTL

\* Files that local_state calls downloaded (pull.py:136), read one by one while pulls of
\* the same revision go on, are what the registry lists.
THEOREM DownloadedMeansGood == Spec => []DownloadedIsGood
<1>1. Inv => DownloadedIsGood
  BY DEF Inv, LookIsRight, DownloadedIsGood, IsAsListed
<1> QED
  BY <1>1, Invariance, PTL

\* Past its scan a pull leaves no file in place that does not match the revision it
\* has read (pull.py:342).
THEOREM BadFilesGo == Spec => []NothingBadKept
<1>1. Inv => NothingBadKept
  BY DEF Inv, Settled, Running, NothingBadKept
<1> QED
  BY <1>1, Invariance, PTL

\* A pull succeeds only when there is nothing left to download and nothing failed;
\* by then every file its entry lists is recorded as listed.
LEMMA SuccessStep ==
    ASSUME Inv, [Next]_vars, NEW p \in Pulls, at[p] # "done", at'[p] = "done",
           NEW e \in Revisions, entry[p] = e
    PROVE  Downloaded(e)'
<1>1. Done(p)
  <2>1. ASSUME NEW q \in Pulls, Enter(q) \/ Begin(q) \/ Killed(q) \/ AlreadyRunning(q)
        PROVE  FALSE
    BY <2>1 DEF Enter, Begin, Killed, AlreadyRunning, GivesUp, EndAs, Goto, Inv, PullTypes
  <2>2. ASSUME NEW q \in Pulls, NEW f \in Files,
               ScanMissing(q, f) \/ ScanGood(q, f) \/ ScanBad(q, f) \/ StartFile(q, f)
        PROVE  FALSE
    BY <2>2 DEF ScanMissing, ScanGood, ScanBad, StartFile, Goto, Inv, PullTypes
  <2>3. ASSUME NEW q \in Pulls,
               \/ Scanned(q) \/ NoRoom(q) \/ Room(q)
               \/ Complete(q) \/ Resume(q) \/ Oversized(q) \/ Restart(q) \/ Chunk(q)
        PROVE  FALSE
    BY <2>3 DEF Scanned, NoRoom, Room, Complete, Resume, Oversized, Restart, Chunk, EndAs, Goto,
                runVars, Inv, PullTypes
  <2>4. ASSUME NEW q \in Pulls,
               \/ FetchFails(q) \/ FetchRefused(q) \/ ResponseComplete(q) \/ ResponseShort(q)
               \/ ResponseLong(q) \/ Matches(q) \/ Mismatch(q) \/ Place(q) \/ Remember(q)
               \/ SomeMismatched(q)
        PROVE  FALSE
    BY <2>4 DEF FetchFails, FetchRefused, ResponseComplete, ResponseShort, ResponseLong, Matches,
                Mismatch, Place, Remember, SomeMismatched, Again, NextFile, EndAs, Goto, Inv,
                PullTypes
  <2>5. ASSUME NEW q \in Pulls, Done(q)
        PROVE  Done(p)
    BY <2>5 DEF Done, EndAs, Goto, Inv, PullTypes
  <2>6. LookGoesOn => FALSE
    BY DEF LookGoesOn, LookBegins, LookLoads, AllPresent, AllMatch, LooksFor, LookMatches,
           runVars
  <2>7. ASSUME (\E f \in Files : Changed(f)) \/ (\E r \in Revisions : Locked(r))
        PROVE  FALSE
    BY <2>7 DEF Changed, Locked, runVars
  <2>8. Next
    BY DEF vars, runVars
  <2> QED
    BY <2>1, <2>2, <2>3, <2>4, <2>5, <2>6, <2>7, <2>8 DEF Next, Proceeds
<1>2. Running(p) /\ unscanned = {} /\ missing = {} /\ mismatched = {}
  BY <1>1 DEF Done, Inv, Settled, Running
<1>3. \A f \in Listed(e) : known[f] = Entry[e][f] /\ target[f] = Entry[e][f] /\ target[f] # "none"
  BY <1>2, Listing, HashesApart DEF Inv, Settled, CopyIsRight, Wanted
<1>4. failed' = {} /\ verified' = known /\ target' = target
  BY <1>1 DEF Done, SaveAs
<1> QED
  BY <1>3, <1>4 DEF Downloaded

\* A pull that succeeds leaves the files of the revision it has read in place,
\* verified (pull.py:339).
THEOREM SuccessMeansDownloaded == Spec => SuccessDownloads
<1>1. Inv /\ [Next]_vars =>
        [\A p \in Pulls, e \in Revisions :
            at[p] # "done" /\ at'[p] = "done" /\ entry[p] = e => Downloaded(e)']_vars
  BY SuccessStep
<1> QED
  BY <1>1, Invariance, PTL DEF Spec, SuccessDownloads

---------------------------------------------------------------------------
(* A pull that goes on comes nearer its end *)

\* Where a download is within an attempt; the first is that it finds too much.
Stage(p) ==
    IF at[p] = "fetching" /\ Fetched(p) > Size THEN 0
    ELSE IF at[p] = "fetching" THEN 1
    ELSE IF at[p] = "reading" THEN 2
    ELSE IF at[p] = "checking" THEN 3
    ELSE IF at[p] = "placing" THEN 4
    ELSE 5

Downloading(p) == at[p] = "next" \/ WithFile(p)
Shrinks(set, next) == next \subseteq set /\ next # set

\* The pull is over, or it has fewer files to scan or to download, or it is further
\* on with one: at a later attempt, or at a later stage of the same, or with more bytes.
Nearer(p) ==
    \/ at'[p] \in {"idle", "done"}
    \/ at[p] = "scanning" /\ at'[p] = "scanning" /\ Shrinks(unscanned, unscanned')
    \/ at[p] = "scanning" /\ at'[p] = "room"
    \/ at[p] = "room" /\ at'[p] = "next"
    \/ Downloading(p) /\ Downloading(p)' /\ Shrinks(missing, missing')
    \/ at[p] = "next" /\ WithFile(p)' /\ missing' = missing
    \/ /\ WithFile(p) /\ WithFile(p)'
       /\ entry'[p] = entry[p] /\ UNCHANGED <<missing, file>>
       /\ \/ attempt' > attempt
          \/ attempt' = attempt /\ Stage(p)' > Stage(p)
          \/ /\ attempt' = attempt /\ at[p] = "reading" /\ at'[p] = "reading"
             /\ Fetched(p)' > Fetched(p)

\* The rest of the world leaves it where it is.
Undisturbed(p) ==
    at'[p] = at[p] /\ entry'[p] = entry[p] /\ UNCHANGED <<have, lock, memoryVars>>

\* Scanning, and making sure that there is room.
LEMMA ScanNearer ==
    ASSUME Inv, NEW p \in Pulls,
           \/ \E f \in Files : ScanMissing(p, f) \/ ScanGood(p, f) \/ ScanBad(p, f)
           \/ Scanned(p) \/ NoRoom(p) \/ Room(p)
    PROVE  Nearer(p)
<1> USE DEF Inv, PullTypes
<1>1. ASSUME NEW f \in Files, ScanMissing(p, f) \/ ScanGood(p, f) \/ ScanBad(p, f)
      PROVE  Nearer(p)
  <2>1. Shrinks(unscanned, unscanned') /\ at[p] = "scanning" /\ at' = at
    BY <1>1 DEF ScanMissing, ScanGood, ScanBad, Shrinks
  <2> QED
    BY <2>1 DEF Nearer
<1>2. CASE Scanned(p)
  BY <1>2 DEF Scanned, Goto, Nearer
<1>3. CASE NoRoom(p) \/ Room(p)
  BY <1>3 DEF NoRoom, Room, EndAs, Goto, Nearer
<1> QED
  BY <1>1, <1>2, <1>3

\* A file is taken up, and dealt with in the end.
LEMMA FileNearer ==
    ASSUME Inv, NEW p \in Pulls,
           \/ \E f \in Files : StartFile(p, f)
           \/ Mismatch(p) \/ Remember(p) \/ SomeMismatched(p) \/ Done(p)
    PROVE  Nearer(p)
<1> USE DEF Inv, PullTypes
<1>1. ASSUME NEW f \in Files, StartFile(p, f) PROVE Nearer(p)
  BY <1>1 DEF StartFile, Goto, Nearer, WithFile, memoryVars
<1>2. CASE Mismatch(p) \/ Remember(p)
  <2>1. /\ WithFile(p) /\ at'[p] = "next" /\ missing' = missing \ {file}
        /\ missing' \subseteq missing
    BY <1>2 DEF Mismatch, Remember, NextFile, Goto, WithFile
  <2>2. file \in missing
    BY <2>1 DEF Settled, Running, WithFile
  <2> QED
    BY <2>1, <2>2 DEF Nearer, Downloading, Shrinks
<1>3. CASE SomeMismatched(p) \/ Done(p)
  BY <1>3 DEF SomeMismatched, Done, EndAs, Goto, Nearer
<1> QED
  BY <1>1, <1>2, <1>3

\* An attempt goes on, or gives way to the next one.
LEMMA AttemptNearer ==
    ASSUME Inv, NEW p \in Pulls,
           \/ Oversized(p) \/ Complete(p) \/ Resume(p) \/ Restart(p) \/ Chunk(p)
           \/ FetchFails(p) \/ FetchRefused(p) \/ ResponseComplete(p) \/ ResponseShort(p)
           \/ ResponseLong(p) \/ Matches(p) \/ Place(p)
    PROVE  Nearer(p)
<1> USE DEF Inv, PullTypes
<1>1. WithFile(p) /\ Wanted(p, file) \in Contents /\ Fetched(p) \in 0 .. Size + 1
  <2>1. WithFile(p)
    BY DEF Oversized, Complete, Resume, Restart, Chunk, FetchFails, FetchRefused,
           ResponseComplete, ResponseShort, ResponseLong, Matches, Place, WithFile
  <2> QED
    BY <2>1, ItsFile DEF Fetched, DiskTypes
<1>2. CASE FetchFails(p) \/ ResponseShort(p)
  BY <1>1, <1>2, ConstantsAssumption
  DEF FetchFails, ResponseShort, Again, EndAs, Goto, Nearer, WithFile
<1>3. CASE FetchRefused(p) \/ ResponseLong(p)
  BY <1>3 DEF FetchRefused, ResponseLong, EndAs, Goto, Nearer
<1>4. ASSUME /\ entry'[p] = entry[p] /\ UNCHANGED <<missing, file, attempt>> /\ WithFile(p)'
             /\ \/ Stage(p)' > Stage(p)
                \/ at[p] = "reading" /\ at'[p] = "reading" /\ Fetched(p)' > Fetched(p)
      PROVE  Nearer(p)
  BY <1>1, <1>4 DEF Nearer
<1>5. CASE Oversized(p)
  <2>1. /\ at'[p] = "fetching" /\ at[p] = "fetching" /\ UNCHANGED <<entry, missing, file, attempt>>
        /\ Fetched(p) > Size /\ Fetched(p)' = 0
    <3>1. at' = at /\ UNCHANGED <<entry, missing, file, attempt>>
      BY <1>5 DEF Oversized, runVars, memoryVars
    <3>2. Wanted(p, file)' = Wanted(p, file)
      BY <3>1 DEF Wanted
    <3>3. have'[Wanted(p, file)] = 0
      BY <1>1, <1>5 DEF Oversized, SetPartial, DiskTypes
    <3> QED
      BY <1>5, <3>1, <3>2, <3>3 DEF Oversized, Fetched
  <2>2. Stage(p) = 0 /\ Stage(p)' = 1 /\ WithFile(p)'
    BY <2>1, ConstantsAssumption DEF Stage, WithFile
  <2> QED
    BY <2>1, <2>2, <1>4
<1>6. CASE Chunk(p)
  <2>1. /\ at'[p] = "reading" /\ at[p] = "reading" /\ UNCHANGED <<entry, missing, file, attempt>>
        /\ Fetched(p)' = Fetched(p) + 1
    <3>1. at' = at /\ UNCHANGED <<entry, missing, file, attempt>>
      BY <1>6 DEF Chunk, runVars, memoryVars
    <3>2. Wanted(p, file)' = Wanted(p, file)
      BY <3>1 DEF Wanted
    <3>3. have'[Wanted(p, file)] = Fetched(p) + 1
      BY <1>1, <1>6 DEF Chunk, SetPartial, DiskTypes
    <3> QED
      BY <1>6, <3>1, <3>2, <3>3 DEF Chunk, Fetched
  <2> QED
    BY <2>1, <1>1, <1>4, ConstantsAssumption DEF WithFile
<1>7. CASE Complete(p) \/ Resume(p) \/ Restart(p)
  <2>1. /\ at[p] = "fetching" /\ at'[p] \in {"reading", "checking"} /\ Fetched(p) <= Size
        /\ UNCHANGED <<entry, missing, file, attempt>>
    <3>1. Fetched(p) <= Size
      <4>1. Fetched(p) \in Int /\ Size \in Int
        BY <1>1, ConstantsAssumption
      <4>2. Fetched(p) = Size \/ Fetched(p) \in 1 .. Size - 1 \/ Fetched(p) < Size
        BY <1>7 DEF Complete, Resume, Restart
      <4> QED
        BY <4>1, <4>2
    <3> QED
      BY <1>7, <3>1 DEF Complete, Resume, Restart, Goto, memoryVars
  <2>2. Stage(p) = 1
    <3>1. ~(Fetched(p) > Size)
      BY <2>1, <1>1, ConstantsAssumption
    <3> QED
      BY <2>1, <3>1 DEF Stage
  <2>3. Stage(p)' > 1 /\ WithFile(p)'
    BY <2>1 DEF Stage, WithFile
  <2> QED
    BY <2>1, <2>2, <2>3, <1>4
<1>8. CASE ResponseComplete(p) \/ Matches(p) \/ Place(p)
  <2>1. /\ \/ at[p] = "reading" /\ at'[p] = "checking"
           \/ at[p] = "checking" /\ at'[p] = "placing"
           \/ at[p] = "placing" /\ at'[p] = "placed"
        /\ UNCHANGED <<entry, missing, file, attempt>>
    BY <1>8 DEF ResponseComplete, Matches, Place, Goto, memoryVars
  <2>2. Stage(p)' > Stage(p) /\ WithFile(p)'
    BY <2>1 DEF Stage, WithFile
  <2> QED
    BY <2>1, <2>2, <1>4
<1> QED
  BY <1>2, <1>3, <1>5, <1>6, <1>7, <1>8

\* Other commands, serve's look and the user leave a running pull where it is.
LEMMA OthersApart ==
    ASSUME Inv, NEW p \in Pulls, Running(p), [Next]_vars, ~Proceeds(p), ~Killed(p)
    PROVE  Undisturbed(p)
<1> USE DEF Inv, PullTypes
<1>1. lock = p /\ lock # None
  BY ConstantsAssumption DEF OneRuns
<1>2. ASSUME NEW q \in Pulls, q # p, Enter(q) \/ AlreadyRunning(q) PROVE Undisturbed(p)
  BY <1>2 DEF Enter, AlreadyRunning, GivesUp, Goto, Undisturbed, diskVars, memoryVars
<1>3. ASSUME NEW q \in Pulls, q # p, Killed(q) PROVE Undisturbed(p)
  BY <1>1, <1>3 DEF Killed, GivesUp, Goto, Undisturbed, diskVars, memoryVars
<1>4. ASSUME NEW q \in Pulls, q # p, Proceeds(q) PROVE AlreadyRunning(q)
  <2>1. ~Running(q)
    BY <1>4, Alone
  <2>2. ~Begin(q)
    BY <1>1 DEF Begin
  <2> QED
    BY <2>1, <2>2, <1>4
    DEF Proceeds, Running, ScanMissing, ScanGood, ScanBad, StartFile, Scanned, NoRoom, Room,
        Oversized, Complete, Resume, Restart, Chunk, FetchFails, FetchRefused,
        ResponseComplete, ResponseShort, ResponseLong, Matches, Mismatch, Place, Remember,
        SomeMismatched, Done
<1>5. ASSUME Enter(p) PROVE FALSE
  BY <1>5 DEF Enter, Running
<1>6. CASE LookGoesOn
  BY <1>6
  DEF LookGoesOn, LookBegins, LookLoads, LooksFor, AllPresent, LookMatches, AllMatch, diskVars,
      runVars, Undisturbed
<1>7. ASSUME NEW f \in Files, Changed(f) PROVE FALSE
  BY <1>1, <1>7 DEF Changed
<1>8. ASSUME NEW e \in Revisions, Locked(e) PROVE Undisturbed(p)
  BY <1>8 DEF Locked, diskVars, runVars, Undisturbed
<1>9. CASE UNCHANGED vars
  BY <1>9 DEF vars, diskVars, runVars, Undisturbed
<1> QED
  BY <1>2, <1>3, <1>4, <1>5, <1>6, <1>7, <1>8, <1>9 DEF Next

\* Every step of a pull brings it nearer its end, and no step of anybody else sends it
\* back: sets of files shrink, attempts are counted up to RETRIES, and an attempt only
\* goes forward (pull.py:248-293, 397-414).  So no pull turns in a circle, however the
\* network fails: what PullEnds needs beside fairness.
NeverTurnsBack ==
    [][\A p \in Pulls : Running(p) =>
          /\ Proceeds(p) => Nearer(p)
          /\ Nearer(p) \/ Undisturbed(p)]_vars

\* With finitely many files a pull has finitely many steps before it (pull.py:248-293):
\* one of the measures of Nearer falls at each, and the ones before it stay.
THEOREM PullsComeNearer == Spec => NeverTurnsBack
<1>1. ASSUME Inv, [Next]_vars, NEW p \in Pulls, Running(p)
      PROVE  (Proceeds(p) => Nearer(p)) /\ (Nearer(p) \/ Undisturbed(p))
  <2>1. Proceeds(p) => Nearer(p)
    <3>1. ~AlreadyRunning(p) /\ ~Begin(p)
      BY <1>1 DEF AlreadyRunning, Begin, Running
    <3> QED
      BY <1>1, <3>1, ScanNearer, FileNearer, AttemptNearer DEF Proceeds
  <2>2. Killed(p) => Nearer(p)
    BY <1>1 DEF Killed, EndAs, GivesUp, Goto, Nearer, Inv, PullTypes
  <2> QED
    BY <1>1, <2>1, <2>2, OthersApart
<1>2. Inv /\ [Next]_vars =>
         [\A p \in Pulls : Running(p) =>
             /\ Proceeds(p) => Nearer(p)
             /\ Nearer(p) \/ Undisturbed(p)]_vars
  BY <1>1
<1> QED
  BY <1>2, Invariance, PTL DEF Spec, NeverTurnsBack

=============================================================================
