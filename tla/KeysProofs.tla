----------------------------- MODULE KeysProofs -----------------------------
(***************************************************************************)
(* Proofs about Keys, for all sets of commands, names and bounds: the      *)
(* properties of the run, and that commands and checks take effect at one  *)
(* moment.                                                                 *)
(***************************************************************************)
EXTENDS Keys, TLAPS

---------------------------------------------------------------------------
(* The commands and the file                                               *)

CommandTypes ==
    /\ at \in [Commands -> {"idle", "saving", "done", "failed", "killed"}]
    /\ loaded \in [Commands -> SUBSET Creates]
    /\ entries \subseteq Creates

\* A command that is about to save holds the lock, and has read what the file
\* still holds.
ReadUnderLock == \A c \in Commands : at[c] = "saving" => lock = c /\ loaded[c] = entries

RevokedWasCreated == revoked \subseteq {c \in Creates : at[c] = "done"}

BooksInv == CommandTypes /\ ReadUnderLock /\ RevokedWasCreated /\ Books

\* No key, and no command under way.
LEMMA BooksInit == Init => BooksInv
  BY CommandsAssumption
  DEF Init, BooksInv, CommandTypes, ReadUnderLock, RevokedWasCreated, Books, Commands

\* Saving: the lock is ours, so what was read is what the file holds.
LEMMA SaveBooks ==
    ASSUME BooksInv, NEW c \in Commands, Save(c)
    PROVE  BooksInv'
<1>1. at[c] = "saving" /\ lock = c /\ loaded[c] = entries
  BY DEF Save, BooksInv, ReadUnderLock
<1>2. entries \subseteq Creates /\ Named(c) \subseteq entries
  BY <1>1 DEF BooksInv, CommandTypes, Named
<1>3. CommandTypes'
  BY <1>1, <1>2 DEF Save, BooksInv, CommandTypes
<1>4. ReadUnderLock'
  BY <1>1, CommandsAssumption DEF Save, BooksInv, CommandTypes, ReadUnderLock
<1>5. CASE c \in Creates
  <2>1. /\ entries' = entries \cup {c} /\ revoked' = revoked
        /\ at' = [at EXCEPT ![c] = "done"]
    BY <1>1, <1>5 DEF Save
  <2>2. {d \in Creates : at'[d] = "done"} = {d \in Creates : at[d] = "done"} \cup {c}
    BY <2>1, <1>5 DEF BooksInv, CommandTypes, Commands
  <2>3. c \notin revoked
    BY <1>1 DEF BooksInv, RevokedWasCreated
  <2> QED
    BY <1>3, <1>4, <2>1, <2>2, <2>3 DEF BooksInv, RevokedWasCreated, Books
<1>6. CASE c \notin Creates
  <2>1. /\ entries' = entries \ Named(c) /\ revoked' = revoked \cup Named(c)
        /\ at' = [at EXCEPT ![c] = "done"]
    BY <1>1, <1>6 DEF Save
  <2>2. {d \in Creates : at'[d] = "done"} = {d \in Creates : at[d] = "done"}
    BY <2>1, <1>6 DEF BooksInv, CommandTypes, Commands
  <2> QED
    BY <1>2, <1>3, <1>4, <2>1, <2>2 DEF BooksInv, RevokedWasCreated, Books
<1> QED
  BY <1>5, <1>6

\* Beginning, refusing and being killed leave the file as it is.
LEMMA CommandBooks ==
    ASSUME BooksInv, NEW c \in Commands, Begin(c) \/ Refused(c) \/ Killed(c)
    PROVE  BooksInv'
<1> USE DEF Begin, Refused, Killed, fileVars
<1>1. CommandTypes'
  BY DEF BooksInv, CommandTypes
<1>2. ReadUnderLock'
  BY CommandsAssumption DEF BooksInv, CommandTypes, ReadUnderLock
<1>3. {d \in Creates : at'[d] = "done"} = {d \in Creates : at[d] = "done"}
  BY DEF BooksInv, CommandTypes, Commands, ReadUnderLock
<1> QED
  BY <1>1, <1>2, <1>3 DEF BooksInv, RevokedWasCreated, Books

\* Nothing else touches the entries, and no step breaks the books.
LEMMA BooksNext == BooksInv /\ [Next]_vars => BooksInv'
<1> SUFFICES ASSUME BooksInv, [Next]_vars
             PROVE  BooksInv'
  OBVIOUS
<1>1. CASE /\ UNCHANGED <<entries, at, loaded, lock, revoked>>
  BY <1>1 DEF BooksInv, CommandTypes, ReadUnderLock, RevokedWasCreated, Books
<1>2. ASSUME \/ UNCHANGED vars \/ Load \/ LoadFails \/ Answered \/ Edit
             \/ \E k \in Creates : CheckUnchanged(k) \/ CheckChanged(k)
      PROVE  UNCHANGED <<entries, at, loaded, lock, revoked>>
  BY <1>2 DEF vars, Load, LoadFails, Answered, Edit, CheckUnchanged, CheckChanged, fileVars,
              commandVars
<1> QED
  BY <1>1, <1>2, SaveBooks, CommandBooks DEF Next

\* "create" and "revoke" commands that overlap or are killed lose no key and bring
\* none back (keys.py:107-143).
THEOREM KeysAreKept == Spec => []Books
<1>1. BooksInv => Books
  BY DEF BooksInv
<1> QED
  BY <1>1, BooksInit, BooksNext, PTL DEF Spec

---------------------------------------------------------------------------
(* The copy in the gateway *)

StoreTypes ==
    /\ version \in Nat /\ stamp \in Nat /\ seen \in Nat /\ errors \in Nat
    /\ check \in {"idle", "stat", "answered"}

\* A copy whose stamp is the file's says nothing the file does not say, and all
\* of it unless reading failed.
CopyMatches ==
    /\ stamp <= version /\ seen <= version
    /\ stamp = version =>
        /\ hashes \subseteq Valid
        /\ errors = 0 => hashes = Valid

\* The history variables of the check that is under way.
Witnessed == check # "idle" => Valid \subseteq ever /\ always \subseteq Valid

AnswerInTime == check # "answered" => answer = "none"

StoreInv ==
    StoreTypes /\ CopyMatches /\ Witnessed /\ AnswerInTime /\ RevokedIsRejected /\ CreatedIsAccepted

\* There is no file, no copy and no check.
LEMMA StoreInit == Init => StoreInv
  BY DEF Init, StoreInv, StoreTypes, CopyMatches, Witnessed, AnswerInTime, RevokedIsRejected,
         CreatedIsAccepted, Valid

\* The file changes: its stamp is new, so no copy is taken for it.
LEMMA FileChangesStore ==
    ASSUME StoreInv, FileChanges, UNCHANGED storeVars
    PROVE  StoreInv'
<1> USE DEF FileChanges, storeVars
<1>1. StoreTypes' /\ CopyMatches' /\ AnswerInTime'
  BY DEF StoreInv, StoreTypes, CopyMatches, AnswerInTime
<1>2. Witnessed'
  BY DEF StoreInv, Witnessed
<1>3. RevokedIsRejected' /\ CreatedIsAccepted'
  BY DEF StoreInv, RevokedIsRejected, CreatedIsAccepted
<1> QED
  BY <1>1, <1>2, <1>3 DEF StoreInv

\* A check begins: the copy decides if its stamp is the file's.
LEMMA CheckStore ==
    ASSUME StoreInv, NEW k \in Creates, CheckUnchanged(k) \/ CheckChanged(k)
    PROVE  StoreInv'
<1> USE DEF CheckUnchanged, CheckChanged, Decide, fileVars, commandVars
<1>1. Valid' = Valid
  BY DEF Valid
<1>2. StoreTypes' /\ CopyMatches' /\ Witnessed'
  BY <1>1 DEF StoreInv, StoreTypes, CopyMatches, Witnessed
<1>3. AnswerInTime' /\ RevokedIsRejected' /\ CreatedIsAccepted'
  BY <1>1 DEF StoreInv, StoreTypes, CopyMatches, AnswerInTime, RevokedIsRejected,
              CreatedIsAccepted
<1> QED
  BY <1>2, <1>3 DEF StoreInv

\* The file is read after its stamp was taken: if it changed in between, the
\* stamp that is kept is not the file's.
LEMMA LoadStore ==
    ASSUME StoreInv, Load \/ LoadFails
    PROVE  StoreInv'
<1> USE DEF Load, LoadFails, Decide, fileVars, commandVars
<1>1. Valid' = Valid
  BY DEF Valid
<1>2. StoreTypes' /\ CopyMatches' /\ Witnessed'
  BY <1>1 DEF StoreInv, StoreTypes, CopyMatches, Witnessed
<1>3. AnswerInTime' /\ RevokedIsRejected' /\ CreatedIsAccepted'
  BY <1>1 DEF StoreInv, StoreTypes, Witnessed, AnswerInTime, RevokedIsRejected,
              CreatedIsAccepted
<1> QED
  BY <1>2, <1>3 DEF StoreInv

\* The commands do not touch the gateway's copy; only saving changes the file.
LEMMA StoreNext == StoreInv /\ [Next]_vars => StoreInv'
<1> SUFFICES ASSUME StoreInv, [Next]_vars
             PROVE  StoreInv'
  OBVIOUS
<1>1. CASE UNCHANGED <<fileVars, storeVars, ever, always>>
  BY <1>1 DEF fileVars, storeVars, StoreInv, StoreTypes, CopyMatches, Witnessed, AnswerInTime,
              RevokedIsRejected, CreatedIsAccepted, Valid
<1>2. ASSUME UNCHANGED vars \/ \E c \in Commands : Begin(c) \/ Refused(c) \/ Killed(c)
      PROVE  UNCHANGED <<fileVars, storeVars, ever, always>>
  BY <1>2 DEF vars, Begin, Refused, Killed
<1>3. ASSUME Edit \/ \E c \in Commands : Save(c)
      PROVE  FileChanges /\ UNCHANGED storeVars
  BY <1>3 DEF Edit, Save
<1>4. CASE Answered
  BY <1>4 DEF Answered, fileVars, commandVars, StoreInv, StoreTypes, CopyMatches, Witnessed,
              AnswerInTime, RevokedIsRejected, CreatedIsAccepted, Valid
<1> QED
  BY <1>1, <1>2, <1>3, <1>4, FileChangesStore, CheckStore, LoadStore DEF Next

\* The invariant of the copy holds in every state.
LEMMA StoreInvariance == Spec => []StoreInv
  BY StoreInit, StoreNext, PTL DEF Spec

\* A key is accepted only if it was valid at some moment of the check: a revoked key
\* is not accepted by any check that begins later (keys.py:154-180).
THEOREM RevokedKeysAreRejected == Spec => []RevokedIsRejected
<1>1. StoreInv => RevokedIsRejected
  BY DEF StoreInv
<1> QED
  BY <1>1, StoreInvariance, PTL

\* While the gateway can read the file, a key that was valid all through a check is
\* accepted (keys.py:7-8).
THEOREM CreatedKeysAreAccepted == Spec => []CreatedIsAccepted
<1>1. StoreInv => CreatedIsAccepted
  BY DEF StoreInv
<1> QED
  BY <1>1, StoreInvariance, PTL

---------------------------------------------------------------------------
(* Commands and checks take effect at one moment *)

\* "a key named ... already exists; revoke it first" (keys.py:130): a name in the file
\* is one key's, so revoking it takes out one key.
NamesAreUnique == \A d, e \in entries : NameOf[d] = NameOf[e] => d = e

\* The keys of a command's name in the file as it is.
Current(c) == {e \in entries : NameOf[e] = NameOf[c]}

\* A command changes the file as it is in that moment, not as it was when the command
\* read it (keys.py:107-143): "create" adds its key to a file without the name,
\* "revoke" takes out the keys of its name, of which there are some.  Nothing else
\* changes the keys.
CommandsAreAtomic ==
    [][/\ \A c \in Commands : at[c] # "done" /\ at'[c] = "done" =>
             IF c \in Creates
             THEN Current(c) = {} /\ entries' = entries \cup {c}
             ELSE Current(c) # {} /\ entries' = entries \ Current(c)
       /\ entries' # entries => \E c \in Commands : at[c] # "done" /\ at'[c] = "done"]_vars

\* The answer to a check is right of the file in the moment in which it is decided
\* (keys.py:154-180), although the copy and its stamp are older: an accepted key is in
\* the file then and not revoked, and a rejected one is not in it unless a read failed.
AnswersAreTrue ==
    [][check # "answered" /\ check' = "answered" =>
          /\ answer' = "accepted" => asked' \in Valid \ revoked
          /\ answer' = "rejected" /\ errors' = 0 => asked' \notin Valid]_vars

\* What a command found in the file allows it to save.
ReadAllows ==
    \A c \in Commands : at[c] = "saving" =>
        IF c \in Creates THEN Named(c) = {} ELSE Named(c) # {}

NamesInv == ReadAllows /\ NamesAreUnique

\* Only a command that has just read the file comes to save.
LEMMA NamesNext == BooksInv /\ NamesInv /\ [Next]_vars => NamesInv'
<1> SUFFICES ASSUME BooksInv, NamesInv, [Next]_vars PROVE NamesInv'
  OBVIOUS
<1>1. CASE UNCHANGED <<entries, at, loaded>>
  BY <1>1 DEF NamesInv, ReadAllows, NamesAreUnique, Named
<1>2. ASSUME \/ UNCHANGED vars \/ Load \/ LoadFails \/ Answered \/ Edit
             \/ \E k \in Creates : CheckUnchanged(k) \/ CheckChanged(k)
      PROVE  UNCHANGED <<entries, at, loaded>>
  BY <1>2 DEF vars, Load, LoadFails, Answered, Edit, CheckUnchanged, CheckChanged, fileVars,
              commandVars
<1>3. ASSUME NEW c \in Commands, Begin(c) PROVE NamesInv'
  <2>1. /\ entries' = entries /\ loaded'[c] = entries
        /\ \A d \in Commands \ {c} : at'[d] = at[d] /\ loaded'[d] = loaded[d]
    BY <1>3 DEF Begin, fileVars, BooksInv, CommandTypes
  <2>2. IF c \in Creates THEN Named(c)' = {} ELSE Named(c)' # {}
    BY <1>3, <2>1 DEF Begin, Refuses, Named, Commands
  <2>3. \A d \in Commands \ {c} : Named(d)' = Named(d)
    BY <2>1 DEF Named
  <2> QED
    BY <2>1, <2>2, <2>3 DEF NamesInv, ReadAllows, NamesAreUnique
<1>4. ASSUME NEW c \in Commands, Refused(c) \/ Killed(c) PROVE NamesInv'
  <2>1. /\ UNCHANGED <<entries, loaded>>
        /\ \A d \in Commands : at'[d] = "saving" => at[d] = "saving"
    BY <1>4 DEF Refused, Killed, fileVars, BooksInv, CommandTypes
  <2> QED
    BY <2>1 DEF NamesInv, ReadAllows, NamesAreUnique, Named
<1>5. ASSUME NEW c \in Commands, Save(c) PROVE NamesInv'
  <2>1. /\ loaded' = loaded /\ loaded[c] = entries /\ at[c] = "saving"
        /\ \A d \in Commands : at'[d] = "saving" => at[d] = "saving"
    BY <1>5 DEF Save, BooksInv, CommandTypes, ReadUnderLock
  <2>2. ReadAllows'
    BY <2>1 DEF NamesInv, ReadAllows, Named
  <2>3. entries' \subseteq entries \cup {c} /\ (c \in entries' => Named(c) = {} \/ c \in entries)
    BY <1>5, <2>1 DEF Save, NamesInv, ReadAllows
  <2>4. NamesAreUnique'
    BY <2>1, <2>3 DEF NamesInv, NamesAreUnique, Named
  <2> QED
    BY <2>2, <2>4 DEF NamesInv
<1> QED
  BY <1>1, <1>2, <1>3, <1>4, <1>5 DEF Next

\* Both invariants of the commands hold in every state.
LEMMA NamesInvariance == Spec => [](BooksInv /\ NamesInv)
<1>1. Init => NamesInv
  BY DEF Init, NamesInv, ReadAllows, NamesAreUnique
<1> QED
  BY <1>1, BooksInit, BooksNext, NamesNext, PTL DEF Spec

\* Create commands that overlap never put two keys of one name in the file
\* (keys.py:125-127).
THEOREM OneKeyPerName == Spec => []NamesAreUnique
<1>1. NamesInv => NamesAreUnique
  BY DEF NamesInv
<1> QED
  BY <1>1, NamesInvariance, PTL

\* Create and revoke are one step each on the keys in the file, however they overlap
\* with others, are killed, or see the file edited (keys.py:107-143).
THEOREM CommandsTakeEffectAtOnce == Spec => CommandsAreAtomic
<1>1. ASSUME BooksInv, NamesInv, NEW c \in Commands, Save(c)
      PROVE  /\ at[c] # "done"
             /\ IF c \in Creates
                THEN Current(c) = {} /\ entries' = entries \cup {c}
                ELSE Current(c) # {} /\ entries' = entries \ Current(c)
             /\ \A d \in Commands \ {c} : at'[d] = at[d]
             /\ at'[c] = "done"
  <2>1. at[c] = "saving" /\ loaded[c] = entries
    BY <1>1 DEF Save, BooksInv, ReadUnderLock
  <2>2. Current(c) = Named(c)
    BY <2>1 DEF Current, Named
  <2> QED
    BY <1>1, <2>1, <2>2 DEF Save, BooksInv, CommandTypes, NamesInv, ReadAllows
<1>2. ASSUME BooksInv, [Next]_vars, \A c \in Commands : ~Save(c)
      PROVE  entries' = entries /\ \A c \in Commands : at'[c] = "done" => at[c] = "done"
  <2>1. ASSUME NEW c \in Commands, Begin(c) \/ Refused(c) \/ Killed(c)
        PROVE  entries' = entries /\ \A d \in Commands : at'[d] = "done" => at[d] = "done"
    BY <1>2, <2>1 DEF Begin, Refused, Killed, fileVars, BooksInv, CommandTypes
  <2>2. ASSUME \/ UNCHANGED vars \/ Load \/ LoadFails \/ Answered \/ Edit
               \/ \E k \in Creates : CheckUnchanged(k) \/ CheckChanged(k)
        PROVE  UNCHANGED <<entries, at>>
    BY <2>2 DEF vars, Load, LoadFails, Answered, Edit, CheckUnchanged, CheckChanged, fileVars,
                commandVars
  <2> QED
    BY <1>2, <2>1, <2>2 DEF Next
<1> DEFINE Atomic ==
      /\ \A c \in Commands : at[c] # "done" /\ at'[c] = "done" =>
             IF c \in Creates
             THEN Current(c) = {} /\ entries' = entries \cup {c}
             ELSE Current(c) # {} /\ entries' = entries \ Current(c)
      /\ entries' # entries => \E c \in Commands : at[c] # "done" /\ at'[c] = "done"
<1>3. ASSUME BooksInv, NamesInv, [Next]_vars PROVE Atomic
  <2>1. CASE \E c \in Commands : Save(c)
    <3>1. PICK c \in Commands : Save(c)
      BY <2>1
    <3> QED
      BY <1>1, <1>3, <3>1
  <2>2. CASE \A c \in Commands : ~Save(c)
    BY <1>2, <1>3, <2>2
  <2> QED
    BY <2>1, <2>2
<1>4. BooksInv /\ NamesInv /\ [Next]_vars => [Atomic]_vars
  BY <1>3
<1> QED
  BY <1>4, NamesInvariance, PTL DEF Spec, CommandsAreAtomic

\* The gateway's answers could have been given from the file itself, in the moment in
\* which it decides (keys.py:154-180): checks of revoked keys fail from the step that
\* revokes them on, and those of new keys succeed, unless a read failed.
THEOREM ChecksDecideRightly == Spec => AnswersAreTrue
<1> DEFINE True == check # "answered" /\ check' = "answered" =>
          /\ answer' = "accepted" => asked' \in Valid \ revoked
          /\ answer' = "rejected" /\ errors' = 0 => asked' \notin Valid
<1>1. ASSUME BooksInv, StoreInv, [Next]_vars PROVE True
  <2>1. Valid \cap revoked = {}
    BY <1>1 DEF BooksInv, Books, Valid
  <2>2. ASSUME NEW k \in Creates, CheckUnchanged(k) PROVE True
    BY <1>1, <2>1, <2>2 DEF CheckUnchanged, Decide, StoreInv, StoreTypes, CopyMatches
  <2>3. CASE Load
    BY <2>1, <2>3 DEF Load, Decide
  <2>4. CASE LoadFails
    BY <1>1, <2>4 DEF LoadFails, Decide, StoreInv, StoreTypes
  <2>5. ASSUME \/ UNCHANGED vars \/ Answered \/ Edit
               \/ \E k \in Creates : CheckChanged(k)
               \/ \E c \in Commands : Begin(c) \/ Refused(c) \/ Save(c) \/ Killed(c)
        PROVE  check' # "answered" \/ check' = check
    BY <2>5 DEF vars, Answered, Edit, CheckChanged, Begin, Refused, Save, Killed, storeVars
  <2> QED
    BY <1>1, <2>2, <2>3, <2>4, <2>5 DEF Next
<1>2. BooksInv /\ StoreInv /\ [Next]_vars => [True]_vars
  BY <1>1
<1> QED
  BY <1>2, NamesInvariance, StoreInvariance, PTL DEF Spec, AnswersAreTrue

=============================================================================
