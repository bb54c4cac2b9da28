----------------------------- MODULE BlobStore ------------------------------
(***************************************************************************)
(* The store of message bodies and its garbage collector.  The store is    *)
(* shared by all accounts and content-addressed; Put writes a body only    *)
(* when its file is not there.  Manager.GCBlobs collects the bodies that   *)
(* the open accounts reference, then those of the other account            *)
(* directories, lists the store, and deletes what is neither referenced    *)
(* nor younger than the grace period.  No lock spans the pass: deliveries, *)
(* expunges, compactions and openings of accounts go on all the time.      *)
(*                                                                         *)
(* An account's references are on disk as a snapshot and the events since: *)
(* `since' has the bodies of the messages whose Ingest is in the log.      *)
(*                                                                         *)
(* A body's file is "young" until the grace period has passed over it.     *)
(* The model assumes what the grace period is chosen for: an Ingest gets   *)
(* from Put to its append, and a pass from its first read to its cutoff,   *)
(* in less than that time (WithinGrace).                                   *)
(***************************************************************************)
EXTENDS Naturals, FiniteSets

CONSTANTS Acct, Body,
          MaxFaults  \* bound on unreadable logs and snapshots and on restarts

ASSUME MaxFaultsAssumption == MaxFaults \in Nat

VARIABLES
  file,    \* Body -> "absent", "young" or "old"
  refs,    \* LiveBlobRefs of each account
  snapped, \* the references in each account's snapshot
  since,   \* the references of its log alone
  made,    \* accounts with a directory
  opened,  \* Manager.accounts
  holds,   \* Ingests between their Put and their lock: [acct, body, wrote]
  pc,      \* where the collector is
  openDirs, todo,  \* openDirs, and the accounts it still has to read
  reading, \* the account whose snapshot the throwaway runtime has loaded, if any
  base,    \* what it found there
  torn,    \* the log no longer goes on from there
  mark,    \* live
  doomed,  \* what the listing leaves to be deleted
  faults,
  recent,  \* bodies written since the pass began
  sound,   \* history: see SoundRefsAreStored
  missed   \* history: the sound references that a torn read left out

disk == <<snapped, since>>
store == <<file, refs, disk, made, opened, holds, recent>>
throwaway == <<reading, base, torn>>
gc == <<pc, openDirs, todo, throwaway, mark, doomed, faults>>
history == <<sound, missed>>
blobVars == <<store, gc, history>>

BlobInit ==
  /\ file = [b \in Body |-> "absent"]
  /\ refs = [a \in Acct |-> {}]
  /\ snapped = [a \in Acct |-> {}] /\ since = [a \in Acct |-> {}]
  /\ made = {} /\ opened = {} /\ holds = {}
  /\ pc = "sleep" /\ openDirs = {} /\ todo = {} /\ mark = {} /\ doomed = {}
  /\ reading = {} /\ base = {} /\ torn = FALSE
  /\ faults = 0 /\ recent = {} /\ sound = {} /\ missed = {}

-----------------------------------------------------------------------------
(* Accounts and deliveries.                                                *)

\* Manager.account: the first use makes the directory and caches the runtime.
Open(a) ==
  /\ a \notin opened
  /\ opened' = opened \cup {a} /\ made' = made \cup {a}
  /\ UNCHANGED <<file, refs, disk, holds, recent, gc, history>>

\* FS.Put; a file that is there is left as it is, its age too.
Put(a, b) ==
  /\ a \in opened
  /\ \A h \in holds : h.acct # a
  /\ file' = [file EXCEPT ![b] = IF @ = "absent" THEN "young" ELSE @]
  /\ recent' = IF file[b] = "absent" THEN recent \cup {b} ELSE recent
  /\ holds' = holds \cup {[acct |-> a, body |-> b, wrote |-> file[b] = "absent"]}
  /\ UNCHANGED <<refs, disk, made, opened, gc, history>>

\* The rest of Ingest: the event is appended and the body referenced.
Commit(h) ==
  /\ holds' = holds \ {h}
  /\ refs' = [refs EXCEPT ![h.acct] = @ \cup {h.body}]
  /\ since' = [since EXCEPT ![h.acct] = @ \cup {h.body}]
  /\ sound' = IF h.wrote THEN sound \cup {<<h.acct, h.body>>} ELSE sound
  /\ missed' = IF h.wrote THEN missed \ {<<h.acct, h.body>>} ELSE missed
  /\ UNCHANGED <<file, snapped, made, opened, recent, gc>>

\* Ingest returns early, as a duplicate or with an error of the log.
Abandon(h) ==
  /\ holds' = holds \ {h}
  /\ UNCHANGED <<file, refs, disk, made, opened, recent, gc, history>>

\* The last message of the account with that body goes.
ExpungeLast(a, b) ==
  /\ a \in opened /\ b \in refs[a]
  /\ refs' = [refs EXCEPT ![a] = @ \ {b}]
  /\ since' = [since EXCEPT ![a] = @ \ {b}]
  /\ sound' = sound \ {<<a, b>>}
  /\ UNCHANGED <<file, snapped, made, opened, holds, recent, gc, missed>>

\* Runtime.Compact of an account that CompactAll found open: the snapshot is replaced
\* and the log cut.
Compact(a) ==
  /\ a \in opened
  /\ snapped' = [snapped EXCEPT ![a] = refs[a]]
  /\ since' = [since EXCEPT ![a] = {}]
  /\ torn' = (torn \/ a \in reading)
  /\ UNCHANGED <<file, refs, made, opened, holds, recent, pc, openDirs, todo, reading, base, mark, doomed, faults, history>>

\* The grace period passes over a body.
WithinGrace(b) ==
  /\ b \notin recent
  /\ \A h \in holds : h.body = b => ~h.wrote
Age(b) ==
  /\ file[b] = "young" /\ WithinGrace(b)
  /\ file' = [file EXCEPT ![b] = "old"]
  /\ UNCHANGED <<refs, disk, made, opened, holds, recent, gc, history>>

-----------------------------------------------------------------------------
(* The collector.                                                          *)

\* Under the manager's lock: which accounts are open.
GCBegin ==
  /\ pc = "sleep"
  /\ openDirs' = opened /\ todo' = opened
  /\ mark' = {}
  /\ recent' = {b \in Body : \E h \in holds : h.body = b /\ h.wrote}
  /\ sound' = {s \in Acct \X Body : s[2] \in refs[s[1]] /\ file[s[2]] # "absent"}
  /\ missed' = {}
  /\ pc' = "open"
  /\ UNCHANGED <<file, refs, disk, made, opened, holds, throwaway, doomed, faults>>

\* LiveBlobRefs of a runtime, under that runtime's lock.
MarkOpen(a) ==
  /\ pc = "open" /\ a \in todo
  /\ mark' = mark \cup refs[a] /\ todo' = todo \ {a}
  /\ UNCHANGED <<store, pc, openDirs, throwaway, doomed, faults, history>>

\* Mutant of ReadDir: accounts that are not open are passed over.
ReadDirOpenOnly ==
  /\ pc = "open" /\ todo = {}
  /\ todo' = {}
  /\ pc' = "disk"
  /\ UNCHANGED <<store, openDirs, throwaway, mark, doomed, faults, history>>

\* The account directories that were not open then.
ReadDir ==
  /\ pc = "open" /\ todo = {}
  /\ todo' = made \ openDirs
  /\ pc' = "disk"
  /\ UNCHANGED <<store, openDirs, throwaway, mark, doomed, faults, history>>

\* openProjection of a throwaway runtime, its first half: the snapshot is loaded.
\* Somebody may have opened the account in the meantime.
LoadSnapshot(a) ==
  /\ pc = "disk" /\ a \in todo /\ reading = {}
  /\ reading' = {a} /\ base' = snapped[a] /\ torn' = FALSE
  /\ UNCHANGED <<store, pc, openDirs, todo, mark, doomed, faults, history>>

\* The snapshot cannot be read: openProjection makes do with what the log has.
LoadFails(a) ==
  /\ pc = "disk" /\ a \in todo /\ reading = {}
  /\ faults < MaxFaults /\ faults' = faults + 1
  /\ reading' = {a} /\ base' = {} /\ torn' = TRUE
  /\ UNCHANGED <<store, pc, openDirs, todo, mark, doomed, history>>

\* Its second half, without a lock in common with the first: the log as it is now,
\* and the references of what comes out.
Loaded(a) ==
  /\ a \in reading /\ todo' = todo \ {a}
  /\ reading' = {} /\ base' = {} /\ torn' = FALSE
  /\ UNCHANGED <<store, pc, openDirs, doomed, faults, sound>>
MarkDisk(a) ==
  /\ ~torn /\ Loaded(a)
  /\ mark' = mark \cup refs[a]
  /\ UNCHANGED missed

\* The log was cut in between: what went into the newer snapshot is not seen.  The
\* events that are left may have expunged some of what is in the older one.
MarkTorn(a) ==
  /\ torn /\ Loaded(a)
  /\ \E kept \in SUBSET base : mark' = mark \cup since[a] \cup kept
  /\ missed' = missed \cup {s \in sound : s[1] = a /\ s[2] \notin mark' \cup recent}

\* A log that cannot be read ends the pass.
MarkFails(a) ==
  /\ pc = "disk" /\ a \in todo
  /\ faults < MaxFaults /\ faults' = faults + 1
  /\ pc' = "sleep" /\ recent' = {}
  /\ reading' = {} /\ base' = {} /\ torn' = FALSE
  /\ UNCHANGED <<file, refs, disk, made, opened, holds, history, openDirs, todo, mark, doomed>>

\* ListBlobs and the cutoff.
ListBlobs ==
  /\ pc = "disk" /\ todo = {}
  /\ doomed' = {b \in Body : file[b] = "old"} \ mark
  /\ pc' = "sweep" /\ recent' = {}
  /\ UNCHANGED <<file, refs, disk, made, opened, holds, history, openDirs, todo, throwaway, mark, faults>>

Delete(b) ==
  /\ pc = "sweep" /\ b \in doomed
  /\ doomed' = doomed \ {b}
  /\ file' = [file EXCEPT ![b] = "absent"]
  /\ UNCHANGED <<refs, disk, made, opened, holds, recent, history, pc, openDirs, todo, throwaway, mark, faults>>

\* Mutant of GCEnd: the loop is left.
GCStops ==
  /\ pc = "sweep" /\ doomed = {}
  /\ pc' = "stopped"
  /\ UNCHANGED <<store, openDirs, todo, throwaway, mark, doomed, faults, history>>

GCEnd ==
  /\ pc = "sweep" /\ doomed = {}
  /\ pc' = "sleep"
  /\ UNCHANGED <<store, openDirs, todo, throwaway, mark, doomed, faults, history>>

\* The process restarts: runtimes, Ingests and the pass are gone.
Restart ==
  /\ faults < MaxFaults /\ faults' = faults + 1
  /\ opened' = {} /\ holds' = {}
  /\ pc' = "sleep" /\ openDirs' = {} /\ todo' = {} /\ mark' = {} /\ doomed' = {}
  /\ reading' = {} /\ base' = {} /\ torn' = FALSE
  /\ recent' = {}
  /\ UNCHANGED <<file, refs, disk, made, history>>

Clients ==
  \/ \E a \in Acct : Open(a)
  \/ \E a \in Acct, b \in Body : Put(a, b)
  \/ \E h \in holds : Commit(h)
  \/ \E h \in holds : Abandon(h)
  \/ \E a \in Acct, b \in Body : ExpungeLast(a, b)
  \/ \E a \in Acct : Compact(a)
  \/ Restart

Collect ==
  \/ GCBegin \/ ReadDir \/ ListBlobs \/ GCEnd
  \/ \E a \in Acct : MarkOpen(a)
  \/ \E a \in Acct : LoadSnapshot(a)
  \/ \E a \in Acct : MarkDisk(a)
  \/ \E a \in Acct : MarkTorn(a)
  \/ \E b \in Body : Delete(b)

BlobNext ==
  \/ Clients
  \/ Collect
  \/ \E a \in Acct : LoadFails(a)
  \/ \E a \in Acct : MarkFails(a)
  \/ \E b \in Body : Age(b)

BlobSpec == BlobInit /\ [][BlobNext]_blobVars

-----------------------------------------------------------------------------
(* Properties.                                                             *)

Referenced(b) == \E a \in Acct : b \in refs[a]

BlobTypeOK ==
  /\ file \in [Body -> {"absent", "young", "old"}]
  /\ refs \in [Acct -> SUBSET Body]
  /\ snapped \in [Acct -> SUBSET Body] /\ since \in [Acct -> SUBSET Body]
  /\ made \in SUBSET Acct /\ opened \in SUBSET made
  /\ holds \in SUBSET [acct : Acct, body : Body, wrote : BOOLEAN]
  /\ pc \in {"sleep", "open", "disk", "sweep"}
  /\ openDirs \in SUBSET Acct /\ todo \in SUBSET made
  /\ reading \in SUBSET todo /\ base \in SUBSET Body /\ torn \in BOOLEAN
  /\ mark \in SUBSET Body /\ doomed \in SUBSET Body
  /\ faults \in 0 .. MaxFaults
  /\ recent \in SUBSET Body /\ sound \in SUBSET (Acct \X Body)
  /\ missed \in SUBSET (Acct \X Body)

\* Every account's live messages are marked: the body of a message is not swept if its
\* own Ingest wrote the file, or if the message was there when the pass began.
LiveSetIsComplete == \A s \in sound : file[s[2]] # "absent"

\* The body of a message is not swept if its own Ingest wrote the file, or if the
\* message was there when the pass began: accounts that are not open, accounts that
\* are opened and written during the pass, other accounts' references and unreadable
\* logs notwithstanding.  The exception is a message that the throwaway runtime of
\* GCBlobs did not see, because its account was opened and compacted between the two
\* reads of openProjection or because its snapshot could not be read.
SoundRefsAreStored == \A s \in sound \ missed : s[2] \in refs[s[1]] /\ file[s[2]] # "absent"

Garbage(b) == ~Referenced(b) /\ (\A h \in holds : h.body # b)

\* A body nobody references any more is removed in the end.
GarbageGoes == \A b \in Body : (<>[]Garbage(b)) => []<>(file[b] = "absent")
=============================================================================
