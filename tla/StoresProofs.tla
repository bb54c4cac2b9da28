---------------------------- MODULE StoresProofs ----------------------------
(***************************************************************************)
(* What keeps an account's mail, for any number of accounts, bodies,       *)
(* concurrent Puts, processes and faults: the collector never takes a body *)
(* that a message relies on, one body's file is whole, what the log in SQL *)
(* acknowledged is in what the next process reads, a deferred action fires *)
(* once, and an archive reads back as what was written to it.              *)
(***************************************************************************)
EXTENDS BlobStore, BlobPut, SqlLog, Snooze, Backup, ListProofs

-----------------------------------------------------------------------------
(* The collector.  A reference counts as kept safe for as long as the pass *)
(* will still come by its account, or has, or the body is too young.       *)

BlobTypes ==
  /\ file \in [Body -> {"absent", "young", "old"}]
  /\ refs \in [Acct -> SUBSET Body]
  /\ made \subseteq Acct /\ opened \subseteq made
  /\ holds \subseteq [acct : made, body : Body, wrote : BOOLEAN]
  /\ pc \in {"sleep", "open", "disk", "sweep"}
  /\ torn \in BOOLEAN

\* What was written lately is young, and what is to be deleted was old and still is.
Ages ==
  /\ \A b \in recent : b \in Body /\ file[b] = "young"
  /\ \A h \in holds : h.wrote => file[h.body] = "young"
  /\ \A b \in doomed : b \in Body /\ file[b] = "old"
  /\ pc # "sweep" => doomed = {}
  /\ pc \in {"open", "disk"} => \A h \in holds : h.wrote => h.body \in recent

\* Where the pass is with regard to a reference of account a to body b.
Safe(a, b) ==
  /\ pc = "open" => b \in recent \/ b \in mark \/ a \in todo \/ a \notin openDirs
  /\ pc = "disk" => b \in recent \/ b \in mark \/ a \in todo
  /\ pc = "sweep" => b \notin doomed

Known ==
  /\ sound \subseteq Acct \X Body
  /\ \A a \in Acct : refs[a] # {} => a \in made
  /\ \A a \in Acct, b \in Body : <<a, b>> \in sound => b \in refs[a]
  /\ \A a \in Acct, b \in Body : <<a, b>> \in sound \ missed => file[b] # "absent" /\ Safe(a, b)

BlobInv == BlobTypes /\ Ages /\ Known

-----------------------------------------------------------------------------
(* One body's file.                                                        *)

Busy(w) == step[w] \in {"write", "rename"}

\* A Put has a file open while it writes; a temporary file that nobody has open is
\* whole unless something went wrong.
Descriptors ==
  /\ step \in [Writer -> {"stat", "open", "write", "rename", "remove", "stored", "failed"}]
  /\ fd \in [Writer -> File \cup {NoFile}]
  /\ tmp \in File \cup {NoFile} /\ final \in File \cup {NoFile}
  /\ hitches \in Nat /\ overlap \in BOOLEAN /\ acked \in BOOLEAN
  /\ \A w \in Writer : fd[w] # NoFile <=> step[w] = "write"
  /\ tmp # NoFile => tmp # final
  /\ tmp # NoFile => tmp \in whole \/ (\E w \in Writer : fd[w] = tmp) \/ hitches > 0

\* As long as Puts come one after the other, the one that is busy has the temporary
\* name to itself.
Alone ==
  ~overlap =>
    /\ \A v, w \in Writer : Busy(v) /\ Busy(w) => v = w
    /\ \A w \in Writer : step[w] = "write" => tmp \in {NoFile, fd[w]} /\ fd[w] # final
    /\ \A w \in Writer : step[w] = "rename" => tmp = NoFile \/ tmp \in whole

PutInv == Descriptors /\ Alone /\ StoredIsWhole

-----------------------------------------------------------------------------
(* The log in SQL.                                                         *)

SqlTypes ==
  /\ backend \in {"pg", "lenient", "sqlite"}
  /\ given \in Nat /\ highest \in Nat /\ spoilt \in BOOLEAN
  /\ maxSeq \in [Replica -> Nat] /\ complete \subseteq Replica
  /\ rows \subseteq [seq : 0 .. highest, ev : Nat]
  /\ saved.seq \in 0 .. highest
  /\ held = [r \in Replica |-> held[r]]
  /\ \A r \in Replica : held[r].seq \in 0 .. highest

\* Where the acknowledged events are.
Durable ==
  ~spoilt =>
    /\ \A e \in durable : e \in saved.evs \/ \E row \in rows : row.ev = e /\ row.seq > saved.seq
    /\ \A r \in complete : durable \subseteq held[r].evs

SqlInv == SqlTypes /\ Durable

-----------------------------------------------------------------------------
(* The collector: the proofs.                                              *)

\* No body and no event.
LEMMA BlobStart == BlobInit => BlobInv
<1> SUFFICES ASSUME BlobInit PROVE BlobInv
  OBVIOUS
<1>1. BlobTypes
  BY DEF BlobInit, BlobTypes
<1>2. Ages
  BY DEF BlobInit, Ages
<1>3. Known
  BY DEF BlobInit, Known
<1> QED
  BY <1>1, <1>2, <1>3 DEF BlobInv

\* An account's log and store are opened.
LEMMA OpenInv ==
  ASSUME BlobInv, NEW a \in Acct, Open(a)
  PROVE  BlobInv'
<1>1. /\ opened' = opened \cup {a} /\ made' = made \cup {a}
      /\ UNCHANGED <<file, refs, holds, recent, sound, missed, pc, openDirs, todo, mark, doomed, torn>>
  BY DEF Open, gc, throwaway, history
<1>2. BlobTypes'
  BY <1>1 DEF BlobInv, BlobTypes
<1>3. Ages'
  BY <1>1 DEF BlobInv, Ages
<1>4. Known'
  BY <1>1 DEF BlobInv, Known, Safe
<1> QED
  BY <1>2, <1>3, <1>4 DEF BlobInv

\* Every hold is one of the records that Put makes.
LEMMA HoldFacts ==
  ASSUME BlobInv, NEW h \in holds
  PROVE  h.acct \in made /\ h.acct \in Acct /\ h.body \in Body
BY DEF BlobInv, BlobTypes

\* A body is stored for an account.
LEMMA PutStepInv ==
  ASSUME BlobInv, NEW a \in Acct, NEW b \in Body, Put(a, b)
  PROVE  BlobInv'
<1> DEFINE wrote == file[b] = "absent"
           new == [acct |-> a, body |-> b, wrote |-> wrote]
<1>1. /\ a \in opened
      /\ file' = [file EXCEPT ![b] = IF @ = "absent" THEN "young" ELSE @]
      /\ recent' = IF file[b] = "absent" THEN recent \cup {b} ELSE recent
      /\ holds' = holds \cup {new}
      /\ UNCHANGED <<refs, made, opened, sound, missed, pc, openDirs, todo, mark, doomed, torn>>
  BY DEF Put, gc, throwaway, history
<1>2. new.acct = a /\ new.body = b /\ (new.wrote <=> file[b] = "absent")
  BY Zenon
<1>3. new \in [acct : made, body : Body, wrote : BOOLEAN]
  <2>1. a \in made /\ wrote \in BOOLEAN
    BY <1>1 DEF BlobInv, BlobTypes
  <2> HIDE DEF wrote
  <2> QED
    BY <2>1
<1> HIDE DEF new
<1>4. /\ file \in [Body -> {"absent", "young", "old"}]
      /\ file' \in [Body -> {"absent", "young", "old"}]
      /\ \A c \in Body : c # b => file'[c] = file[c]
      /\ file'[b] = IF file[b] = "absent" THEN "young" ELSE file[b]
  BY <1>1 DEF BlobInv, BlobTypes
<1>5. BlobTypes'
  BY <1>1, <1>3, <1>4 DEF BlobInv, BlobTypes
<1>6. Ages'
  <2>1. \A c \in recent' : c \in Body /\ file'[c] = "young"
    BY <1>1, <1>4 DEF BlobInv, Ages
  <2>2. ASSUME NEW h \in holds', h.wrote
        PROVE  file'[h.body] = "young" /\ (pc \in {"open", "disk"} => h.body \in recent')
    <3>1. CASE h \in holds
      BY <1>1, <1>4, <2>2, <3>1, HoldFacts DEF BlobInv, Ages
    <3>2. CASE h = new
      BY <1>1, <1>2, <1>4, <2>2, <3>2
    <3> QED
      BY <1>1, <3>1, <3>2
  <2>3. \A c \in doomed : c \in Body /\ file'[c] = "old"
    BY <1>4 DEF BlobInv, Ages
  <2> QED
    BY <1>1, <2>1, <2>2, <2>3 DEF BlobInv, Ages
<1>7. Known'
  <2>1. ASSUME NEW c \in Acct, NEW d \in Body, <<c, d>> \in sound \ missed
        PROVE  file'[d] # "absent" /\ Safe(c, d)'
    <3>1. file[d] # "absent" /\ Safe(c, d)
      BY <2>1 DEF BlobInv, Known
    <3> QED
      BY <1>1, <1>4, <3>1 DEF Safe
  <2> QED
    BY <1>1, <2>1 DEF BlobInv, Known
<1> QED
  BY <1>5, <1>6, <1>7 DEF BlobInv

\* The event that refers to a body is appended.
LEMMA CommitInv ==
  ASSUME BlobInv, NEW h \in holds, Commit(h)
  PROVE  BlobInv'
<1>1. /\ holds' = holds \ {h}
      /\ refs' = [refs EXCEPT ![h.acct] = @ \cup {h.body}]
      /\ sound' = IF h.wrote THEN sound \cup {<<h.acct, h.body>>} ELSE sound
      /\ missed' = IF h.wrote THEN missed \ {<<h.acct, h.body>>} ELSE missed
      /\ UNCHANGED <<file, made, opened, recent, pc, openDirs, todo, mark, doomed, torn>>
  BY DEF Commit, gc, throwaway
<1>2. h.acct \in made /\ h.acct \in Acct /\ h.body \in Body
  BY HoldFacts
<1>3. /\ refs' \in [Acct -> SUBSET Body]
      /\ \A a \in Acct : refs[a] \subseteq refs'[a] /\ (a # h.acct => refs'[a] = refs[a])
      /\ h.body \in refs'[h.acct]
  BY <1>1, <1>2 DEF BlobInv, BlobTypes
<1>4. BlobTypes'
  BY <1>1, <1>3 DEF BlobInv, BlobTypes
<1>5. Ages'
  BY <1>1 DEF BlobInv, Ages
<1>6. Known'
  <2>1. ASSUME NEW a \in Acct, NEW b \in Body, <<a, b>> \in (sound \ missed)'
        PROVE  file[b] # "absent" /\ Safe(a, b)'
    <3>1. CASE <<a, b>> \in sound \ missed
      BY <1>1, <1>3, <3>1 DEF BlobInv, Known, Safe
    <3>2. CASE h.wrote /\ a = h.acct /\ b = h.body
      <4>1. file[b] = "young" /\ (pc \in {"open", "disk"} => b \in recent) /\ b \notin doomed
        BY <3>2 DEF BlobInv, Ages
      <4> QED
        BY <1>1, <1>3, <3>2, <4>1 DEF Safe
    <3> QED
      BY <1>1, <2>1, <3>1, <3>2
  <2>2. sound' \subseteq Acct \X Body
    BY <1>1, <1>2 DEF BlobInv, Known
  <2>3. \A a \in Acct : refs'[a] # {} => a \in made
    BY <1>2, <1>3 DEF BlobInv, Known
  <2>4. \A a \in Acct, b \in Body : <<a, b>> \in sound' => b \in refs'[a]
    BY <1>1, <1>2, <1>3 DEF BlobInv, Known
  <2> QED
    BY <1>1, <2>1, <2>2, <2>3, <2>4 DEF Known
<1> QED
  BY <1>4, <1>5, <1>6 DEF BlobInv

\* An ingest gives up before its event.
LEMMA AbandonInv ==
  ASSUME BlobInv, NEW h \in holds, Abandon(h)
  PROVE  BlobInv'
<1>1. holds' = holds \ {h} /\ UNCHANGED <<file, refs, made, opened, recent, sound, missed, pc, openDirs, todo, mark, doomed, torn>>
  BY DEF Abandon, gc, throwaway, history
<1> QED
  BY <1>1 DEF BlobInv, BlobTypes, Ages, Known, Safe

\* An account lets go of a body.
LEMMA ExpungeLastInv ==
  ASSUME BlobInv, NEW a \in Acct, NEW b \in Body, ExpungeLast(a, b)
  PROVE  BlobInv'
<1>1. /\ refs' = [refs EXCEPT ![a] = @ \ {b}]
      /\ sound' = sound \ {<<a, b>>}
      /\ UNCHANGED <<file, made, opened, holds, recent, missed, pc, openDirs, todo, mark, doomed, torn>>
  BY DEF ExpungeLast, gc, throwaway
<1>2. /\ refs' \in [Acct -> SUBSET Body]
      /\ \A c \in Acct : refs'[c] \subseteq refs[c] /\ \A d \in refs[c] : <<c, d>> # <<a, b>> => d \in refs'[c]
  BY <1>1 DEF BlobInv, BlobTypes
<1>3. BlobTypes'
  BY <1>1, <1>2 DEF BlobInv, BlobTypes
<1>4. Ages'
  BY <1>1 DEF BlobInv, Ages
<1>5. Known'
  <2>1. ASSUME NEW c \in Acct, NEW d \in Body, <<c, d>> \in (sound \ missed)'
        PROVE  file[d] # "absent" /\ Safe(c, d)'
    BY <1>1, <2>1 DEF BlobInv, Known, Safe
  <2>2. \A c \in Acct, d \in Body : <<c, d>> \in sound' => d \in refs'[c]
    BY <1>1, <1>2 DEF BlobInv, Known
  <2>3. sound' \subseteq Acct \X Body /\ \A c \in Acct : refs'[c] # {} => c \in made
    BY <1>1, <1>2 DEF BlobInv, Known
  <2> QED
    BY <1>1, <2>1, <2>2, <2>3 DEF Known
<1> QED
  BY <1>3, <1>4, <1>5 DEF BlobInv

\* An account is compacted: only what its files say in two halves changes.
LEMMA CompactInv ==
  ASSUME BlobInv, NEW a \in Acct, Compact(a)
  PROVE  BlobInv'
<1>1. /\ torn' = (torn \/ a \in reading)
      /\ UNCHANGED <<file, refs, made, opened, holds, recent, sound, missed, pc, openDirs, todo, mark, doomed>>
  BY DEF Compact, history
<1>2. torn' \in BOOLEAN
  BY <1>1
<1> QED
  BY <1>1, <1>2 DEF BlobInv, BlobTypes, Ages, Known, Safe

\* A body that a pass or an Ingest relies on does not age.
LEMMA AgeInv ==
  ASSUME BlobInv, NEW b \in Body, Age(b)
  PROVE  BlobInv'
<1>1. /\ file[b] = "young" /\ b \notin recent /\ \A h \in holds : h.body = b => ~h.wrote
      /\ file' = [file EXCEPT ![b] = "old"]
      /\ UNCHANGED <<refs, made, opened, holds, recent, sound, missed, pc, openDirs, todo, mark, doomed, torn>>
  BY DEF Age, WithinGrace, gc, throwaway, history
<1>2. /\ file' \in [Body -> {"absent", "young", "old"}]
      /\ file'[b] = "old" /\ \A c \in Body : c # b => file'[c] = file[c]
  BY <1>1 DEF BlobInv, BlobTypes
<1>3. BlobTypes'
  BY <1>1, <1>2 DEF BlobInv, BlobTypes
<1>4. Ages'
  <2>1. \A h \in holds : h.wrote => file'[h.body] = "young"
    BY <1>1, <1>2, HoldFacts DEF BlobInv, Ages
  <2> QED
    BY <1>1, <1>2, <2>1 DEF BlobInv, Ages
<1>5. Known'
  BY <1>1, <1>2 DEF BlobInv, Known, Safe
<1> QED
  BY <1>3, <1>4, <1>5 DEF BlobInv

\* The steps of the collector before it lists the store.
LEMMA MarkInv ==
  ASSUME BlobInv,
         \/ GCBegin \/ ReadDir
         \/ \E a \in Acct : MarkOpen(a) \/ MarkDisk(a) \/ MarkTorn(a) \/ MarkFails(a)
         \/ \E a \in Acct : LoadSnapshot(a) \/ LoadFails(a)
  PROVE  BlobInv'
<1>1. CASE GCBegin
  <2>1. /\ pc = "sleep" /\ openDirs' = opened /\ todo' = opened /\ pc' = "open"
        /\ recent' = {b \in Body : \E h \in holds : h.body = b /\ h.wrote}
        /\ sound' = {s \in Acct \X Body : s[2] \in refs[s[1]] /\ file[s[2]] # "absent"}
        /\ UNCHANGED <<file, refs, made, opened, holds, doomed, torn>>
    BY <1>1 DEF GCBegin, throwaway
  <2>2. BlobTypes'
    BY <2>1 DEF BlobInv, BlobTypes
  <2>3. Ages'
    <3>1. \A h \in holds : h.wrote => h.body \in recent'
      BY <2>1, HoldFacts
    <3> QED
      BY <2>1, <3>1 DEF BlobInv, Ages
  <2>4. Known'
    BY <2>1 DEF BlobInv, Known, Safe
  <2> QED
    BY <2>2, <2>3, <2>4 DEF BlobInv
<1>2. CASE ReadDir
  <2>1. /\ pc = "open" /\ todo = {} /\ todo' = made \ openDirs /\ pc' = "disk"
        /\ UNCHANGED <<file, refs, made, opened, holds, recent, sound, missed, openDirs, mark, doomed, torn>>
    BY <1>2 DEF ReadDir, store, throwaway, history
  <2>2. BlobTypes' /\ Ages'
    BY <2>1 DEF BlobInv, BlobTypes, Ages
  <2>3. Known'
    BY <2>1 DEF BlobInv, Known, Safe
  <2> QED
    BY <2>2, <2>3 DEF BlobInv
<1>3. ASSUME NEW a \in Acct, MarkOpen(a) \/ MarkDisk(a)
      PROVE  BlobInv'
  <2>1. /\ mark' = mark \cup refs[a] /\ todo' = todo \ {a}
        /\ torn' = torn \/ torn' = FALSE
        /\ UNCHANGED <<file, refs, made, opened, holds, recent, sound, missed, pc, openDirs, doomed>>
    BY <1>3 DEF MarkOpen, MarkDisk, Loaded, store, throwaway, history
  <2>2. BlobTypes' /\ Ages'
    BY <2>1 DEF BlobInv, BlobTypes, Ages
  <2>3. Known'
    BY <2>1 DEF BlobInv, Known, Safe
  <2> QED
    BY <2>2, <2>3 DEF BlobInv
<1>4. ASSUME NEW a \in Acct, MarkFails(a)
      PROVE  BlobInv'
  <2>1. /\ pc = "disk" /\ pc' = "sleep" /\ recent' = {}
        /\ torn' = FALSE
        /\ UNCHANGED <<file, refs, made, opened, holds, sound, missed, openDirs, todo, mark, doomed>>
    BY <1>4 DEF MarkFails, history
  <2>2. BlobTypes' /\ Ages'
    BY <2>1 DEF BlobInv, BlobTypes, Ages
  <2>3. Known'
    BY <2>1 DEF BlobInv, Known, Safe
  <2> QED
    BY <2>2, <2>3 DEF BlobInv
<1>5. ASSUME NEW a \in Acct, MarkTorn(a)
      PROVE  BlobInv'
  <2>1. /\ todo' = todo \ {a} /\ torn' = FALSE
        /\ mark \subseteq mark'
        /\ missed' = missed \cup {s \in sound : s[1] = a /\ s[2] \notin mark' \cup recent}
        /\ UNCHANGED <<file, refs, made, opened, holds, recent, sound, pc, openDirs, doomed>>
    BY <1>5 DEF MarkTorn, Loaded, store
  <2>2. BlobTypes' /\ Ages'
    BY <2>1 DEF BlobInv, BlobTypes, Ages
  <2>3. ASSUME NEW c \in Acct, NEW d \in Body, <<c, d>> \in (sound \ missed)'
        PROVE  file[d] # "absent" /\ Safe(c, d)'
    <3>1. <<c, d>> \in sound \ missed /\ (c = a => d \in mark' \cup recent)
      BY <2>1, <2>3
    <3>2. file[d] # "absent" /\ Safe(c, d)
      BY <3>1 DEF BlobInv, Known
    <3> QED
      BY <2>1, <3>1, <3>2 DEF Safe
  <2>4. Known'
    BY <2>1, <2>3 DEF BlobInv, Known
  <2> QED
    BY <2>2, <2>4 DEF BlobInv
<1>6. ASSUME NEW a \in Acct, LoadSnapshot(a) \/ LoadFails(a)
      PROVE  BlobInv'
  <2>1. /\ torn' \in BOOLEAN
        /\ UNCHANGED <<file, refs, made, opened, holds, recent, sound, missed, pc, openDirs, todo, mark, doomed>>
    BY <1>6 DEF LoadSnapshot, LoadFails, store, history
  <2> QED
    BY <2>1 DEF BlobInv, BlobTypes, Ages, Known, Safe
<1> QED
  BY <1>1, <1>2, <1>3, <1>4, <1>5, <1>6

\* The listing, the deletions and the end of a pass.
LEMMA SweepInv ==
  ASSUME BlobInv, ListBlobs \/ GCEnd \/ Restart \/ \E b \in Body : Delete(b)
  PROVE  BlobInv'
<1>1. CASE ListBlobs
  <2>1. /\ pc = "disk" /\ todo = {} /\ pc' = "sweep" /\ recent' = {}
        /\ doomed' = {b \in Body : file[b] = "old"} \ mark
        /\ UNCHANGED <<file, refs, made, opened, holds, sound, missed, openDirs, todo, mark, torn>>
    BY <1>1 DEF ListBlobs, throwaway, history
  <2>2. BlobTypes' /\ Ages'
    BY <2>1 DEF BlobInv, BlobTypes, Ages
  <2>3. Known'
    <3>1. ASSUME NEW a \in Acct, NEW b \in Body, <<a, b>> \in sound \ missed
          PROVE  Safe(a, b)'
      <4>1. b \in recent \/ b \in mark
        BY <2>1, <3>1 DEF BlobInv, Known, Safe
      <4>2. b \in recent => file[b] = "young"
        BY DEF BlobInv, Ages
      <4> QED
        BY <2>1, <4>1, <4>2 DEF Safe
    <3> QED
      BY <2>1, <3>1 DEF BlobInv, Known
  <2> QED
    BY <2>2, <2>3 DEF BlobInv
<1>2. CASE GCEnd
  <2>1. /\ doomed = {} /\ pc' = "sleep"
        /\ UNCHANGED <<file, refs, made, opened, holds, recent, sound, missed, openDirs, todo, mark, doomed, torn>>
    BY <1>2 DEF GCEnd, store, throwaway, history
  <2> QED
    BY <2>1 DEF BlobInv, BlobTypes, Ages, Known, Safe
<1>3. CASE Restart
  <2>1. /\ opened' = {} /\ holds' = {} /\ pc' = "sleep" /\ doomed' = {} /\ recent' = {}
        /\ torn' = FALSE
        /\ UNCHANGED <<file, refs, made, sound, missed>>
    BY <1>3 DEF Restart, history
  <2> QED
    BY <2>1 DEF BlobInv, BlobTypes, Ages, Known, Safe
<1>4. ASSUME NEW b \in Body, Delete(b)
      PROVE  BlobInv'
  <2>1. /\ pc = "sweep" /\ b \in doomed /\ doomed' = doomed \ {b}
        /\ file' = [file EXCEPT ![b] = "absent"]
        /\ UNCHANGED <<refs, made, opened, holds, recent, sound, missed, pc, openDirs, todo, mark, torn>>
    BY <1>4 DEF Delete, throwaway, history
  <2>2. /\ file' \in [Body -> {"absent", "young", "old"}]
        /\ file[b] = "old" /\ \A c \in Body : c # b => file'[c] = file[c]
    BY <2>1 DEF BlobInv, BlobTypes, Ages
  <2>3. BlobTypes'
    BY <2>1, <2>2 DEF BlobInv, BlobTypes
  <2>4. Ages'
    <3>1. \A h \in holds : h.wrote => file'[h.body] = "young"
      BY <2>1, <2>2, HoldFacts DEF BlobInv, Ages
    <3> QED
      BY <2>1, <2>2, <3>1 DEF BlobInv, Ages
  <2>5. Known'
    <3>1. ASSUME NEW a \in Acct, NEW c \in Body, <<a, c>> \in sound \ missed
          PROVE  file'[c] # "absent" /\ Safe(a, c)'
      <4>1. file[c] # "absent" /\ c \notin doomed
        BY <2>1, <3>1 DEF BlobInv, Known, Safe
      <4> QED
        BY <2>1, <2>2, <4>1 DEF Safe
    <3> QED
      BY <2>1, <3>1 DEF BlobInv, Known
  <2> QED
    BY <2>3, <2>4, <2>5 DEF BlobInv
<1> QED
  BY <1>1, <1>2, <1>3, <1>4

\* Every step keeps the invariant of bodies and collector.
LEMMA BlobStep == BlobInv /\ [BlobNext]_blobVars => BlobInv'
<1> SUFFICES ASSUME BlobInv, [BlobNext]_blobVars PROVE BlobInv'
  OBVIOUS
<1>1. CASE Clients
  BY <1>1, OpenInv, PutStepInv, CommitInv, AbandonInv, ExpungeLastInv, CompactInv, SweepInv DEF Clients
<1>2. CASE Collect
  BY <1>2, MarkInv, SweepInv DEF Collect
<1>3. CASE \E a \in Acct : LoadFails(a) \/ MarkFails(a)
  BY <1>3, MarkInv
<1>4. CASE \E b \in Body : Age(b)
  BY <1>4, AgeInv
<1>5. CASE UNCHANGED blobVars
  BY <1>5 DEF blobVars, store, gc, throwaway, history, BlobInv, BlobTypes, Ages, Known, Safe
<1> QED
  BY <1>1, <1>2, <1>3, <1>4, <1>5 DEF BlobNext

\* The inductive invariant of the store and its collector.
THEOREM CollectorInvariant == BlobSpec => []BlobInv
<1>1. BlobInit => BlobInv
  BY BlobStart
<1>2. BlobInv /\ [BlobNext]_blobVars => BlobInv'
  BY BlobStep
<1> QED
  BY <1>1, <1>2, PTL DEF BlobSpec

\* The collector deletes no body of a message whose Ingest wrote it or that was there
\* when the pass began, whatever accounts are opened, written, expunged, compacted and
\* restarted meanwhile and whichever logs cannot be read, unless a read of the account
\* fell apart into an older snapshot and a newer log or found no snapshot.
THEOREM BodiesAreKept == BlobSpec => []SoundRefsAreStored
<1>1. BlobInv => SoundRefsAreStored
  BY DEF BlobInv, Known, SoundRefsAreStored
<1> QED
  BY <1>1, CollectorInvariant, PTL

-----------------------------------------------------------------------------
(* One body's file: the proofs.                                            *)

\* A Put that makes the temporary file finds a free one: the names and the other
\* descriptors stand for fewer files than there are.
LEMMA FreeFile ==
  ASSUME Descriptors, tmp = NoFile
  PROVE  NewFile \in File /\ NewFile # final /\ \A w \in Writer : fd[w] # NewFile
<1> DEFINE open == {fd[w] : w \in Writer}
           taken == {tmp, final} \cup open
<1>1. IsFiniteSet(open) /\ Cardinality(open) <= Cardinality(Writer)
  <2>1. IsFiniteSet(Writer)
    BY FileAssumption
  <2>2. fd \in Surjection(Writer, open)
    BY DEF Descriptors, Surjection
  <2> QED
    BY <2>1, <2>2, FS_Surjection
<1> HIDE DEF open
<1>2. Cardinality(open) \in Nat /\ Cardinality(Writer) \in Nat
  BY <1>1, FileAssumption, FS_CardinalityType
<1>3. IsFiniteSet(open \cup {final}) /\ Cardinality(open \cup {final}) <= Cardinality(open) + 1
      /\ Cardinality(open \cup {final}) \in Nat
  <2>1. /\ IsFiniteSet(open \cup {final})
        /\ Cardinality(open \cup {final}) = IF final \in open THEN Cardinality(open) ELSE Cardinality(open) + 1
    BY <1>1, FS_AddElement
  <2> QED
    BY <1>2, <2>1
<1>4. ~(File \subseteq open \cup {final})
  <2> SUFFICES ASSUME File \subseteq open \cup {final} PROVE FALSE
    OBVIOUS
  <2>1. Cardinality(File) \in Nat /\ Cardinality(File) <= Cardinality(open \cup {final})
    BY <1>3, FS_Subset, FS_CardinalityType
  <2>2. Cardinality(File) >= Cardinality(Writer) + 2
    BY FileAssumption
  <2> QED
    BY <1>1, <1>2, <1>3, <2>1, <2>2
<1>5. \E f \in File : f \notin taken
  BY <1>4, FileAssumption
<1>6. NewFile \in File /\ NewFile \notin taken
  <2>1. NewFile = CHOOSE f \in File : f \notin taken
    BY DEF NewFile, open
  <2> HIDE DEF taken
  <2> QED
    BY <1>5, <2>1, Zenon
<1> QED
  BY <1>6 DEF open

\* No file and no writer.
LEMMA PutStart == PutInit => PutInv
<1> SUFFICES ASSUME PutInit PROVE PutInv
  OBVIOUS
<1>1. Descriptors
  BY HitchAssumption DEF PutInit, Descriptors
<1>2. Alone /\ StoredIsWhole
  BY DEF PutInit, Alone, Busy, StoredIsWhole
<1> QED
  BY <1>1, <1>2 DEF PutInv

\* Put finds the file there, or goes on.
LEMMA StatInv ==
  ASSUME PutInv, NEW w \in Writer, Stat(w)
  PROVE  PutInv'
<1>1. /\ step[w] = "stat"
      /\ step' = [step EXCEPT ![w] = IF final = NoFile THEN "open" ELSE "stored"]
      /\ acked' = (acked \/ final # NoFile)
      /\ UNCHANGED <<fd, tmp, final, whole, hitches, overlap>>
  BY DEF Stat, Go
<1>2. /\ step' \in [Writer -> {"stat", "open", "write", "rename", "remove", "stored", "failed"}]
      /\ step'[w] \in {"open", "stored"} /\ \A v \in Writer : v # w => step'[v] = step[v]
  BY <1>1 DEF PutInv, Descriptors
<1>3. acked' \in BOOLEAN /\ (acked' => final # NoFile)
  BY <1>1 DEF PutInv, StoredIsWhole
<1>4. Descriptors'
  BY <1>1, <1>2, <1>3 DEF PutInv, Descriptors
<1>5. Alone'
  BY <1>1, <1>2 DEF PutInv, Alone, Busy
<1>6. StoredIsWhole'
  BY <1>1, <1>3 DEF PutInv, StoredIsWhole
<1> QED
  BY <1>4, <1>5, <1>6 DEF PutInv

\* The temporary file is opened, and cut.
LEMMA OpenTmpInv ==
  ASSUME PutInv, NEW w \in Writer, OpenTmp(w)
  PROVE  PutInv'
<1>1. /\ step[w] = "open"
      /\ tmp' = IF tmp = NoFile THEN NewFile ELSE tmp
      /\ whole' = whole \ {tmp'}
      /\ fd' = [fd EXCEPT ![w] = tmp']
      /\ overlap' = (overlap \/ \E v \in Writer : step[v] \in {"write", "rename"})
      /\ step' = [step EXCEPT ![w] = "write"]
      /\ UNCHANGED <<final, acked, hitches>>
  BY DEF OpenTmp, Go
<1>2. tmp' \in File /\ tmp' # final /\ tmp' # NoFile
  <2>1. CASE tmp = NoFile
    <3>1. tmp' = NewFile /\ NewFile \in File /\ NewFile # final
      BY <1>1, <2>1, FreeFile DEF PutInv
    <3> QED
      BY <3>1, FileAssumption
  <2>2. CASE tmp # NoFile
    BY <1>1, <2>2 DEF PutInv, Descriptors
  <2> QED
    BY <2>1, <2>2
<1>3. /\ step' \in [Writer -> {"stat", "open", "write", "rename", "remove", "stored", "failed"}]
      /\ step'[w] = "write" /\ \A v \in Writer : v # w => step'[v] = step[v]
      /\ fd' \in [Writer -> File \cup {NoFile}]
      /\ fd'[w] = tmp' /\ \A v \in Writer : v # w => fd'[v] = fd[v]
  BY <1>1, <1>2 DEF PutInv, Descriptors
<1>4. overlap' \in BOOLEAN /\ (~overlap' => ~overlap /\ \A v \in Writer : ~Busy(v))
  BY <1>1 DEF PutInv, Descriptors, Busy
<1>5. Descriptors'
  BY <1>1, <1>2, <1>3, <1>4 DEF PutInv, Descriptors
<1>6. Alone'
  <2> SUFFICES ASSUME ~overlap' PROVE (Alone!2)'
    BY DEF Alone
  <2>1. \A v \in Writer : v # w => step'[v] \notin {"write", "rename"}
    BY <1>3, <1>4 DEF Busy
  <2> QED
    BY <1>1, <1>2, <1>3, <2>1 DEF Busy
<1>7. StoredIsWhole'
  <2>1. acked' => final' # NoFile
    BY <1>1 DEF PutInv, StoredIsWhole
  <2>2. ASSUME final' \notin whole', final' # NoFile, ~(overlap' /\ hitches' > 0)
        PROVE  \E v \in Writer : fd'[v] = final'
    <3>1. final \notin whole
      BY <1>1, <1>2, <2>2
    <3>2. ~(overlap /\ hitches > 0)
      BY <1>1, <2>2
    <3>3. PICK v \in Writer : fd[v] = final
      BY <1>1, <2>2, <3>1, <3>2 DEF PutInv, StoredIsWhole
    <3>4. v # w
      BY <1>1, <2>2, <3>3 DEF PutInv, Descriptors
    <3> QED
      BY <1>1, <1>3, <3>3, <3>4
  <2> QED
    BY <2>1, <2>2 DEF StoredIsWhole
<1> QED
  BY <1>5, <1>6, <1>7 DEF PutInv

\* A file that is written to becomes whole before its descriptor goes.
LEMMA WriteTmpInv ==
  ASSUME PutInv, NEW w \in Writer, WriteTmp(w)
  PROVE  PutInv'
<1>1. /\ step[w] = "write" /\ whole' = whole \cup {fd[w]}
      /\ fd' = [fd EXCEPT ![w] = NoFile] /\ step' = [step EXCEPT ![w] = "rename"]
      /\ UNCHANGED <<tmp, final, acked, hitches, overlap>>
  BY DEF WriteTmp, Go
<1>2. /\ step' \in [Writer -> {"stat", "open", "write", "rename", "remove", "stored", "failed"}]
      /\ step'[w] = "rename" /\ \A v \in Writer : v # w => step'[v] = step[v]
      /\ fd' \in [Writer -> File \cup {NoFile}]
      /\ fd'[w] = NoFile /\ \A v \in Writer : v # w => fd'[v] = fd[v]
  BY <1>1 DEF PutInv, Descriptors
<1>3. Descriptors'
  BY <1>1, <1>2 DEF PutInv, Descriptors
<1>4. Alone'
  <2> SUFFICES ASSUME ~overlap' PROVE (Alone!2)'
    BY DEF Alone
  <2>1. /\ \A v \in Writer : v # w => ~Busy(v)
        /\ tmp \in {NoFile, fd[w]}
    BY <1>1 DEF PutInv, Alone, Busy
  <2> QED
    BY <1>1, <1>2, <2>1 DEF Busy
<1>5. StoredIsWhole'
  <2>1. ASSUME final \notin whole', final # NoFile, ~(overlap /\ hitches > 0)
        PROVE  \E v \in Writer : fd'[v] = final
    <3>1. PICK v \in Writer : fd[v] = final
      BY <1>1, <2>1 DEF PutInv, StoredIsWhole
    <3> QED
      BY <1>1, <1>2, <2>1, <3>1
  <2> QED
    BY <1>1, <2>1 DEF PutInv, StoredIsWhole
<1> QED
  BY <1>3, <1>4, <1>5 DEF PutInv

\* A write that fails damages only what others have made final, and then they overlap.
LEMMA WriteFailsInv ==
  ASSUME PutInv, NEW w \in Writer, WriteFails(w)
  PROVE  PutInv'
<1>1. /\ step[w] \in {"open", "write"} /\ hitches' = hitches + 1
      /\ fd' = [fd EXCEPT ![w] = NoFile] /\ step' = [step EXCEPT ![w] = "failed"]
      /\ UNCHANGED <<tmp, final, whole, acked, overlap>>
  BY DEF WriteFails, Go
<1>2. /\ step' \in [Writer -> {"stat", "open", "write", "rename", "remove", "stored", "failed"}]
      /\ step'[w] = "failed" /\ \A v \in Writer : v # w => step'[v] = step[v]
      /\ fd' \in [Writer -> File \cup {NoFile}]
      /\ fd'[w] = NoFile /\ \A v \in Writer : v # w => fd'[v] = fd[v]
      /\ hitches' \in Nat /\ hitches' > 0
  BY <1>1 DEF PutInv, Descriptors
<1>3. Descriptors'
  BY <1>1, <1>2 DEF PutInv, Descriptors
<1>4. Alone'
  BY <1>1, <1>2 DEF PutInv, Alone, Busy
<1>5. StoredIsWhole'
  <2>1. ASSUME final \notin whole, final # NoFile, ~overlap
        PROVE  FALSE
    <3>1. PICK v \in Writer : fd[v] = final
      BY <2>1 DEF PutInv, StoredIsWhole
    <3>2. step[v] = "write"
      BY <2>1, <3>1 DEF PutInv, Descriptors
    <3> QED
      BY <2>1, <3>1, <3>2 DEF PutInv, Alone
  <2> QED
    BY <1>1, <1>2, <2>1 DEF PutInv, StoredIsWhole
<1> QED
  BY <1>3, <1>4, <1>5 DEF PutInv

\* The process dies between two system calls.
LEMMA CrashInv ==
  ASSUME PutInv, Crash
  PROVE  PutInv'
<1>1. /\ hitches' = hitches + 1
      /\ step' = [w \in Writer |-> "stat"] /\ fd' = [w \in Writer |-> NoFile]
      /\ UNCHANGED <<tmp, final, whole, acked, overlap>>
  BY DEF Crash
<1>2. hitches' \in Nat /\ hitches' > 0
  BY <1>1 DEF PutInv, Descriptors
<1>3. Descriptors'
  BY <1>1, <1>2 DEF PutInv, Descriptors
<1>4. Alone'
  BY <1>1 DEF PutInv, Alone, Busy
<1>5. StoredIsWhole'
  <2>1. ASSUME final \notin whole, final # NoFile, ~overlap
        PROVE  FALSE
    <3>1. PICK v \in Writer : fd[v] = final
      BY <2>1 DEF PutInv, StoredIsWhole
    <3>2. step[v] = "write"
      BY <2>1, <3>1 DEF PutInv, Descriptors
    <3> QED
      BY <2>1, <3>1, <3>2 DEF PutInv, Alone
  <2> QED
    BY <1>1, <1>2, <2>1 DEF PutInv, StoredIsWhole
<1> QED
  BY <1>3, <1>4, <1>5 DEF PutInv

\* What a rename makes final is whole, or open in a Put that will make it whole.
LEMMA RenameInv ==
  ASSUME PutInv, NEW w \in Writer, Rename(w) \/ RenameFails(w)
  PROVE  PutInv'
<1>1. /\ step[w] = "rename"
      /\ \/ tmp # NoFile /\ final' = tmp /\ tmp' = NoFile /\ acked' = TRUE /\ hitches' = hitches
         \/ final' = final /\ tmp' = tmp /\ acked' = acked /\ hitches' \in {hitches, hitches + 1}
      /\ \E to \in {"stored", "remove"} : step' = [step EXCEPT ![w] = to]
      /\ UNCHANGED <<fd, whole, overlap>>
  BY DEF Rename, RenameFails, Go
<1>2. /\ step' \in [Writer -> {"stat", "open", "write", "rename", "remove", "stored", "failed"}]
      /\ step'[w] \in {"stored", "remove"} /\ \A v \in Writer : v # w => step'[v] = step[v]
      /\ hitches \in Nat /\ hitches' \in Nat /\ hitches' >= hitches
  BY <1>1 DEF PutInv, Descriptors
<1>3. Descriptors'
  <2>1. \A v \in Writer : fd'[v] # NoFile <=> step'[v] = "write"
    BY <1>1, <1>2 DEF PutInv, Descriptors
  <2>2. tmp' \in File \cup {NoFile} /\ final' \in File \cup {NoFile} /\ acked' \in BOOLEAN
    BY <1>1 DEF PutInv, Descriptors
  <2>3. tmp' # NoFile => tmp' = tmp /\ final' = final
    BY <1>1
  <2>4. tmp' # NoFile => tmp' # final' /\ (tmp' \in whole' \/ (\E v \in Writer : fd'[v] = tmp') \/ hitches' > 0)
    BY <1>1, <1>2, <2>3 DEF PutInv, Descriptors
  <2> QED
    BY <1>1, <1>2, <2>1, <2>2, <2>4 DEF PutInv, Descriptors
<1>4. Alone'
  <2> SUFFICES ASSUME ~overlap' PROVE (Alone!2)'
    BY DEF Alone
  <2>1. \A v \in Writer : v # w => ~Busy(v)
    BY <1>1 DEF PutInv, Alone, Busy
  <2>2. \A v \in Writer : step'[v] \notin {"write", "rename"}
    BY <1>2, <2>1 DEF Busy
  <2> QED
    BY <2>2 DEF Busy
<1>5. StoredIsWhole'
  <2>1. CASE final' = final /\ acked' = acked
    BY <1>1, <1>2, <2>1 DEF PutInv, StoredIsWhole
  <2>2. CASE tmp # NoFile /\ final' = tmp /\ hitches' = hitches
    <3>1. overlap \/ tmp \in whole
      BY <1>1, <2>2 DEF PutInv, Alone
    <3>2. tmp \in whole \/ (\E v \in Writer : fd[v] = tmp) \/ hitches > 0
      BY <2>2 DEF PutInv, Descriptors
    <3> QED
      BY <1>1, <2>2, <3>1, <3>2 DEF StoredIsWhole
  <2> QED
    BY <1>1, <2>1, <2>2
<1> QED
  BY <1>3, <1>4, <1>5 DEF PutInv

\* A Put that failed removes the temporary file; the caller may try again.
LEMMA RemoveTmpInv ==
  ASSUME PutInv, NEW w \in Writer, RemoveTmp(w) \/ PutAgain(w)
  PROVE  PutInv'
<1>1. /\ step[w] \notin {"write", "rename"} /\ tmp' \in {tmp, NoFile}
      /\ \E to \in {"failed", "stat"} : step' = [step EXCEPT ![w] = to]
      /\ UNCHANGED <<fd, final, whole, acked, hitches, overlap>>
  BY DEF RemoveTmp, PutAgain, Go
<1>2. /\ step' \in [Writer -> {"stat", "open", "write", "rename", "remove", "stored", "failed"}]
      /\ step'[w] \in {"failed", "stat"} /\ \A v \in Writer : v # w => step'[v] = step[v]
  BY <1>1 DEF PutInv, Descriptors
<1>3. Descriptors'
  BY <1>1, <1>2 DEF PutInv, Descriptors
<1>4. Alone'
  BY <1>1, <1>2 DEF PutInv, Alone, Busy
<1>5. StoredIsWhole'
  BY <1>1 DEF PutInv, StoredIsWhole
<1> QED
  BY <1>3, <1>4, <1>5 DEF PutInv

\* The inductive invariant of one body's file.
THEOREM PutInvariant == PutSpec => []PutInv
<1>1. PutInit => PutInv
  BY PutStart
<1>2. PutInv /\ [PutNext]_putVars => PutInv'
  <2> SUFFICES ASSUME PutInv, [PutNext]_putVars PROVE PutInv'
    OBVIOUS
  <2>1. CASE UNCHANGED putVars
    BY <2>1 DEF putVars, PutInv, Descriptors, Alone, Busy, StoredIsWhole
  <2> QED
    BY <2>1, StatInv, OpenTmpInv, WriteTmpInv, WriteFailsInv, CrashInv, RenameInv, RemoveTmpInv DEF PutNext, Step
<1> QED
  BY <1>1, <1>2, PTL DEF PutSpec

\* A body whose ref was returned is there: whole, or about to be made whole by a Put
\* that has it open, unless a failure hit Puts that raced; and whole without
\* exception as long as Puts of the body did not overlap, across any crash between
\* the system calls.  For any number of concurrent Puts and of failures.
THEOREM PutIsAtomic == PutSpec => []BodiesAreWhole
<1>1. PutInv => BodiesAreWhole
  <2> SUFFICES ASSUME PutInv PROVE AloneIsAtomic
    BY DEF PutInv, BodiesAreWhole
  <2> SUFFICES ASSUME ~overlap, acked, final \notin whole PROVE FALSE
    BY DEF AloneIsAtomic
  <2>1. final # NoFile /\ \E w \in Writer : fd[w] = final
    BY DEF PutInv, StoredIsWhole
  <2> QED
    BY <2>1 DEF PutInv, Alone, Descriptors
<1> QED
  BY <1>1, PutInvariant, PTL

-----------------------------------------------------------------------------
(* The log in SQL: the proofs.                                             *)

\* The maximum of a bounded set of numbers.
LEMMA MaxFacts ==
  ASSUME NEW n \in Nat, NEW S \in SUBSET (0 .. n), S # {}
  PROVE  Max(S) \in S /\ \A y \in S : y <= Max(S)
<1>1. PICK m \in S : \A y \in S : y <= m
  BY HighestNumber
<1>2. \A y \in S : m >= y
  BY <1>1
<1>3. Max(S) \in S /\ \A y \in S : Max(S) >= y
  BY <1>2, Zenon DEF Max
<1> QED
  BY <1>3

\* The numbers that appends get.
LEMMA NumberFacts ==
  ASSUME NEW s \in Nat, highest \in Nat, spoilt \in BOOLEAN, Number(s)
  PROVE  /\ highest' \in Nat /\ highest <= highest' /\ s <= highest'
         /\ spoilt' \in BOOLEAN /\ (~spoilt' => ~spoilt /\ s > highest)
<1> DEFINE n == highest + s
<1>1. {highest, s} \in SUBSET (0 .. n) /\ n \in Nat
  OBVIOUS
<1>2. Max({highest, s}) \in {highest, s} /\ \A y \in {highest, s} : y <= Max({highest, s})
  <2> HIDE DEF n
  <2> QED
    BY <1>1, MaxFacts
<1>3. highest' = Max({highest, s})
  BY DEF Number
<1>4. spoilt' = (spoilt \/ s <= highest)
  BY DEF Number
<1>5. highest' \in Nat /\ highest <= highest' /\ s <= highest'
  BY <1>2, <1>3
<1>6. spoilt' \in BOOLEAN /\ (~spoilt' => ~spoilt /\ ~(s <= highest))
  BY <1>4
<1> QED
  BY <1>5, <1>6

\* What a replay makes of a projection.
LEMMA ReplayedFacts ==
  ASSUME NEW n \in Nat, NEW p, p.seq \in 0 .. n, NEW tail, \A row \in tail : row.seq \in 0 .. n
  PROVE  /\ Replayed(p, tail).seq \in 0 .. n
         /\ Replayed(p, tail).evs = p.evs \cup {row.ev : row \in {x \in tail : x.seq > p.seq}}
<1> DEFINE new == {row \in tail : row.seq > p.seq}
           seqs == {p.seq} \cup {row.seq : row \in new}
<1>1. seqs \in SUBSET (0 .. n) /\ seqs # {}
  OBVIOUS
<1>2. Replayed(p, tail) = [seq |-> Max(seqs), evs |-> p.evs \cup {row.ev : row \in new}]
  BY DEF Replayed
<1>3. Max(seqs) \in 0 .. n
  <2> HIDE DEF seqs
  <2> QED
    BY <1>1, MaxFacts
<1> QED
  BY <1>2, <1>3

\* The first statement of Append reads a number at or below the highest.
LEMMA HighestSeqFacts ==
  ASSUME SqlTypes
  PROVE  HighestSeq \in Nat
<1> DEFINE S == {0} \cup {row.seq : row \in rows}
<1>1. S \in SUBSET (0 .. highest) /\ S # {} /\ highest \in Nat
  BY DEF SqlTypes
<1>2. HighestSeq = Max(S)
  BY DEF HighestSeq
<1> HIDE DEF S
<1>3. Max(S) \in S
  BY <1>1, MaxFacts
<1>4. Max(S) \in 0 .. highest
  BY <1>1, <1>3, Zenon
<1> QED
  BY <1>1, <1>2, <1>4

\* What the next process reads.
LEMMA RecoveredFacts ==
  ASSUME SqlTypes
  PROVE  /\ Recovered.seq \in 0 .. highest
         /\ Recovered.evs = saved.evs \cup {row.ev : row \in {x \in rows : x.seq > saved.seq}}
<1>1. /\ highest \in Nat /\ saved.seq \in 0 .. highest /\ \A row \in rows : row.seq \in 0 .. highest
  BY DEF SqlTypes
<1> DEFINE tail == RowsFrom(saved.seq + 1)
<1>2. \A row \in tail : row.seq \in 0 .. highest
  BY <1>1 DEF RowsFrom
<1>3. {x \in tail : x.seq > saved.seq} = {x \in rows : x.seq > saved.seq}
  <2>1. \A x \in rows : x.seq > saved.seq <=> x.seq >= saved.seq + 1
    BY <1>1
  <2> QED
    BY <2>1 DEF RowsFrom
<1>4. Recovered = Replayed(saved, tail)
  BY DEF Recovered
<1> HIDE DEF tail
<1>5. /\ Replayed(saved, tail).seq \in 0 .. highest
      /\ Replayed(saved, tail).evs = saved.evs \cup {row.ev : row \in {x \in tail : x.seq > saved.seq}}
  BY <1>1, <1>2, ReplayedFacts
<1> QED
  BY <1>3, <1>4, <1>5

\* An empty table.
LEMMA SqlStart == SqlInit => SqlInv
<1> SUFFICES ASSUME SqlInit PROVE SqlInv
  OBVIOUS
<1>1. NoSeq \in Nat /\ Nothing.seq = 0 /\ Nothing.evs = {}
  BY SqlAssumption DEF NoSeq, Nothing
<1>2. SqlTypes
  <2>1. /\ held = [r \in Replica |-> held[r]] /\ \A r \in Replica : held[r].seq \in 0 .. 0
        /\ saved.seq \in 0 .. 0 /\ maxSeq \in [Replica -> Nat]
    BY <1>1 DEF SqlInit
  <2> QED
    BY <2>1 DEF SqlInit, SqlTypes
<1>3. Durable
  BY DEF SqlInit, Durable
<1> QED
  BY <1>2, <1>3 DEF SqlInv

\* The first statement of an append, and readers.
LEMMA SelectMaxInv ==
  ASSUME SqlInv, NEW r \in Replica, SelectRefused(r) \/ SelectMax(r) \/ Reads(r) \/ UNCHANGED sqlVars
  PROVE  SqlInv'
<1>1. /\ maxSeq' = maxSeq \/ maxSeq' = [maxSeq EXCEPT ![r] = HighestSeq]
      /\ UNCHANGED <<backend, rows, saved, held, given, durable, complete, highest, spoilt>>
  BY DEF SelectRefused, SelectMax, Reads, sqlVars
<1>2. maxSeq' \in [Replica -> Nat]
  BY <1>1, HighestSeqFacts DEF SqlInv, SqlTypes
<1> QED
  BY <1>1, <1>2 DEF SqlInv, SqlTypes, Durable

\* An append, with the event applied; or one whose answer was lost.
LEMMA AppendInv ==
  ASSUME SqlInv, NEW r \in Replica, Insert(r) \/ \E b \in BOOLEAN : InsertFails(r, b)
  PROVE  SqlInv'
<1> DEFINE row == [seq |-> maxSeq[r] + 1, ev |-> given + 1]
<1>1. /\ row.seq \in Nat /\ row.ev \in Nat /\ row.seq = maxSeq[r] + 1
      /\ highest \in Nat /\ spoilt \in BOOLEAN /\ given \in Nat
  BY DEF SqlInv, SqlTypes
<1>2. maxSeq' \in [Replica -> Nat]
  <2>1. maxSeq' = [maxSeq EXCEPT ![r] = NoSeq]
    BY DEF Insert, InsertFails
  <2>2. NoSeq \in Nat
    BY SqlAssumption DEF NoSeq
  <2> QED
    BY <2>1, <2>2 DEF SqlInv, SqlTypes
<1>3. CASE UNCHANGED <<backend, saved, rows, held, given, durable, complete, highest, spoilt>>
  BY <1>2, <1>3 DEF SqlInv, SqlTypes, Durable
<1>4. CASE /\ rows' = rows \cup {row} /\ given' = given + 1 /\ Number(row.seq)
           /\ UNCHANGED <<backend, saved>>
           /\ \/ /\ held' = [held EXCEPT ![r] = Replayed(@, {row})] /\ durable' = durable \cup {row.ev}
                 /\ complete' = complete \cap {r}
              \/ UNCHANGED <<held, durable, complete>>
  <2>1. /\ highest' \in Nat /\ highest <= highest' /\ row.seq <= highest'
        /\ spoilt' \in BOOLEAN /\ (~spoilt' => ~spoilt /\ row.seq > highest)
    BY <1>1, <1>4, NumberFacts
  <2>2. row \in [seq : 0 .. highest', ev : Nat]
    BY <1>1, <2>1
  <2> HIDE DEF row
  <2>3. /\ Replayed(held[r], {row}).seq \in 0 .. highest'
        /\ Replayed(held[r], {row}).evs = held[r].evs \cup {x.ev : x \in {y \in {row} : y.seq > held[r].seq}}
    <3>1. held[r].seq \in 0 .. highest' /\ \A x \in {row} : x.seq \in 0 .. highest'
      BY <2>1, <2>2 DEF SqlInv, SqlTypes
    <3> QED
      BY <2>1, <3>1, ReplayedFacts
  <2>4. /\ held' = [q \in Replica |-> held'[q]] /\ \A q \in Replica : held'[q].seq \in 0 .. highest'
    <3>1. /\ held = [q \in Replica |-> held[q]] /\ \A q \in Replica : held[q].seq \in 0 .. highest'
      BY <2>1 DEF SqlInv, SqlTypes
    <3>2. CASE held' = held
      BY <3>1, <3>2
    <3>3. CASE held' = [held EXCEPT ![r] = Replayed(@, {row})]
      BY <2>3, <3>1, <3>3
    <3> QED
      BY <1>4, <3>2, <3>3
  <2>5. SqlTypes'
    <3>1. rows' \subseteq [seq : 0 .. highest', ev : Nat]
      BY <1>4, <2>1, <2>2 DEF SqlInv, SqlTypes
    <3>2. saved.seq \in 0 .. highest' /\ given + 1 \in Nat /\ complete' \subseteq Replica
      BY <1>4, <2>1 DEF SqlInv, SqlTypes
    <3> QED
      BY <1>2, <1>4, <2>1, <2>4, <3>1, <3>2 DEF SqlInv, SqlTypes
  <2>6. Durable'
    <3> SUFFICES ASSUME ~spoilt'
                 PROVE  /\ \A e \in durable' : e \in saved'.evs \/ \E x \in rows' : x.ev = e /\ x.seq > saved'.seq
                        /\ \A q \in complete' : durable' \subseteq held'[q].evs
      BY DEF Durable
    <3>1. ~spoilt /\ row.seq > highest
      BY <2>1
    <3>2. /\ \A e \in durable : e \in saved.evs \/ \E x \in rows : x.ev = e /\ x.seq > saved.seq
          /\ \A q \in complete : durable \subseteq held[q].evs
      BY <3>1 DEF SqlInv, Durable
    <3>3. row.seq > saved.seq /\ row.seq > held[r].seq
      <4>1. saved.seq \in 0 .. highest /\ held[r].seq \in 0 .. highest
        BY DEF SqlInv, SqlTypes
      <4> QED
        BY <1>1, <3>1, <4>1
    <3>4. \A e \in durable' : e \in saved'.evs \/ \E x \in rows' : x.ev = e /\ x.seq > saved'.seq
      BY <1>4, <3>2, <3>3
    <3>5. ASSUME NEW q \in complete' PROVE durable' \subseteq held'[q].evs
      <4>1. CASE UNCHANGED <<held, durable, complete>>
        BY <3>2, <3>5, <4>1
      <4>2. CASE /\ held' = [held EXCEPT ![r] = Replayed(@, {row})] /\ durable' = durable \cup {row.ev}
                 /\ complete' = complete \cap {r}
        <5>1. q = r /\ q \in complete
          BY <3>5, <4>2
        <5>2. held'[r] = Replayed(held[r], {row})
          BY <4>2 DEF SqlInv, SqlTypes
        <5>3. row.ev \in {x.ev : x \in {y \in {row} : y.seq > held[r].seq}}
          BY <3>3
        <5> QED
          BY <2>3, <3>2, <4>2, <5>1, <5>2, <5>3
      <4> QED
        BY <1>4, <4>1, <4>2
    <3> QED
      BY <3>4, <3>5
  <2> QED
    BY <2>5, <2>6 DEF SqlInv
<1> QED
  <2>1. CASE Insert(r)
    BY <1>3, <1>4, <2>1 DEF Insert
  <2>2. CASE \E b \in BOOLEAN : InsertFails(r, b)
    BY <1>3, <1>4, <2>2 DEF InsertFails
  <2> QED
    BY <2>1, <2>2

\* A snapshot of a process that has everything loses nothing.
LEMMA SaveSnapshotInv ==
  ASSUME SqlInv, NEW r \in Replica, SaveSnapshot(r)
  PROVE  SqlInv'
<1>1. /\ saved' = held[r] /\ rows' = RowsFrom(held[r].seq + 1)
      /\ spoilt' = (spoilt \/ r \notin complete)
      /\ UNCHANGED <<backend, held, maxSeq, given, durable, complete, highest>>
  BY DEF SaveSnapshot
<1>2. spoilt' \in BOOLEAN /\ (~spoilt' => ~spoilt /\ r \in complete)
  BY <1>1 DEF SqlInv, SqlTypes
<1>3. rows' \subseteq rows
  BY <1>1 DEF RowsFrom
<1>4. SqlTypes'
  BY <1>1, <1>2, <1>3 DEF SqlInv, SqlTypes
<1>5. Durable'
  BY <1>1, <1>2 DEF SqlInv, Durable
<1> QED
  BY <1>4, <1>5 DEF SqlInv

\* A process that opens the log with the snapshot has everything.
LEMMA RestartedInv ==
  ASSUME SqlInv, NEW r \in Replica, NEW loaded \in BOOLEAN, Restarted(r, loaded)
  PROVE  SqlInv'
<1> DEFINE p == IF loaded THEN Recovered ELSE Replayed(Nothing, RowsFrom(1))
<1>1. /\ held' = [held EXCEPT ![r] = p]
      /\ complete' = IF loaded THEN complete \cup {r} ELSE complete \ {r}
      /\ maxSeq' = [maxSeq EXCEPT ![r] = NoSeq]
      /\ UNCHANGED <<backend, rows, saved, given, durable, highest, spoilt>>
  BY DEF Restarted
<1>2. SqlTypes /\ NoSeq \in Nat
  BY SqlAssumption DEF SqlInv, NoSeq
<1>3. p.seq \in 0 .. highest
  <2>1. Nothing.seq \in 0 .. highest /\ highest \in Nat
    BY <1>2 DEF Nothing, SqlTypes
  <2>2. \A row \in RowsFrom(1) : row.seq \in 0 .. highest
    BY <1>2 DEF RowsFrom, SqlTypes
  <2>3. Replayed(Nothing, RowsFrom(1)).seq \in 0 .. highest
    BY <2>1, <2>2, ReplayedFacts
  <2> QED
    BY <1>2, <2>3, RecoveredFacts
<1>4. loaded /\ ~spoilt => durable \subseteq p.evs
  <2> SUFFICES ASSUME loaded, ~spoilt, NEW e \in durable PROVE e \in Recovered.evs
    OBVIOUS
  <2>1. e \in saved.evs \/ \E row \in rows : row.ev = e /\ row.seq > saved.seq
    BY DEF SqlInv, Durable
  <2> QED
    BY <1>2, <2>1, RecoveredFacts
<1> HIDE DEF p
<1>5. held' = [q \in Replica |-> held'[q]] /\ held'[r] = p /\ \A q \in Replica : q # r => held'[q] = held[q]
  BY <1>1, <1>2 DEF SqlTypes
<1>6. SqlTypes'
  BY <1>1, <1>2, <1>3, <1>5 DEF SqlTypes
<1>7. Durable'
  <2>1. ASSUME ~spoilt, NEW q \in complete' PROVE durable \subseteq held'[q].evs
    <3>1. CASE q = r
      BY <1>1, <1>4, <1>5, <2>1, <3>1
    <3>2. CASE q # r
      <4>1. q \in complete /\ q \in Replica
        BY <1>1, <1>2, <2>1, <3>2 DEF SqlTypes
      <4> QED
        BY <1>5, <2>1, <3>2, <4>1 DEF SqlInv, Durable
    <3> QED
      BY <3>1, <3>2
  <2> QED
    BY <1>1, <2>1 DEF SqlInv, Durable
<1> QED
  BY <1>6, <1>7 DEF SqlInv

\* The inductive invariant of the log in SQL.
THEOREM SqlInvariant == SqlSpec => []SqlInv
<1>1. SqlInit => SqlInv
  BY SqlStart
<1>2. SqlInv /\ [SqlNext]_sqlVars => SqlInv'
  <2> SUFFICES ASSUME SqlInv, [SqlNext]_sqlVars PROVE SqlInv'
    OBVIOUS
  <2>1. Process \subseteq Replica /\ Replica # {}
    BY SqlAssumption, Zenon DEF Process
  <2>2. CASE UNCHANGED sqlVars
    BY <2>1, <2>2, SelectMaxInv
  <2>3. ASSUME NEW r \in Process, SelectRefused(r) \/ SelectMax(r) \/ Insert(r) \/ SaveSnapshot(r) \/ Reads(r)
        PROVE  SqlInv'
    BY <2>1, <2>3, SelectMaxInv, AppendInv, SaveSnapshotInv
  <2>4. ASSUME NEW r \in Process, NEW b \in BOOLEAN, InsertFails(r, b) \/ Restarted(r, b)
        PROVE  SqlInv'
    BY <2>1, <2>4, AppendInv, RestartedInv
  <2> QED
    BY <2>2, <2>3, <2>4 DEF SqlNext
<1> QED
  BY <1>1, <1>2, PTL DEF SqlSpec

\* An event whose Append returned is in what the next process reads, for any number of
\* processes, lost answers, restarts and compactions, unless a number was given twice
\* or a process that did not have all events compacted.
THEOREM SqlKeepsAcked == SqlSpec => []AckedUnlessSpoilt
<1>1. SqlInv => AckedUnlessSpoilt
  <2> SUFFICES ASSUME SqlInv, ~spoilt, NEW e \in durable PROVE e \in Recovered.evs
    BY DEF AckedUnlessSpoilt
  <2>1. e \in saved.evs \/ \E row \in rows : row.ev = e /\ row.seq > saved.seq
    BY DEF SqlInv, Durable
  <2> QED
    BY <2>1, RecoveredFacts DEF SqlInv
<1> QED
  BY <1>1, SqlInvariant, PTL

-----------------------------------------------------------------------------
(* Deferred actions.  A call of Schedule is in one place at any time: with *)
(* the store, in the batch, handled, or revoked.                           *)

Scheduled == {i \in Item : pending[i] # NoItem}
Stores == [Item -> [due : Nat, ask : Nat]]
Queues == Seq([id : Item, due : Nat, ask : Nat])

\* Whatever is stored or on its way was asked for.
SnoozeTypes ==
  /\ asked \in Nat /\ clock \in Nat /\ clock <= MaxTime
  /\ pending \in Stores /\ batch \in Queues
  /\ \A i \in Scheduled : pending[i].due <= MaxTime /\ pending[i].ask \in 1 .. asked
  /\ \A k \in 1 .. Len(batch) : batch[k].ask \in 1 .. asked
  /\ handled \subseteq 1 .. asked /\ revoked \subseteq 1 .. asked

\* A call is in one place at most ...
Apart ==
  /\ \A i, j \in Scheduled : pending[i].ask = pending[j].ask => i = j
  /\ \A j, k \in 1 .. Len(batch) : batch[j].ask = batch[k].ask => j = k
  /\ \A i \in Scheduled : pending[i].ask \notin handled /\ pending[i].ask \notin revoked
  /\ \A k \in 1 .. Len(batch) : batch[k].ask \notin handled /\ batch[k].ask \notin revoked
  /\ \A i \in Scheduled, k \in 1 .. Len(batch) : pending[i].ask # batch[k].ask
  /\ handled \cap revoked = {}

\* ... and in one at least.
Somewhere ==
  \A n \in 1 .. asked :
    \/ n \in handled \/ n \in revoked
    \/ \E i \in Scheduled : pending[i].ask = n
    \/ \E k \in 1 .. Len(batch) : batch[k].ask = n

InTime == \A j, k \in 1 .. Len(batch) : j < k => batch[j].due <= batch[k].due

SnoozeInv == SnoozeTypes /\ Apart /\ Somewhere /\ InTime

\* Nothing is scheduled.
LEMMA SnoozeStart == SnoozeInit => SnoozeInv
<1> SUFFICES ASSUME SnoozeInit PROVE SnoozeInv
  OBVIOUS
<1>1. NoItem \in [due : Nat, ask : Nat]
  BY SnoozeAssumption DEF NoItem, Never
<1>2. Scheduled = {} /\ Len(batch) = 0 /\ batch \in Queues
  BY DEF SnoozeInit, Scheduled, Queues
<1>3. SnoozeTypes
  BY <1>1, <1>2, SnoozeAssumption DEF SnoozeInit, SnoozeTypes, Stores
<1>4. Apart /\ Somewhere /\ InTime
  BY <1>2 DEF SnoozeInit, Apart, Somewhere, InTime
<1> QED
  BY <1>3, <1>4 DEF SnoozeInv

\* Schedule: a new call, and the one it replaces is revoked.
LEMMA ScheduleInv ==
  ASSUME SnoozeInv, NEW i \in Item, NEW t \in 0 .. MaxTime, Schedule(i, t)
  PROVE  SnoozeInv'
<1> DEFINE new == [due |-> t, ask |-> asked + 1]
<1>0. /\ asked \in Nat /\ pending \in Stores /\ asked' = asked + 1 /\ UNCHANGED <<clock, batch, handled>>
      /\ pending' = [pending EXCEPT ![i] = new] /\ revoked' = Revoke(i)
  BY DEF Schedule, SnoozeInv, SnoozeTypes
<1>1. t \in Nat /\ t <= MaxTime /\ new \in [due : Nat, ask : Nat]
  BY <1>0, SnoozeAssumption
<1>2. \A j \in Item : pending'[j] = IF j = i THEN new ELSE pending[j]
  BY <1>0 DEF Stores
<1>3. new # NoItem
  BY <1>0 DEF NoItem
<1>4. /\ i \in Scheduled' /\ \A j \in Item : j # i => (j \in Scheduled' <=> j \in Scheduled)
      /\ \A j \in Scheduled' : j \in Item
  BY <1>2, <1>3 DEF Scheduled
<1>5. \A n \in 1 .. asked : n \in 1 .. asked + 1 /\ n # asked + 1
  BY <1>0
<1>6. /\ i \in Scheduled => revoked' = revoked \cup {pending[i].ask}
      /\ i \notin Scheduled => revoked' = revoked
  BY <1>0 DEF Revoke, Scheduled
<1>7. asked + 1 \in 1 .. asked + 1 /\ asked + 1 \notin 1 .. asked
  BY <1>0
<1>8. pending' \in Stores
  BY <1>0, <1>1 DEF Stores
<1>9. new.ask = asked + 1 /\ new.due = t
  OBVIOUS
<1> HIDE DEF new
<1>10. SnoozeTypes'
  <2>1. \A j \in Scheduled' : pending'[j].due <= MaxTime /\ pending'[j].ask \in 1 .. asked'
    BY <1>0, <1>1, <1>2, <1>4, <1>5, <1>7, <1>9 DEF SnoozeInv, SnoozeTypes
  <2>2. revoked' \subseteq 1 .. asked'
    BY <1>0, <1>5, <1>6 DEF SnoozeInv, SnoozeTypes
  <2> QED
    BY <1>0, <1>5, <1>8, <2>1, <2>2 DEF SnoozeInv, SnoozeTypes
<1>11. Apart'
  <2>1. \A j \in Scheduled' : j # i => j \in Scheduled /\ pending'[j] = pending[j]
    BY <1>2, <1>4
  <2>2. pending'[i].ask = asked + 1
    BY <1>2, <1>9
  <2>3. \A j \in Scheduled : pending[j].ask \in 1 .. asked
    BY DEF SnoozeInv, SnoozeTypes
  <2>4. \A k \in 1 .. Len(batch) : batch[k].ask \in 1 .. asked
    BY DEF SnoozeInv, SnoozeTypes
  <2>5. handled \subseteq 1 .. asked /\ revoked' \subseteq 1 .. asked
    BY <1>6, <2>3 DEF SnoozeInv, SnoozeTypes
  <2>6. \A j \in Scheduled : j # i => pending[j].ask \notin revoked'
    BY <1>6 DEF SnoozeInv, Apart
  <2>7. \A k \in 1 .. Len(batch) : batch[k].ask \notin revoked'
    BY <1>6 DEF SnoozeInv, Apart
  <2>8. handled \cap revoked' = {}
    BY <1>6 DEF SnoozeInv, Apart
  <2>9. /\ \A j, k \in Scheduled' : pending'[j].ask = pending'[k].ask => j = k
        /\ \A j \in Scheduled' : pending'[j].ask \notin handled /\ pending'[j].ask \notin revoked'
        /\ \A j \in Scheduled', k \in 1 .. Len(batch) : pending'[j].ask # batch[k].ask
    BY <1>7, <2>1, <2>2, <2>3, <2>4, <2>5, <2>6 DEF SnoozeInv, Apart
  <2> QED
    BY <1>0, <2>7, <2>8, <2>9 DEF SnoozeInv, Apart
<1>12. Somewhere'
  <2> SUFFICES ASSUME NEW n \in 1 .. asked'
               PROVE  \/ n \in handled' \/ n \in revoked'
                      \/ \E j \in Scheduled' : pending'[j].ask = n
                      \/ \E k \in 1 .. Len(batch') : batch'[k].ask = n
    BY DEF Somewhere
  <2>1. CASE n = asked + 1
    BY <1>2, <1>4, <1>9, <2>1
  <2>2. CASE n \in 1 .. asked
    <3>1. CASE \E j \in Scheduled : pending[j].ask = n
      <4>1. PICK j \in Scheduled : pending[j].ask = n
        BY <3>1
      <4>2. j \in Item
        BY DEF Scheduled
      <4> QED
        BY <1>2, <1>4, <1>6, <4>1, <4>2
    <3> QED
      BY <1>0, <1>6, <2>2, <3>1 DEF SnoozeInv, Somewhere
  <2> QED
    BY <1>0, <2>1, <2>2
<1>13. InTime'
  BY <1>0 DEF SnoozeInv, InTime
<1> QED
  BY <1>10, <1>11, <1>12, <1>13 DEF SnoozeInv

\* Cancel, while the item waits.
LEMMA CancelInv ==
  ASSUME SnoozeInv, NEW i \in Item, CancelItem(i)
  PROVE  SnoozeInv'
<1>0. /\ pending \in Stores /\ UNCHANGED <<clock, batch, handled, asked>> /\ i \in Scheduled
      /\ pending' = [pending EXCEPT ![i] = NoItem] /\ revoked' = revoked \cup {pending[i].ask}
  BY DEF CancelItem, Revoke, SnoozeInv, SnoozeTypes, Scheduled
<1>1. \A j \in Item : pending'[j] = IF j = i THEN NoItem ELSE pending[j]
  BY <1>0 DEF Stores
<1>2. Scheduled' = Scheduled \ {i} /\ \A j \in Scheduled' : pending'[j] = pending[j]
  BY <1>1 DEF Scheduled
<1>3. NoItem \in [due : Nat, ask : Nat]
  BY SnoozeAssumption DEF NoItem, Never
<1>4. SnoozeTypes'
  BY <1>0, <1>2, <1>3 DEF SnoozeInv, SnoozeTypes, Stores
<1>5. Apart'
  <2>1. \A j \in Scheduled' : j \in Scheduled /\ j # i
    BY <1>2
  <2> QED
    BY <1>0, <1>2, <2>1 DEF SnoozeInv, Apart
<1>6. Somewhere'
  <2> SUFFICES ASSUME NEW n \in 1 .. asked
               PROVE  \/ n \in handled \/ n \in revoked'
                      \/ \E j \in Scheduled' : pending'[j].ask = n
                      \/ \E k \in 1 .. Len(batch) : batch[k].ask = n
    BY <1>0 DEF Somewhere
  <2>1. CASE \E j \in Scheduled : pending[j].ask = n
    <3>1. PICK j \in Scheduled : pending[j].ask = n
      BY <2>1
    <3>2. CASE j = i
      BY <1>0, <3>1, <3>2
    <3>3. CASE j # i
      <4>1. j \in Scheduled' /\ pending'[j].ask = n
        BY <1>2, <3>1, <3>3
      <4> QED
        BY <4>1
    <3> QED
      BY <3>2, <3>3
  <2> QED
    BY <1>0, <2>1 DEF SnoozeInv, Somewhere
<1>7. InTime'
  BY <1>0 DEF SnoozeInv, InTime
<1> QED
  BY <1>4, <1>5, <1>6, <1>7 DEF SnoozeInv

\* The items that are due, as Due returns them: each once.
LEMMA BatchIsDue ==
  ASSUME SnoozeInv, Due
  PROVE  /\ batch' \in Queues
         /\ \A k \in 1 .. Len(batch') : \E i \in DueNow : batch'[k] = Entry(i)
         /\ \A i \in DueNow : \E k \in 1 .. Len(batch') : batch'[k] = Entry(i)
         /\ \A j, k \in 1 .. Len(batch') : batch'[j] = batch'[k] => j = k
         /\ \A j, k \in 1 .. Len(batch') : j < k => Earlier(batch'[j], batch'[k])
<1> DEFINE S == {Entry(i) : i \in DueNow}
           n == Cardinality(S)
           q == batch'
<1>1. q \in [1 .. n -> S] /\ (\A j, k \in 1 .. n : j # k => q[j] # q[k]) /\ (\A j, k \in DOMAIN q : j < k => Earlier(q[j], q[k]))
  BY DEF Due, SetToSeqs
<1>2. \A i \in DueNow : i \in Scheduled
  <2> SUFFICES ASSUME NEW i \in Item, pending[i].due <= clock, pending[i] = NoItem PROVE FALSE
    BY DEF DueNow, Scheduled
  <2>1. pending[i].due = MaxTime + 1 /\ clock \in Nat /\ clock <= MaxTime /\ MaxTime \in Nat
    BY SnoozeAssumption DEF NoItem, Never, SnoozeInv, SnoozeTypes
  <2> QED
    BY <2>1
<1>3. IsFiniteSet(S) /\ n \in Nat
  <2> DEFINE f == [e \in S |-> e.ask]
  <2>1. asked \in Nat /\ \A i \in Scheduled : pending[i].ask \in 1 .. asked
    BY DEF SnoozeInv, SnoozeTypes
  <2>2. \A i \in DueNow : Entry(i).ask = pending[i].ask
    BY DEF Entry
  <2>3. f \in [S -> 1 .. asked]
    BY <1>2, <2>1, <2>2
  <2>4. ASSUME NEW a \in S, NEW b \in S, a.ask = b.ask PROVE a = b
    <3>1. PICK i \in DueNow, j \in DueNow : a = Entry(i) /\ b = Entry(j)
      OBVIOUS
    <3>2. i = j
      BY <1>2, <2>2, <2>4, <3>1 DEF SnoozeInv, Apart
    <3> QED
      BY <3>1, <3>2
  <2> HIDE DEF S
  <2>5. f \in Injection(S, 1 .. asked)
    BY <2>3, <2>4 DEF Injection, IsInjective
  <2>6. IsFiniteSet(1 .. asked)
    BY <2>1, FS_Interval
  <2>7. IsFiniteSet(S)
    <3> HIDE DEF f
    <3> QED
      BY <2>5, <2>6, FS_Injection
  <2> QED
    BY <2>7, FS_CardinalityType
<1>4. q \in Seq(S) /\ Len(q) = n /\ DOMAIN q = 1 .. n
  <2> HIDE DEF S, n
  <2> QED
    BY <1>1, <1>3
<1>5. \A e \in S : \E k \in 1 .. n : q[k] = e
  <2>1. q \in Injection(1 .. n, S)
    BY <1>1 DEF Injection, IsInjective
  <2>2. Cardinality(1 .. n) = n /\ IsFiniteSet(1 .. n)
    <3> HIDE DEF n
    <3>1. IsFiniteSet(1 .. n) /\ Cardinality(1 .. n) = IF 1 > n THEN 0 ELSE n - 1 + 1
      BY <1>3, FS_Interval
    <3> QED
      BY <1>3, <3>1
  <2> HIDE DEF S
  <2>3. q \in Surjection(1 .. n, S)
    BY <1>3, <2>1, <2>2, FS_Injection
  <2> QED
    BY <2>3 DEF Surjection
<1>6. \A e \in S : e \in [id : Item, due : Nat, ask : Nat]
  <2>1. \A i \in DueNow : i \in Item /\ pending[i] \in [due : Nat, ask : Nat]
    BY DEF DueNow, SnoozeInv, SnoozeTypes, Stores
  <2> QED
    BY <2>1 DEF Entry
<1>7. \A e \in S : \E i \in DueNow : e = Entry(i)
  OBVIOUS
<1>8. \A i \in DueNow : Entry(i) \in S
  OBVIOUS
<1> HIDE DEF S, n
<1>9. q \in Queues
  <2> DEFINE R == [id : Item, due : Nat, ask : Nat]
  <2>1. \A e \in S : e \in R
    BY <1>6
  <2>2. Queues = Seq(R)
    BY DEF Queues
  <2> HIDE DEF R
  <2>3. q \in Seq(R)
    BY <1>4, <2>1
  <2> QED
    BY <2>2, <2>3
<1>10. \A k \in 1 .. n : q[k] \in S
  BY <1>1
<1> QED
  BY <1>1, <1>4, <1>5, <1>7, <1>8, <1>9, <1>10

\* Due: calls move from the store to the batch.
LEMMA DueInv ==
  ASSUME SnoozeInv, Due
  PROVE  SnoozeInv'
<1>0. /\ batch = <<>> /\ Len(batch) = 0 /\ UNCHANGED <<clock, handled, asked, revoked>>
      /\ pending' = [i \in Item |-> IF i \in DueNow THEN NoItem ELSE pending[i]]
      /\ pending \in Stores
  BY DEF Due, Left, SnoozeInv, SnoozeTypes
<1>1. Scheduled' = Scheduled \ DueNow /\ \A j \in Scheduled' : pending'[j] = pending[j]
  BY <1>0 DEF Scheduled
<1>2. NoItem \in [due : Nat, ask : Nat] /\ \A i \in Item : pending[i] \in [due : Nat, ask : Nat]
  BY <1>0, SnoozeAssumption DEF NoItem, Never, Stores
<1>3. pending' \in Stores
  BY <1>0, <1>2 DEF Stores
<1>4. \A i \in DueNow : i \in Scheduled
  <2> SUFFICES ASSUME NEW i \in Item, pending[i].due <= clock, pending[i] = NoItem PROVE FALSE
    BY DEF DueNow, Scheduled
  <2>1. pending[i].due = MaxTime + 1 /\ clock \in Nat /\ clock <= MaxTime /\ MaxTime \in Nat
    BY SnoozeAssumption DEF NoItem, Never, SnoozeInv, SnoozeTypes
  <2> QED
    BY <2>1
<1>5. \A i \in DueNow : Entry(i).ask = pending[i].ask /\ Entry(i).due = pending[i].due
  BY DEF Entry
<1>6. \A k \in 1 .. Len(batch') : \E i \in DueNow : batch'[k] = Entry(i) /\ batch'[k].ask = pending[i].ask /\ i \in Scheduled
  BY <1>4, <1>5, BatchIsDue
<1>7. SnoozeTypes'
  <2>1. \A k \in 1 .. Len(batch') : batch'[k].ask \in 1 .. asked
    BY <1>6 DEF SnoozeInv, SnoozeTypes
  <2>2. \A i \in Scheduled' : pending'[i].due <= MaxTime /\ pending'[i].ask \in 1 .. asked
    BY <1>1 DEF SnoozeInv, SnoozeTypes
  <2>3. batch' \in Queues
    BY BatchIsDue
  <2> QED
    BY <1>0, <1>3, <2>1, <2>2, <2>3 DEF SnoozeInv, SnoozeTypes
<1>8. Apart'
  <2>1. \A i, j \in Scheduled' : pending'[i].ask = pending'[j].ask => i = j
    BY <1>1 DEF SnoozeInv, Apart
  <2>2. ASSUME NEW j \in 1 .. Len(batch'), NEW k \in 1 .. Len(batch'), batch'[j].ask = batch'[k].ask PROVE j = k
    <3>1. PICK a \in DueNow : batch'[j] = Entry(a) /\ batch'[j].ask = pending[a].ask /\ a \in Scheduled
      BY <1>6
    <3>2. PICK b \in DueNow : batch'[k] = Entry(b) /\ batch'[k].ask = pending[b].ask /\ b \in Scheduled
      BY <1>6
    <3>3. a = b
      BY <2>2, <3>1, <3>2 DEF SnoozeInv, Apart
    <3> QED
      BY <3>1, <3>2, <3>3, BatchIsDue
  <2>3. \A i \in Scheduled' : pending'[i].ask \notin handled /\ pending'[i].ask \notin revoked
    BY <1>1 DEF SnoozeInv, Apart
  <2>4. \A k \in 1 .. Len(batch') : batch'[k].ask \notin handled /\ batch'[k].ask \notin revoked
    BY <1>6 DEF SnoozeInv, Apart
  <2>5. ASSUME NEW i \in Scheduled', NEW k \in 1 .. Len(batch') PROVE pending'[i].ask # batch'[k].ask
    <3>1. PICK b \in DueNow : batch'[k] = Entry(b) /\ batch'[k].ask = pending[b].ask /\ b \in Scheduled
      BY <1>6
    <3>2. i # b /\ i \in Scheduled /\ pending'[i] = pending[i]
      BY <1>1
    <3> QED
      BY <3>1, <3>2 DEF SnoozeInv, Apart
  <2> QED
    BY <1>0, <2>1, <2>2, <2>3, <2>4, <2>5 DEF SnoozeInv, Apart
<1>9. Somewhere'
  <2> SUFFICES ASSUME NEW n \in 1 .. asked
               PROVE  \/ n \in handled \/ n \in revoked
                      \/ \E j \in Scheduled' : pending'[j].ask = n
                      \/ \E k \in 1 .. Len(batch') : batch'[k].ask = n
    BY <1>0 DEF Somewhere
  <2>1. CASE \E j \in Scheduled : pending[j].ask = n
    <3>1. PICK j \in Scheduled : pending[j].ask = n
      BY <2>1
    <3>2. CASE j \in DueNow
      BY <1>5, <3>1, <3>2, BatchIsDue
    <3>3. CASE j \notin DueNow
      <4>1. j \in Scheduled' /\ pending'[j].ask = n
        BY <1>1, <3>1, <3>3
      <4> QED
        BY <4>1
    <3> QED
      BY <3>2, <3>3
  <2> QED
    BY <1>0, <2>1 DEF SnoozeInv, Somewhere
<1>10. InTime'
  <2> SUFFICES ASSUME NEW j \in 1 .. Len(batch'), NEW k \in 1 .. Len(batch'), j < k PROVE batch'[j].due <= batch'[k].due
    BY DEF InTime
  <2>1. Earlier(batch'[j], batch'[k])
    BY BatchIsDue
  <2>2. PICK a \in DueNow, b \in DueNow : batch'[j] = Entry(a) /\ batch'[k] = Entry(b)
    BY <1>6
  <2>3. a \in Item /\ b \in Item
    BY DEF DueNow
  <2>4. batch'[j].due \in Nat /\ batch'[k].due \in Nat
    BY <1>2, <1>5, <2>2, <2>3
  <2> QED
    BY <2>1, <2>4 DEF Earlier
<1> QED
  BY <1>7, <1>8, <1>9, <1>10 DEF SnoozeInv

\* The handler returns.
LEMMA HandleInv ==
  ASSUME SnoozeInv, Handle
  PROVE  SnoozeInv'
<1> DEFINE b == batch
<1>0. /\ b \in Queues /\ b # <<>> /\ batch' = Tail(b) /\ handled' = handled \cup {Head(b).ask}
      /\ UNCHANGED <<clock, pending, asked, revoked>> /\ Scheduled' = Scheduled
  BY DEF Handle, SnoozeInv, SnoozeTypes, Scheduled
<1>1. /\ Len(b) \in Nat /\ Len(b) # 0 /\ batch' \in Queues /\ Len(batch') = Len(b) - 1 /\ Head(b) = b[1]
      /\ \A k \in 1 .. Len(b) - 1 : batch'[k] = b[k + 1]
  BY <1>0 DEF Queues
<1>2. /\ 1 \in 1 .. Len(b)
      /\ \A k \in 1 .. Len(b) - 1 : k + 1 \in 1 .. Len(b) /\ k + 1 # 1
      /\ \A j, k \in 1 .. Len(b) - 1 : (j < k => j + 1 < k + 1) /\ (j + 1 = k + 1 => j = k)
      /\ \A k \in 1 .. Len(b) : k = 1 \/ (k - 1 \in 1 .. Len(b) - 1 /\ k - 1 + 1 = k)
  BY <1>1
<1>3. SnoozeTypes'
  <2>1. \A k \in 1 .. Len(b) : b[k].ask \in 1 .. asked
    BY DEF SnoozeInv, SnoozeTypes
  <2>2. \A k \in 1 .. Len(batch') : batch'[k].ask \in 1 .. asked
    BY <1>1, <1>2, <2>1
  <2>3. handled' \subseteq 1 .. asked
    <3>1. b[1].ask \in 1 .. asked /\ Head(b).ask = b[1].ask /\ handled \subseteq 1 .. asked
      BY <1>1, <1>2, <2>1 DEF SnoozeInv, SnoozeTypes
    <3>2. handled' = handled \cup {Head(b).ask}
      BY <1>0
    <3> QED
      BY <3>1, <3>2, Zenon
  <2> QED
    BY <1>0, <1>1, <2>2, <2>3 DEF SnoozeInv, SnoozeTypes
<1>4. Apart'
  BY <1>0, <1>1, <1>2 DEF SnoozeInv, Apart
<1>5. Somewhere'
  <2> SUFFICES ASSUME NEW n \in 1 .. asked
               PROVE  \/ n \in handled' \/ n \in revoked
                      \/ \E j \in Scheduled : pending[j].ask = n
                      \/ \E k \in 1 .. Len(batch') : batch'[k].ask = n
    BY <1>0 DEF Somewhere
  <2>1. CASE \E k \in 1 .. Len(b) : b[k].ask = n
    <3>1. PICK k \in 1 .. Len(b) : b[k].ask = n
      BY <2>1
    <3>2. CASE k = 1
      BY <1>0, <1>1, <3>1, <3>2
    <3>3. CASE k # 1
      <4>1. k - 1 \in 1 .. Len(batch') /\ batch'[k - 1].ask = n
        BY <1>1, <1>2, <3>1, <3>3
      <4> QED
        BY <4>1
    <3> QED
      BY <3>2, <3>3
  <2> QED
    BY <1>0, <2>1 DEF SnoozeInv, Somewhere
<1>6. InTime'
  BY <1>1, <1>2 DEF SnoozeInv, InTime
<1> QED
  BY <1>3, <1>4, <1>5, <1>6 DEF SnoozeInv

\* The inductive invariant of deferred actions: a call is in one place.
THEOREM SnoozeInvariant == SnoozeSpec => []SnoozeInv
<1>1. SnoozeInv /\ [SnoozeNext]_snoozeVars => SnoozeInv'
  <2> SUFFICES ASSUME SnoozeInv, [SnoozeNext]_snoozeVars PROVE SnoozeInv'
    OBVIOUS
  <2>1. CASE Passes
    <3>1. UNCHANGED <<pending, batch, handled, asked, revoked>> /\ clock' = clock + 1 /\ clock < MaxTime
      BY <2>1 DEF Passes
    <3>2. clock' \in Nat /\ clock' <= MaxTime
      BY <3>1, SnoozeAssumption DEF SnoozeInv, SnoozeTypes
    <3> QED
      BY <3>1, <3>2 DEF SnoozeInv, SnoozeTypes, Apart, Somewhere, InTime, Scheduled
  <2>2. CASE UNCHANGED snoozeVars
    BY <2>2 DEF snoozeVars, SnoozeInv, SnoozeTypes, Apart, Somewhere, InTime, Scheduled
  <2> QED
    BY <2>1, <2>2, DueInv, HandleInv, CancelInv, ScheduleInv DEF SnoozeNext
<1> QED
  BY <1>1, SnoozeStart, PTL DEF SnoozeSpec

\* Scheduler: whatever is scheduled again, cancelled or drained meanwhile, each call of
\* Schedule is handled once, or was replaced or cancelled in time and is never handled.
THEOREM EachFiresOnce == SnoozeSpec => []FiresOnce
<1>1. SnoozeInv => FiresOnce
  <2> SUFFICES ASSUME SnoozeInv PROVE FiresOnce
    OBVIOUS
  <2>1. DOMAIN batch = 1 .. Len(batch)
    BY DEF SnoozeInv, SnoozeTypes, Queues
  <2>2. ASSUME NEW n \in 1 .. asked
        PROVE  n \in Waiting <=> (\E i \in Scheduled : pending[i].ask = n) \/ (\E k \in 1 .. Len(batch) : batch[k].ask = n)
    <3>1. \A i \in Item : i \in Scheduled \/ pending[i].ask = 0
      BY DEF Scheduled, NoItem
    <3>2. n # 0
      BY DEF SnoozeInv, SnoozeTypes
    <3> QED
      BY <2>1, <3>1, <3>2 DEF Waiting, ToSet, Scheduled
  <2>3. ASSUME NEW n \in 1 .. asked
        PROVE  (IF n \in Waiting THEN 1 ELSE 0) + (IF n \in handled THEN 1 ELSE 0) + (IF n \in revoked THEN 1 ELSE 0) = 1
    <3>1. n \in Waiting => n \notin handled /\ n \notin revoked
      BY <2>2 DEF SnoozeInv, Apart
    <3>2. ~(n \in handled /\ n \in revoked)
      BY DEF SnoozeInv, Apart
    <3>3. n \in Waiting \/ n \in handled \/ n \in revoked
      BY <2>2 DEF SnoozeInv, Somewhere
    <3> QED
      BY <3>1, <3>2, <3>3
  <2> QED
    BY <2>1, <2>3 DEF FiresOnce, SnoozeInv, InTime
<1> QED
  BY <1>1, SnoozeInvariant, PTL

-----------------------------------------------------------------------------
(* The export.  The separators of an archive are those of its messages, in *)
(* order, for no line of a message is written as one.                      *)

Line == [marks : Nat, from : BOOLEAN]
Mails == Seq(Seq(BodyLine))
Quoted(l) == IF IsFromLine(l) THEN [l EXCEPT !.marks = @ + 1] ELSE l

BackupTypes ==
  /\ ingested \in Mails /\ left \in Mails /\ copied \in Mails
  /\ cut \in Nat /\ cut <= Len(ingested) /\ archive \in Seq(Line)

\* Where the messages are in the archive: message k has its separator at place k of the
\* separators, its lines after it and its blank line last.
Places == InOrder(Starts)
Laid ==
  /\ Ascends(Places, Starts) /\ Len(Places) = Len(copied)
  /\ Len(copied) = 0 => Len(archive) = 0
  /\ \A k \in 1 .. Len(copied) :
       /\ Places[k] + Len(copied[k]) + 1 = IF k = Len(copied) THEN Len(archive) ELSE Places[k + 1] - 1
       /\ \A i \in 1 .. Len(copied[k]) : archive[Places[k] + i] = Quoted(copied[k][i])

\* Nothing is left out as long as the log is whole.
Listed == cut = 0 => IsPrefix(copied \o left, ingested)

BackupInv == BackupTypes /\ Laid /\ Listed

\* A line of a message is never written as a separator ...
LEMMA QuotedIsNone ==
  ASSUME NEW l \in BodyLine
  PROVE  Quoted(l) \in Line /\ Quoted(l) # Separator /\ Unquote(Quoted(l)) = l
<1>1. l \in Line
  BY BackupAssumption DEF Line
<1> QED
  BY <1>1 DEF Line, Quoted, IsFromLine, Separator, Unquote

\* ... and what is written of a message has its length and one line more.
LEMMA BodyIsQuoted ==
  ASSUME NEW body \in Seq(BodyLine)
  PROVE  /\ WriteMboxBody(body) \in Seq(Line) /\ Len(WriteMboxBody(body)) = Len(body) + 1
         /\ \A i \in 1 .. Len(body) : WriteMboxBody(body)[i] = Quoted(body[i])
         /\ WriteMboxBody(body)[Len(body) + 1] = BlankLine
<1> DEFINE n == Len(body)
           q == [i \in 1 .. n |-> Quoted(body[i])]
<1>1. n \in Nat /\ DOMAIN body = 1 .. n /\ \A i \in 1 .. n : body[i] \in BodyLine
  OBVIOUS
<1>2. WriteMboxBody(body) = Append(q, BlankLine)
  BY <1>1 DEF WriteMboxBody, Quoted
<1>3. \A i \in 1 .. n : Quoted(body[i]) \in Line
  BY <1>1, QuotedIsNone
<1>4. BlankLine \in Line
  BY DEF BlankLine, Line
<1> HIDE DEF n
<1>5. q \in Seq(Line) /\ Len(q) = n /\ \A i \in 1 .. n : q[i] = Quoted(body[i])
  BY <1>1, <1>3
<1> HIDE DEF q
<1> QED
  BY <1>1, <1>2, <1>4, <1>5 DEF n

\* The starts of an archive, in order, are those of its separators.
LEMMA StartsAreFinite ==
  ASSUME archive \in Seq(Line)
  PROVE  Starts \subseteq 1 .. Len(archive) /\ IsFiniteSet(Starts) /\ Starts \subseteq Nat
<1>1. Starts \subseteq 1 .. Len(archive) /\ Len(archive) \in Nat
  BY DEF Starts
<1>2. IsFiniteSet(1 .. Len(archive))
  BY <1>1, FS_Interval
<1>3. IsFiniteSet(Starts)
  BY <1>1, <1>2, FS_Subset
<1> QED
  BY <1>1, <1>3

\* An archive laid out so reads back as its messages.
LEMMA LaidReadsBack ==
  ASSUME BackupTypes, Laid
  PROVE  ReadBack = copied
<1> DEFINE st == Places
           N == Len(copied)
           A == Len(archive)
           e(k) == st[k] + Len(copied[k]) + 1
<1>1. /\ N \in Nat /\ A \in Nat /\ st \in Seq(Starts) /\ Len(st) = N /\ DOMAIN st = 1 .. N
      /\ \A k \in 1 .. N : st[k] \in Starts /\ st[k] \in 1 .. A /\ copied[k] \in Seq(BodyLine) /\ Len(copied[k]) \in Nat
  <2>1. st \in Seq(Starts) /\ Len(st) = N /\ N \in Nat /\ A \in Nat
    BY DEF BackupTypes, Laid, Ascends, Mails
  <2>2. \A k \in 1 .. N : copied[k] \in Seq(BodyLine)
    BY DEF BackupTypes, Mails
  <2>3. \A k \in 1 .. N : st[k] \in Starts
    BY <2>1
  <2> HIDE DEF st
  <2> QED
    BY <2>1, <2>2, <2>3, StartsAreFinite DEF BackupTypes
<1>2. \A j, k \in 1 .. N : j < k => st[j] < st[k]
  BY <1>1 DEF Laid, Ascends
<1>3. \A s \in Starts : \E k \in 1 .. N : st[k] = s
  BY <1>1 DEF Laid, Ascends
<1>4. \A k \in 1 .. N : e(k) = IF k = N THEN A ELSE st[k + 1] - 1
  BY DEF Laid
<1>5. \A k \in 1 .. N : \A i \in 1 .. Len(copied[k]) : archive[st[k] + i] = Quoted(copied[k][i])
  BY DEF Laid
<1> HIDE DEF st, N, A
<1>6. ASSUME NEW k \in 1 .. N PROVE EndOf(st[k]) = e(k)
  <2> DEFINE i == st[k]
             z == e(k)
             P(j) == (j = Len(archive) \/ j + 1 \in Starts) /\ \A m \in i + 1 .. j : m \notin Starts
  <2>1. i \in Nat /\ z \in Nat /\ i < z /\ z <= A
    <3>1. CASE k = N
      BY <1>1, <1>4, <3>1
    <3>2. CASE k # N
      <4>1. k + 1 \in 1 .. N
        BY <1>1, <3>2
      <4>2. st[k] \in 1 .. A /\ st[k + 1] \in 1 .. A /\ Len(copied[k]) \in Nat
        BY <1>1, <4>1
      <4>3. st[k] + Len(copied[k]) + 1 = st[k + 1] - 1
        BY <1>4, <3>2
      <4> QED
        BY <1>1, <4>2, <4>3
    <3> QED
      BY <3>1, <3>2
  <2>2. z = A \/ z + 1 \in Starts
    <3>1. CASE k # N
      <4>1. k + 1 \in 1 .. N
        BY <1>1, <3>1
      <4> QED
        BY <1>1, <1>4, <3>1, <4>1
    <3> QED
      BY <1>4, <3>1
  <2>3. ASSUME NEW s \in Starts, i < s PROVE z < s
    <3>1. PICK m \in 1 .. N : st[m] = s
      BY <1>3
    <3>2. k < m
      BY <1>1, <1>2, <2>3, <3>1
    <3>3. k + 1 \in 1 .. N /\ (k + 1 = m \/ k + 1 < m) /\ k # N
      BY <1>1, <3>2
    <3>4. st[k + 1] <= s
      BY <1>1, <1>2, <3>1, <3>3
    <3>5. z = st[k + 1] - 1 /\ st[k + 1] \in Nat /\ s \in Nat
      BY <1>1, <1>4, <3>1, <3>3
    <3> HIDE DEF z
    <3> QED
      BY <3>4, <3>5
  <2>4. \A m \in i + 1 .. z : m \notin Starts
    BY <2>1, <2>3
  <2>5. z \in i .. A /\ P(z)
    BY <2>1, <2>2, <2>4 DEF A
  <2>6. ASSUME NEW j \in i .. A, P(j) PROVE j = z
    <3> HIDE DEF i, z
    <3>1. j \in Nat
      BY <1>1, <2>1
    <3>2. CASE j < z
      <4>1. j + 1 \in i + 1 .. z /\ j + 1 \in Starts
        BY <1>1, <2>1, <2>6, <3>1, <3>2 DEF A
      <4> QED
        BY <2>4, <4>1
    <3>3. CASE z < j
      <4>1. z + 1 \in Starts /\ z + 1 \in i + 1 .. j
        BY <1>1, <2>1, <2>2, <3>1, <3>3
      <4> QED
        BY <2>6, <4>1
    <3> QED
      BY <2>1, <3>1, <3>2, <3>3
  <2>7. EndOf(st[k]) = CHOOSE j \in i .. A : P(j)
    BY DEF EndOf, A
  <2> HIDE DEF i, z, P
  <2>8. EndOf(st[k]) = z
    BY <2>5, <2>6, <2>7
  <2> QED
    BY <2>8 DEF z
<1>7. ASSUME NEW k \in 1 .. N
      PROVE  [i \in 1 .. EndOf(st[k]) - st[k] - 1 |-> Unquote(archive[st[k] + i])] = copied[k]
  <2>1. EndOf(st[k]) - st[k] - 1 = Len(copied[k])
    BY <1>1, <1>6
  <2>2. \A i \in 1 .. Len(copied[k]) : copied[k][i] \in BodyLine
    BY <1>1
  <2>3. \A i \in 1 .. Len(copied[k]) : Unquote(archive[st[k] + i]) = copied[k][i]
    BY <1>5, <2>2, QuotedIsNone
  <2>4. copied[k] = [i \in 1 .. Len(copied[k]) |-> copied[k][i]]
    <3>1. copied[k] \in Seq(BodyLine)
      BY <1>1
    <3> QED
      BY ONLY <3>1
  <2> QED
    BY <2>1, <2>3, <2>4
<1>8. copied = [k \in 1 .. N |-> copied[k]]
  BY DEF BackupTypes, Mails, N
<1>9. ReadBack = [k \in DOMAIN st |-> [i \in 1 .. EndOf(st[k]) - st[k] - 1 |-> Unquote(archive[st[k] + i])]]
  BY DEF ReadBack, st, Places
<1> QED
  BY <1>1, <1>7, <1>8, <1>9

\* A message is written: one start more, behind all the others.
LEMMA MessageLaid ==
  ASSUME BackupTypes, Laid, ExportMessage
  PROVE  archive' \in Seq(Line) /\ copied' \in Mails /\ left' \in Mails /\ Laid'
<1> DEFINE st == Places
           N == Len(copied)
           A == Len(archive)
           body == Head(left)
           new == Append(st, A + 1)
           w == WriteMboxBody(body)
<1>1. /\ N \in Nat /\ A \in Nat /\ body \in Seq(BodyLine) /\ Len(body) \in Nat
      /\ copied' \in Mails /\ left' \in Mails /\ copied' = Append(copied, body)
      /\ Len(copied') = N + 1 /\ copied'[N + 1] = body /\ \A k \in 1 .. N : copied'[k] = copied[k]
      /\ \A k \in 1 .. N : copied[k] \in Seq(BodyLine) /\ Len(copied[k]) \in Nat
  <2> DEFINE B == Seq(BodyLine)
  <2>1. left \in Seq(B) /\ left # <<>> /\ copied \in Seq(B) /\ archive \in Seq(Line)
    BY DEF BackupTypes, Mails, ExportMessage
  <2>2. copied' = Append(copied, body) /\ left' = Tail(left)
    BY DEF ExportMessage
  <2>3. \A x \in B : Len(x) \in Nat
    OBVIOUS
  <2> HIDE DEF B
  <2>4. body \in B /\ Tail(left) \in Seq(B)
    BY <2>1
  <2>5. \A k \in 1 .. Len(copied) : copied[k] \in B
    BY <2>1
  <2> HIDE DEF body
  <2>6. /\ copied' \in Seq(B) /\ left' \in Seq(B) /\ N \in Nat /\ A \in Nat
        /\ Len(copied') = N + 1 /\ copied'[N + 1] = body /\ \A k \in 1 .. N : copied'[k] = copied[k]
    BY <2>1, <2>2, <2>4
  <2> QED
    BY <2>2, <2>3, <2>4, <2>5, <2>6 DEF B, Mails
<1>2. /\ w \in Seq(Line) /\ Len(w) = Len(body) + 1 /\ w[Len(body) + 1] = BlankLine
      /\ \A i \in 1 .. Len(body) : w[i] = Quoted(body[i])
  <2> HIDE DEF body
  <2> QED
    BY <1>1, BodyIsQuoted DEF body
<1>3. archive' = archive \o <<Separator>> \o w /\ archive \in Seq(Line) /\ Separator \in Line
  BY DEF ExportMessage, BackupTypes, Separator, Line
<1> HIDE DEF body, w, N, A
<1>4. /\ archive' \in Seq(Line) /\ Len(archive') = A + Len(body) + 2
      /\ \A i \in 1 .. A : archive'[i] = archive[i]
      /\ archive'[A + 1] = Separator
      /\ \A i \in 1 .. Len(body) + 1 : archive'[A + 1 + i] = w[i]
  <2> DEFINE v == archive \o <<Separator>>
  <2>1. v \in Seq(Line) /\ Len(v) = A + 1 /\ v[A + 1] = Separator /\ \A i \in 1 .. A : v[i] = archive[i]
    BY <1>1, <1>3 DEF A
  <2>2. archive' = v \o w
    BY <1>3
  <2> HIDE DEF v
  <2>3. Len(archive') = Len(v) + Len(w) /\ archive' \in Seq(Line)
    <3>1. v \in Seq(Line) /\ w \in Seq(Line)
      BY <1>2, <2>1
    <3>2. v \o w \in Seq(Line) /\ Len(v \o w) = Len(v) + Len(w)
      BY <3>1
    <3> QED
      BY <2>2, <3>2
  <2>4. \A i \in 1 .. Len(v) : archive'[i] = v[i]
    BY <1>2, <2>1, <2>2
  <2>5. \A i \in 1 .. Len(w) : archive'[Len(v) + i] = w[i]
    BY <1>2, <2>1, <2>2
  <2>6. Len(archive') = A + Len(body) + 2 /\ A + 1 \in 1 .. Len(v) /\ \A i \in 1 .. A : i \in 1 .. Len(v)
    BY <1>1, <1>2, <2>1, <2>3
  <2> QED
    BY <1>2, <2>1, <2>3, <2>4, <2>5, <2>6
<1>5. \A i \in 1 .. Len(body) + 1 : w[i] # Separator
  <2> SUFFICES ASSUME NEW i \in 1 .. Len(body) + 1 PROVE w[i] # Separator
    OBVIOUS
  <2>1. CASE i = Len(body) + 1
    BY <1>2, <2>1 DEF BlankLine, Separator
  <2>2. CASE i \in 1 .. Len(body)
    <3>1. body[i] \in BodyLine
      BY <1>1, <2>2
    <3> QED
      BY <1>2, <2>2, <3>1, QuotedIsNone
  <2> QED
    BY <1>1, <2>1, <2>2
<1>6. Starts' = Starts \cup {A + 1} /\ Starts \subseteq 1 .. A
  <2>1. DOMAIN archive = 1 .. A /\ DOMAIN archive' = 1 .. A + Len(body) + 2
    BY <1>3, <1>4 DEF A
  <2>2. ASSUME NEW i \in 1 .. A + Len(body) + 2
        PROVE  archive'[i] = Separator <=> (i \in 1 .. A /\ archive[i] = Separator) \/ i = A + 1
    <3>1. CASE i \in 1 .. A
      BY <1>1, <1>4, <3>1
    <3>2. CASE i = A + 1
      BY <1>4, <3>2
    <3>3. CASE i > A + 1
      <4>1. i - A - 1 \in 1 .. Len(body) + 1 /\ A + 1 + (i - A - 1) = i /\ i \notin 1 .. A
        BY <1>1, <3>3
      <4>2. archive'[i] = w[i - A - 1]
        BY <1>4, <4>1
      <4> QED
        BY <1>1, <1>5, <3>3, <4>1, <4>2
    <3> QED
      BY <1>1, <3>1, <3>2, <3>3
  <2>3. A + 1 \in 1 .. A + Len(body) + 2 /\ 1 .. A \subseteq 1 .. A + Len(body) + 2
    BY <1>1
  <2> QED
    BY <2>1, <2>2, <2>3 DEF Starts
<1>7. /\ Ascends(st, Starts) /\ Len(st) = N /\ st \in Seq(Starts)
      /\ \A k \in 1 .. N : st[k] \in Starts /\ st[k] \in 1 .. A
  <2>1. Ascends(st, Starts) /\ Len(st) = N /\ st \in Seq(Starts)
    BY DEF Laid, Ascends, N
  <2>2. \A x \in Starts : x \in 1 .. A
    BY <1>6
  <2> HIDE DEF st
  <2>3. \A k \in 1 .. N : st[k] \in Starts
    BY <2>1
  <2> QED
    BY <2>1, <2>2, <2>3
<1>8. Places' = new /\ Ascends(new, Starts')
  <2>1. new \in Seq(Starts') /\ Len(new) = N + 1 /\ new[N + 1] = A + 1 /\ \A k \in 1 .. N : new[k] = st[k]
    <3> HIDE DEF st
    <3>1. st \in Seq(Starts')
      BY <1>6, <1>7
    <3> QED
      BY <1>1, <1>6, <1>7, <3>1
  <2>2. ASSUME NEW j \in 1 .. N + 1, NEW k \in 1 .. N + 1, j < k PROVE new[j] < new[k]
    <3> HIDE DEF new, st
    <3>1. j \in 1 .. N /\ (k \in 1 .. N \/ k = N + 1)
      BY <1>1, <2>2
    <3>2. CASE k \in 1 .. N
      BY <1>7, <2>1, <2>2, <3>1, <3>2 DEF Ascends
    <3>3. CASE k = N + 1
      BY <1>1, <1>7, <2>1, <3>1, <3>3
    <3> QED
      BY <3>1, <3>2, <3>3
  <2>3. ASSUME NEW x \in Starts' PROVE \E k \in 1 .. N + 1 : new[k] = x
    <3> HIDE DEF new, st
    <3>1. CASE x = A + 1
      BY <1>1, <2>1, <3>1
    <3>2. CASE x \in Starts
      <4>1. PICK k \in 1 .. N : st[k] = x
        BY <1>7, <3>2 DEF Ascends
      <4>2. k \in 1 .. N + 1
        BY <1>1
      <4> QED
        BY <2>1, <4>1, <4>2
    <3> QED
      BY <1>6, <3>1, <3>2
  <2> HIDE DEF new
  <2>4. Ascends(new, Starts')
    BY <2>1, <2>2, <2>3 DEF Ascends
  <2>5. Starts' \in SUBSET Nat /\ IsFiniteSet(Starts')
    <3>1. Starts' \subseteq Nat
      BY <1>1, <1>6
    <3>2. IsFiniteSet(Starts)
      BY <1>3, StartsAreFinite
    <3> QED
      BY <1>6, <3>1, <3>2, FS_AddElement
  <2>6. InOrder(Starts') = new
    BY <2>4, <2>5, AscendingIsInOrder
  <2> QED
    BY <2>4, <2>6 DEF Places
<1>9. Len(Places') = N + 1 /\ Places'[N + 1] = A + 1 /\ \A k \in 1 .. N : Places'[k] = st[k]
  <2> HIDE DEF st
  <2> QED
    BY <1>1, <1>7, <1>8
<1>10. ASSUME NEW k \in 1 .. N + 1
       PROVE  /\ Places'[k] + Len(copied'[k]) + 1 = IF k = N + 1 THEN Len(archive') ELSE Places'[k + 1] - 1
              /\ \A i \in 1 .. Len(copied'[k]) : archive'[Places'[k] + i] = Quoted(copied'[k][i])
  <2> HIDE DEF st
  <2>1. CASE k = N + 1
    <3>1. Places'[k] = A + 1 /\ copied'[k] = body
      BY <1>1, <1>9, <2>1
    <3>2. A + 1 + Len(body) + 1 = Len(archive')
      BY <1>1, <1>4
    <3>3. \A i \in 1 .. Len(body) : archive'[A + 1 + i] = Quoted(body[i])
      BY <1>1, <1>2, <1>4
    <3> QED
      BY <2>1, <3>1, <3>2, <3>3
  <2>2. CASE k \in 1 .. N
    <3>1. Places'[k] = st[k] /\ copied'[k] = copied[k] /\ st[k] \in 1 .. A /\ Len(copied[k]) \in Nat
      BY <1>1, <1>7, <1>9, <2>2
    <3>2. st[k] + Len(copied[k]) + 1 = IF k = N THEN A ELSE st[k + 1] - 1
      BY <2>2 DEF Laid, st, N, A
    <3>3. /\ st[k] + Len(copied[k]) + 1 = Places'[k + 1] - 1 /\ k # N + 1
          /\ st[k] + Len(copied[k]) + 1 <= A
      <4>1. CASE k = N
        <5>1. Places'[k + 1] = A + 1 /\ st[k] + Len(copied[k]) + 1 = A
          BY <1>9, <3>2, <4>1
        <5>2. Places'[k + 1] - 1 = A /\ A <= A /\ k # N + 1
          BY <1>1, <4>1, <5>1
        <5> QED
          BY <5>1, <5>2
      <4>2. CASE k # N
        <5>1. k + 1 \in 1 .. N /\ k # N + 1
          BY <1>1, <2>2, <4>2
        <5>2. st[k + 1] \in 1 .. A /\ Places'[k + 1] = st[k + 1]
          BY <1>7, <1>9, <5>1
        <5> QED
          BY <1>1, <3>1, <3>2, <4>2, <5>1, <5>2
      <4> QED
        BY <4>1, <4>2
    <3>4. ASSUME NEW i \in 1 .. Len(copied[k]) PROVE archive'[st[k] + i] = Quoted(copied[k][i])
      <4>1. st[k] + i \in 1 .. A
        BY <1>1, <3>1, <3>3
      <4>2. archive[st[k] + i] = Quoted(copied[k][i])
        BY <2>2 DEF Laid, st, N
      <4> QED
        BY <1>4, <4>1, <4>2
    <3> QED
      BY <3>1, <3>3, <3>4
  <2> QED
    BY <1>1, <2>1, <2>2
<1>11. Len(copied') = N + 1 /\ N + 1 # 0
  BY <1>1
<1> QED
  BY <1>1, <1>4, <1>8, <1>9, <1>10, <1>11 DEF Laid

\* An archive without lines.
LEMMA NothingLaid ==
  /\ archive = <<>> /\ copied = <<>> => Laid
  /\ archive' = <<>> /\ copied' = <<>> => Laid'
<1>1. InOrder({}) = <<>> /\ Ascends(<<>>, {})
  <2>1. Ascends(<<>>, {})
    BY DEF Ascends
  <2> QED
    BY <2>1, AscendingIsInOrder
<1>2. ASSUME archive = <<>>, copied = <<>> PROVE Laid
  BY <1>1, <1>2 DEF Laid, Places, Starts
<1>3. ASSUME archive' = <<>>, copied' = <<>> PROVE Laid'
  BY <1>1, <1>3 DEF Laid, Places, Starts
<1> QED
  BY <1>2, <1>3

\* Rebuild lists the whole log when nothing has been cut from it.
LEMMA RebuiltIsAll ==
  ASSUME BackupTypes
  PROVE  Rebuilt \in Mails /\ (cut = 0 => Rebuilt = ingested)
<1> DEFINE B == Seq(BodyLine)
<1>1. ingested \in Seq(B) /\ Mails = Seq(B) /\ cut \in Nat
  BY DEF BackupTypes, Mails
<1> HIDE DEF B
<1> QED
  BY <1>1 DEF Rebuilt

\* The message written goes from one list to the other.
LEMMA MessageListed ==
  ASSUME BackupTypes, Listed, ExportMessage
  PROVE  Listed'
<1> DEFINE B == Seq(BodyLine)
<1>1. left \in Seq(B) /\ copied \in Seq(B) /\ left # <<>>
  BY DEF BackupTypes, Mails, ExportMessage
<1>2. left' = Tail(left) /\ copied' = Append(copied, Head(left)) /\ UNCHANGED <<ingested, cut>>
  BY DEF ExportMessage
<1> HIDE DEF B
<1>3. copied' \o left' = copied \o left
  BY <1>1, <1>2
<1> QED
  BY <1>2, <1>3 DEF Listed

\* Mail arrives behind what an export lists.
LEMMA ArriveListed ==
  ASSUME BackupTypes, Listed, NEW n \in Nat, NEW body \in [1 .. n -> BodyLine], Arrive(body)
  PROVE  ingested' \in Mails /\ Listed' /\ Len(ingested') = Len(ingested) + 1
<1> DEFINE B == Seq(BodyLine)
           s == copied \o left
<1>1. /\ ingested \in Seq(B) /\ left \in Seq(B) /\ copied \in Seq(B) /\ body \in B /\ Mails = Seq(B)
      /\ ingested' = Append(ingested, body) /\ UNCHANGED <<cut, left, copied>>
  BY DEF BackupTypes, Mails, Arrive
<1> HIDE DEF B
<1>2. s \in Seq(B) /\ ingested' \in Seq(B) /\ Len(ingested') = Len(ingested) + 1
      /\ \A k \in 1 .. Len(ingested) : ingested'[k] = ingested[k]
  BY <1>1
<1>3. (copied \o left)' = s
  BY <1>1
<1> HIDE DEF s
<1>4. IsPrefix(s, ingested) => IsPrefix(s, ingested')
  BY <1>1, <1>2 DEF IsPrefix
<1> QED
  BY <1>1, <1>2, <1>3, <1>4 DEF Listed, s

\* The inductive invariant of the export.
THEOREM BackupInvariant == BackupSpec => []BackupInv
<1>1. BackupInit => BackupInv
  <2> SUFFICES ASSUME BackupInit PROVE BackupInv
    OBVIOUS
  <2>1. BackupTypes
    BY DEF BackupInit, BackupTypes, Mails
  <2>2. Laid
    BY NothingLaid DEF BackupInit
  <2>3. Listed
    BY DEF BackupInit, Listed, IsPrefix
  <2> QED
    BY <2>1, <2>2, <2>3 DEF BackupInv
<1>2. BackupInv /\ [BackupNext]_backupVars => BackupInv'
  <2> SUFFICES ASSUME BackupInv, [BackupNext]_backupVars PROVE BackupInv'
    OBVIOUS
  <2>0. BackupTypes /\ Laid /\ Listed
    BY DEF BackupInv
  <2>1. CASE CompactLog
    <3>1. UNCHANGED <<ingested, left, archive, copied>> /\ cut' = Len(ingested) /\ cut < Len(ingested)
      BY <2>1 DEF CompactLog
    <3>2. Len(ingested) \in Nat /\ cut \in Nat
      BY <2>0 DEF BackupTypes, Mails
    <3>3. cut' \in Nat /\ cut' <= Len(ingested) /\ cut' # 0
      BY <3>1, <3>2
    <3>4. Laid'
      BY <2>0, <3>1 DEF Laid, Places, Starts
    <3> QED
      BY <2>0, <3>1, <3>3, <3>4 DEF BackupInv, BackupTypes, Listed
  <2>2. CASE ExportMbox
    <3>1. left' = Rebuilt /\ archive' = <<>> /\ copied' = <<>> /\ UNCHANGED <<ingested, cut>>
      BY <2>2 DEF ExportMbox
    <3>2. BackupTypes'
      BY <2>0, <3>1, RebuiltIsAll DEF BackupTypes, Mails
    <3>3. Laid'
      BY <3>1, NothingLaid
    <3>4. Listed'
      <4> DEFINE B == Seq(BodyLine)
      <4>1. ingested \in Seq(B)
        BY <2>0 DEF BackupTypes, Mails
      <4> HIDE DEF B
      <4>2. cut = 0 => copied' \o left' = ingested
        BY <2>0, <3>1, <4>1, RebuiltIsAll
      <4>3. IsPrefix(ingested, ingested)
        BY <4>1 DEF IsPrefix
      <4> QED
        BY <3>1, <4>2, <4>3 DEF Listed
    <3> QED
      BY <3>2, <3>3, <3>4 DEF BackupInv
  <2>3. CASE ExportMessage
    <3>1. UNCHANGED <<ingested, cut>>
      BY <2>3 DEF ExportMessage
    <3> QED
      BY <2>0, <2>3, <3>1, MessageLaid, MessageListed DEF BackupInv, BackupTypes
  <2>4. CASE ExportFails
    <3>1. left' = <<>> /\ archive' = <<>> /\ copied' = <<>> /\ UNCHANGED <<ingested, cut>>
      BY <2>4 DEF ExportFails
    <3>2. BackupTypes'
      BY <2>0, <3>1 DEF BackupTypes, Mails
    <3>3. Laid'
      BY <3>1, NothingLaid
    <3>4. Listed'
      BY <3>1 DEF Listed, IsPrefix
    <3> QED
      BY <3>2, <3>3, <3>4 DEF BackupInv
  <2>5. CASE \E n \in 0 .. MaxLines : \E body \in [1 .. n -> BodyLine] : Arrive(body)
    <3>1. PICK n \in 0 .. MaxLines : \E body \in [1 .. n -> BodyLine] : Arrive(body)
      BY <2>5
    <3>2. PICK body \in [1 .. n -> BodyLine] : Arrive(body)
      BY <3>1
    <3>3. n \in Nat
      BY BackupAssumption
    <3>4. UNCHANGED <<cut, left, archive, copied>>
      BY <3>2 DEF Arrive
    <3>5. ingested' \in Mails /\ Listed' /\ Len(ingested') = Len(ingested) + 1
      BY <2>0, <3>2, <3>3, ArriveListed
    <3>6. cut \in Nat /\ Len(ingested) \in Nat /\ cut <= Len(ingested)
      BY <2>0 DEF BackupTypes, Mails
    <3>7. BackupTypes'
      BY <2>0, <3>4, <3>5, <3>6 DEF BackupTypes
    <3>8. Laid'
      BY <2>0, <3>4 DEF Laid, Places, Starts
    <3> QED
      BY <3>5, <3>7, <3>8 DEF BackupInv
  <2>6. CASE UNCHANGED backupVars
    BY <2>0, <2>6 DEF backupVars, BackupInv, BackupTypes, Laid, Places, Starts, Listed
  <2> QED
    BY <2>1, <2>2, <2>3, <2>4, <2>5, <2>6 DEF BackupNext
<1> QED
  BY <1>1, <1>2, PTL DEF BackupSpec

\* ExportMbox: an archive reads back as the messages written to it, whatever their lines
\* are, however many there are and whatever arrives meanwhile.
THEOREM ArchiveRoundTrips == BackupSpec => []ArchiveReadsBack
<1>1. BackupInv => ArchiveReadsBack
  <2> SUFFICES ASSUME BackupInv PROVE ArchiveReadsBack
    OBVIOUS
  <2>1. ReadBack = copied
    BY LaidReadsBack DEF BackupInv
  <2>2. ASSUME cut = 0 PROVE IsPrefix(copied, ingested)
    <3> DEFINE B == Seq(BodyLine)
               s == copied \o left
    <3>1. copied \in Seq(B) /\ left \in Seq(B) /\ ingested \in Seq(B)
      BY DEF BackupInv, BackupTypes, Mails
    <3>2. IsPrefix(s, ingested)
      BY <2>2 DEF BackupInv, Listed
    <3> HIDE DEF B
    <3>3. s \in Seq(B) /\ Len(copied) <= Len(s) /\ Len(copied) \in Nat /\ \A k \in 1 .. Len(copied) : s[k] = copied[k]
      BY <3>1
    <3> HIDE DEF s
    <3>4. Len(s) <= Len(ingested) /\ \A k \in 1 .. Len(s) : s[k] = ingested[k]
      BY <3>1, <3>2, <3>3 DEF IsPrefix
    <3> QED
      BY <3>1, <3>3, <3>4 DEF IsPrefix
  <2> QED
    BY <2>1, <2>2 DEF ArchiveReadsBack
<1> QED
  BY <1>1, BackupInvariant, PTL
=============================================================================
