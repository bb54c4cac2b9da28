------------------------------ MODULE FileLog -------------------------------
(***************************************************************************)
(* The durable account log (eventlog.File) under its single writer         *)
(* (account.Runtime): append, snapshot, truncate, crash and reopen.        *)
(*                                                                         *)
(* The log file is a set of numbered lines: `line' orders them, `seq' and  *)
(* `ev' are the record on the line.  A projection is abstracted to what    *)
(* determines it: the set of records folded into it and the last Seq.      *)
(* The file contents here are what the kernel holds, so they survive a     *)
(* crash of the process; FileLogPower adds what a power loss may drop.     *)
(***************************************************************************)
EXTENDS Lists

CONSTANTS Event,      \* the events clients append
          Snapshots,  \* does the log implement eventlog.Snapshotter?
          MaxSeq      \* bound on the records ever numbered

ASSUME EventAssumption == Event # {}
ASSUME SnapshotsAssumption == Snapshots \in BOOLEAN
ASSUME MaxSeqAssumption == MaxSeq \in Nat

VARIABLES
  lines,     \* the log file, one element per parsed line
  nextLine,  \* the place of the next line in the file
  corrupt,   \* the file holds a line that readAll cannot parse
  snap,      \* the .snap file; [seq |-> 0, evs |-> {}] stands for no file
  wOpen,     \* File.w is a usable append handle
  fseq,      \* File.seq
  proj,      \* Runtime.proj
  pc,        \* where the holder of Runtime.mu is
  cur,       \* the event being appended
  acked      \* history: the records whose Append returned without error

vars == <<lines, nextLine, corrupt, snap, wOpen, fseq, proj, pc, cur, acked>>

Rec(s, e) == [seq |-> s, ev |-> e]
Record == [seq : Nat, ev : Event]
Line == [line : Nat, seq : Nat, ev : Event]
Projection == [seq : Nat, evs : SUBSET Record]

\* projection.New, and a snapshot that is absent or cannot be read.
Empty == [seq |-> 0, evs |-> {}]

-----------------------------------------------------------------------------
(* Reading the files.                                                      *)

MaxOf(S) == CHOOSE m \in S : \A x \in S : x <= m

\* projection.Apply: a record at or below the projection's Seq is skipped.
Apply(p, r) ==
  IF r.seq <= p.seq THEN p
  ELSE [seq |-> r.seq, evs |-> p.evs \cup {Rec(r.seq, r.ev)}]

\* Mutant of ReadFrom: starts after the requested record.
ReadFromAfter(ls, s) == {r \in ls : r.seq > s}

ReadFrom(ls, s) == {r \in ls : r.seq >= s}

\* Mutant of Replay: leaves out the first record of the tail.
ReplayLate(p, ls) ==
  [seq |-> MaxOf({p.seq} \cup {r.seq : r \in ls}),
   evs |-> p.evs \cup {Rec(r.seq, r.ev) : r \in {x \in ls : x.seq > p.seq + 1}}]

\* Apply folded over ls in file order: a line takes effect when its Seq is above
\* the start and above that of every earlier line.
Replay(p, ls) ==
  [seq |-> MaxOf({p.seq} \cup {r.seq : r \in ls}),
   evs |-> p.evs \cup
           {Rec(r.seq, r.ev) : r \in
              {x \in ls : /\ x.seq > p.seq
                          /\ \A y \in ls : y.line < x.line => y.seq < x.seq}}]

\* The loop of openProjection: Apply on one line after the other.
Folded(p, ls) ==
  LET at == InOrder({r.line : r \in ls})
      loop[k \in 0 .. Len(at)] ==
        IF k = 0 THEN p ELSE Apply(loop[k - 1], CHOOSE r \in ls : r.line = at[k])
  IN  loop[Len(at)]

\* Mutant of RestoreAndReplay: the snapshot is not restored.
ReplayLogOnly(p, ls) == Replay(Empty, ls)

\* openProjection: the snapshot p and the tail of the log ls after it.
RestoreAndReplay(p, ls) == Replay(p, ReadFrom(ls, p.seq + 1))

LastLine(ls) == CHOOSE r \in ls : \A x \in ls : x.line <= r.line

\* Mutant of RecoverSeq: the snapshot's Seq is not looked at.
RecoverSeqFromLog(p, ls) == IF ls = {} THEN 0 ELSE LastLine(ls).seq

\* OpenFile: the Seq of the last line, or of a snapshot that is further.
RecoverSeq(p, ls) ==
  LET tail == IF ls = {} THEN 0 ELSE LastLine(ls).seq
  IN  IF p.seq > tail THEN p.seq ELSE tail

\* What opening the account would compute from the files as they are now.
OpenProjection == RestoreAndReplay(snap, lines)
OpenSeq == RecoverSeq(snap, lines)

-----------------------------------------------------------------------------
Init ==
  /\ lines = {} /\ nextLine = 1 /\ corrupt = FALSE
  /\ snap = Empty
  /\ wOpen = TRUE /\ fseq = 0 /\ proj = Empty
  /\ pc = "idle"
  /\ cur \in Event
  /\ acked = {}

\* Append up to and including the Write: the line is in the file, not yet synced.
Write(e) ==
  /\ pc = "idle" /\ wOpen
  /\ fseq < MaxSeq
  /\ lines' = lines \cup {[line |-> nextLine, seq |-> fseq + 1, ev |-> e]}
  /\ nextLine' = nextLine + 1
  /\ cur' = e
  /\ pc' = "written"
  /\ UNCHANGED <<corrupt, snap, wOpen, fseq, proj, acked>>

\* Mutant of SyncAndApply: the record is not folded into the live projection.
SyncWithoutApply ==
  /\ pc = "written"
  /\ fseq' = fseq + 1
  /\ acked' = acked \cup {Rec(fseq + 1, cur)}
  /\ pc' = "idle"
  /\ UNCHANGED <<lines, nextLine, corrupt, snap, wOpen, proj, cur>>

\* Sync succeeds: File.seq advances, the record is folded, the caller answered.
SyncAndApply ==
  /\ pc = "written"
  /\ fseq' = fseq + 1
  /\ proj' = Apply(proj, Rec(fseq + 1, cur))
  /\ acked' = acked \cup {Rec(fseq + 1, cur)}
  /\ pc' = "idle"
  /\ UNCHANGED <<lines, nextLine, corrupt, snap, wOpen, cur>>

\* Compact, first half: the snapshot is renamed into place.
CompactSnapshot ==
  /\ Snapshots
  /\ pc = "idle"
  /\ snap' = proj
  /\ pc' = "snapped"
  /\ UNCHANGED <<lines, nextLine, corrupt, wOpen, fseq, proj, cur, acked>>

\* Compact, second half: the log is rewritten without the snapshotted records and
\* the append handle reopened; reopen says whether that open succeeds.
CompactRewrite(reopen) ==
  /\ pc = "snapped" /\ ~corrupt
  /\ lines' = {r \in lines : r.seq > snap.seq}
  /\ wOpen' = reopen
  /\ pc' = "idle"
  /\ UNCHANGED <<nextLine, corrupt, snap, fseq, proj, cur, acked>>

\* Any error between the two renames: the snapshot stays and so does the log.
CompactAbort ==
  /\ pc = "snapped"
  /\ pc' = "idle"
  /\ UNCHANGED <<lines, nextLine, corrupt, snap, wOpen, fseq, proj, cur, acked>>

\* The process dies at any point; its memory goes, the files stay.
Crash ==
  /\ pc # "down"
  /\ pc' = "down"
  /\ wOpen' = FALSE /\ fseq' = 0 /\ proj' = Empty
  /\ UNCHANGED <<lines, nextLine, corrupt, snap, cur, acked>>

\* OpenFile and account.Open at the next start; an unparsable line stops them.
Reopen ==
  /\ pc = "down" /\ ~corrupt
  /\ fseq' = OpenSeq
  /\ proj' = OpenProjection
  /\ wOpen' = TRUE
  /\ pc' = "idle"
  /\ UNCHANGED <<lines, nextLine, corrupt, snap, cur, acked>>

Next ==
  \/ \E e \in Event : Write(e)
  \/ SyncAndApply
  \/ CompactSnapshot
  \/ \E b \in BOOLEAN : CompactRewrite(b)
  \/ CompactAbort
  \/ Crash
  \/ Reopen

Spec == Init /\ [][Next]_vars

-----------------------------------------------------------------------------
(* Append's error paths, where the storage refuses.  FileLogPower takes     *)
(* them, with the other faults of a disk.                                   *)

\* Sync fails: Append returns the error and File.seq stays, but so does the line.
SyncFails ==
  /\ pc = "written"
  /\ pc' = "idle"
  /\ UNCHANGED <<lines, nextLine, corrupt, snap, wOpen, fseq, proj, cur, acked>>

\* Write fails half way (a full disk): the file ends in a fragment, and what is
\* appended next continues the same line.
WriteTorn(e) ==
  /\ pc = "idle" /\ wOpen
  /\ fseq < MaxSeq
  /\ corrupt' = TRUE
  /\ cur' = e
  /\ UNCHANGED <<lines, nextLine, snap, wOpen, fseq, proj, pc, acked>>

-----------------------------------------------------------------------------
(* Properties.                                                             *)

TypeOK ==
  /\ lines \in SUBSET Line
  /\ nextLine \in Nat
  /\ corrupt \in BOOLEAN
  /\ snap \in Projection
  /\ wOpen \in BOOLEAN
  /\ fseq \in Nat
  /\ proj \in Projection
  /\ pc \in {"idle", "written", "snapped", "down"}
  /\ cur \in Event
  /\ acked \in SUBSET Record

\* What opening the account now would bring back: nothing when it cannot open.
Recoverable == IF corrupt THEN {} ELSE OpenProjection.evs

\* Durability of Append: whatever instant the process dies at, between the two
\* renames of a compaction included, opening the files afterwards yields every
\* record whose writer was told it is stored.
AckedRecoverable == acked \subseteq Recoverable

\* The live projection never drifts: whenever the writer's lock is free, reopening
\* the account would give exactly the projection and the Seq the process holds.
LiveEqualsRebuild ==
  pc = "idle" => proj = OpenProjection /\ fseq = OpenSeq

\* Record.Seq starts at 1, has no gaps and is never given to two records, across
\* restarts, compactions and appends that were cut short.
SeqGapless ==
  /\ {r.seq : r \in OpenProjection.evs} = 1 .. OpenSeq
  /\ \A r, q \in OpenProjection.evs : r.seq = q.seq => r = q

\* Reopening computes what the loop over the tail of the log computes line by line: the
\* closed form that the specification reads the files with is that loop.
ReplayIsFold == OpenProjection = Folded(snap, ReadFrom(lines, snap.seq + 1))

\* No step of a crash, reopen or compaction changes the recoverable history, and
\* an append extends it by exactly one record, acknowledged after it is there.
History == INSTANCE AccountHistory WITH n <- OpenSeq, hist <- OpenProjection.evs

RefinesHistory == History!Spec

-----------------------------------------------------------------------------
(* The inductive invariant behind the properties of Spec.                   *)

\* t is the highest Seq in the snapshot p and the log ls.
IsTop(t, p, ls) ==
  /\ p.seq <= t
  /\ \A r \in ls : r.seq <= t
  /\ IF ls = {} THEN p.seq = t ELSE \E r \in ls : r.seq = t

\* File order and Seq order are the same order.
Ordered(ls) ==
  /\ \A r, q \in ls : r.line < q.line <=> r.seq < q.seq
  /\ \A r, q \in ls : r.line = q.line => r = q

\* What the writer's memory has to do with its files, at each point of its code.
MemoryMatchesFiles ==
  /\ pc \in {"idle", "snapped"} => fseq = OpenSeq /\ proj = OpenProjection
  /\ pc = "written" =>
       /\ OpenSeq = fseq + 1
       /\ proj.seq = fseq
       /\ OpenProjection = Apply(proj, Rec(fseq + 1, cur))

IInv ==
  /\ TypeOK
  /\ ~corrupt
  /\ \A r \in lines : r.line < nextLine
  /\ Ordered(lines)
  /\ IsTop(OpenSeq, snap, lines)
  /\ MemoryMatchesFiles
  /\ SeqGapless
  /\ acked \subseteq OpenProjection.evs
=============================================================================
