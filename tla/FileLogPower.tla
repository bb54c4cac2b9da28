---------------------------- MODULE FileLogPower ----------------------------
(***************************************************************************)
(* FileLog on a disk that can refuse a write and lose power.  FileLog's    *)
(* files are the kernel's view; here stable storage lags behind it until   *)
(* an fsync or the kernel's own writeback.  Append fsyncs the log file.    *)
(* SaveSnapshot fsyncs nothing: it writes two files and renames them.      *)
(*                                                                         *)
(* The file system is external: an fsync of one file commits the journal,  *)
(* and with it every earlier rename, but not the data of other files;      *)
(* renames reach the disk in order; unsynced appended lines are lost from  *)
(* the end of the file.                                                    *)
(***************************************************************************)
EXTENDS FileLog

VARIABLES
  unsynced,   \* lines of the log file that may not be on stable storage
  snapSynced, \* the contents of the .snap file are on stable storage
  pending,    \* the files renamed by SaveSnapshot, the rename not committed
  oldSnap,    \* what the name .snap still means on disk while pending
  oldLines,   \* what the name of the log still means on disk while pending
  snapLost,   \* history: a power loss left an unreadable .snap
  refused     \* history: the Seq of a line the disk refused

diskVars == <<unsynced, snapSynced, pending, oldSnap, oldLines, snapLost, refused>>
pvars == <<vars, diskVars>>

PInit ==
  /\ Init
  /\ unsynced = {} /\ snapSynced = TRUE
  /\ pending = {} /\ oldSnap = Empty /\ oldLines = {}
  /\ snapLost = FALSE /\ refused = {}

PWrite(e) ==
  /\ Write(e)
  /\ unsynced' = unsynced \cup (lines' \ lines)
  /\ UNCHANGED <<snapSynced, pending, oldSnap, oldLines, snapLost, refused>>

\* The journal is committed: every rename made so far is on disk.
CommitJournal == pending' = {} /\ oldSnap' = Empty /\ oldLines' = {}

\* Mutant of PSyncAndApply: Append answers without the fsync.
PApplyWithoutSync == SyncAndApply /\ UNCHANGED diskVars

\* File.Sync on the append handle.
PSyncAndApply ==
  /\ SyncAndApply
  /\ unsynced' = {}
  /\ CommitJournal
  /\ UNCHANGED <<snapSynced, snapLost, refused>>

\* os.WriteFile of the temporary and os.Rename over .snap, with no Sync.
PCompactSnapshot ==
  /\ CompactSnapshot
  /\ snapSynced' = FALSE
  /\ oldSnap' = IF "snap" \in pending THEN oldSnap ELSE snap
  /\ pending' = pending \cup {"snap"}
  /\ UNCHANGED <<unsynced, oldLines, snapLost, refused>>

\* os.WriteFile of the kept records and os.Rename over the log, with no Sync.
PCompactRewrite(reopen) ==
  /\ CompactRewrite(reopen)
  /\ unsynced' = lines'
  /\ oldLines' = IF "log" \in pending THEN oldLines ELSE lines
  /\ pending' = pending \cup {"log"}
  /\ UNCHANGED <<snapSynced, oldSnap, snapLost, refused>>

PCompactAbort == CompactAbort /\ UNCHANGED diskVars

PCrash == Crash /\ UNCHANGED diskVars

PReopen == Reopen /\ UNCHANGED diskVars

\* Sync fails; one refusal in a behaviour is the bound here.
PSyncFails ==
  /\ refused = {}
  /\ SyncFails
  /\ refused' = {fseq + 1}
  /\ UNCHANGED <<unsynced, snapSynced, pending, oldSnap, oldLines, snapLost>>

PWriteTorn(e) ==
  /\ refused = {}
  /\ WriteTorn(e)
  /\ refused' = {fseq + 1}
  /\ UNCHANGED <<unsynced, snapSynced, pending, oldSnap, oldLines, snapLost>>

\* The kernel flushes what it holds.
Writeback ==
  /\ unsynced' = {} /\ snapSynced' = TRUE /\ CommitJournal
  /\ UNCHANGED <<vars, snapLost, refused>>

\* The pending renames that made it to disk: the log's only after the snapshot's.
CommittedRenames ==
  {done \in SUBSET pending : "log" \in done => pending \subseteq done}

\* Power goes: each file is what stable storage holds of it.
PowerLoss ==
  \E done \in CommittedRenames, keep \in SUBSET unsynced, good \in BOOLEAN :
    /\ \A x \in keep, y \in unsynced : y.line < x.line => y \in keep
    /\ snapSynced => good
    /\ lines' = IF "log" \in pending \ done THEN oldLines
                ELSE (lines \ unsynced) \cup keep
    /\ snap' = IF "snap" \in pending \ done THEN oldSnap
               ELSE IF good THEN snap ELSE Empty
    /\ snapLost' = (snapLost \/ (~good /\ "snap" \notin pending \ done))
    /\ pc' = "down" /\ wOpen' = FALSE /\ fseq' = 0 /\ proj' = Empty
    /\ nextLine' = MaxOf({0} \cup {x.line : x \in lines'}) + 1
    /\ unsynced' = {} /\ snapSynced' = TRUE /\ CommitJournal
    /\ UNCHANGED <<corrupt, cur, acked, refused>>

PNext ==
  \/ \E e \in Event : PWrite(e)
  \/ PSyncAndApply
  \/ PCompactSnapshot
  \/ \E b \in BOOLEAN : PCompactRewrite(b)
  \/ PCompactAbort
  \/ PCrash
  \/ PReopen
  \/ PSyncFails
  \/ \E e \in Event : PWriteTorn(e)
  \/ Writeback
  \/ PowerLoss

PSpec == PInit /\ [][PNext]_pvars

-----------------------------------------------------------------------------
(* Properties.                                                             *)

PTypeOK ==
  /\ TypeOK
  /\ unsynced \in SUBSET Line
  /\ snapSynced \in BOOLEAN
  /\ pending \in SUBSET {"snap", "log"}
  /\ oldSnap \in Projection
  /\ oldLines \in SUBSET Line
  /\ snapLost \in BOOLEAN
  /\ refused \in SUBSET Nat

\* What Append acknowledged is recoverable after a power loss at any instant, with
\* any mix of appends, compactions and restarts around it.  Two kinds of refusal
\* are left out: a torn line, after which nothing is readable, and a record whose
\* Seq was given to a line that failed to sync before.
AckedUnlessRefused ==
  corrupt \/ {r \in acked : r.seq \notin refused} \subseteq Recoverable

\* The same as long as no power loss finds a snapshot whose contents had not
\* reached the disk.
AckedUnlessSnapLost == snapLost \/ AckedUnlessRefused
=============================================================================
