------------------------------ MODULE MCStores ------------------------------
(***************************************************************************)
(* What keeps an account's mail, side by side: the bodies and their        *)
(* collector, one body's file, the log in SQL, the export and the          *)
(* scheduler of deferred actions.  A behaviour is about one part.          *)
(***************************************************************************)
EXTENDS BlobStore, BlobPut, SqlLog, Snooze, Backup

MCBodyLine == {[marks |-> n, from |-> b] : n \in {0, 1}, b \in BOOLEAN}

VARIABLE part

vars == <<blobVars, putVars, sqlVars, snoozeVars, backupVars, part>>

Init ==
  /\ BlobInit /\ PutInit /\ SqlInit /\ SnoozeInit /\ BackupInit
  /\ part \in {"blobs", "put", "sql", "snooze", "backup"}
  /\ part # "sql" => backend = "pg"

Blobs(A) == part = "blobs" /\ A /\ UNCHANGED <<putVars, sqlVars, snoozeVars, backupVars, part>>

Next ==
  \/ Blobs(BlobNext)
  \/ part = "put" /\ PutNext /\ UNCHANGED <<blobVars, sqlVars, snoozeVars, backupVars, part>>
  \/ part = "sql" /\ SqlNext /\ UNCHANGED <<blobVars, putVars, snoozeVars, backupVars, part>>
  \/ part = "snooze" /\ SnoozeNext /\ UNCHANGED <<blobVars, putVars, sqlVars, backupVars, part>>
  \/ part = "backup" /\ BackupNext /\ UNCHANGED <<blobVars, putVars, sqlVars, snoozeVars, part>>

\* The collector's loop in main goes round, and time passes.  After the last fault
\* reads succeed.
Spec ==
  /\ Init /\ [][Next]_vars
  /\ WF_vars(Blobs(Collect)) /\ \A b \in Body : WF_vars(Blobs(Age(b)))
=============================================================================
