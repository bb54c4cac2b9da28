--------------------------- MODULE MCFileLogPower ---------------------------
(* FileLogPower for TLC; events may be exchanged for one another.            *)
EXTENDS FileLogPower, TLC

Alike == Permutations(Event)

\* Nothing is claimed once a snapshot is lost or the log is torn.
Unspoilt == ~snapLost /\ ~corrupt
=============================================================================
