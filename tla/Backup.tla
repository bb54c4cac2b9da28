------------------------------- MODULE Backup -------------------------------
(***************************************************************************)
(* The mbox export of an account (internal/backup).  A line of a message   *)
(* is what the format tells apart: how many ">" it begins with, and        *)
(* whether "From " follows them.                                           *)
(***************************************************************************)
EXTENDS Lists, SequencesExt

CONSTANTS
  BodyLine,   \* the lines of messages, [marks, from]
  MaxLines,   \* bound on the lines of a message
  MaxMail     \* bound on the messages of the account

ASSUME BackupAssumption == BodyLine \subseteq [marks : Nat, from : BOOLEAN] /\ MaxLines \in Nat /\ MaxMail \in Nat

VARIABLES
  ingested,   \* the messages in ingest order
  cut,        \* how many of them a compaction has moved from the log to its snapshot
  left,       \* what is left of the messages an export goes through
  archive,    \* the lines it has written
  copied      \* history: the messages they are made of

backupVars == <<ingested, cut, left, archive, copied>>

BackupInit == ingested = <<>> /\ cut = 0 /\ left = <<>> /\ archive = <<>> /\ copied = <<>>

Separator == [marks |-> 0, from |-> TRUE]
BlankLine == [marks |-> 0, from |-> FALSE]

\* Mutant of IsFromLine: only a line that begins with "From " is quoted.
IsBareFromLine(l) == l.from /\ l.marks = 0

IsFromLine(l) == l.from

WriteMboxBody(body) ==
  Append([i \in DOMAIN body |-> IF IsFromLine(body[i]) THEN [body[i] EXCEPT !.marks = @ + 1] ELSE body[i]], BlankLine)

\* Rebuild reads the log from its first record and does not look for a snapshot.
Rebuilt == SubSeq(ingested, cut + 1, Len(ingested))

Arrive(body) ==
  /\ Len(ingested) < MaxMail
  /\ ingested' = Append(ingested, body) /\ UNCHANGED <<cut, left, archive, copied>>

CompactLog ==
  /\ cut < Len(ingested) /\ cut' = Len(ingested)
  /\ UNCHANGED <<ingested, left, archive, copied>>

\* ExportMbox lists the messages once, and mail keeps arriving while it writes them.
ExportMbox ==
  /\ left = <<>> /\ left' = Rebuilt
  /\ archive' = <<>> /\ copied' = <<>> /\ UNCHANGED <<ingested, cut>>

ExportMessage ==
  /\ left # <<>> /\ left' = Tail(left)
  /\ archive' = archive \o <<Separator>> \o WriteMboxBody(Head(left))
  /\ copied' = Append(copied, Head(left)) /\ UNCHANGED <<ingested, cut>>

\* A body that is not there, a line the scanner has no room for or a failed write: the
\* caller is told and has no archive.
ExportFails ==
  /\ left # <<>> /\ left' = <<>>
  /\ archive' = <<>> /\ copied' = <<>> /\ UNCHANGED <<ingested, cut>>

BackupNext ==
  \/ CompactLog \/ ExportMbox \/ ExportMessage \/ ExportFails
  \/ \E n \in 0 .. MaxLines : \E body \in [1 .. n -> BodyLine] : Arrive(body)

BackupSpec == BackupInit /\ [][BackupNext]_backupVars

-----------------------------------------------------------------------------
(* A reader of the format: messages begin at separators, end with a blank  *)
(* line, and lose one mark from each quoted line.                          *)

Starts == {i \in DOMAIN archive : archive[i] = Separator}
EndOf(i) == CHOOSE j \in i .. Len(archive) : (j = Len(archive) \/ j + 1 \in Starts) /\ \A k \in i + 1 .. j : k \notin Starts
Unquote(l) == IF l.from THEN [l EXCEPT !.marks = @ - 1] ELSE l
ReadBack ==
  LET starts == InOrder(Starts) IN
  [k \in DOMAIN starts |-> [i \in 1 .. EndOf(starts[k]) - starts[k] - 1 |-> Unquote(archive[starts[k] + i])]]

\* At every point an archive reads back as the messages written to it, each whole and apart from the
\* others, whatever their lines are; and these are the account's messages as long as no
\* compaction has taken some out of the log.
ArchiveReadsBack == ReadBack = copied /\ (cut = 0 => IsPrefix(copied, ingested))
=============================================================================
