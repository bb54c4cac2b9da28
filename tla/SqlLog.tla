------------------------------- MODULE SqlLog -------------------------------
(***************************************************************************)
(* The event log of one account in Postgres (internal/mailpg), as several  *)
(* processes use it, or in SQLite, which one process has open and which    *)
(* takes no snapshots.  Each process has its own mutex and its own         *)
(* projection; what they share are the rows and the snapshot.              *)
(*                                                                         *)
(* PostgreSQL itself refuses Append's first statement, a SELECT MAX ...    *)
(* FOR UPDATE: no append gets through there ("pg").  A server that takes   *)
(* the statement, for the plain read that an aggregate is, shows what the  *)
(* rest of the code makes of several processes ("lenient").                *)
(***************************************************************************)
EXTENDS Naturals, FiniteSetsExt

CONSTANTS
  Replica,
  MaxEvents,   \* bound on appends that reach the table
  MaxErrors    \* bound on errors of the database and on restarts

ASSUME SqlAssumption == Replica # {} /\ MaxEvents \in Nat /\ MaxErrors \in Nat

VARIABLES
  backend,   \* "pg", "lenient" or "sqlite"
  rows,      \* events: [seq, ev]; an event is the number of its append
  saved,     \* snapshots: the row of the account, seq 0 when there is none
  held,      \* each process's projection
  maxSeq,    \* the number an Append has read, or NoSeq between appends
  given,     \* events so far
  durable,   \* history: events whose Append returned no error
  complete,  \* history: processes whose projection has all acknowledged events
  highest,   \* history: the highest number so far
  spoilt,    \* history: what may have cost events, see AckedUnlessSpoilt
  errors

sqlVars == <<backend, rows, saved, held, maxSeq, given, durable, complete, highest, spoilt, errors>>

NoSeq == MaxEvents + 1
Nothing == [seq |-> 0, evs |-> {}]

SqlInit ==
  /\ backend \in {"pg", "lenient", "sqlite"}
  /\ rows = {} /\ saved = Nothing /\ held = [r \in Replica |-> Nothing]
  /\ maxSeq = [r \in Replica |-> NoSeq] /\ given = 0
  /\ durable = {} /\ complete = Replica /\ highest = 0 /\ spoilt = FALSE /\ errors = 0

Process == IF backend = "sqlite" THEN {CHOOSE r \in Replica : TRUE} ELSE Replica

\* Len, and the first statement of Append.
HighestSeq == Max({0} \cup {row.seq : row \in rows})

\* Mutant of RowsFrom: the first record that is asked for is left out.
RowsAfter(s) == {row \in rows : row.seq > s}

RowsFrom(s) == {row \in rows : row.seq >= s}

\* The records in the order of their numbers, none of which occurs twice; Apply skips
\* those at or below the projection's.
Replayed(p, tail) ==
  LET new == {row \in tail : row.seq > p.seq} IN
  [seq |-> Max({p.seq} \cup {row.seq : row \in new}), evs |-> p.evs \cup {row.ev : row \in new}]

\* openProjection: the snapshot and the tail, or all rows when there is none.
Recovered == Replayed(saved, RowsFrom(saved.seq + 1))

Trouble(b) == IF b THEN errors < MaxErrors /\ errors' = errors + 1 ELSE UNCHANGED errors

-----------------------------------------------------------------------------
\* Append, under the process's mutex: SELECT MAX(seq), and the error it returns when
\* the server refuses to lock the rows of an aggregate.
SelectRefused(r) == backend = "pg" /\ maxSeq[r] = NoSeq /\ UNCHANGED sqlVars

SelectMax(r) ==
  /\ backend # "pg" /\ maxSeq[r] = NoSeq /\ given < MaxEvents
  /\ maxSeq' = [maxSeq EXCEPT ![r] = HighestSeq]
  /\ UNCHANGED <<backend, rows, saved, held, given, durable, complete, highest, spoilt, errors>>

Number(s) == highest' = Max({highest, s}) /\ spoilt' = (spoilt \/ s <= highest)

\* INSERT and COMMIT: the primary key refuses a number that is taken, with all that the
\* transaction did.  The event is applied when the append returns.
Insert(r) ==
  LET row == [seq |-> maxSeq[r] + 1, ev |-> given + 1] IN
  /\ maxSeq[r] # NoSeq
  /\ maxSeq' = [maxSeq EXCEPT ![r] = NoSeq]
  /\ IF \E x \in rows : x.seq = row.seq
     THEN UNCHANGED <<rows, held, given, durable, complete, highest, spoilt>>
     ELSE /\ rows' = rows \cup {row} /\ given' = given + 1
          /\ held' = [held EXCEPT ![r] = Replayed(@, {row})] /\ durable' = durable \cup {row.ev}
          /\ complete' = complete \cap {r}
          /\ Number(row.seq)
  /\ UNCHANGED <<backend, saved, errors>>

\* Append returns an error; a commit whose answer was lost has taken place.
InsertFails(r, committed) ==
  LET row == [seq |-> maxSeq[r] + 1, ev |-> given + 1] IN
  /\ maxSeq[r] # NoSeq /\ Trouble(TRUE)
  /\ maxSeq' = [maxSeq EXCEPT ![r] = NoSeq]
  /\ IF committed
     THEN /\ \A x \in rows : x.seq # row.seq
          /\ rows' = rows \cup {row} /\ given' = given + 1 /\ Number(row.seq)
     ELSE UNCHANGED <<rows, given, highest, spoilt>>
  /\ UNCHANGED <<backend, saved, held, durable, complete>>

\* Runtime.Compact, with its lock: the snapshot is replaced and the rows it covers are
\* deleted, in one transaction.
SaveSnapshot(r) ==
  /\ backend # "sqlite" /\ maxSeq[r] = NoSeq
  /\ saved' = held[r]
  /\ rows' = RowsFrom(held[r].seq + 1)
  /\ spoilt' = (spoilt \/ r \notin complete)
  /\ UNCHANGED <<backend, held, maxSeq, given, durable, complete, highest, errors>>

\* A process restarts.  When the snapshot cannot be read, the projection is what the
\* rows alone make of it.
Restarted(r, loaded) ==
  /\ Trouble(TRUE) /\ (loaded \/ saved.seq > 0)
  /\ held' = [held EXCEPT ![r] = IF loaded THEN Recovered ELSE Replayed(Nothing, RowsFrom(1))]
  /\ complete' = IF loaded THEN complete \cup {r} ELSE complete \ {r}
  /\ maxSeq' = [maxSeq EXCEPT ![r] = NoSeq]
  /\ UNCHANGED <<backend, rows, saved, given, durable, highest, spoilt>>

\* ReadFrom and Len on behalf of a reader.
Reads(r) == maxSeq[r] = NoSeq /\ UNCHANGED sqlVars

SqlNext ==
  \E r \in Process :
    \/ SelectRefused(r) \/ SelectMax(r) \/ Insert(r) \/ SaveSnapshot(r) \/ Reads(r)
    \/ \E b \in BOOLEAN : InsertFails(r, b) \/ Restarted(r, b)

SqlSpec == SqlInit /\ [][SqlNext]_sqlVars

-----------------------------------------------------------------------------
\* An event whose Append returned is in what the next process reads: through restarts,
\* lost answers, appends of several processes that race for a number and compactions;
\* unless an append got a number that was given before, or a process compacted
\* that did not have all events, because another one had appended since it opened the
\* log or because it had opened it without the snapshot.  (Of PostgreSQL itself this
\* says nothing: no Append returns there.)
AckedUnlessSpoilt == ~spoilt => durable \subseteq Recovered.evs
=============================================================================
