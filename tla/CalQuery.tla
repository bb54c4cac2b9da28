------------------------------ MODULE CalQuery ------------------------------
(***************************************************************************)
(* The time-range filter of a calendar-query REPORT (caldav/query.go).     *)
(* Times are 1, 2, ...; 0 is a bound or a property that is absent.         *)
(***************************************************************************)
EXTENDS Naturals

CONSTANT Horizon   \* bound on times
ASSUME HorizonAssumption == Horizon \in Nat \ {0}

Event == [start : 1 .. Horizon, end : 0 .. Horizon, duration : 0 .. 2, every : 0 .. 2, count : 1 .. 2]
TimeRange == [start : 0 .. Horizon, end : 0 .. Horizon]

VARIABLE report  \* the event that is stored, the last question and its answer
queryVars == <<report>>

EventDuration(ev) == IF ev.end > ev.start THEN ev.end - ev.start ELSE ev.duration

Overlaps(tr, s, e) == (tr.start = 0 \/ e > tr.start) /\ (tr.end = 0 \/ s < tr.end)

\* External: the instances that the recurrence library generates.
Instances(ev) == IF ev.every = 0 THEN {ev.start} ELSE {ev.start + i * ev.every : i \in 0 .. ev.count - 1}
Between(ev, after, before) == {o \in Instances(ev) : o >= after /\ o <= before}

\* Mutant of After: instances that began before the range are not asked for.
AfterStart(ev, tr) == tr.start

\* The lower end of what the library is asked for: an instance may reach into the range.
After(ev, tr) == IF tr.start <= EventDuration(ev) THEN 0 ELSE tr.start - EventDuration(ev)

RecurrenceOverlaps(ev, tr) ==
  \E o \in Between(ev, After(ev, tr), IF tr.end = 0 THEN 3 * Horizon ELSE tr.end) : Overlaps(tr, o, o + EventDuration(ev))

EventOverlaps(ev, tr) ==
  IF ev.every > 0 THEN RecurrenceOverlaps(ev, tr) ELSE Overlaps(tr, ev.start, ev.start + EventDuration(ev))

\* A range without a usable bound filters nothing.
Matches(ev, tr) == (tr.start = 0 /\ tr.end = 0) \/ EventOverlaps(ev, tr)

QueryInit == \E ev \in Event : report = [ev |-> ev, tr |-> [start |-> 0, end |-> 0], found |-> TRUE]
QueryNext == \E tr \in TimeRange : report' = [ev |-> report.ev, tr |-> tr, found |-> Matches(report.ev, tr)]

QuerySpec == QueryInit /\ [][QueryNext]_queryVars

-----------------------------------------------------------------------------
\* An event that lasts is found exactly if one of its instances and the range share a
\* moment; one that does not last, if an instance lies inside the range, its start
\* excluded.  (A range is one whose end is after its start.)
QueryIsExact ==
  LET tr == report.tr
      d == EventDuration(report.ev)
      In(t) == (tr.start = 0 \/ tr.start <= t) /\ (tr.end = 0 \/ t < tr.end)
  IN  (tr.start < tr.end \/ (tr.start > 0 /\ tr.end = 0)) =>
        (report.found <=> \E o \in Instances(report.ev) : IF d = 0 THEN In(o) /\ o # tr.start ELSE \E t \in o .. o + d - 1 : In(t))
=============================================================================
