------------------------------- MODULE Snooze -------------------------------
(***************************************************************************)
(* The scheduler of deferred actions (internal/snooze): callers schedule,  *)
(* replace and cancel items while one goroutine drains those that are due  *)
(* and hands them to the handler one by one.                               *)
(***************************************************************************)
EXTENDS Naturals, SequencesExt, FiniteSetsExt

CONSTANTS
  Item,       \* numbers, for ties are broken by ID
  MaxTime,    \* bound on the clock
  MaxAsked    \* bound on calls of Schedule

ASSUME SnoozeAssumption == Item \subseteq Nat /\ MaxTime \in Nat /\ MaxAsked \in Nat

Never == MaxTime + 1

VARIABLES
  clock,
  pending,   \* MemStore.items: DueAt and the call that set it; Never when absent
  batch,     \* items Due has returned and drain has not handled
  handled,   \* history: calls whose item was handled
  asked,     \* calls of Schedule so far
  revoked    \* history: calls whose item was replaced or cancelled while pending

snoozeVars == <<clock, pending, batch, handled, asked, revoked>>

NoItem == [due |-> Never, ask |-> 0]

SnoozeInit ==
  /\ clock = 0 /\ asked = 0 /\ batch = <<>> /\ handled = {} /\ revoked = {}
  /\ pending = [i \in Item |-> NoItem]

Revoke(i) == IF pending[i] = NoItem THEN revoked ELSE revoked \cup {pending[i].ask}

\* Add: an item with the same ID is replaced.
Schedule(i, t) ==
  /\ asked < MaxAsked /\ asked' = asked + 1
  /\ pending' = [pending EXCEPT ![i] = [due |-> t, ask |-> asked + 1]]
  /\ revoked' = Revoke(i)
  /\ UNCHANGED <<clock, batch, handled>>

CancelItem(i) ==
  /\ pending[i] # NoItem
  /\ pending' = [pending EXCEPT ![i] = NoItem] /\ revoked' = Revoke(i)
  /\ UNCHANGED <<clock, batch, handled, asked>>

Passes ==
  /\ clock < MaxTime /\ clock' = clock + 1
  /\ UNCHANGED <<pending, batch, handled, asked, revoked>>

\* Mutant of Left: what is due stays in the store.
LeftAll == pending

\* MemStore.Due: what is due, and what is left.
DueNow == {i \in Item : pending[i].due <= clock}
Left == [i \in Item |-> IF i \in DueNow THEN NoItem ELSE pending[i]]

Entry(i) == [id |-> i, due |-> pending[i].due, ask |-> pending[i].ask]
Earlier(a, b) == a.due < b.due \/ (a.due = b.due /\ a.id < b.id)

\* Scheduler.Due, on a tick: taken out under the store's lock, then sorted.
Due ==
  /\ batch = <<>>
  /\ batch' \in {q \in SetToSeqs({Entry(i) : i \in DueNow}) : \A j, k \in DOMAIN q : j < k => Earlier(q[j], q[k])}
  /\ pending' = Left
  /\ UNCHANGED <<clock, handled, asked, revoked>>

\* The handler returns; nothing is done again.
Handle ==
  /\ batch # <<>>
  /\ handled' = handled \cup {Head(batch).ask} /\ batch' = Tail(batch)
  /\ UNCHANGED <<clock, pending, asked, revoked>>

SnoozeNext ==
  \/ Passes \/ Due \/ Handle
  \/ \E i \in Item : CancelItem(i) \/ \E t \in 0 .. MaxTime : Schedule(i, t)

SnoozeSpec == SnoozeInit /\ [][SnoozeNext]_snoozeVars

-----------------------------------------------------------------------------
Waiting == {pending[i].ask : i \in Item} \cup {b.ask : b \in ToSet(batch)}

\* Every call of Schedule ends in one way: its item waits, or was handled once, or was
\* replaced or cancelled in time and is never handled.  A batch is in order of time.
FiresOnce ==
  /\ \A n \in 1 .. asked : (IF n \in Waiting THEN 1 ELSE 0) + (IF n \in handled THEN 1 ELSE 0) + (IF n \in revoked THEN 1 ELSE 0) = 1
  /\ \A i, j \in DOMAIN batch : i < j => batch[i].due <= batch[j].due

=============================================================================
