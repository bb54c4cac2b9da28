------------------------------ MODULE UidView -------------------------------
(***************************************************************************)
(* IMAP UIDs as imap.View computes them.  The view is never stored: every  *)
(* command folds the records that Runtime.Records returns into a fresh     *)
(* one.  That fold is deterministic, so `view' here is its value for the   *)
(* records in the log now; each append extends it by one View.Apply.       *)
(* Beside it stands what projection.Apply makes of the same records: which *)
(* messages are live and which labels they carry.                          *)
(***************************************************************************)
EXTENDS Naturals, Sequences, FiniteSets, Lists

CONSTANTS Msg, Label,
          MaxUid,  \* bound on the UIDs assigned in one mailbox
          MaxLife  \* bound on how often the UIDs of a mailbox start afresh

ASSUME BoundAssumption == MaxUid \in Nat /\ MaxLife \in Nat

VARIABLES
  born,  \* messages ingested so far; an id is drawn once
  live,  \* Account.Messages
  lab,   \* the labels of each live message
  known, \* Account.Labels
  view,  \* imap.View over the records in the log
  life,  \* history: how often the UIDs of each mailbox started afresh
  uses,  \* history: every assignment of a UID to a message in a mailbox
  lost   \* history: the labels of messages whose records a compaction removed

acct == <<born, live, lab, known, view, life, uses, lost>>

\* A mailbox the view has not seen answers like an empty one.
NewMailbox == [next |-> 1, order |-> <<>>]

Members(mb) == {mb.order[k].msg : k \in 1 .. Len(mb.order)}

\* mailbox.assign
Assign(mb, m) ==
  IF m \in Members(mb) THEN mb
  ELSE [next |-> mb.next + 1, order |-> Append(mb.order, [uid |-> mb.next, msg |-> m])]

\* The first entry of m is taken out of the slice.
Place(mb, m) ==
  CHOOSE k \in 1 .. Len(mb.order) : mb.order[k].msg = m /\ \A j \in 1 .. k - 1 : mb.order[j].msg # m

\* Mutant of Retire: the last UID is handed out again.
RetireAndReuse(mb, m) ==
  IF m \in Members(mb)
  THEN [next |-> mb.next - 1, order |-> CutOut(mb.order, Place(mb, m))]
  ELSE mb

\* mailbox.retire; next stays.
Retire(mb, m) ==
  IF m \in Members(mb) THEN [mb EXCEPT !.order = CutOut(@, Place(mb, m))] ELSE mb

Uses(l, n, mb) ==
  {[label |-> l, life |-> n, uid |-> mb.order[k].uid, msg |-> mb.order[k].msg] : k \in 1 .. Len(mb.order)}

Init ==
  /\ born = {} /\ live = {}
  /\ lab = [m \in Msg |-> {}] /\ known = Label
  /\ life = [l \in Label |-> 0]
  /\ view = [l \in Label |-> NewMailbox]
  /\ uses = {} /\ lost = {}

\* m gets a slot in mailbox l, if it has none.
Slot(m, l) ==
  /\ view[l].next <= MaxUid
  /\ view' = [view EXCEPT ![l] = Assign(@, m)]
  /\ uses' = uses \cup Uses(l, life[l], view'[l])
  /\ lost' = lost \ {<<m, l>>}
  /\ UNCHANGED <<known, life>>

-----------------------------------------------------------------------------
(* The events, as the projection and the view fold them.                   *)

MessageIngested(m, l) ==
  /\ m \notin born
  /\ born' = born \cup {m} /\ live' = live \cup {m}
  /\ lab' = [lab EXCEPT ![m] = {l}]
  /\ Slot(m, l)

\* Clients may name a message that was expunged: the projection ignores that, the
\* view does not.
Labeled(m, l) ==
  /\ m \in born
  /\ lab' = IF m \in live THEN [lab EXCEPT ![m] = @ \cup {l}] ELSE lab
  /\ Slot(m, l)
  /\ UNCHANGED <<born, live>>

Unlabeled(m, l) ==
  /\ m \in born
  /\ lab' = [lab EXCEPT ![m] = @ \ {l}]
  /\ view' = [view EXCEPT ![l] = Retire(@, m)]
  /\ UNCHANGED <<born, live, known, life, uses, lost>>

MessageExpunged(m) ==
  /\ m \in born
  /\ live' = live \ {m}
  /\ lab' = [lab EXCEPT ![m] = {}]
  /\ view' = [l \in Label |-> Retire(view[l], m)]
  /\ UNCHANGED <<born, known, life, uses, lost>>

\* The view has no mailbox of a label until a message gets a slot in it.
LabelCreated(l) ==
  /\ known' = known \cup {l}
  /\ UNCHANGED <<born, live, lab, view, life, uses, lost>>

\* Mutant of LabelDeleted: the messages keep the label.
LabelDeletedInViewOnly(l) ==
  /\ l \in known /\ life[l] < MaxLife
  /\ known' = known \ {l}
  /\ life' = [life EXCEPT ![l] = @ + 1]
  /\ view' = [view EXCEPT ![l] = NewMailbox]
  /\ UNCHANGED <<born, live, lab, uses, lost>>

\* The mailbox is dropped, its UID counter with it.
LabelDeleted(l) ==
  /\ l \in known /\ life[l] < MaxLife
  /\ known' = known \ {l}
  /\ life' = [life EXCEPT ![l] = @ + 1]
  /\ lab' = [m \in Msg |-> lab[m] \ {l}]
  /\ view' = [view EXCEPT ![l] = NewMailbox]
  /\ UNCHANGED <<born, live, uses, lost>>

\* Runtime.Compact, from the loop in main: the log keeps the records after the
\* snapshot, which is none, and every view starts from there.  Nobody is notified.
Compact ==
  /\ \A l \in Label : life[l] < MaxLife
  /\ view' = [l \in Label |-> NewMailbox]
  /\ life' = [l \in Label |-> life[l] + 1]
  /\ lost' = {s \in Msg \X Label : s[2] \in lab[s[1]]}
  /\ UNCHANGED <<born, live, lab, known, uses>>

\* The writes of the account's clients.
ClientWrite ==
  \/ \E m \in Msg, l \in Label : MessageIngested(m, l)
  \/ \E m \in Msg, l \in Label : Labeled(m, l)
  \/ \E m \in Msg, l \in Label : Unlabeled(m, l)
  \/ \E m \in Msg : MessageExpunged(m)
  \/ \E l \in Label : LabelCreated(l)
  \/ \E l \in Label : LabelDeleted(l)

Spec == Init /\ [][ClientWrite \/ Compact]_acct

-----------------------------------------------------------------------------
(* Properties.                                                             *)

Mailboxes == [next : Nat, order : Seq([uid : Nat, msg : Msg])]

TypeOK ==
  /\ born \in SUBSET Msg /\ live \in SUBSET Msg
  /\ lab \in [Msg -> SUBSET Label]
  /\ known \in SUBSET Label
  /\ view \in [Label -> Mailboxes]
  /\ life \in [Label -> 0 .. MaxLife]
  /\ uses \in SUBSET [label : Label, life : Nat, uid : Nat, msg : Msg]
  /\ lost \in SUBSET (Msg \X Label)

\* A UID names one message, and UIDNEXT is above every UID ever given, whatever is
\* labelled, unlabelled, expunged and labelled again, until the mailbox is deleted or
\* the account compacted: both start its UIDs at 1 again under the same UIDVALIDITY.
\* A mailbox lists its messages in ascending UID order, each of them once.
UidNeverReused ==
  /\ \A u \in uses :
       /\ u.life = life[u.label] => u.uid < view[u.label].next
       /\ \A w \in uses :
            u.label = w.label /\ u.life = w.life /\ u.uid = w.uid => u.msg = w.msg
  /\ \A l \in Label : LET o == view[l].order IN
       \A j, k \in 1 .. Len(o) : j < k => o[j].uid < o[k].uid /\ o[j].msg # o[k].msg

\* Two folds of one log agree: the live messages that the view places in a mailbox
\* are the live messages that carry its label.
FoldsAgree ==
  \A l \in Label : Members(view[l]) \cap live = {m \in live : l \in lab[m]}

\* The same, but for the labels that were given before a compaction: the projection has
\* them from the snapshot, the view does not.
ViewAgrees ==
  \A l \in Label : Members(view[l]) \cap live = {m \in live : l \in lab[m] /\ <<m, l>> \notin lost}
=============================================================================
