---------------------------- MODULE ImapSession -----------------------------
(***************************************************************************)
(* IMAP sessions on one account.  A session works on a list of its own,    *)
(* taken at SELECT, and speaks to its client in sequence numbers, so what  *)
(* counts is that both sides mean the same message by a number.  Change    *)
(* notifications come through a channel of capacity one per session, sent  *)
(* after the writer has released the account's lock; an IDLE goroutine     *)
(* takes them and replaces the list.                                       *)
(*                                                                         *)
(* At the end of IDLE the goroutine is told to stop and nobody waits for   *)
(* it: goroutines of earlier IDLEs may go on through the commands that     *)
(* follow.  They share the session's fields without a lock; a step here    *)
(* takes each assignment of the list as one.                               *)
(*                                                                         *)
(* `shown' is what the client believes: what SELECT and EXISTS announced   *)
(* and EXPUNGE took away.  The tracker of go-imap is external; it passes   *)
(* these announcements on unchanged.                                       *)
(***************************************************************************)
EXTENDS UidView

CONSTANTS Sess,    \* sessions
          Gor,     \* the goroutines that one session may have at a time
          None,    \* no mailbox selected
          MaxOwed  \* bound on writers between their unlock and their notify

ASSUME NoneAssumption == None \notin Label /\ {"ready", "idle"} \cap Label = {}
ASSUME MaxOwedAssumption == MaxOwed \in Nat \ {0}

VARIABLES
  pc,      \* what the session is doing
  sel,     \* session.selLabel
  got,     \* the entries of the view a SELECT has read
  msgs,    \* session.msgs
  marked,  \* session.deleted
  chan,    \* a change waits in session.changes
  gor,     \* the goroutines of IDLE
  owed,    \* writers that have not called notify yet
  shown,   \* the client: message per sequence number
  meant,   \* history: messages the client asked to delete
  fresh,   \* history: IDLE has replaced the list since SELECT
  strayed, \* history: a late goroutine took a change or wrote the list since SELECT
  missed   \* history: the mailbox changed unnoticed since SELECT

hist == <<meant, fresh, strayed, missed>>
sess == <<pc, sel, got, msgs, marked, chan, gor, shown, hist>>
vars == <<acct, sess, owed>>

Entries(l) == view[l].order

\* loadSelection and the IDLE goroutine keep the entries whose message is there.
Present(entries) == KeepIn(entries, [uid : Nat, msg : live])

Ids(entries) == [k \in 1 .. Len(entries) |-> entries[k].msg]

\* A goroutine: where it is, the view it has folded, the entries it took from that, and
\* whether another IDLE or SELECT has begun since its own.
NoView == [l \in Label |-> <<>>]
Off == [at |-> "off", seen |-> NoView, ents |-> <<>>, late |-> FALSE]
Waiting == [Off EXCEPT !.at = "wait"]
Busy(g) == g.at \in {"view", "read"}

\* Those still there when the session goes on to something else.
Late(gs) == [g \in Gor |-> [gs[g] EXCEPT !.late = (gs[g].at # "off")]]

SInit ==
  /\ Init
  /\ pc = [s \in Sess |-> "ready"] /\ sel = [s \in Sess |-> None]
  /\ got = [s \in Sess |-> <<>>] /\ msgs = [s \in Sess |-> <<>>]
  /\ marked = [s \in Sess |-> {}]
  /\ chan = [s \in Sess |-> FALSE] /\ gor = [s \in Sess |-> [g \in Gor |-> Off]]
  /\ owed = 0
  /\ shown = [s \in Sess |-> <<>>] /\ meant = [s \in Sess |-> {}]
  /\ fresh = [s \in Sess |-> FALSE]
  /\ strayed = [s \in Sess |-> FALSE] /\ missed = [s \in Sess |-> FALSE]

\* A write of this session or of anybody else, up to the unlock.
Owe == owed < MaxOwed /\ owed' = owed + 1

OtherWrite == ClientWrite /\ Owe /\ UNCHANGED sess

\* A compaction, of which no session hears.
Compacted ==
  /\ Compact
  /\ missed' = [s \in Sess |-> TRUE]
  /\ UNCHANGED <<pc, sel, got, msgs, marked, chan, gor, shown, meant, fresh, strayed, owed>>

\* Runtime.notify: a full channel is left as it is.
Notify ==
  /\ owed > 0
  /\ owed' = owed - 1
  /\ chan' = [s \in Sess |-> chan[s] \/ sel[s] # None]
  /\ UNCHANGED <<acct, pc, sel, got, msgs, marked, gor, shown, hist>>

\* SELECT, first half: the log is read and folded, without any lock.
SelectView(s, l) ==
  /\ pc[s] = "ready" /\ l \in known
  /\ got' = [got EXCEPT ![s] = Entries(l)]
  /\ pc' = [pc EXCEPT ![s] = l]
  /\ UNCHANGED <<acct, sel, msgs, marked, chan, gor, shown, hist, owed>>

\* What loadSelection does besides the list: a new subscription, a new tracker and a
\* fresh map of marks.
Reselect(s, gs) ==
  /\ pc[s] \in Label
  /\ sel' = [sel EXCEPT ![s] = pc[s]]
  /\ shown' = [shown EXCEPT ![s] = Ids(msgs'[s])]
  /\ meant' = [meant EXCEPT ![s] = {}]
  /\ chan' = [chan EXCEPT ![s] = FALSE]
  /\ fresh' = [fresh EXCEPT ![s] = FALSE] /\ missed' = [missed EXCEPT ![s] = FALSE]
  /\ got' = [got EXCEPT ![s] = <<>>]
  /\ pc' = [pc EXCEPT ![s] = "ready"]
  /\ gor' = [gor EXCEPT ![s] = Late(gs)]
  /\ UNCHANGED <<acct, owed>>

\* Mutant of SelectLoad: the marks of the mailbox before are kept.
SelectKeepsMarks(s) ==
  /\ msgs' = [msgs EXCEPT ![s] = Present(got[s])]
  /\ strayed' = [strayed EXCEPT ![s] = FALSE]
  /\ Reselect(s, gor[s])
  /\ UNCHANGED marked

\* SELECT, second half: loadSelection.
SelectLoad(s) ==
  /\ msgs' = [msgs EXCEPT ![s] = Present(got[s])]
  /\ marked' = [marked EXCEPT ![s] = {}]
  /\ strayed' = [strayed EXCEPT ![s] = FALSE]
  /\ Reselect(s, gor[s])

\* A goroutine of an earlier IDLE replaces the list while loadSelection appends to it:
\* the first k entries are gone, the others follow what the goroutine wrote.
SelectRaced(s, g, k) ==
  LET now == Present(got[s]) IN
  /\ gor[s][g].at = "read" /\ k <= Len(now)
  /\ msgs' = [msgs EXCEPT ![s] = Present(gor[s][g].ents) \o SubSeq(now, k + 1, Len(now))]
  /\ marked' = [marked EXCEPT ![s] = {}]
  /\ strayed' = [strayed EXCEPT ![s] = TRUE]
  /\ Reselect(s, [gor[s] EXCEPT ![g] = Waiting])

\* UNSELECT keeps the \Deleted marks; the next SELECT clears them.
Unselect(s) ==
  /\ pc[s] = "ready" /\ sel[s] # None
  /\ sel' = [sel EXCEPT ![s] = None]
  /\ msgs' = [msgs EXCEPT ![s] = <<>>] /\ shown' = [shown EXCEPT ![s] = <<>>]
  /\ chan' = [chan EXCEPT ![s] = FALSE]
  /\ gor' = [gor EXCEPT ![s] = Late(@)]
  /\ meant' = [meant EXCEPT ![s] = {}] /\ fresh' = [fresh EXCEPT ![s] = FALSE]
  /\ UNCHANGED <<acct, pc, got, marked, strayed, missed, owed>>

\* STORE n +FLAGS or -FLAGS (\Deleted): the client means shown[n], the server takes
\* msgs[n].
StoreDeleted(s, n, on) ==
  LET put(S, m) == IF on THEN S \cup {m} ELSE S \ {m} IN
  /\ pc[s] = "ready" /\ sel[s] # None /\ n \in 1 .. Len(shown[s])
  /\ meant' = [meant EXCEPT ![s] = put(@, shown[s][n])]
  /\ marked' = IF n <= Len(msgs[s])
               THEN [marked EXCEPT ![s] = put(@, msgs[s][n].msg)] ELSE marked
  /\ UNCHANGED <<acct, pc, sel, got, msgs, chan, gor, shown, fresh, strayed, missed, owed>>

Doomed(s) == {k \in 1 .. Len(msgs[s]) : msgs[s][k].msg \in marked[s]}

\* UID EXPUNGE of one marked message: it loses the label of the mailbox.  A plain
\* EXPUNGE is one of these for every marked message, the last of the list first.
Expunge(s) ==
  /\ pc[s] = "ready" /\ sel[s] # None
  /\ \E k \in Doomed(s) :
       /\ Unlabeled(msgs[s][k].msg, sel[s])
       /\ msgs' = [msgs EXCEPT ![s] = CutOut(@, k)]
       /\ shown' = [shown EXCEPT ![s] = IF k <= Len(@) THEN CutOut(@, k) ELSE @]
  /\ Owe
  /\ UNCHANGED <<pc, sel, got, marked, chan, gor, hist>>

\* COPY of one message into the mailbox l.
Copy(s, n, l) ==
  /\ pc[s] = "ready" /\ sel[s] # None /\ n \in 1 .. Len(msgs[s]) /\ l \in known
  /\ Labeled(msgs[s][n].msg, l)
  /\ Owe
  /\ UNCHANGED sess

-----------------------------------------------------------------------------
(* IDLE.                                                                   *)

\* Another goroutine, whether or not the last one is gone.
IdleBegin(s, g) ==
  /\ pc[s] = "ready" /\ sel[s] # None /\ gor[s][g].at = "off"
  /\ pc' = [pc EXCEPT ![s] = "idle"]
  /\ gor' = [gor EXCEPT ![s] = [Late(@) EXCEPT ![g] = Waiting]]
  /\ UNCHANGED <<acct, sel, got, msgs, marked, chan, shown, hist, owed>>

\* The client ends IDLE: done is closed.
IdleEnd(s) ==
  /\ pc[s] = "idle"
  /\ pc' = [pc EXCEPT ![s] = "ready"]
  /\ UNCHANGED <<acct, sel, got, msgs, marked, chan, gor, shown, hist, owed>>

Done(s, g) == gor[s][g].late \/ pc[s] # "idle"

\* The select of a goroutine: done, once it is closed, or a change.  With both there it
\* takes either, and it takes changes of the channel the session has by then.
Exit(s, g) ==
  /\ gor[s][g].at = "wait" /\ Done(s, g)
  /\ gor' = [gor EXCEPT ![s][g] = Off]
  /\ UNCHANGED <<acct, pc, sel, got, msgs, marked, chan, shown, hist, owed>>

\* It takes the change and folds the log into a view.
Wake(s, g) ==
  /\ gor[s][g].at = "wait" /\ chan[s]
  /\ chan' = [chan EXCEPT ![s] = FALSE]
  /\ gor' = [gor EXCEPT ![s][g] = [@ EXCEPT !.at = "view", !.seen = [l \in Label |-> Entries(l)]]]
  /\ strayed' = [strayed EXCEPT ![s] = @ \/ gor[s][g].late]
  /\ UNCHANGED <<acct, pc, sel, got, msgs, marked, shown, meant, fresh, missed, owed>>

\* It takes the change and cannot read the log.
WakeFails(s, g) ==
  /\ gor[s][g].at = "wait" /\ chan[s]
  /\ chan' = [chan EXCEPT ![s] = FALSE]
  /\ missed' = [missed EXCEPT ![s] = TRUE]
  /\ UNCHANGED <<acct, pc, sel, got, msgs, marked, gor, shown, meant, fresh, strayed, owed>>

\* It looks up the mailbox that is selected now.
TakeEntries(s, g) ==
  /\ gor[s][g].at = "view"
  /\ gor' = [gor EXCEPT ![s][g] = [@ EXCEPT !.at = "read", !.seen = NoView,
                                            !.ents = IF sel[s] = None THEN <<>> ELSE gor[s][g].seen[sel[s]]]]
  /\ UNCHANGED <<acct, pc, sel, got, msgs, marked, chan, shown, hist, owed>>

Grew(s, now) == Len(now) > Len(msgs[s])

\* What the client hears of a new list: that it has grown.
Announced(s, now) ==
  IF Grew(s, now) /\ Len(now) > Len(shown[s])
  THEN shown[s] \o SubSeq(Ids(now), Len(shown[s]) + 1, Len(now)) ELSE shown[s]

\* Back in the loop.
Wrote(s, g) ==
  /\ gor' = [gor EXCEPT ![s][g] = [@ EXCEPT !.at = "wait", !.ents = <<>>]]
  /\ fresh' = [fresh EXCEPT ![s] = TRUE]
  /\ strayed' = [strayed EXCEPT ![s] = @ \/ gor[s][g].late]
  /\ UNCHANGED <<acct, pc, sel, got, marked, chan, meant, missed, owed>>

\* Mutant of Resnapshot: the list only ever grows.
ResnapshotAppends(s, g) ==
  LET now == Present(gor[s][g].ents)
      old == Len(msgs[s])
  IN
  /\ gor[s][g].at = "read" /\ (sel[s] = None => ~Grew(s, now))
  /\ msgs' = [msgs EXCEPT ![s] = IF Len(now) > old THEN @ \o SubSeq(now, old + 1, Len(now)) ELSE @]
  /\ shown' = [shown EXCEPT ![s] = Ids(msgs'[s])]
  /\ Wrote(s, g)

\* It replaces the list.
Resnapshot(s, g) ==
  LET now == Present(gor[s][g].ents) IN
  /\ gor[s][g].at = "read" /\ (sel[s] = None => ~Grew(s, now))
  /\ msgs' = [msgs EXCEPT ![s] = now]
  /\ shown' = [shown EXCEPT ![s] = Announced(s, now)]
  /\ Wrote(s, g)

\* After UNSELECT there is no tracker to announce a longer list to: the process dies,
\* with every session.
Panic(s, g) ==
  /\ gor[s][g].at = "read" /\ sel[s] = None /\ Grew(s, Present(gor[s][g].ents))
  /\ pc' = [r \in Sess |-> "ready"] /\ sel' = [r \in Sess |-> None]
  /\ got' = [r \in Sess |-> <<>>] /\ msgs' = [r \in Sess |-> <<>>]
  /\ marked' = [r \in Sess |-> {}]
  /\ chan' = [r \in Sess |-> FALSE] /\ gor' = [r \in Sess |-> [h \in Gor |-> Off]]
  /\ owed' = 0
  /\ shown' = [r \in Sess |-> <<>>] /\ meant' = [r \in Sess |-> {}]
  /\ fresh' = [r \in Sess |-> FALSE]
  /\ strayed' = [r \in Sess |-> FALSE] /\ missed' = [r \in Sess |-> FALSE]
  /\ UNCHANGED acct

SNext ==
  \/ OtherWrite
  \/ Compacted
  \/ Notify
  \/ \E s \in Sess, l \in Label : SelectView(s, l)
  \/ \E s \in Sess : SelectLoad(s)
  \/ \E s \in Sess, g \in Gor : \E k \in 0 .. Len(got[s]) : SelectRaced(s, g, k)
  \/ \E s \in Sess : Unselect(s)
  \/ \E s \in Sess : \E n \in 1 .. Len(shown[s]), on \in BOOLEAN : StoreDeleted(s, n, on)
  \/ \E s \in Sess : Expunge(s)
  \/ \E s \in Sess, l \in Label : \E n \in 1 .. Len(msgs[s]) : Copy(s, n, l)

Idling ==
  \/ \E s \in Sess, g \in Gor : IdleBegin(s, g)
  \/ \E s \in Sess : IdleEnd(s)
  \/ \E s \in Sess, g \in Gor : Exit(s, g)
  \/ \E s \in Sess, g \in Gor : Wake(s, g)
  \/ \E s \in Sess, g \in Gor : WakeFails(s, g)
  \/ \E s \in Sess, g \in Gor : TakeEntries(s, g)
  \/ \E s \in Sess, g \in Gor : Resnapshot(s, g)
  \/ \E s \in Sess, g \in Gor : Panic(s, g)

SSpec == SInit /\ [][SNext \/ Idling]_vars

-----------------------------------------------------------------------------
(* Properties.                                                             *)

STypeOK ==
  /\ TypeOK
  /\ pc \in [Sess -> {"ready", "idle"} \cup Label]
  /\ sel \in [Sess -> Label \cup {None}]
  /\ \A s \in Sess : got[s] \in Seq([uid : Nat, msg : Msg]) /\ msgs[s] \in Seq([uid : Nat, msg : Msg])
  /\ marked \in [Sess -> SUBSET Msg] /\ meant \in [Sess -> SUBSET Msg]
  /\ chan \in [Sess -> BOOLEAN] /\ fresh \in [Sess -> BOOLEAN]
  /\ strayed \in [Sess -> BOOLEAN] /\ missed \in [Sess -> BOOLEAN]
  /\ \A s \in Sess, g \in Gor :
       /\ gor[s][g].at \in {"off", "wait", "view", "read"} /\ gor[s][g].late \in BOOLEAN
       /\ \A l \in Label : gor[s][g].seen[l] \in Seq([uid : Nat, msg : Msg])
       /\ gor[s][g].ents \in Seq([uid : Nat, msg : Msg])
  /\ owed \in 0 .. MaxOwed
  /\ \A s \in Sess : shown[s] \in Seq(Msg)

\* What EXPUNGE will take out of the mailbox is what this session's client asked to
\* have deleted: client and server count alike, whatever other sessions do to the
\* mailbox meanwhile, as long as no goroutine of IDLE, this one or an earlier, has
\* replaced the list since SELECT.
DeletedAsMeantUnlessIdled ==
  \A s \in Sess : sel[s] # None /\ ~fresh[s] => marked[s] \subseteq meant[s]

\* A session's list is in ascending UID order and every UID in it is the one the
\* selected mailbox gave that message, however old the list is and whatever goroutines
\* of IDLE have replaced it, except one that is left over from before the last SELECT
\* or IDLE began.
ListIsGenuine ==
  \A s \in Sess : ~strayed[s] =>
    /\ \A j, k \in 1 .. Len(msgs[s]) : j < k => msgs[s][j].uid < msgs[s][k].uid
    /\ \A k \in 1 .. Len(msgs[s]) :
         \E n \in 0 .. life[sel[s]] :
           [label |-> sel[s], life |-> n, uid |-> msgs[s][k].uid, msg |-> msgs[s][k].msg] \in uses

\* A session acts on the messages its client means: by number within its list, and the
\* list by UIDs that hold.
ExpungesAsMeant == DeletedAsMeantUnlessIdled /\ ListIsGenuine

Quiet(s) == pc[s] = "idle" /\ ~chan[s] /\ owed = 0 /\ \A g \in Gor : ~Busy(gor[s][g])

\* Once IDLE has handled a change, it is up to date whenever no notification is on
\* its way, although a full channel drops ticks, the view is read unlocked and earlier
\* IDLEs may have left goroutines behind.  Since SELECT no such goroutine may have taken
\* a change or written the list, no reading of the log have failed and the account not
\* have been compacted, which nobody is told of.
IdleCatchesUp ==
  \A s \in Sess : Quiet(s) /\ fresh[s] /\ ~strayed[s] /\ ~missed[s] => msgs[s] = Present(Entries(sel[s]))
=============================================================================
