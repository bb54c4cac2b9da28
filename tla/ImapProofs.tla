----------------------------- MODULE ImapProofs -----------------------------
(***************************************************************************)
(* Proofs about UidView, ImapSession and ImapStore.                        *)
(***************************************************************************)
EXTENDS ImapSession, ImapStore, ListProofs

-----------------------------------------------------------------------------
(* What assign and retire do to one mailbox.                               *)

Slots(mb) == {mb.order[k] : k \in 1 .. Len(mb.order)}

\* Ascending UIDs, and every message once.
Ascending(mb) ==
  \A j, k \in 1 .. Len(mb.order) :
    j < k => mb.order[j].uid < mb.order[k].uid /\ mb.order[j].msg # mb.order[k].msg

Below(mb) == \A e \in Slots(mb) : e.uid < mb.next

\* A mailbox that never held anything.
LEMMA EmptyMailbox ==
  NewMailbox \in Mailboxes /\ Slots(NewMailbox) = {} /\ Members(NewMailbox) = {} /\ Ascending(NewMailbox)
BY DEF NewMailbox, Mailboxes, Slots, Members, Ascending

\* The parts of a mailbox.
LEMMA MailboxShape ==
  ASSUME NEW mb \in Mailboxes
  PROVE  /\ mb.next \in Nat /\ mb.order \in Seq([uid : Nat, msg : Msg]) /\ Len(mb.order) \in Nat
         /\ \A k \in 1 .. Len(mb.order) :
              mb.order[k] \in Slots(mb) /\ mb.order[k].uid \in Nat /\ mb.order[k].msg \in Msg
         /\ Slots(mb) \subseteq [uid : Nat, msg : Msg]
         /\ Members(mb) = {e.msg : e \in Slots(mb)}
<1>1. mb.next \in Nat /\ mb.order \in Seq([uid : Nat, msg : Msg]) /\ Len(mb.order) \in Nat
  BY DEF Mailboxes
<1>2. \A k \in 1 .. Len(mb.order) : mb.order[k] \in [uid : Nat, msg : Msg]
  BY <1>1, SeqEntry
<1>3. /\ \A k \in 1 .. Len(mb.order) : mb.order[k] \in Slots(mb)
      /\ Slots(mb) \subseteq [uid : Nat, msg : Msg]
  BY <1>1, <1>2 DEF Slots
<1>4. Members(mb) = {e.msg : e \in Slots(mb)}
  <2>1. ASSUME NEW x \in Members(mb) PROVE x \in {e.msg : e \in Slots(mb)}
    BY <1>3 DEF Members
  <2>2. ASSUME NEW e \in Slots(mb) PROVE e.msg \in Members(mb)
    BY DEF Slots, Members
  <2> QED
    BY <2>1, <2>2
<1> QED
  BY <1>1, <1>2, <1>3, <1>4

\* A new slot at the end, with the next UID.
LEMMA AssignSlots ==
  ASSUME NEW mb \in Mailboxes, NEW m \in Msg, Ascending(mb), Below(mb)
  PROVE  /\ Assign(mb, m) \in Mailboxes /\ Ascending(Assign(mb, m)) /\ Below(Assign(mb, m))
         /\ Members(Assign(mb, m)) = Members(mb) \cup {m}
         /\ mb.next <= Assign(mb, m).next
         /\ Slots(Assign(mb, m)) \subseteq Slots(mb) \cup {[uid |-> mb.next, msg |-> m]}
<1> DEFINE e == [uid |-> mb.next, msg |-> m]
           o == mb.order
           new == Append(o, e)
           mb2 == [next |-> mb.next + 1, order |-> new]
<1>0. /\ mb.next \in Nat /\ o \in Seq([uid : Nat, msg : Msg]) /\ Len(o) \in Nat
      /\ \A k \in 1 .. Len(o) : o[k] \in Slots(mb) /\ o[k].uid \in Nat /\ o[k].msg \in Msg
      /\ Members(mb) = {x.msg : x \in Slots(mb)}
  BY MailboxShape
<1>1. CASE m \in Members(mb)
  BY <1>0, <1>1 DEF Assign
<1>2. CASE m \notin Members(mb)
  <2>1. e \in [uid : Nat, msg : Msg]
    BY <1>0
  <2>2. /\ new \in Seq([uid : Nat, msg : Msg]) /\ Len(new) = Len(o) + 1
        /\ \A k \in 1 .. Len(o) : new[k] = o[k]
        /\ new[Len(o) + 1] = e
    BY <1>0, <2>1
  <2>3. mb2 \in Mailboxes /\ mb2.next = mb.next + 1 /\ mb2.order = new
    BY <1>0, <2>2 DEF Mailboxes
  <2>4. Slots(mb2) = Slots(mb) \cup {e}
    <3>1. 1 .. Len(o) + 1 = 1 .. Len(o) \cup {Len(o) + 1}
      BY <1>0
    <3> QED
      BY <2>2, <2>3, <3>1 DEF Slots
  <2>5. Members(mb2) = Members(mb) \cup {m}
    <3>1. Members(mb2) = {x.msg : x \in Slots(mb2)}
      BY <2>3, MailboxShape
    <3>2. e.msg = m
      OBVIOUS
    <3> HIDE DEF e, mb2
    <3> QED
      BY <1>0, <2>4, <3>1, <3>2
  <2>6. Below(mb2)
    BY <1>0, <2>3, <2>4, MailboxShape, SMTT(30) DEF Below
  <2>7. Ascending(mb2)
    <3> SUFFICES ASSUME NEW j \in 1 .. Len(o) + 1, NEW k \in 1 .. Len(o) + 1, j < k
                 PROVE  new[j].uid < new[k].uid /\ new[j].msg # new[k].msg
      BY <2>2, <2>3 DEF Ascending
    <3>1. j \in 1 .. Len(o) /\ new[j] = o[j] /\ o[j] \in Slots(mb)
      BY <1>0, <2>2
    <3>2. CASE k \in 1 .. Len(o)
      BY <2>2, <3>1, <3>2 DEF Ascending
    <3>3. CASE k = Len(o) + 1
      <4>1. o[j].uid < mb.next /\ o[j].msg # m
        BY <1>0, <1>2, <3>1 DEF Below
      <4> QED
        BY <2>2, <3>1, <3>3, <4>1
    <3> QED
      BY <1>0, <3>2, <3>3
  <2>8. Assign(mb, m) = mb2
    BY <1>2 DEF Assign
  <2> HIDE DEF mb2
  <2> QED
    BY <1>0, <2>3, <2>4, <2>5, <2>6, <2>7, <2>8
<1> QED
  BY <1>1, <1>2

\* A slot is cut out; the others keep their UIDs and their order.
LEMMA RetireSlots ==
  ASSUME NEW mb \in Mailboxes, NEW m \in Msg, Ascending(mb)
  PROVE  /\ Retire(mb, m) \in Mailboxes /\ Ascending(Retire(mb, m))
         /\ Members(Retire(mb, m)) = Members(mb) \ {m}
         /\ Retire(mb, m).next = mb.next
         /\ Slots(Retire(mb, m)) \subseteq Slots(mb)
<1> DEFINE o == mb.order
           p == Place(mb, m)
           cut == CutOut(o, p)
           mb2 == [mb EXCEPT !.order = cut]
<1>0. /\ mb.next \in Nat /\ o \in Seq([uid : Nat, msg : Msg]) /\ Len(o) \in Nat
      /\ Slots(mb) = {o[k] : k \in 1 .. Len(o)} /\ Members(mb) = {o[k].msg : k \in 1 .. Len(o)}
      /\ \A j, k \in 1 .. Len(o) : j < k => o[j].uid < o[k].uid /\ o[j].msg # o[k].msg
  BY MailboxShape DEF Slots, Members, Ascending
<1>1. CASE m \notin Members(mb)
  BY <1>1 DEF Retire
<1>2. CASE m \in Members(mb)
  <2>1. PICK q \in 1 .. Len(o) : o[q].msg = m
    BY <1>0, <1>2
  <2>2. p \in 1 .. Len(o) /\ o[p].msg = m
    <3> DEFINE First(k) == o[k].msg = m /\ \A j \in 1 .. k - 1 : o[j].msg # m
    <3>1. First(q)
      <4>1. \A j \in 1 .. q - 1 : j \in 1 .. Len(o) /\ j < q
        BY <1>0, <2>1
      <4> QED
        BY <1>0, <2>1, <4>1
    <3>2. p = CHOOSE k \in 1 .. Len(o) : First(k)
      BY DEF Place
    <3> HIDE DEF First, p
    <3>3. p \in 1 .. Len(o) /\ First(p)
      BY <2>1, <3>1, <3>2, Zenon
    <3> QED
      BY <3>3 DEF First
  <2>3. \A k \in 1 .. Len(o) : o[k].msg = m => k = p
    BY <1>0, <2>2, SMTT(30)
  <2>4. Retire(mb, m) = mb2
    BY <1>2 DEF Retire
  <2> HIDE DEF p, o
  <2>5. /\ cut \in Seq([uid : Nat, msg : Msg]) /\ Len(cut) = Len(o) - 1
        /\ \A k \in 1 .. Len(o) - 1 : cut[k] = o[IF k < p THEN k ELSE k + 1]
        /\ \A k \in 1 .. Len(o) - 1 : \E i \in 1 .. Len(o) : i # p /\ cut[k] = o[i]
        /\ \A i \in 1 .. Len(o) : i # p => \E k \in 1 .. Len(o) - 1 : cut[k] = o[i]
    <3> DEFINE S == [uid : Nat, msg : Msg]
    <3>1. o \in Seq(S) /\ p \in 1 .. Len(o)
      BY <1>0, <2>2
    <3> HIDE DEF S
    <3>2. cut \in Seq(S) /\ Len(cut) = Len(o) - 1
      BY <3>1, CutOutEntries
    <3>3. \A k \in 1 .. Len(o) - 1 : cut[k] = o[IF k < p THEN k ELSE k + 1]
      BY <3>1, CutOutEntries
    <3>4. \A k \in 1 .. Len(o) - 1 : \E i \in 1 .. Len(o) : i # p /\ cut[k] = o[i]
      BY <3>1, CutOutEntries, ZenonT(40)
    <3>5. \A i \in 1 .. Len(o) : i # p => \E k \in 1 .. Len(o) - 1 : cut[k] = o[i]
      BY <3>1, CutOutEntries
    <3> QED
      BY <3>2, <3>3, <3>4, <3>5 DEF S
  <2> HIDE DEF cut
  <2>6. mb2 \in Mailboxes /\ mb2.next = mb.next /\ mb2.order = cut
    BY <1>0, <2>5 DEF Mailboxes
  <2> HIDE DEF mb2
  <2>7. Slots(mb2) = {cut[k] : k \in 1 .. Len(o) - 1} /\ Members(mb2) = {cut[k].msg : k \in 1 .. Len(o) - 1}
    BY <2>5, <2>6 DEF Slots, Members
  <2>8. Ascending(mb2)
    <3> SUFFICES ASSUME NEW j \in 1 .. Len(o) - 1, NEW k \in 1 .. Len(o) - 1, j < k
                 PROVE  cut[j].uid < cut[k].uid /\ cut[j].msg # cut[k].msg
      BY <2>5, <2>6 DEF Ascending
    <3> DEFINE a == IF j < p THEN j ELSE j + 1
               b == IF k < p THEN k ELSE k + 1
    <3>1. a \in 1 .. Len(o) /\ b \in 1 .. Len(o) /\ a < b
      BY <1>0, <2>2
    <3>2. cut[j] = o[a] /\ cut[k] = o[b]
      BY <2>5
    <3> HIDE DEF a, b
    <3> QED
      BY <1>0, <3>1, <3>2
  <2>9. \A k \in 1 .. Len(o) - 1 : \E i \in 1 .. Len(o) : o[i].msg # m /\ cut[k] = o[i]
    BY <2>3, <2>5, <2>2
  <2>10. ASSUME NEW x \in Slots(mb2) PROVE x \in Slots(mb)
    <3>1. PICK k \in 1 .. Len(o) - 1 : x = cut[k]
      BY <2>7
    <3>2. PICK i \in 1 .. Len(o) : cut[k] = o[i]
      BY <2>9
    <3> QED
      BY <1>0, <3>1, <3>2, Zenon
  <2>11. Members(mb2) = Members(mb) \ {m}
    <3>1. ASSUME NEW x \in Members(mb2) PROVE x \in Members(mb) \ {m}
      <4>1. PICK k \in 1 .. Len(o) - 1 : x = cut[k].msg
        BY <2>7
      <4>2. PICK i \in 1 .. Len(o) : o[i].msg # m /\ cut[k] = o[i]
        BY <2>9
      <4> QED
        BY <1>0, <4>1, <4>2, Zenon
    <3>2. ASSUME NEW x \in Members(mb), x # m PROVE x \in Members(mb2)
      <4>1. PICK i \in 1 .. Len(o) : x = o[i].msg
        BY <1>0
      <4>2. PICK k \in 1 .. Len(o) - 1 : cut[k] = o[i]
        BY <2>2, <2>5, <3>2, <4>1
      <4> QED
        BY <2>7, <4>1, <4>2, Zenon
    <3> QED
      BY <3>1, <3>2
  <2> QED
    BY <2>4, <2>6, <2>8, <2>10, <2>11
<1> QED
  BY <1>1, <1>2

-----------------------------------------------------------------------------
(* The view, its history and the projection beside it.                     *)

Use(l, n, e) == [label |-> l, life |-> n, uid |-> e.uid, msg |-> e.msg]

\* Why a UID is never given twice: every slot that exists was recorded, and every UID
\* recorded in the present life of a mailbox is below its UIDNEXT.
ViewInv ==
  /\ view \in [Label -> Mailboxes]
  /\ life \in [Label -> 0 .. MaxLife]
  /\ uses \in SUBSET [label : Label, life : Nat, uid : Nat, msg : Msg]
  /\ \A l \in Label : Ascending(view[l]) /\ Below(view[l])
  /\ \A l \in Label : \A e \in Slots(view[l]) : Use(l, life[l], e) \in uses
  /\ \A u \in uses : u.life <= life[u.label]
  /\ \A u \in uses : u.life = life[u.label] => u.uid < view[u.label].next
  /\ \A u, w \in uses : u.label = w.label /\ u.life = w.life /\ u.uid = w.uid => u.msg = w.msg

\* The projection beside it.  Only a message that was ingested is live or has a slot.
FoldInv ==
  /\ born \in SUBSET Msg /\ live \in SUBSET born
  /\ lab \in [Msg -> SUBSET Label] /\ known \in SUBSET Label
  /\ lost \in SUBSET (Msg \X Label)
  /\ \A l \in Label : Members(view[l]) \subseteq born
  /\ ViewAgrees

AcctInv == ViewInv /\ FoldInv

\* The slots of a mailbox, as uses of its UIDs.
LEMMA UsesOfSlots ==
  ASSUME NEW l, NEW n, NEW mb
  PROVE  Uses(l, n, mb) = {Use(l, n, e) : e \in Slots(mb)}
<1>1. ASSUME NEW x \in Uses(l, n, mb) PROVE x \in {Use(l, n, e) : e \in Slots(mb)}
  BY DEF Uses, Use, Slots
<1>2. ASSUME NEW e \in Slots(mb) PROVE Use(l, n, e) \in Uses(l, n, mb)
  BY DEF Uses, Use, Slots
<1> QED
  BY <1>1, <1>2

\* Giving a message a slot keeps the history sound, and adds that message to the mailbox.
LEMMA SlotView ==
  ASSUME ViewInv, NEW m \in Msg, NEW l \in Label, Slot(m, l)
  PROVE  /\ ViewInv'
         /\ Members(view'[l]) = Members(view[l]) \cup {m}
         /\ \A k \in Label \ {l} : view'[k] = view[k]
<1> DEFINE mb == view[l]
           mb2 == Assign(mb, m)
           new == [uid |-> mb.next, msg |-> m]
           use == Use(l, life[l], new)
<1>1. /\ view \in [Label -> Mailboxes] /\ life \in [Label -> 0 .. MaxLife]
      /\ uses \in SUBSET [label : Label, life : Nat, uid : Nat, msg : Msg]
      /\ \A k \in Label : Ascending(view[k]) /\ Below(view[k])
  BY DEF ViewInv
<1>2. /\ view' = [view EXCEPT ![l] = mb2] /\ life' = life
      /\ uses' = uses \cup Uses(l, life[l], view'[l])
  BY DEF Slot
<1>3. mb \in Mailboxes /\ mb.next \in Nat /\ life[l] \in Nat
  BY <1>1, MailboxShape
<1> HIDE DEF mb, mb2
<1>4. /\ mb2 \in Mailboxes /\ Ascending(mb2) /\ Below(mb2)
      /\ Members(mb2) = Members(mb) \cup {m}
      /\ mb.next <= mb2.next
      /\ Slots(mb2) \subseteq Slots(mb) \cup {new}
  BY <1>1, <1>3, AssignSlots DEF mb, mb2
<1>5. mb2.next \in Nat /\ Slots(mb2) \subseteq [uid : Nat, msg : Msg]
  BY <1>4, MailboxShape
<1>6. /\ view'[l] = mb2 /\ \A k \in Label \ {l} : view'[k] = view[k]
      /\ view' \in [Label -> Mailboxes]
  BY <1>1, <1>2, <1>4
<1>7. uses' = uses \cup {Use(l, life[l], e) : e \in Slots(mb2)}
  BY <1>2, <1>6, UsesOfSlots
<1>8. \A e \in Slots(mb) : Use(l, life[l], e) \in uses
  BY DEF ViewInv, mb
<1>9. uses' \subseteq uses \cup {use}
  BY <1>4, <1>7, <1>8
<1>10. use.label = l /\ use.life = life[l] /\ use.uid = mb.next /\ use.msg = m
  BY DEF Use
<1>11. uses' \in SUBSET [label : Label, life : Nat, uid : Nat, msg : Msg]
  BY <1>1, <1>3, <1>9 DEF Use
<1> HIDE DEF use
<1>12. \A k \in Label : Ascending(view'[k]) /\ Below(view'[k])
  BY <1>1, <1>4, <1>6
<1>13. ASSUME NEW k \in Label, NEW e \in Slots(view'[k]) PROVE Use(k, life'[k], e) \in uses'
  <2>1. CASE k = l
    BY <1>2, <1>6, <1>7, <2>1
  <2>2. CASE k # l
    BY <1>2, <1>6, <1>7, <2>2 DEF ViewInv
  <2> QED
    BY <2>1, <2>2
<1>14. ASSUME NEW u \in uses' PROVE u.life <= life'[u.label]
  BY <1>2, <1>3, <1>9, <1>10 DEF ViewInv
<1>15. ASSUME NEW u \in uses', u.life = life'[u.label] PROVE u.uid < view'[u.label].next
  <2>1. CASE u \in uses
    <3>1. u.uid < view[u.label].next /\ u.label \in Label /\ u.uid \in Nat
      BY <1>1, <1>2, <1>15, <2>1 DEF ViewInv
    <3>2. CASE u.label = l
      BY <1>3, <1>4, <1>5, <1>6, <3>1, <3>2 DEF mb
    <3>3. CASE u.label # l
      BY <1>6, <3>1, <3>3
    <3> QED
      BY <3>2, <3>3
  <2>2. CASE u \notin uses
    <3>1. PICK e \in Slots(mb2) : u = Use(l, life[l], e)
      BY <1>7, <2>2
    <3>2. u.label = l /\ u.uid = e.uid
      BY <3>1 DEF Use
    <3> QED
      BY <1>4, <1>6, <3>2 DEF Below
  <2> QED
    BY <2>1, <2>2
<1>16. ASSUME NEW u \in uses', NEW w \in uses', u.label = w.label, u.life = w.life, u.uid = w.uid
       PROVE  u.msg = w.msg
  <2>1. \A x \in uses : ~(x.label = l /\ x.life = life[l] /\ x.uid = mb.next)
    <3> SUFFICES ASSUME NEW x \in uses, x.label = l, x.life = life[l], x.uid = mb.next
                 PROVE  FALSE
      OBVIOUS
    <3>1. x.uid < view[x.label].next
      BY DEF ViewInv
    <3> QED
      BY <1>3, <3>1 DEF mb
  <2>2. CASE u \in uses /\ w \in uses
    BY <1>16, <2>2 DEF ViewInv
  <2>3. CASE u = use
    BY <1>9, <1>10, <1>16, <2>1, <2>3
  <2>4. CASE w = use
    BY <1>9, <1>10, <1>16, <2>1, <2>4
  <2> QED
    BY <1>9, <2>2, <2>3, <2>4
<1>17. life' \in [Label -> 0 .. MaxLife]
  BY <1>1, <1>2
<1>18. ViewInv'
  BY <1>6, <1>11, <1>12, <1>13, <1>14, <1>15, <1>16, <1>17 DEF ViewInv
<1> QED
  BY <1>4, <1>6, <1>18 DEF mb

\* Taking the slots of a message away in the mailboxes L keeps the history sound.
LEMMA RetireView ==
  ASSUME ViewInv, NEW m \in Msg, NEW L \in SUBSET Label,
         view' = [l \in Label |-> IF l \in L THEN Retire(view[l], m) ELSE view[l]],
         UNCHANGED <<life, uses>>
  PROVE  /\ ViewInv'
         /\ \A l \in L : Members(view'[l]) = Members(view[l]) \ {m}
         /\ \A l \in Label \ L : view'[l] = view[l]
<1>1. /\ view \in [Label -> Mailboxes] /\ life \in [Label -> 0 .. MaxLife]
      /\ uses \in SUBSET [label : Label, life : Nat, uid : Nat, msg : Msg]
      /\ \A k \in Label : Ascending(view[k]) /\ Below(view[k])
  BY DEF ViewInv
<1>2. life' = life /\ uses' = uses
  OBVIOUS
<1>3. ASSUME NEW l \in Label
      PROVE  /\ view'[l] \in Mailboxes /\ Ascending(view'[l])
             /\ view'[l].next = view[l].next
             /\ Slots(view'[l]) \subseteq Slots(view[l])
             /\ l \in L => Members(view'[l]) = Members(view[l]) \ {m}
             /\ l \notin L => view'[l] = view[l]
  <2>1. CASE l \in L
    <3>1. view'[l] = Retire(view[l], m)
      BY <2>1
    <3>2. view[l] \in Mailboxes /\ Ascending(view[l])
      BY <1>1
    <3> QED
      BY <2>1, <3>1, <3>2, RetireSlots
  <2>2. CASE l \notin L
    BY <1>1, <2>2
  <2> QED
    BY <2>1, <2>2
<1>4. view' \in [Label -> Mailboxes]
  BY <1>3
<1>5. \A l \in Label : Below(view'[l])
  BY <1>1, <1>3 DEF Below
<1>6. \A l \in Label : \A e \in Slots(view'[l]) : Use(l, life'[l], e) \in uses'
  BY <1>2, <1>3 DEF ViewInv
<1>7. \A u \in uses' : u.life = life'[u.label] => u.uid < view'[u.label].next
  <2> SUFFICES ASSUME NEW u \in uses, u.life = life[u.label]
               PROVE  u.uid < view'[u.label].next
    BY <1>2
  <2>1. u.uid < view[u.label].next /\ u.label \in Label
    BY <1>1 DEF ViewInv
  <2> QED
    BY <1>3, <2>1
<1>8. ViewInv'
  BY <1>1, <1>2, <1>3, <1>4, <1>5, <1>6, <1>7 DEF ViewInv
<1> QED
  BY <1>3, <1>8

\* A mailbox that is deleted or compacted starts again with nothing recorded in its new
\* life; D are those.
LEMMA AfreshView ==
  ASSUME ViewInv, NEW D \in SUBSET Label, \A l \in D : life[l] < MaxLife,
         life' = [l \in Label |-> IF l \in D THEN life[l] + 1 ELSE life[l]],
         view' = [l \in Label |-> IF l \in D THEN NewMailbox ELSE view[l]],
         uses' = uses
  PROVE  ViewInv'
<1>1. /\ view \in [Label -> Mailboxes] /\ life \in [Label -> 0 .. MaxLife]
      /\ uses \in SUBSET [label : Label, life : Nat, uid : Nat, msg : Msg]
      /\ \A k \in Label : Ascending(view[k]) /\ Below(view[k])
  BY DEF ViewInv
<1>2. /\ \A l \in D : view'[l] = NewMailbox /\ life'[l] = life[l] + 1 /\ life[l] \in Nat
      /\ \A k \in Label \ D : view'[k] = view[k] /\ life'[k] = life[k]
  BY <1>1
<1>3. view' \in [Label -> Mailboxes]
  BY <1>1, EmptyMailbox
<1>4. life' \in [Label -> 0 .. MaxLife]
  BY <1>1, <1>2, BoundAssumption
<1>5. \A k \in Label : Ascending(view'[k]) /\ Below(view'[k])
  BY <1>1, <1>2, EmptyMailbox DEF Below
<1>6. \A k \in Label : \A e \in Slots(view'[k]) : Use(k, life'[k], e) \in uses'
  BY <1>2, EmptyMailbox DEF ViewInv
<1>7. ASSUME NEW u \in uses'
      PROVE  u.life <= life'[u.label] /\ (u.life = life'[u.label] => u.uid < view'[u.label].next)
  <2>1. /\ u.life <= life[u.label] /\ u.label \in Label /\ u.life \in Nat
        /\ u.life = life[u.label] => u.uid < view[u.label].next
    BY <1>1 DEF ViewInv
  <2>2. CASE u.label \in D
    <3>1. life'[u.label] = life[u.label] + 1 /\ life[u.label] \in Nat
      BY <1>2, <2>2
    <3>2. u.life < life'[u.label]
      BY <2>1, <3>1
    <3> QED
      BY <2>1, <3>1, <3>2
  <2>3. CASE u.label \notin D
    BY <1>2, <2>1, <2>3
  <2> QED
    BY <2>2, <2>3
<1> QED
  BY <1>1, <1>3, <1>4, <1>5, <1>6, <1>7 DEF ViewInv

\* An account before its first event.
LEMMA AcctInit ==
  Init => AcctInv
<1> SUFFICES ASSUME Init PROVE AcctInv
  OBVIOUS
<1>1. \A l \in Label : view[l] = NewMailbox /\ life[l] = 0
  BY DEF Init
<1>2. view \in [Label -> Mailboxes] /\ life \in [Label -> 0 .. MaxLife]
  BY EmptyMailbox, BoundAssumption DEF Init
<1>3. \A l \in Label : Ascending(view[l]) /\ Below(view[l]) /\ Slots(view[l]) = {} /\ Members(view[l]) = {}
  BY <1>1, EmptyMailbox DEF Below
<1>4. uses = {} /\ live = {} /\ born = {} /\ lost = {} /\ lab \in [Msg -> SUBSET Label] /\ known \in SUBSET Label
  BY DEF Init
<1>5. ViewInv
  BY <1>2, <1>3, <1>4 DEF ViewInv
<1>6. FoldInv
  BY <1>3, <1>4 DEF FoldInv, ViewAgrees
<1> QED
  BY <1>5, <1>6 DEF AcctInv

\* What is known of the projection, in the form the steps below use.
LEMMA FoldFacts ==
  ASSUME FoldInv
  PROVE  /\ born \in SUBSET Msg /\ live \in SUBSET Msg /\ live \subseteq born
         /\ lab \in [Msg -> SUBSET Label] /\ known \in SUBSET Label
         /\ \A l \in Label : Members(view[l]) \subseteq born
         /\ lost \in SUBSET (Msg \X Label)
         /\ \A l \in Label, x \in live :
              x \in Members(view[l]) <=> l \in lab[x] /\ <<x, l>> \notin lost
BY DEF FoldInv, ViewAgrees

\* A message arrives.
LEMMA IngestedInv ==
  ASSUME AcctInv, NEW m \in Msg, NEW l \in Label, MessageIngested(m, l)
  PROVE  AcctInv'
<1>1. /\ m \notin born /\ born' = born \cup {m} /\ live' = live \cup {m}
      /\ lab' = [lab EXCEPT ![m] = {l}] /\ known' = known /\ lost' = lost \ {<<m, l>>} /\ Slot(m, l)
  BY DEF MessageIngested, Slot
<1>2. ViewInv /\ FoldInv
  BY DEF AcctInv
<1>3. /\ ViewInv' /\ Members(view'[l]) = Members(view[l]) \cup {m}
      /\ \A k \in Label \ {l} : view'[k] = view[k]
  BY <1>1, <1>2, SlotView
<1>4. \A k \in Label : Members(view'[k]) = IF k = l THEN Members(view[k]) \cup {m} ELSE Members(view[k])
  BY <1>3
<1>5. ASSUME NEW k \in Label, NEW x \in live' PROVE x \in Members(view'[k]) <=> k \in lab'[x] /\ <<x, k>> \notin lost'
  <2>1. CASE x = m
    BY <1>1, <1>2, <1>4, <2>1, FoldFacts
  <2>2. CASE x # m
    BY <1>1, <1>2, <1>4, <2>2, FoldFacts
  <2> QED
    BY <2>1, <2>2
<1>6. \A k \in Label : Members(view'[k]) \subseteq born'
  BY <1>1, <1>2, <1>4, FoldFacts
<1>7. born' \in SUBSET Msg /\ live' \in SUBSET born' /\ lab' \in [Msg -> SUBSET Label] /\ known' \in SUBSET Label /\ lost' \in SUBSET (Msg \X Label)
  BY <1>1, <1>2, FoldFacts
<1>8. FoldInv'
  BY <1>5, <1>6, <1>7 DEF FoldInv, ViewAgrees
<1> QED
  BY <1>3, <1>8 DEF AcctInv

\* A message gets a label.
LEMMA LabeledInv ==
  ASSUME AcctInv, NEW m \in Msg, NEW l \in Label, Labeled(m, l)
  PROVE  AcctInv'
<1>1. /\ m \in born /\ born' = born /\ live' = live
      /\ lab' = IF m \in live THEN [lab EXCEPT ![m] = @ \cup {l}] ELSE lab
      /\ known' = known /\ lost' = lost \ {<<m, l>>} /\ Slot(m, l)
  BY DEF Labeled, Slot
<1>2. ViewInv /\ FoldInv
  BY DEF AcctInv
<1>3. /\ ViewInv' /\ Members(view'[l]) = Members(view[l]) \cup {m}
      /\ \A k \in Label \ {l} : view'[k] = view[k]
  BY <1>1, <1>2, SlotView
<1>4. \A k \in Label : Members(view'[k]) = IF k = l THEN Members(view[k]) \cup {m} ELSE Members(view[k])
  BY <1>3
<1>5. ASSUME NEW k \in Label, NEW x \in live' PROVE x \in Members(view'[k]) <=> k \in lab'[x] /\ <<x, k>> \notin lost'
  <2>1. CASE x = m
    BY <1>1, <1>2, <1>4, <2>1, FoldFacts
  <2>2. CASE x # m
    BY <1>1, <1>2, <1>4, <2>2, FoldFacts
  <2> QED
    BY <2>1, <2>2
<1>6. \A k \in Label : Members(view'[k]) \subseteq born'
  BY <1>1, <1>2, <1>4, FoldFacts
<1>7. born' \in SUBSET Msg /\ live' \in SUBSET born' /\ lab' \in [Msg -> SUBSET Label] /\ known' \in SUBSET Label /\ lost' \in SUBSET (Msg \X Label)
  BY <1>1, <1>2, FoldFacts
<1>8. FoldInv'
  BY <1>5, <1>6, <1>7 DEF FoldInv, ViewAgrees
<1> QED
  BY <1>3, <1>8 DEF AcctInv

\* A message loses a label.
LEMMA UnlabeledInv ==
  ASSUME AcctInv, NEW m \in Msg, NEW l \in Label, Unlabeled(m, l)
  PROVE  AcctInv'
<1>1. /\ born' = born /\ live' = live /\ lab' = [lab EXCEPT ![m] = @ \ {l}]
      /\ known' = known /\ life' = life /\ uses' = uses /\ lost' = lost
      /\ view' = [view EXCEPT ![l] = Retire(@, m)]
  BY DEF Unlabeled
<1>2. ViewInv /\ FoldInv /\ view \in [Label -> Mailboxes]
  BY DEF AcctInv, ViewInv
<1>3. view' = [k \in Label |-> IF k \in {l} THEN Retire(view[k], m) ELSE view[k]]
  BY <1>1, <1>2
<1>4. /\ ViewInv' /\ \A k \in {l} : Members(view'[k]) = Members(view[k]) \ {m}
      /\ \A k \in Label \ {l} : view'[k] = view[k]
  BY <1>1, <1>2, <1>3, RetireView
<1>5. \A k \in Label : Members(view'[k]) = IF k = l THEN Members(view[k]) \ {m} ELSE Members(view[k])
  BY <1>4
<1>6. ASSUME NEW k \in Label, NEW x \in live' PROVE x \in Members(view'[k]) <=> k \in lab'[x] /\ <<x, k>> \notin lost'
  <2>1. CASE x = m
    BY <1>1, <1>2, <1>5, <2>1, FoldFacts, ZenonT(40)
  <2>2. CASE x # m
    BY <1>1, <1>2, <1>5, <2>2, FoldFacts, ZenonT(40)
  <2> QED
    BY <2>1, <2>2
<1>7. \A k \in Label : Members(view'[k]) \subseteq born'
  BY <1>1, <1>2, <1>5, FoldFacts, ZenonT(40)
<1>8. born' \in SUBSET Msg /\ live' \in SUBSET born' /\ lab' \in [Msg -> SUBSET Label] /\ known' \in SUBSET Label /\ lost' \in SUBSET (Msg \X Label)
  BY <1>1, <1>2, FoldFacts
<1>9. FoldInv'
  BY <1>6, <1>7, <1>8 DEF FoldInv, ViewAgrees
<1> QED
  BY <1>4, <1>9 DEF AcctInv

\* A message is expunged from every mailbox.
LEMMA ExpungedInv ==
  ASSUME AcctInv, NEW m \in Msg, MessageExpunged(m)
  PROVE  AcctInv'
<1>1. /\ born' = born /\ live' = live \ {m} /\ lab' = [lab EXCEPT ![m] = {}]
      /\ known' = known /\ life' = life /\ uses' = uses /\ lost' = lost
      /\ view' = [k \in Label |-> Retire(view[k], m)]
  BY DEF MessageExpunged
<1>2. ViewInv /\ FoldInv
  BY DEF AcctInv
<1>3. view' = [k \in Label |-> IF k \in Label THEN Retire(view[k], m) ELSE view[k]]
  BY <1>1
<1>4. ViewInv' /\ \A k \in Label : Members(view'[k]) = Members(view[k]) \ {m}
  BY <1>1, <1>2, <1>3, RetireView
<1>5. \A k \in Label, x \in live' : x \in Members(view'[k]) <=> k \in lab'[x] /\ <<x, k>> \notin lost'
  BY <1>1, <1>2, <1>4, FoldFacts
<1>6. \A k \in Label : Members(view'[k]) \subseteq born'
  BY <1>1, <1>2, <1>4, FoldFacts
<1>7. born' \in SUBSET Msg /\ live' \in SUBSET born' /\ lab' \in [Msg -> SUBSET Label] /\ known' \in SUBSET Label /\ lost' \in SUBSET (Msg \X Label)
  BY <1>1, <1>2, FoldFacts
<1>8. FoldInv'
  BY <1>5, <1>6, <1>7 DEF FoldInv, ViewAgrees
<1> QED
  BY <1>4, <1>8 DEF AcctInv

\* A label is created or deleted.
LEMMA LabelInv ==
  ASSUME AcctInv, NEW l \in Label, LabelCreated(l) \/ LabelDeleted(l)
  PROVE  AcctInv'
<1>1. CASE LabelCreated(l)
  <2>1. UNCHANGED <<born, live, lab, view, life, uses, lost>> /\ known' = known \cup {l}
    BY <1>1 DEF LabelCreated
  <2>2. ViewInv'
    BY <2>1 DEF AcctInv, ViewInv
  <2>3. FoldInv'
    BY <2>1 DEF AcctInv, FoldInv, ViewAgrees
  <2> QED
    BY <2>2, <2>3 DEF AcctInv
<1>2. CASE LabelDeleted(l)
  <2>1. ViewInv /\ FoldInv /\ view \in [Label -> Mailboxes]
    BY DEF AcctInv, ViewInv
  <2>2. /\ born' = born /\ live' = live /\ lab' = [m \in Msg |-> lab[m] \ {l}]
        /\ known' = known \ {l} /\ lost' = lost /\ uses' = uses /\ life[l] < MaxLife
        /\ view' = [view EXCEPT ![l] = NewMailbox] /\ life' = [life EXCEPT ![l] = @ + 1]
    BY <1>2 DEF LabelDeleted
  <2>3. \A k \in Label : Members(view'[k]) = IF k = l THEN {} ELSE Members(view[k])
    BY <2>1, <2>2, EmptyMailbox
  <2>4. \A k \in Label, x \in live' : x \in Members(view'[k]) <=> k \in lab'[x] /\ <<x, k>> \notin lost'
    BY <2>1, <2>2, <2>3, FoldFacts
  <2>5. \A k \in Label : Members(view'[k]) \subseteq born'
    BY <2>1, <2>2, <2>3, FoldFacts
  <2>6. born' \in SUBSET Msg /\ live' \in SUBSET born' /\ lab' \in [Msg -> SUBSET Label] /\ known' \in SUBSET Label /\ lost' \in SUBSET (Msg \X Label)
    BY <2>1, <2>2, FoldFacts
  <2>7. FoldInv'
    BY <2>4, <2>5, <2>6 DEF FoldInv, ViewAgrees
  <2>8. /\ view' = [k \in Label |-> IF k \in {l} THEN NewMailbox ELSE view[k]]
        /\ life' = [k \in Label |-> IF k \in {l} THEN life[k] + 1 ELSE life[k]]
    BY <2>1, <2>2 DEF ViewInv
  <2>9. ViewInv'
    BY <2>1, <2>2, <2>8, AfreshView
  <2> QED
    BY <2>7, <2>9 DEF AcctInv
<1> QED
  BY <1>1, <1>2

\* The account is compacted.
LEMMA CompactInv ==
  ASSUME AcctInv, Compact
  PROVE  AcctInv'
<1>1. ViewInv /\ FoldInv
  BY DEF AcctInv
<1>2. /\ \A l \in Label : life[l] < MaxLife
      /\ view' = [l \in Label |-> NewMailbox] /\ life' = [l \in Label |-> life[l] + 1]
      /\ lost' = {p \in Msg \X Label : p[2] \in lab[p[1]]}
      /\ UNCHANGED <<born, live, lab, known, uses>>
  BY DEF Compact
<1>3. ViewInv'
  <2>1. /\ view' = [l \in Label |-> IF l \in Label THEN NewMailbox ELSE view[l]]
        /\ life' = [l \in Label |-> IF l \in Label THEN life[l] + 1 ELSE life[l]]
    BY <1>2
  <2> QED
    BY <1>1, <1>2, <2>1, AfreshView
<1>4. \A k \in Label : Members(view'[k]) = {}
  BY <1>2, EmptyMailbox
<1>5. ASSUME NEW k \in Label, NEW x \in live' PROVE ~(k \in lab'[x] /\ <<x, k>> \notin lost')
  <2>1. x \in Msg
    BY <1>1, <1>2, FoldFacts
  <2> QED
    BY <1>2, <2>1
<1>6. FoldInv'
  BY <1>1, <1>2, <1>4, <1>5 DEF FoldInv, ViewAgrees
<1> QED
  BY <1>3, <1>6 DEF AcctInv

\* Every event keeps the invariant of the account.
LEMMA AcctStep ==
  AcctInv /\ [ClientWrite \/ Compact]_acct => AcctInv'
<1> SUFFICES ASSUME AcctInv, [ClientWrite \/ Compact]_acct PROVE AcctInv'
  OBVIOUS
<1>1. CASE UNCHANGED acct
  BY <1>1 DEF acct, AcctInv, ViewInv, FoldInv, ViewAgrees
<1>2. CASE \E m \in Msg, l \in Label : MessageIngested(m, l)
  BY <1>2, IngestedInv
<1>3. CASE \E m \in Msg, l \in Label : Labeled(m, l)
  BY <1>3, LabeledInv
<1>4. CASE \E m \in Msg, l \in Label : Unlabeled(m, l)
  BY <1>4, UnlabeledInv
<1>5. CASE \E m \in Msg : MessageExpunged(m)
  BY <1>5, ExpungedInv
<1>6. CASE \E l \in Label : LabelCreated(l)
  BY <1>6, LabelInv
<1>7. CASE \E l \in Label : LabelDeleted(l)
  BY <1>7, LabelInv
<1>8. CASE Compact
  BY <1>8, CompactInv
<1> QED
  BY <1>1, <1>2, <1>3, <1>4, <1>5, <1>6, <1>7, <1>8 DEF ClientWrite

\* What no step does: it takes back no UID and no fresh start.
LEMMA HistoryGrows ==
  ASSUME AcctInv, [ClientWrite \/ Compact]_acct
  PROVE  uses \subseteq uses' /\ \A l \in Label : life[l] \in Nat /\ life'[l] \in Nat /\ life[l] <= life'[l]
<1>1. life \in [Label -> 0 .. MaxLife]
  BY DEF AcctInv, ViewInv
<1>2. CASE UNCHANGED <<life, uses>>
  BY <1>1, <1>2
<1>3. ASSUME NEW m \in Msg, NEW l \in Label, Slot(m, l)
      PROVE  uses \subseteq uses' /\ life' = life
  BY <1>3 DEF Slot
<1>4. ASSUME NEW l \in Label, LabelDeleted(l)
      PROVE  uses' = uses /\ life' = [life EXCEPT ![l] = @ + 1]
  BY <1>4 DEF LabelDeleted
<1>5. CASE Compact
  <2>1. uses' = uses /\ life' = [l \in Label |-> life[l] + 1]
    BY <1>5 DEF Compact
  <2> QED
    BY <1>1, <2>1
<1>6. CASE \E l \in Label : LabelDeleted(l)
  BY <1>1, <1>4, <1>6
<1>7. CASE \E m \in Msg, l \in Label : Slot(m, l)
  BY <1>1, <1>3, <1>7
<1>8. \/ UNCHANGED <<life, uses>>
      \/ \E l \in Label : LabelDeleted(l)
      \/ \E m \in Msg, l \in Label : Slot(m, l)
      \/ Compact
  BY DEF ClientWrite, acct, MessageIngested, Labeled, Unlabeled, MessageExpunged, LabelCreated
<1> QED
  BY <1>2, <1>5, <1>6, <1>7, <1>8

\* The two properties are parts of the invariant.
LEMMA AcctImplies ==
  AcctInv => UidNeverReused /\ ViewAgrees
BY DEF AcctInv, ViewInv, FoldInv, Ascending, UidNeverReused

-----------------------------------------------------------------------------
(* The sessions.                                                           *)


Entry == [uid : Nat, msg : Msg]

\* o lists messages by UIDs that the mailbox l gave them, in ascending order; lf and us
\* are the history.
Genuine(o, l, lf, us) ==
  /\ o \in Seq(Entry)
  /\ \A j, k \in 1 .. Len(o) : j < k => o[j].uid < o[k].uid
  /\ \A k \in 1 .. Len(o) : \E n \in 0 .. lf[l] : Use(l, n, o[k]) \in us

\* A goroutine of IDLE.
GorRec == [at : {"off", "wait", "view", "read"}, seen : [Label -> Seq(Entry)], ents : Seq(Entry), late : BOOLEAN]

SessTypes ==
  /\ pc \in [Sess -> {"ready", "idle"} \cup Label]
  /\ sel \in [Sess -> Label \cup {None}]
  /\ gor \in [Sess -> [Gor -> GorRec]]
  /\ chan \in [Sess -> BOOLEAN] /\ fresh \in [Sess -> BOOLEAN]
  /\ strayed \in [Sess -> BOOLEAN] /\ missed \in [Sess -> BOOLEAN]
  /\ marked \in [Sess -> SUBSET Msg] /\ meant \in [Sess -> SUBSET Msg]
  /\ msgs \in [Sess -> Seq(Entry)] /\ got \in [Sess -> Seq(Entry)]
  /\ shown \in [Sess -> Seq(Msg)]
  /\ owed \in 0 .. MaxOwed

\* IDLE is within a selection, and so is the goroutine of the last one until it is late.
\* All others are late.
Within(s) ==
  /\ pc[s] = "idle" => sel[s] # None
  /\ \A g \in Gor : gor[s][g].at # "off" /\ ~gor[s][g].late => sel[s] # None
  /\ \A g, h \in Gor :
       gor[s][g].at # "off" /\ gor[s][h].at # "off" /\ g # h => gor[s][g].late \/ gor[s][h].late
  /\ sel[s] = None => msgs[s] = <<>>

\* A list is genuine while it is read, while it is on its way and once it is selected;
\* what a late goroutine holds may be of another mailbox.
GenuineLists(s) ==
  /\ sel[s] # None /\ ~strayed[s] => Genuine(msgs[s], sel[s], life, uses)
  /\ pc[s] \in Label => Genuine(got[s], pc[s], life, uses)
  /\ \A g \in Gor : gor[s][g].at = "view" => \A l \in Label : Genuine(gor[s][g].seen[l], l, life, uses)
  /\ \A g \in Gor : gor[s][g].at = "read" /\ ~gor[s][g].late => Genuine(gor[s][g].ents, sel[s], life, uses)

\* Until a goroutine replaces the list, both sides count the same messages.
Counts(s) ==
  sel[s] # None /\ ~fresh[s] => shown[s] = Ids(msgs[s]) /\ marked[s] \subseteq meant[s]

\* Where the newest list of the mailbox is when no notification is on its way: in the
\* hands of the goroutine, or in the session.
Catches(s) ==
  sel[s] # None /\ ~chan[s] /\ owed = 0 /\ ~strayed[s] /\ ~missed[s] =>
    /\ \A g \in Gor : gor[s][g].at = "view" /\ ~gor[s][g].late => gor[s][g].seen[sel[s]] = Entries(sel[s])
    /\ \A g \in Gor : gor[s][g].at = "read" /\ ~gor[s][g].late => gor[s][g].ents = Entries(sel[s])
    /\ fresh[s] /\ (\A g \in Gor : ~Busy(gor[s][g])) => msgs[s] = Present(Entries(sel[s]))

SessOne(s) == Within(s) /\ GenuineLists(s) /\ Counts(s) /\ Catches(s)

SessInv == SessTypes /\ \A s \in Sess : SessOne(s)

\* What a selection filters out of a mailbox are its entries.
LEMMA EntriesGenuine ==
  ASSUME AcctInv, NEW l \in Label
  PROVE  Genuine(Entries(l), l, life, uses)
<1> DEFINE mb == view[l]
           o == mb.order
<1>1. mb \in Mailboxes /\ life[l] \in 0 .. MaxLife /\ Ascending(mb)
  BY DEF AcctInv, ViewInv
<1>2. \A e \in Slots(mb) : Use(l, life[l], e) \in uses
  BY DEF AcctInv, ViewInv
<1>3. o \in Seq(Entry) /\ \A k \in 1 .. Len(o) : o[k] \in Slots(mb)
  BY <1>1, MailboxShape DEF Entry
<1>4. \A j, k \in 1 .. Len(o) : j < k => o[j].uid < o[k].uid
  BY <1>1 DEF Ascending
<1>5. Entries(l) = o
  BY DEF Entries
<1>6. life[l] \in 0 .. life[l]
  BY <1>1, BoundAssumption
<1> HIDE DEF o, mb
<1> QED
  BY <1>2, <1>3, <1>4, <1>5, <1>6 DEF Genuine

\* Filtering a genuine list, or cutting an entry out of it, leaves a genuine list.
LEMMA PresentGenuine ==
  ASSUME NEW o, NEW l, NEW lf, NEW us, Genuine(o, l, lf, us)
  PROVE  Genuine(Present(o), l, lf, us)
<1> DEFINE t == Present(o)
           S == [uid : Nat, msg : live]
<1>1. o \in Seq(Entry) /\ t = KeepIn(o, S)
  BY DEF Genuine, Present
<1> HIDE DEF t, S
<1>2. t \in Seq(Entry) /\ Filters(o, S, Len(o), t)
  BY <1>1, KeepInKeeps
<1>3. ASSUME NEW j \in 1 .. Len(t), NEW k \in 1 .. Len(t), j < k PROVE t[j].uid < t[k].uid
  <2>1. PICK a \in 1 .. Len(o), b \in 1 .. Len(o) : a < b /\ t[j] = o[a] /\ t[k] = o[b]
    BY <1>2, <1>3, Zenon DEF Filters
  <2> QED
    BY <2>1 DEF Genuine
<1>4. ASSUME NEW k \in 1 .. Len(t) PROVE \E n \in 0 .. lf[l] : Use(l, n, t[k]) \in us
  <2>1. PICK a \in 1 .. Len(o) : t[k] = o[a]
    BY <1>2, Zenon DEF Filters
  <2> QED
    BY <2>1, Zenon DEF Genuine
<1> QED
  BY <1>2, <1>3, <1>4 DEF Genuine, t

\* What is left of a genuine view after an expunge is genuine.
LEMMA CutGenuine ==
  ASSUME NEW o, NEW l, NEW lf, NEW us, Genuine(o, l, lf, us), NEW p \in 1 .. Len(o)
  PROVE  Genuine(CutOut(o, p), l, lf, us)
<1> DEFINE t == CutOut(o, p)
<1>1. o \in Seq(Entry) /\ Len(o) \in Nat
  BY DEF Genuine
<1>2. /\ t \in Seq(Entry) /\ Len(t) = Len(o) - 1
      /\ \A k \in 1 .. Len(o) - 1 : t[k] = o[IF k < p THEN k ELSE k + 1]
      /\ \A k \in 1 .. Len(o) - 1 : \E i \in 1 .. Len(o) : i # p /\ t[k] = o[i]
  BY <1>1, CutOutEntries, ZenonT(30)
<1> HIDE DEF t
<1>3. ASSUME NEW j \in 1 .. Len(t), NEW k \in 1 .. Len(t), j < k PROVE t[j].uid < t[k].uid
  <2> DEFINE a == IF j < p THEN j ELSE j + 1
             b == IF k < p THEN k ELSE k + 1
  <2>1. a \in 1 .. Len(o) /\ b \in 1 .. Len(o) /\ a < b
    BY <1>1, <1>2, <1>3
  <2>2. t[j] = o[a] /\ t[k] = o[b]
    BY <1>2
  <2> HIDE DEF a, b
  <2> QED
    BY <2>1, <2>2 DEF Genuine
<1>4. ASSUME NEW k \in 1 .. Len(t) PROVE \E n \in 0 .. lf[l] : Use(l, n, t[k]) \in us
  <2>1. PICK a \in 1 .. Len(o) : t[k] = o[a]
    BY <1>2
  <2> QED
    BY <2>1, Zenon DEF Genuine
<1> QED
  BY <1>2, <1>3, <1>4 DEF Genuine, t

\* A list stays genuine while the history grows.
LEMMA GenuineGrows ==
  ASSUME NEW o, NEW l, NEW lf, NEW us, NEW lf2, NEW us2, Genuine(o, l, lf, us),
         us \subseteq us2, lf[l] \in Nat, lf2[l] \in Nat, lf[l] <= lf2[l]
  PROVE  Genuine(o, l, lf2, us2)
<1>1. 0 .. lf[l] \subseteq 0 .. lf2[l]
  OBVIOUS
<1> QED
  BY <1>1 DEF Genuine

\* What the client is told of a list.
LEMMA IdsType ==
  ASSUME NEW o \in Seq(Entry)
  PROVE  Ids(o) \in Seq(Msg) /\ Len(Ids(o)) = Len(o) /\ \A k \in 1 .. Len(o) : Ids(o)[k] = o[k].msg
<1> DEFINE i == Ids(o)
<1>1. i = [k \in 1 .. Len(o) |-> o[k].msg] /\ Len(o) \in Nat
  BY DEF Ids
<1>2. \A k \in 1 .. Len(o) : o[k].msg \in Msg
  <2>1. \A k \in 1 .. Len(o) : o[k] \in Entry
    BY SeqEntry
  <2> QED
    BY <2>1 DEF Entry
<1> HIDE DEF i
<1>3. i \in [1 .. Len(o) -> Msg]
  BY <1>1, <1>2
<1>4. i \in Seq(Msg) /\ Len(i) = Len(o)
  BY <1>1, <1>3
<1> QED
  BY <1>1, <1>4 DEF i

\* Cutting an entry out of the list and its number out of what the client sees.
LEMMA CutIds ==
  ASSUME NEW o \in Seq(Entry), NEW p \in 1 .. Len(o)
  PROVE  CutOut(Ids(o), p) = Ids(CutOut(o, p))
<1> DEFINE i == Ids(o)
           t == CutOut(o, p)
<1>1. i = [k \in 1 .. Len(o) |-> o[k].msg] /\ Len(o) \in Nat
  BY DEF Ids
<1>3. i \in Seq(Msg) /\ Len(i) = Len(o)
  BY IdsType
<1>4. Len(t) = Len(o) - 1 /\ \A k \in 1 .. Len(o) - 1 : t[k] = o[IF k < p THEN k ELSE k + 1]
  BY CutOutEntries, SMTT(30)
<1>5. Ids(t) = [k \in 1 .. Len(o) - 1 |-> t[k].msg]
  BY <1>4 DEF Ids
<1>6. CutOut(i, p) = [k \in 1 .. Len(o) - 1 |-> IF k < p THEN i[k] ELSE i[k + 1]]
  BY <1>3 DEF CutOut
<1> HIDE DEF i, t
<1>7. \A k \in 1 .. Len(o) - 1 : t[k].msg = IF k < p THEN i[k] ELSE i[k + 1]
  BY <1>1, <1>4, SMTT(30)
<1> QED
  BY <1>5, <1>6, <1>7 DEF i, t

\* A step leaves the session r alone.
Same(r) ==
  /\ pc'[r] = pc[r] /\ sel'[r] = sel[r] /\ got'[r] = got[r] /\ msgs'[r] = msgs[r]
  /\ marked'[r] = marked[r] /\ chan'[r] = chan[r] /\ gor'[r] = gor[r]
  /\ shown'[r] = shown[r] /\ meant'[r] = meant[r] /\ fresh'[r] = fresh[r]
  /\ strayed'[r] = strayed[r] /\ missed'[r] = missed[r]

\* Lists that a session holds stay genuine whatever is written.
LEMMA GenuineStays ==
  ASSUME AcctInv, [ClientWrite \/ Compact]_acct, NEW o, NEW l \in Label, Genuine(o, l, life, uses)
  PROVE  Genuine(o, l, life', uses')
BY HistoryGrows, GenuineGrows

\* So do all the lists of a session whose lists a step leaves alone.
LEMMA ListsStay ==
  ASSUME AcctInv, SessInv, [ClientWrite \/ Compact]_acct, NEW r \in Sess,
         pc'[r] = pc[r], sel'[r] = sel[r], got'[r] = got[r], msgs'[r] = msgs[r], gor'[r] = gor[r],
         strayed'[r] = strayed[r]
  PROVE  GenuineLists(r)'
<1>1. sel[r] \in Label \cup {None} /\ Within(r) /\ GenuineLists(r)
  BY DEF SessInv, SessTypes, SessOne
<1>2. sel[r] # None /\ ~strayed[r] => Genuine(msgs[r], sel[r], life', uses')
  BY <1>1, GenuineStays DEF GenuineLists
<1>3. pc[r] \in Label => Genuine(got[r], pc[r], life', uses')
  BY <1>1, GenuineStays DEF GenuineLists
<1>4. ASSUME NEW g \in Gor, gor[r][g].at = "view", NEW l \in Label
      PROVE  Genuine(gor[r][g].seen[l], l, life', uses')
  BY <1>1, <1>4, GenuineStays DEF GenuineLists
<1>5. ASSUME NEW g \in Gor, gor[r][g].at = "read", ~gor[r][g].late
      PROVE  Genuine(gor[r][g].ents, sel[r], life', uses')
  <2>1. sel[r] \in Label /\ Genuine(gor[r][g].ents, sel[r], life, uses)
    BY <1>1, <1>5 DEF Within, GenuineLists
  <2> QED
    BY <2>1, GenuineStays
<1> QED
  BY <1>2, <1>3, <1>4, <1>5 DEF GenuineLists

\* What others do: a session that a step leaves alone keeps its invariant, because a
\* writer owes a notification before anyone can see what it wrote.
LEMMA Bystander ==
  ASSUME AcctInv, SessInv, [ClientWrite \/ Compact]_acct, NEW r \in Sess, Same(r),
         UNCHANGED <<acct, owed>> \/ owed' # 0
  PROVE  SessOne(r)'
<1>1. SessOne(r)
  BY DEF SessInv
<1>2. Within(r)'
  BY <1>1 DEF SessOne, Within, Same
<1>3. GenuineLists(r)'
  BY ListsStay DEF Same
<1>4. Counts(r)'
  BY <1>1 DEF SessOne, Counts, Same
<1>5. Catches(r)'
  <2>1. CASE owed' # 0
    BY <2>1 DEF Catches
  <2>2. CASE UNCHANGED <<acct, owed>>
    BY <1>1, <2>2 DEF SessOne, Catches, Same, Entries, Present, acct
  <2> QED
    BY <2>1, <2>2
<1> QED
  BY <1>2, <1>3, <1>4, <1>5 DEF SessOne

\* A step of one session that writes nothing.
LEMMA OwnStep ==
  ASSUME AcctInv, SessInv, NEW s \in Sess, UNCHANGED <<acct, owed>>,
         SessTypes', SessOne(s)', \A r \in Sess \ {s} : Same(r)
  PROVE  SessInv'
<1>1. ASSUME NEW r \in Sess, r # s PROVE SessOne(r)'
  BY <1>1, Bystander
<1> QED
  BY <1>1 DEF SessInv

\* A step of one goroutine.
LEMMA GorPut ==
  ASSUME SessTypes, NEW s \in Sess, NEW g \in Gor, NEW R \in GorRec, gor' = [gor EXCEPT ![s][g] = R]
  PROVE  /\ gor' \in [Sess -> [Gor -> GorRec]] /\ gor'[s][g] = R
         /\ \A h \in Gor \ {g} : gor'[s][h] = gor[s][h]
         /\ \A r \in Sess \ {s} : gor'[r] = gor[r]
BY DEF SessTypes

\* Those that are left over.
LEMMA LateGors ==
  ASSUME NEW gs \in [Gor -> GorRec]
  PROVE  /\ Late(gs) \in [Gor -> GorRec]
         /\ \A g \in Gor : /\ Late(gs)[g].at = gs[g].at /\ Late(gs)[g].seen = gs[g].seen
                           /\ Late(gs)[g].ents = gs[g].ents /\ (Late(gs)[g].late <=> gs[g].at # "off")
<1>1. \A g \in Gor : gs[g] \in GorRec
  OBVIOUS
<1>2. \A g \in Gor : Late(gs)[g] = [gs[g] EXCEPT !.late = (gs[g].at # "off")]
  BY DEF Late
<1>3. ASSUME NEW R \in GorRec, NEW b \in BOOLEAN
      PROVE  LET Q == [R EXCEPT !.late = b] IN
             Q \in GorRec /\ Q.at = R.at /\ Q.seen = R.seen /\ Q.ents = R.ents /\ Q.late = b
  BY DEF GorRec
<1>4. \A g \in Gor : (gs[g].at # "off") \in BOOLEAN
  OBVIOUS
<1>5. ASSUME NEW g \in Gor
      PROVE  /\ Late(gs)[g] \in GorRec
             /\ Late(gs)[g].at = gs[g].at /\ Late(gs)[g].seen = gs[g].seen
             /\ Late(gs)[g].ents = gs[g].ents /\ Late(gs)[g].late = (gs[g].at # "off")
  <2> DEFINE R == gs[g]
             b == (gs[g].at # "off")
  <2>1. R \in GorRec /\ b \in BOOLEAN /\ Late(gs)[g] = [R EXCEPT !.late = b]
    BY <1>1, <1>2, <1>4
  <2> HIDE DEF R, b
  <2>2. LET Q == [R EXCEPT !.late = b] IN
        Q \in GorRec /\ Q.at = R.at /\ Q.seen = R.seen /\ Q.ents = R.ents /\ Q.late = b
    BY <1>3, <2>1
  <2> QED
    BY <2>1, <2>2 DEF R, b
<1>6. Late(gs) = [g \in Gor |-> Late(gs)[g]]
  BY DEF Late
<1> QED
  BY <1>5, <1>6

\* A goroutine that is not there, and one that waits.
LEMMA RestingGors ==
  /\ Off \in GorRec /\ Off.at = "off" /\ ~Off.late
  /\ Waiting \in GorRec /\ Waiting.at = "wait" /\ ~Waiting.late
<1>1. <<>> \in Seq(Entry) /\ NoView \in [Label -> Seq(Entry)]
  BY DEF NoView
<1> QED
  BY <1>1 DEF Off, Waiting, GorRec

\* No session has a mailbox selected and no goroutine is there: at the start and after
\* the process has died.
Clear ==
  /\ pc = [r \in Sess |-> "ready"] /\ sel = [r \in Sess |-> None]
  /\ got = [r \in Sess |-> <<>>] /\ msgs = [r \in Sess |-> <<>>]
  /\ marked = [r \in Sess |-> {}]
  /\ chan = [r \in Sess |-> FALSE] /\ gor = [r \in Sess |-> [h \in Gor |-> Off]]
  /\ owed = 0
  /\ shown = [r \in Sess |-> <<>>] /\ meant = [r \in Sess |-> {}]
  /\ fresh = [r \in Sess |-> FALSE]
  /\ strayed = [r \in Sess |-> FALSE] /\ missed = [r \in Sess |-> FALSE]

LEMMA ClearInv ==
  Clear => SessInv
<1> SUFFICES ASSUME Clear PROVE SessInv
  OBVIOUS
<1>1. SessTypes
  <2>1. gor \in [Sess -> [Gor -> GorRec]]
    BY RestingGors DEF Clear
  <2>2. /\ chan \in [Sess -> BOOLEAN] /\ fresh \in [Sess -> BOOLEAN]
        /\ strayed \in [Sess -> BOOLEAN] /\ missed \in [Sess -> BOOLEAN]
    BY Zenon DEF Clear
  <2> QED
    BY <2>1, <2>2, MaxOwedAssumption DEF Clear, SessTypes
<1>2. ASSUME NEW s \in Sess PROVE SessOne(s)
  <2>1. /\ pc[s] = "ready" /\ sel[s] = None /\ msgs[s] = <<>> /\ pc[s] \notin Label
        /\ \A g \in Gor : gor[s][g].at = "off"
    BY RestingGors, NoneAssumption DEF Clear
  <2> QED
    BY <2>1 DEF SessOne, Within, GenuineLists, Counts, Catches
<1> QED
  BY <1>1, <1>2 DEF SessInv

\* No connection has a mailbox selected.
LEMMA SessInit ==
  SInit => AcctInv /\ SessInv
<1> SUFFICES ASSUME SInit PROVE AcctInv /\ SessInv
  OBVIOUS
<1>1. AcctInv
  BY AcctInit DEF SInit
<1>2. Clear
  BY DEF SInit, Clear
<1> QED
  BY <1>1, <1>2, ClearInv

\* The account tells the sessions that it changed.
LEMMA NotifyInv ==
  ASSUME AcctInv, SessInv, Notify
  PROVE  SessInv'
<1>1. /\ owed > 0 /\ owed' = owed - 1 /\ chan' = [s \in Sess |-> chan[s] \/ sel[s] # None]
      /\ UNCHANGED <<acct, pc, sel, got, msgs, marked, gor, shown, meant, fresh, strayed, missed>>
  BY DEF Notify, hist
<1>2. SessTypes'
  <2>1. owed' \in 0 .. MaxOwed
    BY <1>1, MaxOwedAssumption DEF SessInv, SessTypes
  <2>2. chan' \in [Sess -> BOOLEAN]
    BY <1>1
  <2> QED
    BY <1>1, <2>1, <2>2 DEF SessInv, SessTypes
<1>3. ASSUME NEW s \in Sess PROVE SessOne(s)'
  <2>1. SessOne(s)
    BY DEF SessInv
  <2>2. sel'[s] # None => chan'[s]
    BY <1>1
  <2>3. Catches(s)'
    BY <2>2 DEF Catches
  <2>4. Within(s)' /\ GenuineLists(s)' /\ Counts(s)'
    BY <1>1, <2>1 DEF SessOne, Within, GenuineLists, Counts, acct
  <2> QED
    BY <2>3, <2>4 DEF SessOne
<1> QED
  BY <1>2, <1>3 DEF SessInv

\* The account is compacted, and no session knows.
LEMMA CompactedInv ==
  ASSUME AcctInv, SessInv, Compacted
  PROVE  SessInv' /\ Compact
<1>1. /\ Compact /\ missed' = [s \in Sess |-> TRUE]
      /\ UNCHANGED <<pc, sel, got, msgs, marked, chan, gor, shown, meant, fresh, strayed, owed>>
  BY DEF Compacted
<1>2. SessTypes'
  <2>1. missed' \in [Sess -> BOOLEAN]
    BY <1>1
  <2> QED
    BY <1>1, <2>1 DEF SessInv, SessTypes
<1>3. ASSUME NEW s \in Sess PROVE SessOne(s)'
  <2>1. SessOne(s)
    BY DEF SessInv
  <2>2. missed'[s]
    BY <1>1
  <2>3. Catches(s)'
    BY <2>2 DEF Catches
  <2>4. Within(s)' /\ Counts(s)'
    BY <1>1, <2>1 DEF SessOne, Within, Counts
  <2>5. GenuineLists(s)'
    BY <1>1, ListsStay
  <2> QED
    BY <2>3, <2>4, <2>5 DEF SessOne
<1> QED
  BY <1>1, <1>2, <1>3 DEF SessInv

\* Another client writes, and the sessions are owed a notification.
LEMMA WriteInv ==
  ASSUME AcctInv, SessInv, [ClientWrite]_acct, Owe, UNCHANGED sess
  PROVE  SessInv'
<1>1. owed' \in 0 .. MaxOwed /\ owed' # 0
  BY MaxOwedAssumption DEF Owe, SessInv, SessTypes
<1>2. SessTypes'
  BY <1>1 DEF SessInv, SessTypes, sess, hist
<1>3. ASSUME NEW r \in Sess PROVE SessOne(r)'
  <2>1. Same(r)
    BY DEF sess, hist, Same
  <2> QED
    BY <1>1, <2>1, Bystander
<1> QED
  BY <1>2, <1>3 DEF SessInv

\* SELECT, first half: the mailbox is looked at.
LEMMA SelectViewInv ==
  ASSUME AcctInv, SessInv, NEW s \in Sess, NEW l \in Label, SelectView(s, l)
  PROVE  SessInv'
<1>1. /\ pc[s] = "ready"
      /\ got' = [got EXCEPT ![s] = Entries(l)] /\ pc' = [pc EXCEPT ![s] = l]
      /\ UNCHANGED <<acct, sel, msgs, marked, chan, gor, shown, meant, fresh, strayed, missed, owed>>
  BY DEF SelectView, hist
<1>2. SessTypes /\ SessOne(s)
  BY DEF SessInv
<1>3. Genuine(Entries(l), l, life, uses) /\ Entries(l) \in Seq(Entry)
  BY EntriesGenuine DEF Genuine
<1>4. SessTypes'
  BY <1>1, <1>2, <1>3 DEF SessTypes
<1>5. \A r \in Sess \ {s} : Same(r)
  BY <1>1, <1>2 DEF Same, SessTypes
<1>6. SessOne(s)'
  <2>1. /\ got'[s] = Entries(l) /\ pc'[s] = l /\ l # "idle" /\ l \notin {"idle"}
        /\ life' = life /\ uses' = uses /\ view' = view /\ live' = live
    BY <1>1, <1>2, NoneAssumption DEF SessTypes, acct
  <2>2. Within(s)' /\ Counts(s)'
    BY <1>1, <1>2, <2>1 DEF SessOne, Within, Counts
  <2>3. GenuineLists(s)'
    BY <1>1, <1>2, <1>3, <2>1 DEF SessOne, GenuineLists
  <2>4. Catches(s)'
    BY <1>1, <1>2, <2>1 DEF SessOne, Catches, Entries, Present
  <2> QED
    BY <2>2, <2>3, <2>4 DEF SessOne
<1> QED
  BY <1>1, <1>4, <1>5, <1>6, OwnStep

\* What loadSelection sets up, whatever list it ends with: m is that list.
LEMMA ReselectInv ==
  ASSUME AcctInv, SessInv, NEW s \in Sess, NEW gs \in [Gor -> GorRec], NEW m \in Seq(Entry), NEW b \in BOOLEAN,
         Reselect(s, gs), msgs' = [msgs EXCEPT ![s] = m], marked' = [marked EXCEPT ![s] = {}],
         strayed' = [strayed EXCEPT ![s] = b],
         b \/ Genuine(m, pc[s], life, uses),
         \A g \in Gor : gs[g].at = "view" => \A l \in Label : Genuine(gs[g].seen[l], l, life, uses)
  PROVE  SessInv'
<1>1. /\ pc[s] \in Label
      /\ sel' = [sel EXCEPT ![s] = pc[s]]
      /\ shown' = [shown EXCEPT ![s] = Ids(msgs'[s])] /\ meant' = [meant EXCEPT ![s] = {}]
      /\ chan' = [chan EXCEPT ![s] = FALSE] /\ fresh' = [fresh EXCEPT ![s] = FALSE]
      /\ missed' = [missed EXCEPT ![s] = FALSE]
      /\ got' = [got EXCEPT ![s] = <<>>] /\ pc' = [pc EXCEPT ![s] = "ready"]
      /\ gor' = [gor EXCEPT ![s] = Late(gs)]
      /\ UNCHANGED <<acct, owed>>
  BY DEF Reselect
<1>2. SessTypes
  BY DEF SessInv
<1>3. Ids(m) \in Seq(Msg) /\ msgs'[s] = m
  BY <1>2, IdsType DEF SessTypes
<1>4. Late(gs) \in [Gor -> GorRec]
  BY LateGors
<1>5. SessTypes'
  <2>1. pc' \in [Sess -> {"ready", "idle"} \cup Label] /\ sel' \in [Sess -> Label \cup {None}]
    BY <1>1, <1>2 DEF SessTypes
  <2>2. msgs' \in [Sess -> Seq(Entry)] /\ got' \in [Sess -> Seq(Entry)] /\ shown' \in [Sess -> Seq(Msg)]
    BY <1>1, <1>2, <1>3 DEF SessTypes
  <2>3. marked' \in [Sess -> SUBSET Msg] /\ meant' \in [Sess -> SUBSET Msg]
    BY <1>1, <1>2 DEF SessTypes
  <2>4. chan' \in [Sess -> BOOLEAN] /\ fresh' \in [Sess -> BOOLEAN]
    BY <1>1, <1>2, Zenon DEF SessTypes
  <2>5. strayed' \in [Sess -> BOOLEAN] /\ missed' \in [Sess -> BOOLEAN]
    BY <1>1, <1>2, Zenon DEF SessTypes
  <2>6. gor' \in [Sess -> [Gor -> GorRec]]
    BY <1>1, <1>2, <1>4 DEF SessTypes
  <2> QED
    BY <1>1, <1>2, <2>1, <2>2, <2>3, <2>4, <2>5, <2>6 DEF SessTypes
<1>6. \A r \in Sess \ {s} : Same(r)
  BY <1>1, <1>2 DEF Same, SessTypes
<1>7. SessOne(s)'
  <2>1. /\ sel'[s] = pc[s] /\ shown'[s] = Ids(m) /\ marked'[s] = {} /\ pc'[s] = "ready"
        /\ sel'[s] # None /\ pc'[s] \notin Label /\ pc'[s] # "idle"
    BY <1>1, <1>2, <1>3, NoneAssumption DEF SessTypes
  <2>2. fresh'[s] = FALSE /\ strayed'[s] = b
    BY <1>1, <1>2 DEF SessTypes
  <2>3. \A g \in Gor : /\ gor'[s][g].at = gs[g].at /\ gor'[s][g].seen = gs[g].seen
                       /\ gor'[s][g].late <=> gs[g].at # "off"
    <3>1. gor'[s] = Late(gs)
      BY <1>1, <1>2 DEF SessTypes
    <3> QED
      BY <3>1, LateGors
  <2>4. Within(s)' /\ Counts(s)'
    BY <1>3, <2>1, <2>2, <2>3 DEF Within, Counts
  <2>5. Catches(s)'
    BY <2>2, <2>3 DEF Catches
  <2>6. GenuineLists(s)'
    BY <1>1, <1>3, <2>1, <2>2, <2>3 DEF GenuineLists, acct
  <2> QED
    BY <2>4, <2>5, <2>6 DEF SessOne
<1> QED
  BY <1>1, <1>5, <1>6, <1>7, OwnStep

\* SELECT, second half: the selection is filled.
LEMMA SelectLoadInv ==
  ASSUME AcctInv, SessInv, NEW s \in Sess, SelectLoad(s)
  PROVE  SessInv'
<1> DEFINE now == Present(got[s])
<1>1. /\ pc[s] \in Label /\ Reselect(s, gor[s]) /\ msgs' = [msgs EXCEPT ![s] = now]
      /\ marked' = [marked EXCEPT ![s] = {}] /\ strayed' = [strayed EXCEPT ![s] = FALSE]
  BY DEF SelectLoad, Reselect
<1>2. gor[s] \in [Gor -> GorRec] /\ GenuineLists(s)
  BY DEF SessInv, SessTypes, SessOne
<1>3. Genuine(now, pc[s], life, uses) /\ now \in Seq(Entry)
  BY <1>1, <1>2, PresentGenuine DEF GenuineLists, Genuine
<1>4. \A g \in Gor : gor[s][g].at = "view" => \A l \in Label : Genuine(gor[s][g].seen[l], l, life, uses)
  BY <1>2 DEF GenuineLists
<1> HIDE DEF now
<1> QED
  BY <1>1, <1>2, <1>3, <1>4, ReselectInv

\* The same with a goroutine in between: what is selected is a list, and no more is
\* claimed of it.
LEMMA SelectRacedInv ==
  ASSUME AcctInv, SessInv, NEW s \in Sess, NEW g \in Gor, NEW k \in Nat, SelectRaced(s, g, k)
  PROVE  SessInv'
<1> DEFINE now == Present(got[s])
           old == Present(gor[s][g].ents)
           rest == SubSeq(now, k + 1, Len(now))
           gs == [gor[s] EXCEPT ![g] = Waiting]
<1>1. /\ Reselect(s, gs) /\ msgs' = [msgs EXCEPT ![s] = old \o rest]
      /\ marked' = [marked EXCEPT ![s] = {}] /\ strayed' = [strayed EXCEPT ![s] = TRUE]
  BY DEF SelectRaced
<1>2. gor[s] \in [Gor -> GorRec] /\ got[s] \in Seq(Entry) /\ GenuineLists(s)
  BY DEF SessInv, SessTypes, SessOne
<1>3. gor[s][g].ents \in Seq(Entry)
  BY <1>2 DEF GorRec
<1>4. now \in Seq(Entry) /\ old \in Seq(Entry)
  BY <1>2, <1>3, KeepInKeeps DEF Present
<1> HIDE DEF now, old
<1>5. rest \in Seq(Entry)
  <2>1. Len(now) \in Nat /\ \A i \in k + 1 .. Len(now) : i \in 1 .. Len(now)
    BY <1>4
  <2> QED
    BY <1>4, <2>1
<1>6. old \o rest \in Seq(Entry)
  <2> HIDE DEF rest
  <2> QED
    BY <1>4, <1>5
<1>7. /\ gs \in [Gor -> GorRec]
      /\ \A h \in Gor : gs[h].at = "view" => \A l \in Label : Genuine(gs[h].seen[l], l, life, uses)
  <2>1. \A h \in Gor : gs[h] = IF h = g THEN Waiting ELSE gor[s][h]
    BY <1>2
  <2> QED
    BY <1>2, <2>1, RestingGors DEF GenuineLists
<1> HIDE DEF rest, gs
<1> QED
  BY <1>1, <1>6, <1>7, ReselectInv

\* UNSELECT and CLOSE.
LEMMA UnselectInv ==
  ASSUME AcctInv, SessInv, NEW s \in Sess, Unselect(s)
  PROVE  SessInv'
<1>1. /\ pc[s] = "ready"
      /\ sel' = [sel EXCEPT ![s] = None]
      /\ msgs' = [msgs EXCEPT ![s] = <<>>] /\ shown' = [shown EXCEPT ![s] = <<>>]
      /\ chan' = [chan EXCEPT ![s] = FALSE] /\ gor' = [gor EXCEPT ![s] = Late(gor[s])]
      /\ meant' = [meant EXCEPT ![s] = {}] /\ fresh' = [fresh EXCEPT ![s] = FALSE]
      /\ UNCHANGED <<acct, pc, got, marked, strayed, missed, owed>>
  BY DEF Unselect
<1>2. SessTypes /\ SessOne(s)
  BY DEF SessInv
<1>3. /\ gor[s] \in [Gor -> GorRec] /\ Late(gor[s]) \in [Gor -> GorRec]
  BY <1>2, LateGors DEF SessTypes
<1>4. SessTypes'
  <2>1. msgs' \in [Sess -> Seq(Entry)] /\ shown' \in [Sess -> Seq(Msg)]
    BY <1>1, <1>2 DEF SessTypes
  <2>2. sel' \in [Sess -> Label \cup {None}] /\ meant' \in [Sess -> SUBSET Msg]
    BY <1>1, <1>2 DEF SessTypes
  <2>3. chan' \in [Sess -> BOOLEAN] /\ fresh' \in [Sess -> BOOLEAN]
    BY <1>1, <1>2, Zenon DEF SessTypes
  <2>4. gor' \in [Sess -> [Gor -> GorRec]]
    BY <1>1, <1>2, <1>3 DEF SessTypes
  <2> QED
    BY <1>1, <1>2, <2>1, <2>2, <2>3, <2>4 DEF SessTypes
<1>5. \A r \in Sess \ {s} : Same(r)
  BY <1>1, <1>2 DEF Same, SessTypes
<1>6. SessOne(s)'
  <2>1. sel'[s] = None /\ msgs'[s] = <<>> /\ pc'[s] = "ready" /\ pc'[s] \notin Label
    BY <1>1, <1>2, NoneAssumption DEF SessTypes
  <2>2. \A g \in Gor : /\ gor'[s][g].at = gor[s][g].at /\ gor'[s][g].seen = gor[s][g].seen
                       /\ gor'[s][g].late <=> gor[s][g].at # "off"
    BY <1>1, <1>2, <1>3, LateGors DEF SessTypes
  <2>3. Within(s)' /\ Counts(s)' /\ Catches(s)'
    BY <2>1, <2>2 DEF Within, Counts, Catches
  <2>4. GenuineLists(s)'
    BY <1>1, <1>2, <2>1, <2>2 DEF SessOne, GenuineLists, acct
  <2> QED
    BY <2>3, <2>4 DEF SessOne
<1> QED
  BY <1>1, <1>4, <1>5, <1>6, OwnStep

\* Both sides put the same message into their sets, as long as they count alike.
LEMMA StoreInv ==
  ASSUME AcctInv, SessInv, NEW s \in Sess, NEW n \in Nat, NEW on \in BOOLEAN, StoreDeleted(s, n, on)
  PROVE  SessInv'
<1> DEFINE Put(S, m) == IF on THEN S \cup {m} ELSE S \ {m}
<1>1. /\ n \in 1 .. Len(shown[s])
      /\ meant' = [meant EXCEPT ![s] = Put(@, shown[s][n])]
      /\ marked' = IF n <= Len(msgs[s])
                   THEN [marked EXCEPT ![s] = Put(@, msgs[s][n].msg)] ELSE marked
      /\ UNCHANGED <<acct, pc, sel, got, msgs, chan, gor, shown, fresh, strayed, missed, owed>>
  BY DEF StoreDeleted
<1>2. SessTypes /\ SessOne(s)
  BY DEF SessInv
<1>3. /\ msgs[s] \in Seq(Entry) /\ shown[s] \in Seq(Msg) /\ Len(msgs[s]) \in Nat
      /\ marked[s] \in SUBSET Msg /\ meant[s] \in SUBSET Msg
  BY <1>2 DEF SessTypes
<1>4. shown[s][n] \in Msg
  BY <1>1, <1>3, SeqEntry
<1>5. n <= Len(msgs[s]) => msgs[s][n].msg \in Msg
  <2>1. n <= Len(msgs[s]) => msgs[s][n] \in Entry
    BY <1>1, <1>3, SeqEntry
  <2> QED
    BY <2>1 DEF Entry
<1>6. meant' \in [Sess -> SUBSET Msg] /\ meant'[s] = Put(meant[s], shown[s][n])
  BY <1>1, <1>2, <1>3, <1>4 DEF SessTypes
<1>7. marked' \in [Sess -> SUBSET Msg]
  BY <1>1, <1>2, <1>3, <1>5 DEF SessTypes
<1>8. SessTypes'
  BY <1>1, <1>2, <1>6, <1>7 DEF SessTypes
<1>9. \A r \in Sess \ {s} : Same(r)
  BY <1>1, <1>2 DEF Same, SessTypes
<1>10. Counts(s)'
  <2> SUFFICES ASSUME sel[s] # None, ~fresh[s]
               PROVE  shown[s] = Ids(msgs[s]) /\ marked'[s] \subseteq meant'[s]
    BY <1>1 DEF Counts
  <2>1. shown[s] = Ids(msgs[s]) /\ marked[s] \subseteq meant[s]
    BY <1>2 DEF SessOne, Counts
  <2>2. n \in 1 .. Len(msgs[s]) /\ n <= Len(msgs[s]) /\ shown[s][n] = msgs[s][n].msg
    BY <1>1, <1>3, <2>1, IdsType
  <2>3. marked'[s] = Put(marked[s], shown[s][n])
    BY <1>1, <1>2, <2>2 DEF SessTypes
  <2> QED
    BY <1>6, <2>1, <2>3
<1>11. SessOne(s)'
  BY <1>1, <1>2, <1>10 DEF SessOne, Within, GenuineLists, Catches, Entries, Present, acct
<1> QED
  BY <1>1, <1>8, <1>9, <1>11, OwnStep

\* The message an EXPUNGE takes out of the list, and the mailbox it belongs to.
LEMMA ExpungeTarget ==
  ASSUME SessInv, NEW s \in Sess, NEW k \in 1 .. Len(msgs[s])
  PROVE  sel[s] \in Label /\ msgs[s][k].msg \in Msg /\ msgs[s] \in Seq(Entry)
<1>1. SessTypes /\ SessOne(s)
  BY DEF SessInv
<1>2. msgs[s] \in Seq(Entry) /\ sel[s] \in Label \cup {None}
  BY <1>1 DEF SessTypes
<1>3. msgs[s][k] \in Entry
  BY <1>2, SeqEntry
<1>4. msgs[s] # <<>>
  BY <1>2
<1>5. sel[s] # None
  BY <1>1, <1>4 DEF SessOne, Within
<1> QED
  BY <1>2, <1>3, <1>5 DEF Entry

\* EXPUNGE appends for what the session sees.
LEMMA ExpungeInv ==
  ASSUME AcctInv, SessInv, NEW s \in Sess, Expunge(s)
  PROVE  SessInv' /\ [ClientWrite]_acct
<1>1. PICK k \in Doomed(s) :
        /\ Unlabeled(msgs[s][k].msg, sel[s])
        /\ msgs' = [msgs EXCEPT ![s] = CutOut(@, k)]
        /\ shown' = [shown EXCEPT ![s] = IF k <= Len(@) THEN CutOut(@, k) ELSE @]
  BY DEF Expunge
<1>2. Owe /\ UNCHANGED <<pc, sel, got, marked, chan, gor, meant, fresh, strayed, missed>>
  BY DEF Expunge, hist
<1>3. k \in 1 .. Len(msgs[s])
  BY DEF Doomed
<1>4. sel[s] \in Label /\ msgs[s][k].msg \in Msg /\ msgs[s] \in Seq(Entry)
  BY <1>3, ExpungeTarget
<1>5. ClientWrite
  BY <1>1, <1>4 DEF ClientWrite
<1>6. SessTypes /\ SessOne(s)
  BY DEF SessInv
<1> DEFINE t == CutOut(msgs[s], k)
<1>7. t \in Seq(Entry)
  BY <1>3, <1>4, CutOutEntries
<1>8. k <= Len(shown[s]) => CutOut(shown[s], k) \in Seq(Msg)
  <2>1. shown[s] \in Seq(Msg) /\ k \in Nat /\ 1 <= k /\ Len(shown[s]) \in Nat
    BY <1>3, <1>4, <1>6 DEF SessTypes
  <2>2. k <= Len(shown[s]) => k \in 1 .. Len(shown[s])
    BY <2>1
  <2> QED
    BY <2>1, <2>2, CutOutEntries
<1>9. owed' \in 0 .. MaxOwed /\ owed' # 0
  BY <1>2, <1>6, MaxOwedAssumption DEF Owe, SessTypes
<1> HIDE DEF t
<1>10. msgs' = [msgs EXCEPT ![s] = t] /\ msgs'[s] = t
  BY <1>1, <1>6 DEF SessTypes, t
<1>11. SessTypes'
  <2>1. msgs' \in [Sess -> Seq(Entry)]
    BY <1>6, <1>7, <1>10 DEF SessTypes
  <2>2. shown' \in [Sess -> Seq(Msg)]
    BY <1>1, <1>6, <1>8 DEF SessTypes
  <2> QED
    BY <1>2, <1>6, <1>9, <2>1, <2>2 DEF SessTypes
<1>12. ASSUME NEW r \in Sess, r # s PROVE SessOne(r)'
  <2>1. Same(r)
    BY <1>1, <1>2, <1>6, <1>12 DEF Same, SessTypes
  <2> QED
    BY <1>5, <1>9, <2>1, Bystander
<1>13. SessOne(s)'
  <2>1. sel[s] # None
    BY <1>4, NoneAssumption
  <2>2. Within(s)' /\ Catches(s)'
    BY <1>2, <1>6, <1>9, <2>1 DEF SessOne, Within, Catches
  <2>3. GenuineLists(s)'
    <3>1. ~strayed[s] => Genuine(t, sel[s], life, uses)
      BY <1>3, <1>6, <2>1, CutGenuine DEF SessOne, GenuineLists, t
    <3>2. ~strayed[s] => Genuine(t, sel[s], life', uses')
      BY <1>4, <1>5, <3>1, GenuineStays
    <3>3. pc[s] \in Label => Genuine(got[s], pc[s], life', uses')
      BY <1>5, <1>6, GenuineStays DEF SessOne, GenuineLists
    <3>4. ASSUME NEW g \in Gor, gor[s][g].at = "view", NEW l \in Label
          PROVE  Genuine(gor[s][g].seen[l], l, life', uses')
      BY <1>5, <1>6, <3>4, GenuineStays DEF SessOne, GenuineLists
    <3>5. ASSUME NEW g \in Gor, gor[s][g].at = "read", ~gor[s][g].late
          PROVE  Genuine(gor[s][g].ents, sel[s], life', uses')
      BY <1>4, <1>5, <1>6, <3>5, GenuineStays DEF SessOne, GenuineLists
    <3> QED
      BY <1>2, <1>10, <3>2, <3>3, <3>4, <3>5 DEF GenuineLists
  <2>4. Counts(s)'
    <3> SUFFICES ASSUME ~fresh[s] PROVE shown'[s] = Ids(t) /\ marked[s] \subseteq meant[s]
      BY <1>2, <1>10 DEF Counts
    <3>1. shown[s] = Ids(msgs[s]) /\ marked[s] \subseteq meant[s]
      BY <1>6, <2>1 DEF SessOne, Counts
    <3>2. Len(shown[s]) = Len(msgs[s]) /\ k <= Len(shown[s])
      BY <1>3, <1>4, <3>1, IdsType
    <3>3. shown'[s] = CutOut(shown[s], k)
      BY <1>1, <1>6, <3>2 DEF SessTypes
    <3> QED
      BY <1>3, <1>4, <3>1, <3>3, CutIds DEF t
  <2> QED
    BY <2>2, <2>3, <2>4 DEF SessOne
<1> QED
  BY <1>5, <1>11, <1>12, <1>13 DEF SessInv

\* COPY labels what the session sees.
LEMMA CopyInv ==
  ASSUME AcctInv, SessInv, NEW s \in Sess, NEW n \in Nat, NEW l \in Label, Copy(s, n, l)
  PROVE  SessInv' /\ [ClientWrite]_acct
<1>1. n \in 1 .. Len(msgs[s]) /\ Labeled(msgs[s][n].msg, l) /\ Owe /\ UNCHANGED sess
  BY DEF Copy
<1>2. msgs[s][n].msg \in Msg
  BY <1>1, ExpungeTarget
<1>3. ClientWrite
  BY <1>1, <1>2 DEF ClientWrite
<1> QED
  BY <1>1, <1>3, WriteInv

\* IDLE begins, with a goroutine of its own; the others are late from now on.
LEMMA IdleBeginInv ==
  ASSUME AcctInv, SessInv, NEW s \in Sess, NEW g \in Gor, IdleBegin(s, g)
  PROVE  SessInv'
<1> DEFINE gs == [Late(gor[s]) EXCEPT ![g] = Waiting]
<1>1. /\ pc[s] = "ready" /\ sel[s] # None /\ gor[s][g].at = "off"
      /\ pc' = [pc EXCEPT ![s] = "idle"] /\ gor' = [gor EXCEPT ![s] = gs]
      /\ UNCHANGED <<acct, sel, got, msgs, marked, chan, shown, meant, fresh, strayed, missed, owed>>
  BY DEF IdleBegin, hist
<1>2. SessTypes /\ SessOne(s)
  BY DEF SessInv
<1>3. gor[s] \in [Gor -> GorRec]
  BY <1>2 DEF SessTypes
<1>4. /\ gs \in [Gor -> GorRec] /\ gs[g] = Waiting
      /\ \A h \in Gor \ {g} : /\ gs[h].at = gor[s][h].at /\ gs[h].seen = gor[s][h].seen
                              /\ gs[h].ents = gor[s][h].ents /\ (gs[h].late <=> gor[s][h].at # "off")
  BY <1>3, LateGors, RestingGors
<1> HIDE DEF gs
<1>5. SessTypes'
  BY <1>1, <1>2, <1>4 DEF SessTypes
<1>6. \A r \in Sess \ {s} : Same(r)
  BY <1>1, <1>2 DEF Same, SessTypes
<1>7. SessOne(s)'
  <2>1. pc'[s] = "idle" /\ pc'[s] \notin Label /\ gor'[s] = gs
    BY <1>1, <1>2, NoneAssumption DEF SessTypes
  <2>2. gs[g].at = "wait" /\ ~gs[g].late
    BY <1>4, RestingGors
  <2>3. Within(s)' /\ Counts(s)'
    BY <1>1, <1>2, <1>4, <2>1, <2>2 DEF SessOne, Within, Counts
  <2>4. GenuineLists(s)'
    BY <1>1, <1>2, <1>4, <2>1, <2>2 DEF SessOne, GenuineLists, acct
  <2>5. \A h \in Gor : (gs[h].at = "view" \/ gs[h].at = "read") => gs[h].late
    BY <1>4, <2>2
  <2>6. (\A h \in Gor : ~Busy(gs[h])) => \A h \in Gor : ~Busy(gor[s][h])
    BY <1>1, <1>4 DEF Busy
  <2>7. Catches(s)'
    BY <1>1, <1>2, <2>1, <2>5, <2>6 DEF SessOne, Catches, Entries, Present, acct
  <2> QED
    BY <2>3, <2>4, <2>7 DEF SessOne
<1> QED
  BY <1>1, <1>5, <1>6, <1>7, OwnStep

\* IDLE ends.
LEMMA IdleEndInv ==
  ASSUME AcctInv, SessInv, NEW s \in Sess, IdleEnd(s)
  PROVE  SessInv'
<1>1. /\ pc[s] = "idle" /\ pc' = [pc EXCEPT ![s] = "ready"]
      /\ UNCHANGED <<acct, sel, got, msgs, marked, chan, gor, shown, meant, fresh, strayed, missed, owed>>
  BY DEF IdleEnd, hist
<1>2. SessTypes /\ SessOne(s)
  BY DEF SessInv
<1>3. SessTypes'
  BY <1>1, <1>2 DEF SessTypes
<1>4. \A r \in Sess \ {s} : Same(r)
  BY <1>1, <1>2 DEF Same, SessTypes
<1>5. SessOne(s)'
  <2>1. pc'[s] = "ready" /\ pc'[s] \notin Label
    BY <1>1, <1>2, NoneAssumption DEF SessTypes
  <2>2. Within(s)' /\ Counts(s)'
    BY <1>1, <1>2, <2>1 DEF SessOne, Within, Counts
  <2>3. GenuineLists(s)'
    BY <1>1, <1>2, <2>1 DEF SessOne, GenuineLists, acct
  <2>4. Catches(s)'
    BY <1>1, <1>2, <2>1 DEF SessOne, Catches, Entries, Present, acct
  <2> QED
    BY <2>2, <2>3, <2>4 DEF SessOne
<1> QED
  BY <1>1, <1>3, <1>4, <1>5, OwnStep

\* A goroutine ends.
LEMMA ExitInv ==
  ASSUME AcctInv, SessInv, NEW s \in Sess, NEW g \in Gor, Exit(s, g)
  PROVE  SessInv'
<1>1. /\ gor[s][g].at = "wait" /\ gor' = [gor EXCEPT ![s][g] = Off]
      /\ UNCHANGED <<acct, pc, sel, got, msgs, marked, chan, shown, meant, fresh, strayed, missed, owed>>
  BY DEF Exit, hist
<1>2. SessTypes /\ SessOne(s)
  BY DEF SessInv
<1>3. /\ gor' \in [Sess -> [Gor -> GorRec]] /\ gor'[s][g] = Off
      /\ \A h \in Gor \ {g} : gor'[s][h] = gor[s][h]
      /\ \A r \in Sess \ {s} : gor'[r] = gor[r]
  BY <1>1, <1>2, GorPut, RestingGors
<1>4. SessTypes'
  BY <1>1, <1>2, <1>3 DEF SessTypes
<1>5. \A r \in Sess \ {s} : Same(r)
  BY <1>1, <1>3 DEF Same
<1>6. SessOne(s)'
  <2>1. gor'[s][g].at = "off"
    BY <1>3, RestingGors
  <2>2. Within(s)' /\ Counts(s)'
    BY <1>1, <1>2, <1>3, <2>1 DEF SessOne, Within, Counts
  <2>3. GenuineLists(s)'
    BY <1>1, <1>2, <1>3, <2>1 DEF SessOne, GenuineLists, acct
  <2>4. (\A h \in Gor : ~Busy(gor'[s][h])) => \A h \in Gor : ~Busy(gor[s][h])
    BY <1>1, <1>3 DEF Busy
  <2>5. Catches(s)'
    BY <1>1, <1>2, <1>3, <2>1, <2>4 DEF SessOne, Catches, Entries, Present, acct
  <2> QED
    BY <2>2, <2>3, <2>5 DEF SessOne
<1> QED
  BY <1>1, <1>4, <1>5, <1>6, OwnStep

\* The view of a goroutine that has just folded the log.
LEMMA FoldedView ==
  ASSUME AcctInv, NEW R \in GorRec
  PROVE  LET Q == [R EXCEPT !.at = "view", !.seen = [l \in Label |-> Entries(l)]] IN
         /\ Q \in GorRec /\ Q.at = "view" /\ Q.late = R.late
         /\ \A l \in Label : Q.seen[l] = Entries(l) /\ Genuine(Q.seen[l], l, life, uses)
<1> DEFINE now == [l \in Label |-> Entries(l)]
<1>1. \A l \in Label : Genuine(Entries(l), l, life, uses)
  BY EntriesGenuine
<1>2. now \in [Label -> Seq(Entry)] /\ \A l \in Label : now[l] = Entries(l)
  BY <1>1 DEF Genuine
<1> HIDE DEF now
<1>3. LET Q == [R EXCEPT !.at = "view", !.seen = now] IN
      Q \in GorRec /\ Q.at = "view" /\ Q.late = R.late /\ Q.seen = now
  BY <1>2 DEF GorRec
<1> QED
  BY <1>1, <1>2, <1>3 DEF now

\* A goroutine takes a change and folds the log.
LEMMA WakeInv ==
  ASSUME AcctInv, SessInv, NEW s \in Sess, NEW g \in Gor, Wake(s, g)
  PROVE  SessInv'
<1> DEFINE R == [gor[s][g] EXCEPT !.at = "view", !.seen = [l \in Label |-> Entries(l)]]
           b == strayed[s] \/ gor[s][g].late
<1>1. /\ gor[s][g].at = "wait"
      /\ chan' = [chan EXCEPT ![s] = FALSE]
      /\ gor' = [gor EXCEPT ![s][g] = R]
      /\ strayed' = [strayed EXCEPT ![s] = b]
      /\ UNCHANGED <<acct, pc, sel, got, msgs, marked, shown, meant, fresh, missed, owed>>
  BY DEF Wake
<1>2. SessTypes /\ SessOne(s)
  BY DEF SessInv
<1>3. gor[s][g] \in GorRec
  BY <1>2 DEF SessTypes
<1>4. /\ R \in GorRec /\ R.at = "view" /\ R.late = gor[s][g].late
      /\ \A l \in Label : R.seen[l] = Entries(l) /\ Genuine(R.seen[l], l, life, uses)
  BY <1>3, FoldedView
<1> HIDE DEF R
<1>5. /\ gor' \in [Sess -> [Gor -> GorRec]] /\ gor'[s][g] = R
      /\ \A h \in Gor \ {g} : gor'[s][h] = gor[s][h]
      /\ \A r \in Sess \ {s} : gor'[r] = gor[r]
  BY <1>1, <1>2, <1>4, GorPut
<1>6. SessTypes'
  <2>1. chan' \in [Sess -> BOOLEAN]
    BY <1>1, <1>2, Zenon DEF SessTypes
  <2>2. b \in BOOLEAN
    OBVIOUS
  <2> HIDE DEF b
  <2>3. strayed' \in [Sess -> BOOLEAN]
    BY <1>1, <1>2, <2>2, Zenon DEF SessTypes
  <2> QED
    BY <1>1, <1>2, <1>5, <2>1, <2>3 DEF SessTypes
<1>7. \A r \in Sess \ {s} : Same(r)
  BY <1>1, <1>2, <1>5 DEF Same, SessTypes
<1>8. SessOne(s)'
  <2>1. /\ strayed'[s] = b /\ view' = view /\ life' = life /\ uses' = uses /\ live' = live
    BY <1>1, <1>2 DEF SessTypes, acct
  <2>2. Within(s)' /\ Counts(s)'
    BY <1>1, <1>2, <1>4, <1>5 DEF SessOne, Within, Counts
  <2>3. GenuineLists(s)'
    BY <1>1, <1>2, <1>4, <1>5, <2>1 DEF SessOne, GenuineLists
  <2>4. Catches(s)'
    <3> SUFFICES ASSUME sel[s] # None, ~b
                 PROVE  /\ \A h \in Gor : gor'[s][h].at = "view" /\ ~gor'[s][h].late => gor'[s][h].seen[sel[s]] = Entries(sel[s])
                        /\ \A h \in Gor : ~(gor'[s][h].at = "read" /\ ~gor'[s][h].late)
                        /\ Busy(gor'[s][g])
      BY <1>1, <2>1 DEF Catches, Entries
    <3>1. ~gor[s][g].late /\ sel[s] \in Label
      BY <1>2 DEF SessTypes
    <3>2. \A h \in Gor \ {g} : gor[s][h].at # "off" => gor[s][h].late
      BY <1>1, <1>2, <3>1 DEF SessOne, Within
    <3> QED
      BY <1>4, <1>5, <3>1, <3>2 DEF Busy
  <2> QED
    BY <2>2, <2>3, <2>4 DEF SessOne
<1> QED
  BY <1>1, <1>6, <1>7, <1>8, OwnStep

\* A goroutine takes a change for nothing.
LEMMA WakeFailsInv ==
  ASSUME AcctInv, SessInv, NEW s \in Sess, NEW g \in Gor, WakeFails(s, g)
  PROVE  SessInv'
<1>1. /\ chan' = [chan EXCEPT ![s] = FALSE] /\ missed' = [missed EXCEPT ![s] = TRUE]
      /\ UNCHANGED <<acct, pc, sel, got, msgs, marked, gor, shown, meant, fresh, strayed, owed>>
  BY DEF WakeFails
<1>2. SessTypes /\ SessOne(s)
  BY DEF SessInv
<1>3. SessTypes'
  <2>1. chan' \in [Sess -> BOOLEAN] /\ missed' \in [Sess -> BOOLEAN]
    BY <1>1, <1>2, Zenon DEF SessTypes
  <2> QED
    BY <1>1, <1>2, <2>1 DEF SessTypes
<1>4. \A r \in Sess \ {s} : Same(r)
  BY <1>1, <1>2 DEF Same, SessTypes
<1>5. SessOne(s)'
  <2>1. missed'[s]
    BY <1>1, <1>2 DEF SessTypes
  <2>2. Catches(s)'
    BY <2>1 DEF Catches
  <2>3. Within(s)' /\ Counts(s)' /\ GenuineLists(s)'
    BY <1>1, <1>2 DEF SessOne, Within, Counts, GenuineLists, acct
  <2> QED
    BY <2>2, <2>3 DEF SessOne
<1> QED
  BY <1>1, <1>3, <1>4, <1>5, OwnStep

\* A goroutine looks up the mailbox in its view.
LEMMA TakeEntriesInv ==
  ASSUME AcctInv, SessInv, NEW s \in Sess, NEW g \in Gor, TakeEntries(s, g)
  PROVE  SessInv'
<1> DEFINE e == IF sel[s] = None THEN <<>> ELSE gor[s][g].seen[sel[s]]
           R == [gor[s][g] EXCEPT !.at = "read", !.seen = NoView, !.ents = e]
<1>1. /\ gor[s][g].at = "view" /\ gor' = [gor EXCEPT ![s][g] = R]
      /\ UNCHANGED <<acct, pc, sel, got, msgs, marked, chan, shown, meant, fresh, strayed, missed, owed>>
  BY DEF TakeEntries, hist
<1>2. SessTypes /\ SessOne(s)
  BY DEF SessInv
<1>3. gor[s][g] \in GorRec /\ sel[s] \in Label \cup {None}
  BY <1>2 DEF SessTypes
<1>4. e \in Seq(Entry)
  BY <1>3 DEF GorRec
<1>5. sel[s] # None => e = gor[s][g].seen[sel[s]]
  OBVIOUS
<1> HIDE DEF e
<1>6. R \in GorRec /\ R.at = "read" /\ R.late = gor[s][g].late /\ R.ents = e
  <2>1. NoView \in [Label -> Seq(Entry)]
    BY DEF NoView
  <2> QED
    BY <1>3, <1>4, <2>1 DEF GorRec
<1> HIDE DEF R
<1>7. /\ gor' \in [Sess -> [Gor -> GorRec]] /\ gor'[s][g] = R
      /\ \A h \in Gor \ {g} : gor'[s][h] = gor[s][h]
      /\ \A r \in Sess \ {s} : gor'[r] = gor[r]
  BY <1>1, <1>2, <1>6, GorPut
<1>8. SessTypes'
  BY <1>1, <1>2, <1>7 DEF SessTypes
<1>9. \A r \in Sess \ {s} : Same(r)
  BY <1>1, <1>7 DEF Same
<1>10. SessOne(s)'
  <2>1. view' = view /\ life' = life /\ uses' = uses /\ live' = live
    BY <1>1 DEF acct
  <2>2. Within(s)' /\ Counts(s)'
    BY <1>1, <1>2, <1>6, <1>7 DEF SessOne, Within, Counts
  <2>3. ~gor[s][g].late => Genuine(e, sel[s], life, uses)
    BY <1>1, <1>2, <1>3, <1>5 DEF SessOne, Within, GenuineLists
  <2>4. GenuineLists(s)'
    BY <1>1, <1>2, <1>6, <1>7, <2>1, <2>3 DEF SessOne, GenuineLists
  <2>5. Busy(gor'[s][g])
    BY <1>6, <1>7 DEF Busy
  <2>6. Catches(s)'
    <3> SUFFICES ASSUME sel[s] # None, ~chan[s], owed = 0, ~strayed[s], ~missed[s]
                 PROVE  /\ \A h \in Gor : gor'[s][h].at = "view" /\ ~gor'[s][h].late => gor'[s][h].seen[sel[s]] = Entries(sel[s])
                        /\ \A h \in Gor : gor'[s][h].at = "read" /\ ~gor'[s][h].late => gor'[s][h].ents = Entries(sel[s])
      BY <1>1, <2>1, <2>5 DEF Catches, Entries
    <3>1. /\ \A h \in Gor : gor[s][h].at = "view" /\ ~gor[s][h].late => gor[s][h].seen[sel[s]] = Entries(sel[s])
          /\ \A h \in Gor : gor[s][h].at = "read" /\ ~gor[s][h].late => gor[s][h].ents = Entries(sel[s])
      BY <1>2 DEF SessOne, Catches
    <3> QED
      BY <1>1, <1>5, <1>6, <1>7, <3>1
  <2> QED
    BY <2>2, <2>4, <2>6 DEF SessOne
<1> QED
  BY <1>1, <1>8, <1>9, <1>10, OwnStep

\* What the client is told is a list of messages.
LEMMA AnnouncedType ==
  ASSUME SessTypes, NEW s \in Sess, NEW now \in Seq(Entry)
  PROVE  Announced(s, now) \in Seq(Msg)
<1>1. shown[s] \in Seq(Msg)
  BY DEF SessTypes
<1>2. Ids(now) \in Seq(Msg) /\ Len(Ids(now)) = Len(now)
  BY IdsType
<1> DEFINE i == Ids(now)
           n == Len(shown[s])
<1>3. Len(now) \in Nat /\ n \in Nat
  BY <1>1
<1>4. SubSeq(i, n + 1, Len(now)) \in Seq(Msg)
  <2>1. \A k \in n + 1 .. Len(now) : k \in 1 .. Len(i)
    BY <1>2, <1>3
  <2> HIDE DEF i, n
  <2> QED
    BY <1>2, <1>3, <2>1 DEF i
<1> HIDE DEF i, n
<1>5. shown[s] \o SubSeq(i, n + 1, Len(now)) \in Seq(Msg)
  BY <1>1, <1>4
<1> QED
  BY <1>1, <1>5 DEF Announced, i, n

\* A goroutine replaces the list.
LEMMA ResnapshotInv ==
  ASSUME AcctInv, SessInv, NEW s \in Sess, NEW g \in Gor, Resnapshot(s, g)
  PROVE  SessInv'
<1> DEFINE now == Present(gor[s][g].ents)
           told == Announced(s, now)
           R == [gor[s][g] EXCEPT !.at = "wait", !.ents = <<>>]
           b == strayed[s] \/ gor[s][g].late
<1>1. /\ gor[s][g].at = "read" /\ (sel[s] = None => ~Grew(s, now))
      /\ msgs' = [msgs EXCEPT ![s] = now]
      /\ shown' = [shown EXCEPT ![s] = told]
      /\ fresh' = [fresh EXCEPT ![s] = TRUE]
      /\ strayed' = [strayed EXCEPT ![s] = b]
      /\ gor' = [gor EXCEPT ![s][g] = R]
      /\ UNCHANGED <<acct, pc, sel, got, marked, chan, meant, missed, owed>>
  BY DEF Resnapshot, Wrote
<1>2. SessTypes /\ SessOne(s)
  BY DEF SessInv
<1>3. gor[s][g] \in GorRec /\ gor[s][g].ents \in Seq(Entry) /\ sel[s] \in Label \cup {None}
  BY <1>2 DEF SessTypes, GorRec
<1>4. now \in Seq(Entry)
  BY <1>3, KeepInKeeps DEF Present
<1>5. ~gor[s][g].late => Genuine(now, sel[s], life, uses)
  BY <1>1, <1>2, PresentGenuine DEF SessOne, GenuineLists
<1>6. R \in GorRec /\ R.at = "wait" /\ R.late = gor[s][g].late
  <2>1. <<>> \in Seq(Entry)
    OBVIOUS
  <2> QED
    BY <1>3, <2>1 DEF GorRec
<1> HIDE DEF now, R
<1>7. told \in Seq(Msg)
  BY <1>2, <1>4, AnnouncedType
<1> HIDE DEF told
<1>8. /\ gor' \in [Sess -> [Gor -> GorRec]] /\ gor'[s][g] = R
      /\ \A h \in Gor \ {g} : gor'[s][h] = gor[s][h]
      /\ \A r \in Sess \ {s} : gor'[r] = gor[r]
  BY <1>1, <1>2, <1>6, GorPut
<1>9. SessTypes'
  <2>1. msgs' \in [Sess -> Seq(Entry)] /\ shown' \in [Sess -> Seq(Msg)]
    BY <1>1, <1>2, <1>4, <1>7 DEF SessTypes
  <2>2. fresh' \in [Sess -> BOOLEAN]
    BY <1>1, <1>2, Zenon DEF SessTypes
  <2>3. b \in BOOLEAN
    OBVIOUS
  <2> HIDE DEF b
  <2>4. strayed' \in [Sess -> BOOLEAN]
    BY <1>1, <1>2, <2>3, Zenon DEF SessTypes
  <2> QED
    BY <1>1, <1>2, <1>8, <2>1, <2>2, <2>4 DEF SessTypes
<1>10. \A r \in Sess \ {s} : Same(r)
  BY <1>1, <1>2, <1>8 DEF Same, SessTypes
<1>11. SessOne(s)'
  <2>1. /\ msgs'[s] = now /\ strayed'[s] = b
        /\ view' = view /\ live' = live /\ life' = life /\ uses' = uses
    BY <1>1, <1>2 DEF SessTypes, acct
  <2>2. fresh'[s]
    BY <1>1, <1>2 DEF SessTypes
  <2>3. sel[s] = None => now = <<>>
    <3> SUFFICES ASSUME sel[s] = None PROVE Len(now) = 0
      BY <1>4
    <3>1. Len(msgs[s]) = 0 /\ Len(now) \in Nat
      BY <1>2, <1>4 DEF SessOne, Within
    <3> QED
      BY <1>1, <3>1 DEF Grew
  <2>4. Within(s)' /\ Counts(s)'
    BY <1>1, <1>2, <1>6, <1>8, <2>1, <2>2, <2>3 DEF SessOne, Within, Counts
  <2>5. GenuineLists(s)'
    BY <1>1, <1>2, <1>5, <1>6, <1>8, <2>1 DEF SessOne, GenuineLists
  <2>6. Catches(s)'
    <3> SUFFICES ASSUME sel[s] # None, ~chan[s], owed = 0, ~b, ~missed[s]
                 PROVE  /\ \A h \in Gor : gor'[s][h].at = "view" /\ ~gor'[s][h].late => gor'[s][h].seen[sel[s]] = Entries(sel[s])
                        /\ \A h \in Gor : gor'[s][h].at = "read" /\ ~gor'[s][h].late => gor'[s][h].ents = Entries(sel[s])
                        /\ now = Present(Entries(sel[s]))
      BY <1>1, <2>1 DEF Catches, Entries, Present
    <3>1. /\ \A h \in Gor : gor[s][h].at = "view" /\ ~gor[s][h].late => gor[s][h].seen[sel[s]] = Entries(sel[s])
          /\ \A h \in Gor : gor[s][h].at = "read" /\ ~gor[s][h].late => gor[s][h].ents = Entries(sel[s])
      BY <1>2 DEF SessOne, Catches
    <3>2. gor[s][g].ents = Entries(sel[s])
      BY <1>1, <3>1
    <3> QED
      BY <1>6, <1>8, <3>1, <3>2 DEF now
  <2> QED
    BY <2>4, <2>5, <2>6 DEF SessOne
<1> QED
  BY <1>1, <1>9, <1>10, <1>11, OwnStep

\* Every step of the sessions keeps their invariant.
LEMMA SessStep ==
  AcctInv /\ SessInv /\ [SNext \/ Idling]_vars => AcctInv' /\ SessInv'
<1> SUFFICES ASSUME AcctInv, SessInv, [SNext \/ Idling]_vars
             PROVE  SessInv' /\ [ClientWrite \/ Compact]_acct
  BY AcctStep
<1>1. CASE UNCHANGED vars
  <2>1. UNCHANGED acct /\ UNCHANGED sess /\ owed' = owed
    BY <1>1 DEF vars
  <2>2. SessTypes'
    BY <2>1 DEF SessInv, SessTypes, sess, hist
  <2>3. ASSUME NEW r \in Sess PROVE SessOne(r)'
    <3>1. Same(r)
      BY <2>1 DEF sess, hist, Same
    <3> QED
      BY <2>1, <3>1, Bystander
  <2> QED
    BY <2>1, <2>2, <2>3 DEF SessInv
<1>2. CASE OtherWrite
  BY <1>2, WriteInv DEF OtherWrite
<1>3. CASE Compacted
  BY <1>3, CompactedInv
<1>4. CASE Notify
  <2>1. UNCHANGED acct
    BY <1>4 DEF Notify
  <2> QED
    BY <1>4, <2>1, NotifyInv
<1>5. ASSUME NEW s \in Sess, NEW l \in Label, SelectView(s, l) PROVE SessInv' /\ UNCHANGED acct
  BY <1>5, SelectViewInv DEF SelectView
<1>6. ASSUME NEW s \in Sess, SelectLoad(s) PROVE SessInv' /\ UNCHANGED acct
  BY <1>6, SelectLoadInv DEF SelectLoad, Reselect
<1>7. ASSUME NEW s \in Sess, NEW g \in Gor, NEW k \in 0 .. Len(got[s]), SelectRaced(s, g, k)
      PROVE  SessInv' /\ UNCHANGED acct
  <2>1. k \in Nat
    OBVIOUS
  <2>2. UNCHANGED acct
    BY <1>7 DEF SelectRaced, Reselect
  <2> QED
    BY <1>7, <2>1, <2>2, SelectRacedInv
<1>8. ASSUME NEW s \in Sess, Unselect(s) PROVE SessInv' /\ UNCHANGED acct
  BY <1>8, UnselectInv DEF Unselect
<1>9. ASSUME NEW s \in Sess, NEW n \in 1 .. Len(shown[s]), NEW on \in BOOLEAN, StoreDeleted(s, n, on)
      PROVE  SessInv' /\ UNCHANGED acct
  <2>1. n \in Nat
    OBVIOUS
  <2>2. UNCHANGED acct
    BY <1>9 DEF StoreDeleted
  <2> QED
    BY <1>9, <2>1, <2>2, StoreInv
<1>10. ASSUME NEW s \in Sess, Expunge(s) PROVE SessInv' /\ [ClientWrite]_acct
  BY <1>10, ExpungeInv
<1>11. ASSUME NEW s \in Sess, NEW n \in 1 .. Len(msgs[s]), NEW l \in Label, Copy(s, n, l)
       PROVE  SessInv' /\ [ClientWrite]_acct
  <2>1. n \in Nat
    OBVIOUS
  <2> QED
    BY <1>11, <2>1, CopyInv
<1>12. ASSUME NEW s \in Sess, NEW g \in Gor, IdleBegin(s, g) PROVE SessInv' /\ UNCHANGED acct
  BY <1>12, IdleBeginInv DEF IdleBegin
<1>13. ASSUME NEW s \in Sess, IdleEnd(s) PROVE SessInv' /\ UNCHANGED acct
  BY <1>13, IdleEndInv DEF IdleEnd
<1>14. ASSUME NEW s \in Sess, NEW g \in Gor, Exit(s, g) PROVE SessInv' /\ UNCHANGED acct
  BY <1>14, ExitInv DEF Exit
<1>15. ASSUME NEW s \in Sess, NEW g \in Gor, Wake(s, g) PROVE SessInv' /\ UNCHANGED acct
  BY <1>15, WakeInv DEF Wake
<1>16. ASSUME NEW s \in Sess, NEW g \in Gor, WakeFails(s, g) PROVE SessInv' /\ UNCHANGED acct
  BY <1>16, WakeFailsInv DEF WakeFails
<1>17. ASSUME NEW s \in Sess, NEW g \in Gor, TakeEntries(s, g) PROVE SessInv' /\ UNCHANGED acct
  BY <1>17, TakeEntriesInv DEF TakeEntries
<1>18. ASSUME NEW s \in Sess, NEW g \in Gor, Resnapshot(s, g) PROVE SessInv' /\ UNCHANGED acct
  BY <1>18, ResnapshotInv DEF Resnapshot, Wrote
<1>19. ASSUME NEW s \in Sess, NEW g \in Gor, Panic(s, g) PROVE SessInv' /\ UNCHANGED acct
  <2>1. Clear' /\ UNCHANGED acct
    BY <1>19 DEF Panic, Clear
  <2> QED
    BY <2>1, ClearInv, PTL
<1>20. CASE SNext
  BY <1>20, <1>2, <1>3, <1>4, <1>5, <1>6, <1>7, <1>8, <1>9, <1>10, <1>11 DEF SNext
<1>21. CASE Idling
  BY <1>21, <1>12, <1>13, <1>14, <1>15, <1>16, <1>17, <1>18, <1>19 DEF Idling
<1> QED
  BY <1>1, <1>20, <1>21

-----------------------------------------------------------------------------
(* What holds of every account, with any number of sessions.               *)

\* The inductive invariant of an account and the sessions on it.
THEOREM SessionInvariant ==
  SSpec => [](AcctInv /\ SessInv)
<1>1. SInit => AcctInv /\ SessInv
  BY SessInit
<1>2. AcctInv /\ SessInv /\ [SNext \/ Idling]_vars => (AcctInv /\ SessInv)'
  BY SessStep
<1> QED
  BY <1>1, <1>2, PTL DEF SSpec

\* mailbox.assign and mailbox.retire: whatever is labelled, unlabelled, expunged and
\* labelled again, by writers and by sessions, no UID of a mailbox names a second message
\* until the mailbox is deleted or the account compacted, and every mailbox lists its
\* messages in UID order.
THEOREM UidsAreKept ==
  SSpec => []UidNeverReused
BY SessionInvariant, AcctImplies, PTL

\* View.Apply and projection.Apply agree on every log the clients can write: a mailbox
\* holds the live messages that carry its label, but for those that got it before the last
\* compaction.
THEOREM TwoFoldsAgree ==
  SSpec => []ViewAgrees
BY SessionInvariant, AcctImplies, PTL

\* session.Expunge takes out what the client asked for as long as no goroutine of IDLE has
\* replaced the list, and the list's UIDs hold as long as no goroutine did that was left
\* over from before the last SELECT or IDLE.
THEOREM ExpungedAsMeant ==
  SSpec => []ExpungesAsMeant
<1>1. SessInv => DeletedAsMeantUnlessIdled
  BY DEF SessInv, SessOne, Counts, DeletedAsMeantUnlessIdled
<1>2. ASSUME SessInv PROVE ListIsGenuine
  <2> SUFFICES ASSUME NEW s \in Sess, ~strayed[s]
               PROVE  /\ \A j, k \in 1 .. Len(msgs[s]) : j < k => msgs[s][j].uid < msgs[s][k].uid
                      /\ \A k \in 1 .. Len(msgs[s]) : \E n \in 0 .. life[sel[s]] :
                           Use(sel[s], n, msgs[s][k]) \in uses
    BY DEF ListIsGenuine, Use
  <2>1. SessOne(s)
    BY <1>2 DEF SessInv
  <2>2. CASE sel[s] = None
    <3>1. msgs[s] = <<>>
      BY <2>1, <2>2 DEF SessOne, Within
    <3> QED
      BY <3>1
  <2>3. CASE sel[s] # None
    BY <2>1, <2>3 DEF SessOne, GenuineLists, Genuine
  <2> QED
    BY <2>2, <2>3
<1> QED
  BY <1>1, <1>2, SessionInvariant, PTL DEF ExpungesAsMeant

\* session.Idle: once a change was handled, the list is the mailbox as it is whenever no
\* notification is on its way, although a full channel drops ticks, unless since SELECT a
\* goroutine of an earlier IDLE got in between, the log could not be read or the account
\* was compacted.
THEOREM IdleIsUpToDate ==
  SSpec => []IdleCatchesUp
<1>1. SessInv => IdleCatchesUp
  BY DEF SessInv, SessOne, Within, Catches, IdleCatchesUp, Quiet
<1> QED
  BY <1>1, SessionInvariant, PTL

-----------------------------------------------------------------------------
(* ImapStore: message sets and flags.                                      *)

Copies == [uid : Inbox, copy : SUBSET ModelFlag]
Rounds == [uid : Inbox, off : SUBSET ModelFlag, on : SUBSET ModelFlag]

\* The UIDs of the list ascend, and no message waits for two rounds of writes.
FlagTypes ==
  /\ list \in Seq(Copies)
  /\ \A i, j \in 1 .. Len(list) : i < j => list[i].uid < list[j].uid
  /\ here \subseteq Inbox
  /\ flags \in [Inbox -> SUBSET ModelFlag]
  /\ todo \in Seq(Rounds)
  /\ \A j, k \in 1 .. Len(todo) : j < k => todo[j].uid # todo[k].uid
  /\ expect \in [Inbox -> SUBSET (ModelFlag \cup {"deleted"})]

\* The writes t that are still to come turn the flags had of u into fs.
EndsWith(t, u, had, fs) ==
  /\ \A k \in 1 .. Len(t) : t[k].uid = u => (had \ t[k].off) \cup t[k].on = fs
  /\ (\A k \in 1 .. Len(t) : t[k].uid # u) => had = fs

\* A message that nobody else wrote to is there, its copy is what the client asked for,
\* and the account will hold the same.
Undisturbed(i) ==
  list[i].uid \notin stirred =>
    /\ list[i].uid \in here
    /\ ToIMAPFlags(list[i], del) = expect[list[i].uid]
    /\ EndsWith(todo, list[i].uid, flags[list[i].uid], list[i].copy)

FlagInv ==
  /\ FlagTypes
  /\ \A i \in 1 .. Len(list) : Undisturbed(i)
  /\ reply.said = reply.due

\* The parts of the list; a UID is in one place.
LEMMA ListFacts ==
  ASSUME FlagTypes
  PROVE  /\ Len(list) \in Nat /\ DOMAIN list = 1 .. Len(list)
         /\ \A i \in 1 .. Len(list) :
              /\ list[i] \in Copies /\ list[i].uid \in Inbox /\ list[i].uid \in Nat /\ list[i].uid > 0
              /\ list[i].copy \subseteq ModelFlag
         /\ \A i, j \in 1 .. Len(list) : list[i].uid = list[j].uid => i = j
<1>1. list \in Seq(Copies) /\ Len(list) \in Nat /\ DOMAIN list = 1 .. Len(list)
  BY DEF FlagTypes
<1>2. \A i \in 1 .. Len(list) : list[i] \in Copies
  BY <1>1, SeqEntry
<1>3. ASSUME NEW i \in 1 .. Len(list)
      PROVE  /\ list[i] \in Copies /\ list[i].uid \in Inbox /\ list[i].uid \in Nat /\ list[i].uid > 0
             /\ list[i].copy \subseteq ModelFlag
  <2>1. list[i] \in Copies
    BY <1>2
  <2>2. list[i].uid \in Inbox /\ list[i].copy \in SUBSET ModelFlag
    BY <2>1 DEF Copies
  <2>3. \A u \in Inbox : u \in Nat /\ u > 0
    BY InboxAssumption
  <2> QED
    BY <2>1, <2>2, <2>3
<1>4. ASSUME NEW i \in 1 .. Len(list), NEW j \in 1 .. Len(list), list[i].uid = list[j].uid
      PROVE  i = j
  <2>1. i \in Int /\ j \in Int /\ list[i].uid \in Nat /\ list[j].uid \in Nat
    BY <1>1, <1>3
  <2>2. i < j => list[i].uid < list[j].uid
    BY DEF FlagTypes
  <2>3. j < i => list[j].uid < list[i].uid
    BY DEF FlagTypes
  <2> QED
    BY <1>4, <2>1, <2>2, <2>3
<1> QED
  BY <1>1, <1>3, <1>4

\* The ends of a pair of numbers.
LEMMA MinMaxOfTwo ==
  ASSUME NEW a \in Nat, NEW b \in Nat
  PROVE  /\ Min({a, b}) = IF a <= b THEN a ELSE b
         /\ Max({a, b}) = IF a <= b THEN b ELSE a
<1>1. \A x \in {a, b} : (\A y \in {a, b} : x =< y) <=> x = IF a <= b THEN a ELSE b
  OBVIOUS
<1>2. \A x \in {a, b} : (\A y \in {a, b} : x >= y) <=> x = IF a <= b THEN b ELSE a
  OBVIOUS
<1>3. (IF a <= b THEN a ELSE b) \in {a, b} /\ (IF a <= b THEN b ELSE a) \in {a, b}
  OBVIOUS
<1> QED
  BY <1>1, <1>2, <1>3 DEF Min, Max

\* A range, with `*' for the last message, reaches what lies between its ends.
LEMMA RangeIsMeant ==
  ASSUME NEW r \in NumRange, NEW top \in Nat, top > 0, NEW q \in Nat
  PROVE  LET a == IF r.start = 0 THEN top ELSE r.start
             b == IF r.stop = 0 THEN top ELSE r.stop
         IN  InRange(FixRange(r, top), q) <=> q \in Min({a, b}) .. Max({a, b})
<1> DEFINE a == IF r.start = 0 THEN top ELSE r.start
           b == IF r.stop = 0 THEN top ELSE r.stop
<1>1. r.start \in Nat /\ r.stop \in Nat /\ (r.start = 0 \/ r.stop = 0 \/ r.start <= r.stop)
  BY MaxNumAssumption DEF NumRange
<1>2. a \in Nat /\ b \in Nat /\ a > 0 /\ b > 0
  BY <1>1
<1>3. FixRange(r, top) = IF 0 \in {r.start, r.stop} /\ a > b
                         THEN [start |-> b, stop |-> a] ELSE [start |-> a, stop |-> b]
  BY DEF FixRange
<1>4. a > b => 0 \in {r.start, r.stop}
  BY <1>1
<1>5. FixRange(r, top) = [start |-> IF a <= b THEN a ELSE b, stop |-> IF a <= b THEN b ELSE a]
  BY <1>2, <1>3, <1>4
<1>6. Min({a, b}) = (IF a <= b THEN a ELSE b) /\ Max({a, b}) = (IF a <= b THEN b ELSE a)
  BY <1>2, MinMaxOfTwo
<1> QED
  BY <1>2, <1>5, <1>6 DEF InRange

\* A command reaches the messages that its set means.
LEMMA ReachesMeant ==
  ASSUME FlagTypes, NEW s \in NumSet
  PROVE  ForEach(s) = Meant(s) /\ ForEach(s) \subseteq 1 .. Len(list)
<1>1. ForEach(s) \subseteq 1 .. Len(list)
  BY ListFacts DEF ForEach
<1>2. CASE s.kind = "saved"
  BY <1>1, <1>2 DEF Meant
<1>3. CASE s.kind # "saved"
  <2>1. s.kind \in {"seq", "uid"} /\ s.r \in NumRange /\ s \in [kind : {"seq", "uid"}, r : NumRange]
    BY <1>3 DEF NumSet
  <2>2. StaticNumSet(s).r = FixRange(s.r, Top(s.kind))
    BY <2>1 DEF StaticNumSet
  <2>3. ASSUME NEW i \in 1 .. Len(list)
        PROVE  NumOf(s.kind, i) \in Nat /\ Top(s.kind) \in Nat /\ Top(s.kind) > 0
    BY ListFacts DEF NumOf, Top
  <2>4. Meant(s) = {i \in DOMAIN list : NumOf(s.kind, i) \in
                      Min({IF s.r.start = 0 THEN Top(s.kind) ELSE s.r.start, IF s.r.stop = 0 THEN Top(s.kind) ELSE s.r.stop})
                      .. Max({IF s.r.start = 0 THEN Top(s.kind) ELSE s.r.start, IF s.r.stop = 0 THEN Top(s.kind) ELSE s.r.stop})}
    BY <1>3 DEF Meant
  <2>5. ForEach(s) = {i \in DOMAIN list : InRange(FixRange(s.r, Top(s.kind)), NumOf(s.kind, i))}
    BY <1>3, <2>2 DEF ForEach
  <2>6. ASSUME NEW i \in DOMAIN list PROVE i \in ForEach(s) <=> i \in Meant(s)
    <3>1. i \in 1 .. Len(list)
      BY ListFacts
    <3>2. InRange(FixRange(s.r, Top(s.kind)), NumOf(s.kind, i)) <=> NumOf(s.kind, i) \in
                      Min({IF s.r.start = 0 THEN Top(s.kind) ELSE s.r.start, IF s.r.stop = 0 THEN Top(s.kind) ELSE s.r.stop})
                      .. Max({IF s.r.start = 0 THEN Top(s.kind) ELSE s.r.start, IF s.r.stop = 0 THEN Top(s.kind) ELSE s.r.stop})
      BY <2>1, <2>3, <3>1, RangeIsMeant
    <3> QED
      BY <2>4, <2>5, <3>2
  <2> QED
    BY <1>1, <2>4, <2>5, <2>6
<1> QED
  BY <1>2, <1>3

-----------------------------------------------------------------------------
(* What a command does to flags.                                           *)

\* A command's writes end in the copy that the session keeps.
LEMMA WritesMakeCopy ==
  ASSUME NEW op \in {"set", "add", "del"}, NEW fs, NEW c \in SUBSET ModelFlag
  PROVE  /\ Kept(After(op, c, fs)) = (c \ Taken(op, fs)) \cup Given(op, fs)
         /\ Kept(After(op, c, fs)) \in SUBSET ModelFlag
         /\ Taken(op, fs) \in SUBSET ModelFlag /\ Given(op, fs) \in SUBSET ModelFlag
<1>1. CASE op = "set"
  BY <1>1 DEF Kept, After, Taken, Given
<1>2. CASE op = "add"
  BY <1>2 DEF Kept, After, Taken, Given
<1>3. CASE op = "del"
  BY <1>3 DEF Kept, After, Taken, Given
<1> QED
  BY <1>1, <1>2, <1>3

\* The mark e that a command makes of the mark d.
Remarked(op, fs, d, e) ==
  /\ d \in SUBSET {"deleted"} /\ e \in SUBSET {"deleted"}
  /\ "deleted" \in e <=> (("deleted" \in fs /\ op # "del") \/ ("deleted" \in d /\ "deleted" \notin fs /\ op # "set"))

Follows(op, fs, c, d, e) ==
  Kept(After(op, c, fs)) \cup e = After(op, c \cup d, fs \cap (ModelFlag \cup {"deleted"}))

\* Copy and mark together follow the command as the client's view of the flags does.
LEMMA CopyAndMark ==
  ASSUME NEW op \in {"set", "add", "del"}, NEW fs, NEW c \in SUBSET ModelFlag,
         NEW d, NEW e, Remarked(op, fs, d, e)
  PROVE  Follows(op, fs, c, d, e)
<1> DEFINE lhs == Kept(After(op, c, fs)) \cup e
           rhs == After(op, c \cup d, fs \cap (ModelFlag \cup {"deleted"}))
<1>0. "deleted" \notin ModelFlag
  BY ModelFlagAssumption
<1>1. ASSUME op = "set", NEW x PROVE x \in lhs <=> x \in rhs
  BY <1>0, <1>1 DEF Kept, After, Remarked
<1>2. ASSUME op = "add", NEW x PROVE x \in lhs <=> x \in rhs
  BY <1>0, <1>2 DEF Kept, After, Remarked
<1>3. ASSUME op = "del", NEW x PROVE x \in lhs <=> x \in rhs
  BY <1>0, <1>3 DEF Kept, After, Remarked
<1>4. ASSUME NEW x PROVE x \in lhs <=> x \in rhs
  BY <1>1, <1>2, <1>3
<1> QED
  BY <1>4 DEF Follows

\* t has a round of writes for each message at some places of the list.
RoundsOf(t, at, off, on) ==
  /\ t \in Seq(Rounds)
  /\ \A j, k \in 1 .. Len(t) : j < k => t[j].uid # t[k].uid
  /\ \A k \in 1 .. Len(t) : \E i \in at : t[k] = [uid |-> list[i].uid, off |-> off, on |-> on]
  /\ off \cup on # {} => \A i \in at : \E k \in 1 .. Len(t) : t[k].uid = list[i].uid

\* That is what a command leaves to be done.
LEMMA Rounding ==
  ASSUME FlagTypes, NEW at \in SUBSET (1 .. Len(list)),
         NEW off \in SUBSET ModelFlag, NEW on \in SUBSET ModelFlag
  PROVE  RoundsOf(EachInTurn(at, off, on), at, off, on)
<1> DEFINE t == EachInTurn(at, off, on)
<1>1. CASE off \cup on = {}
  <2>1. t = <<>>
    BY <1>1 DEF EachInTurn
  <2>2. t \in Seq(Rounds) /\ 1 .. Len(t) = {}
    BY <2>1
  <2> QED
    BY <1>1, <2>2 DEF RoundsOf
<1>2. CASE off \cup on # {}
  <2> DEFINE o == InOrder(at)
             n == Cardinality(at)
             W(k) == [uid |-> list[o[k]].uid, off |-> off, on |-> on]
  <2>1. at \in SUBSET Nat /\ IsFiniteSet(at)
    <3>1. IsFiniteSet(1 .. Len(list))
      BY ListFacts, FS_Interval
    <3>2. at \in SUBSET Nat
      BY ListFacts
    <3> QED
      BY <3>1, <3>2, FS_Subset
  <2>2. Ascends(o, at) /\ Len(o) = n
    BY <2>1, InOrderAscends
  <2>3. t = [k \in 1 .. n |-> W(k)] /\ n \in Nat
    BY <1>2, <2>1, FS_CardinalityType DEF EachInTurn
  <2> HIDE DEF o, n, t
  <2>4. /\ \A k \in 1 .. n : o[k] \in at
        /\ \A j, k \in 1 .. n : j < k => o[j] < o[k]
        /\ \A i \in at : \E k \in 1 .. n : o[k] = i
    BY <2>2, SeqEntry DEF Ascends
  <2>5. ASSUME NEW k \in 1 .. n PROVE W(k) \in Rounds
    BY <2>4, ListFacts DEF Rounds
  <2>6. t \in Seq(Rounds) /\ Len(t) = n /\ \A k \in 1 .. n : t[k] = W(k)
    BY <2>3, <2>5
  <2>7. ASSUME NEW j \in 1 .. n, NEW k \in 1 .. n, j < k PROVE t[j].uid # t[k].uid
    <3>1. o[j] \in at /\ o[k] \in at /\ o[j] < o[k]
      BY <2>4, <2>7
    <3>2. o[j] \in Nat /\ o[k] \in Nat
      BY <3>1, <2>1, Zenon
    <3>3. o[j] # o[k]
      BY <3>1, <3>2
    <3>4. list[o[j]].uid # list[o[k]].uid
      BY <3>1, <3>3, ListFacts
    <3> QED
      BY <2>6, <3>4
  <2>8. ASSUME NEW k \in 1 .. n PROVE \E i \in at : t[k] = [uid |-> list[i].uid, off |-> off, on |-> on]
    BY <2>4, <2>6
  <2>9. ASSUME NEW i \in at PROVE \E k \in 1 .. n : t[k].uid = list[i].uid
    BY <2>4, <2>6
  <2> QED
    BY <2>6, <2>7, <2>8, <2>9 DEF RoundsOf, t
<1> QED
  BY <1>1, <1>2

\* Where the flags were the copy, the rounds of a command make them its new copy.
LEMMA RoundsEnd ==
  ASSUME FlagTypes, NEW at \in SUBSET (1 .. Len(list)),
         NEW off \in SUBSET ModelFlag, NEW on \in SUBSET ModelFlag,
         NEW i \in 1 .. Len(list), NEW c, NEW d,
         i \in at => (c \ off) \cup on = d, i \notin at => c = d
  PROVE  EndsWith(EachInTurn(at, off, on), list[i].uid, c, d)
<1> DEFINE t == EachInTurn(at, off, on)
           u == list[i].uid
<1>0. RoundsOf(t, at, off, on)
  BY Rounding, Zenon
<1> HIDE DEF t
<1>1. /\ \A k \in 1 .. Len(t) : \E j \in at : t[k] = [uid |-> list[j].uid, off |-> off, on |-> on]
      /\ off \cup on # {} => \A j \in at : \E k \in 1 .. Len(t) : t[k].uid = list[j].uid
  BY <1>0 DEF RoundsOf
<1>2. ASSUME NEW k \in 1 .. Len(t), t[k].uid = u PROVE (c \ t[k].off) \cup t[k].on = d
  <2>1. PICK j \in at : t[k] = [uid |-> list[j].uid, off |-> off, on |-> on]
    BY <1>1
  <2>2. j = i
    BY <1>2, <2>1, ListFacts
  <2> QED
    BY <2>1, <2>2
<1>3. ASSUME \A k \in 1 .. Len(t) : t[k].uid # u PROVE c = d
  <2>1. CASE i \notin at
    BY <2>1
  <2>2. CASE i \in at
    <3>1. off \cup on = {}
      BY <1>1, <1>3, <2>2
    <3>2. off = {} /\ on = {}
      BY <3>1
    <3> QED
      BY <2>2, <3>2
  <2> QED
    BY <2>1, <2>2
<1> QED
  BY <1>2, <1>3 DEF EndsWith, t

\* An answer from the list, an answer from the flags that are asked for, and that they
\* name the same messages and the copies are as asked.
Said(l, at, marks) == Untouched(Flagged({l[i] : i \in at}, marks))
Due(e, asked) == Untouched({<<u, e[u]>> : u \in asked})
AsAsked(l, at, marks, e, asked) ==
  /\ asked = {l[i].uid : i \in at}
  /\ \A i \in at : l[i].uid \notin stirred => ToIMAPFlags(l[i], marks) = e[l[i].uid]

\* Then the answers agree.
LEMMA AnswersAgree ==
  ASSUME NEW l, NEW at, NEW marks, NEW e, NEW asked, AsAsked(l, at, marks, e, asked)
  PROVE  Said(l, at, marks) = Due(e, asked)
<1> DEFINE said == Untouched(Flagged({l[i] : i \in at}, marks))
           due == Untouched({<<u, e[u]>> : u \in asked})
<1>0. /\ asked = {l[i].uid : i \in at}
      /\ \A i \in at : l[i].uid \notin stirred => ToIMAPFlags(l[i], marks) = e[l[i].uid]
  BY DEF AsAsked
<1>1. ASSUME NEW x \in said PROVE x \in due
  <2>1. PICK i \in at : x = <<l[i].uid, ToIMAPFlags(l[i], marks)>>
    BY DEF Untouched, Flagged
  <2>2. x[1] \notin stirred /\ x[1] = l[i].uid
    BY <2>1 DEF Untouched
  <2>3. x = <<l[i].uid, e[l[i].uid]>> /\ l[i].uid \in asked
    BY <1>0, <2>1, <2>2
  <2> QED
    BY <2>2, <2>3 DEF Untouched
<1>2. ASSUME NEW x \in due PROVE x \in said
  <2>1. PICK u \in asked : x = <<u, e[u]>>
    BY DEF Untouched
  <2>2. PICK i \in at : u = l[i].uid
    BY <1>0
  <2>3. x[1] \notin stirred /\ x[1] = l[i].uid
    BY <2>1, <2>2 DEF Untouched
  <2>4. x = <<l[i].uid, ToIMAPFlags(l[i], marks)>>
    BY <1>0, <2>1, <2>2, <2>3
  <2> QED
    BY <2>3, <2>4 DEF Untouched, Flagged
<1> QED
  BY <1>1, <1>2 DEF Said, Due

-----------------------------------------------------------------------------
(* The invariant.                                                          *)

\* With nothing left to write, account and copy agree.
LEMMA NothingLeft ==
  ASSUME FlagInv, todo = <<>>, NEW i \in 1 .. Len(list), list[i].uid \notin stirred
  PROVE  /\ list[i].uid \in here /\ flags[list[i].uid] = list[i].copy
         /\ ToIMAPFlags(list[i], del) = expect[list[i].uid]
BY DEF FlagInv, Undisturbed, EndsWith

\* An empty list.
LEMMA FlagInvStart == StoreInit => FlagInv
<1> SUFFICES ASSUME StoreInit PROVE FlagInv
  OBVIOUS
<1>1. Len(list) = 0 /\ Len(todo) = 0 /\ list \in Seq(Copies) /\ todo \in Seq(Rounds)
  BY DEF StoreInit
<1>2. FlagTypes
  BY <1>1 DEF StoreInit, FlagTypes
<1>3. \A i \in 1 .. Len(list) : Undisturbed(i)
  BY <1>1
<1> QED
  BY <1>2, <1>3 DEF FlagInv, StoreInit

\* SELECT: the list is the mailbox.
LEMMA LoadFlags == FlagInv /\ LoadSelection => FlagInv'
<1> SUFFICES ASSUME FlagInv, LoadSelection PROVE FlagInv'
  OBVIOUS
<1> DEFINE o == InOrder(here)
           n == Cardinality(here)
           E(k) == [uid |-> o[k], copy |-> flags[o[k]]]
<1>0. FlagTypes /\ here \subseteq Inbox /\ flags \in [Inbox -> SUBSET ModelFlag]
  BY DEF FlagInv, FlagTypes
<1>1. here \in SUBSET Nat /\ IsFiniteSet(here)
  <2>1. here \in SUBSET Nat
    BY <1>0, InboxAssumption
  <2> QED
    BY <1>0, <2>1, InboxAssumption, FS_Subset
<1>2. Ascends(o, here) /\ Len(o) = n
  BY <1>1, InOrderAscends
<1>3. list' = [k \in 1 .. n |-> E(k)] /\ n \in Nat
  BY <1>1, FS_CardinalityType DEF LoadSelection
<1> HIDE DEF o, n
<1>4. /\ \A k \in 1 .. n : o[k] \in here
      /\ \A j, k \in 1 .. n : j < k => o[j] < o[k]
  BY <1>2, SeqEntry DEF Ascends
<1>5. \A k \in 1 .. n : E(k) \in Copies
  BY <1>0, <1>4 DEF Copies
<1>6. list' \in Seq(Copies) /\ Len(list') = n /\ \A k \in 1 .. n : list'[k] = E(k)
  BY <1>3, <1>5
<1>7. /\ todo = <<>> /\ todo' = todo /\ flags' = flags /\ here' = here /\ expect' = flags
      /\ del' = {} /\ stirred' = {} /\ reply'.said = reply'.due
  BY DEF LoadSelection
<1>8. FlagTypes'
  BY <1>0, <1>4, <1>6, <1>7 DEF FlagTypes
<1>9. ASSUME NEW i \in 1 .. Len(list') PROVE Undisturbed(i)'
  <2>1. list'[i] = E(i) /\ o[i] \in here
    BY <1>4, <1>6
  <2>2. list'[i].uid \in here' /\ expect'[list'[i].uid] = list'[i].copy
    BY <1>7, <2>1
  <2>3. ToIMAPFlags(list'[i], del') = list'[i].copy
    BY <1>7 DEF ToIMAPFlags
  <2>4. EndsWith(todo', list'[i].uid, flags'[list'[i].uid], list'[i].copy)
    BY <1>7, <2>1 DEF EndsWith
  <2> QED
    BY <2>2, <2>3, <2>4 DEF Undisturbed
<1> QED
  BY <1>7, <1>8, <1>9 DEF FlagInv

\* STORE.
LEMMA StoreFlags ==
  ASSUME FlagInv, NEW s \in NumSet, NEW op \in {"set", "add", "del"}, NEW fs, Store(s, op, fs)
  PROVE  FlagInv'
<1> DEFINE at == ForEach(s)
           off == Taken(op, fs)
           on == Given(op, fs)
           reached == {list[i].uid : i \in at}
           asks == fs \cap (ModelFlag \cup {"deleted"})
           N(i) == [list[i] EXCEPT !.copy = Kept(After(op, list[i].copy, fs))]
           L(i) == IF i \in at THEN N(i) ELSE list[i]
<1>0. FlagTypes /\ todo = <<>>
  BY DEF FlagInv, Store, Command
<1>1. at = Meant(s) /\ at \in SUBSET (1 .. Len(list))
  BY <1>0, ReachesMeant
<1>2. /\ Len(list) \in Nat /\ DOMAIN list = 1 .. Len(list)
      /\ \A i \in 1 .. Len(list) :
           /\ list[i] \in Copies /\ list[i].uid \in Inbox /\ list[i].uid \in Nat /\ list[i].uid > 0
           /\ list[i].copy \subseteq ModelFlag
      /\ \A i, j \in 1 .. Len(list) : list[i].uid = list[j].uid => i = j
  BY <1>0, ListFacts
<1>3. off \in SUBSET ModelFlag /\ on \in SUBSET ModelFlag
  BY WritesMakeCopy
<1>4. RoundsOf(EachInTurn(at, off, on), at, off, on)
  BY <1>0, <1>1, <1>3, Rounding, Zenon
<1>5. list' = [i \in 1 .. Len(list) |-> L(i)]
  BY <1>2 DEF Store
<1>6. /\ todo' = EachInTurn(at, off, on) /\ flags' = flags /\ here' = here /\ stirred' = stirred
      /\ del' = IF "deleted" \in fs /\ op # "del" THEN del \cup reached
                ELSE IF "deleted" \in fs \/ op = "set" THEN del \ reached ELSE del
  BY DEF Store
<1>7. expect' = [u \in Inbox |-> IF u \in reached THEN After(op, expect[u], asks) ELSE expect[u]]
  <2>1. expect' = [u \in Inbox |-> IF \E i \in Meant(s) : list[i].uid = u THEN After(op, expect[u], asks) ELSE expect[u]]
    BY DEF Store
  <2>2. \A u \in Inbox : (\E i \in Meant(s) : list[i].uid = u) <=> u \in reached
    BY <1>1
  <2> QED
    BY <2>1, <2>2
<1>8. reply' = [said |-> Untouched(Flagged({list'[i] : i \in at}, del')),
                due |-> Untouched({<<u, expect'[u]>> : u \in reached})]
  <2>1. reply' = [said |-> Untouched(Flagged({list'[i] : i \in at}, del')),
                  due |-> Untouched({<<u, expect'[u]>> : u \in {v \in Inbox : \E i \in Meant(s) : list[i].uid = v}})]
    BY DEF Store
  <2>2. {v \in Inbox : \E i \in Meant(s) : list[i].uid = v} = reached
    BY <1>1, <1>2
  <2> QED
    BY <2>1, <2>2
<1> HIDE DEF at, off, on
<1>9. ASSUME NEW i \in 1 .. Len(list)
      PROVE  /\ L(i) \in Copies /\ L(i).uid = list[i].uid
             /\ L(i).copy = IF i \in at THEN Kept(After(op, list[i].copy, fs)) ELSE list[i].copy
  <2>1. Kept(After(op, list[i].copy, fs)) \in SUBSET ModelFlag
    BY <1>2, WritesMakeCopy
  <2>2. list[i] \in [uid : Inbox, copy : SUBSET ModelFlag]
    BY <1>2 DEF Copies
  <2> QED
    BY <2>1, <2>2 DEF Copies
<1> HIDE DEF L
<1>10. /\ list' \in Seq(Copies) /\ Len(list') = Len(list)
       /\ \A i \in 1 .. Len(list) :
            /\ list'[i].uid = list[i].uid
            /\ list'[i].copy = IF i \in at THEN Kept(After(op, list[i].copy, fs)) ELSE list[i].copy
  BY <1>2, <1>5, <1>9
<1>11. \A i \in 1 .. Len(list) : list[i].uid \in reached <=> i \in at
  BY <1>1, <1>2
<1>12. ASSUME NEW i \in 1 .. Len(list), list[i].uid \notin stirred
       PROVE  ToIMAPFlags(list'[i], del') = expect'[list[i].uid]
  <2> DEFINE u == list[i].uid
             c == list[i].copy
             d == u \in del
  <2>1. u \in Inbox /\ c \in SUBSET ModelFlag
    BY <1>2
  <2>2. expect[u] = c \cup (IF d THEN {"deleted"} ELSE {})
    BY <1>0, <1>12, NothingLeft DEF ToIMAPFlags
  <2>3. ToIMAPFlags(list'[i], del') = list'[i].copy \cup (IF u \in del' THEN {"deleted"} ELSE {})
    BY <1>10 DEF ToIMAPFlags
  <2>4. CASE i \notin at
    <3>1. (u \in del' <=> d) /\ expect'[u] = expect[u] /\ list'[i].copy = c
      BY <1>6, <1>7, <1>10, <1>11, <2>1, <2>4
    <3> QED
      BY <2>2, <2>3, <3>1
  <2>5. CASE i \in at
    <3>1. u \in del' <=> (("deleted" \in fs /\ op # "del") \/ (d /\ "deleted" \notin fs /\ op # "set"))
      BY <1>6, <1>11, <2>5
    <3>2. expect'[u] = After(op, expect[u], asks) /\ list'[i].copy = Kept(After(op, c, fs))
      BY <1>7, <1>10, <1>11, <2>1, <2>5
    <3>3. Kept(After(op, c, fs)) \cup (IF u \in del' THEN {"deleted"} ELSE {})
            = After(op, c \cup (IF d THEN {"deleted"} ELSE {}), asks)
      <4>1. PICK e : e = IF u \in del' THEN {"deleted"} ELSE {}
        OBVIOUS
      <4>2. PICK b : b = IF d THEN {"deleted"} ELSE {}
        OBVIOUS
      <4>3. Remarked(op, fs, b, e)
        BY <3>1, <4>1, <4>2 DEF Remarked
      <4>4. Follows(op, fs, c, b, e)
        BY <2>1, <4>3, CopyAndMark, Zenon
      <4> QED
        BY <4>1, <4>2, <4>4 DEF Follows
    <3> QED
      BY <2>2, <2>3, <3>2, <3>3
  <2> QED
    BY <2>4, <2>5
<1>13. ASSUME NEW i \in 1 .. Len(list') PROVE Undisturbed(i)'
  <2> SUFFICES ASSUME list'[i].uid \notin stirred'
               PROVE  /\ list'[i].uid \in here'
                      /\ ToIMAPFlags(list'[i], del') = expect'[list'[i].uid]
                      /\ EndsWith(todo', list'[i].uid, flags'[list'[i].uid], list'[i].copy)
    BY DEF Undisturbed
  <2>1. i \in 1 .. Len(list) /\ list'[i].uid = list[i].uid /\ list[i].uid \notin stirred
    BY <1>6, <1>10
  <2>2. list[i].uid \in here /\ flags[list[i].uid] = list[i].copy
    BY <1>0, <2>1, NothingLeft
  <2>3. i \in at => (list[i].copy \ off) \cup on = list'[i].copy
    BY <1>2, <1>10, <2>1, WritesMakeCopy DEF off, on
  <2>4. i \notin at => list[i].copy = list'[i].copy
    BY <1>10, <2>1
  <2>5. EndsWith(EachInTurn(at, off, on), list[i].uid, list[i].copy, list'[i].copy)
    BY <1>0, <1>1, <1>3, <2>1, <2>3, <2>4, RoundsEnd
  <2> QED
    BY <1>6, <1>12, <2>1, <2>2, <2>5
<1>14. reply'.said = reply'.due
  <2>1. reached = {list'[i].uid : i \in at}
    BY <1>1, <1>10
  <2>2. \A i \in at : list'[i].uid \notin stirred => ToIMAPFlags(list'[i], del') = expect'[list'[i].uid]
    BY <1>1, <1>10, <1>12
  <2>3. Untouched(Flagged({list'[i] : i \in at}, del')) = Untouched({<<u, expect'[u]>> : u \in reached})
    <3>1. AsAsked(list', at, del', expect', reached)
      BY <2>1, <2>2 DEF AsAsked
    <3>2. Said(list', at, del') = Due(expect', reached)
      BY <3>1, AnswersAgree
    <3> QED
      BY <3>2 DEF Said, Due
  <2> QED
    BY <1>8, <2>3
<1>15. FlagTypes'
  <2>1. \A u \in Inbox : expect'[u] \in SUBSET (ModelFlag \cup {"deleted"})
    BY <1>0, <1>7 DEF After, FlagTypes
  <2>2. expect' \in [Inbox -> SUBSET (ModelFlag \cup {"deleted"})]
    BY <1>7, <2>1
  <2>3. todo' \in Seq(Rounds) /\ \A j, k \in 1 .. Len(todo') : j < k => todo'[j].uid # todo'[k].uid
    BY <1>4, <1>6 DEF RoundsOf
  <2>4. \A i, j \in 1 .. Len(list') : i < j => list'[i].uid < list'[j].uid
    BY <1>0, <1>10 DEF FlagTypes
  <2> QED
    BY <1>0, <1>6, <1>10, <2>2, <2>3, <2>4 DEF FlagTypes
<1> QED
  BY <1>13, <1>14, <1>15 DEF FlagInv

\* FETCH of bodies.
LEMMA FetchFlags ==
  ASSUME FlagInv, NEW s \in NumSet, NEW k, Fetch(s, k)
  PROVE  FlagInv'
<1> DEFINE at == {i \in ForEach(s) : Cardinality({j \in ForEach(s) : j <= i}) <= k}
           unseen == {i \in at : "seen" \notin list[i].copy}
           asked == {list[i].uid : i \in at}
           L(i) == IF i \in at THEN [list[i] EXCEPT !.copy = @ \cup {"seen"}] ELSE list[i]
<1>0. FlagTypes /\ todo = <<>>
  BY DEF FlagInv, Fetch, Command
<1>1. ForEach(s) = Meant(s) /\ at \in SUBSET (1 .. Len(list)) /\ unseen \in SUBSET (1 .. Len(list))
  BY <1>0, ReachesMeant
<1>2. /\ Len(list) \in Nat /\ DOMAIN list = 1 .. Len(list)
      /\ \A i \in 1 .. Len(list) :
           /\ list[i] \in Copies /\ list[i].uid \in Inbox /\ list[i].uid \in Nat /\ list[i].uid > 0
           /\ list[i].copy \subseteq ModelFlag
      /\ \A i, j \in 1 .. Len(list) : list[i].uid = list[j].uid => i = j
  BY <1>0, ListFacts
<1>3. {} \in SUBSET ModelFlag /\ {"seen"} \in SUBSET ModelFlag
  BY ModelFlagAssumption
<1>4. RoundsOf(EachInTurn(unseen, {}, {"seen"}), unseen, {}, {"seen"})
  BY <1>0, <1>1, <1>3, Rounding, Zenon
<1>5. list' = [i \in 1 .. Len(list) |-> L(i)]
  BY <1>2 DEF Fetch
<1>6. /\ todo' = EachInTurn(unseen, {}, {"seen"}) /\ flags' = flags /\ here' = here /\ stirred' = stirred
      /\ del' = del
  BY DEF Fetch
<1>7. {list[i].uid : i \in {j \in Meant(s) : Cardinality({l \in Meant(s) : l <= j}) <= k}} = asked
  BY <1>1
<1>8. /\ expect' = [u \in Inbox |-> IF u \in asked THEN expect[u] \cup {"seen"} ELSE expect[u]]
      /\ reply' = [said |-> Untouched(Flagged({list'[i] : i \in at}, del)),
                   due |-> Untouched({<<u, expect'[u]>> : u \in asked})]
  BY <1>7 DEF Fetch
<1> HIDE DEF at
<1>9. ASSUME NEW i \in 1 .. Len(list)
      PROVE  /\ L(i) \in Copies /\ L(i).uid = list[i].uid
             /\ L(i).copy = IF i \in at THEN list[i].copy \cup {"seen"} ELSE list[i].copy
  <2>1. list[i] \in [uid : Inbox, copy : SUBSET ModelFlag]
    BY <1>2 DEF Copies
  <2> QED
    BY <1>3, <2>1 DEF Copies
<1> HIDE DEF L
<1>10. /\ list' \in Seq(Copies) /\ Len(list') = Len(list)
       /\ \A i \in 1 .. Len(list) :
            /\ list'[i].uid = list[i].uid
            /\ list'[i].copy = IF i \in at THEN list[i].copy \cup {"seen"} ELSE list[i].copy
  <2>1. \A i \in 1 .. Len(list) : L(i) \in Copies
    BY <1>9
  <2>2. list' \in Seq(Copies) /\ Len(list') = Len(list) /\ \A i \in 1 .. Len(list) : list'[i] = L(i)
    BY <1>2, <1>5, <2>1
  <2> QED
    BY <1>9, <2>2
<1>11. \A i \in 1 .. Len(list) : list[i].uid \in asked <=> i \in at
  BY <1>1, <1>2
<1>12. ASSUME NEW i \in 1 .. Len(list), list[i].uid \notin stirred
       PROVE  ToIMAPFlags(list'[i], del') = expect'[list[i].uid]
  <2> DEFINE u == list[i].uid
             mark == IF u \in del THEN {"deleted"} ELSE {}
  <2>1. u \in Inbox
    BY <1>2
  <2>2. expect[u] = list[i].copy \cup mark
    BY <1>0, <1>12, NothingLeft DEF ToIMAPFlags
  <2>3. ToIMAPFlags(list'[i], del') = list'[i].copy \cup mark
    BY <1>6, <1>10 DEF ToIMAPFlags
  <2>4. expect'[u] = (IF i \in at THEN expect[u] \cup {"seen"} ELSE expect[u])
    BY <1>8, <1>11, <2>1
  <2>5. list'[i].copy = IF i \in at THEN list[i].copy \cup {"seen"} ELSE list[i].copy
    BY <1>10
  <2> HIDE DEF mark, u
  <2>6. ToIMAPFlags(list'[i], del') = expect'[u]
    BY <2>2, <2>3, <2>4, <2>5
  <2> QED
    BY <2>6 DEF u
<1>13. ASSUME NEW i \in 1 .. Len(list') PROVE Undisturbed(i)'
  <2> SUFFICES ASSUME list'[i].uid \notin stirred'
               PROVE  /\ list'[i].uid \in here'
                      /\ ToIMAPFlags(list'[i], del') = expect'[list'[i].uid]
                      /\ EndsWith(todo', list'[i].uid, flags'[list'[i].uid], list'[i].copy)
    BY DEF Undisturbed
  <2>1. i \in 1 .. Len(list) /\ list'[i].uid = list[i].uid /\ list[i].uid \notin stirred
    BY <1>6, <1>10
  <2>2. list[i].uid \in here /\ flags[list[i].uid] = list[i].copy
    BY <1>0, <2>1, NothingLeft
  <2>3. i \in unseen => (list[i].copy \ {}) \cup {"seen"} = list'[i].copy
    BY <1>10, <2>1
  <2>4. i \notin unseen => list[i].copy = list'[i].copy
    BY <1>10, <2>1
  <2>5. EndsWith(EachInTurn(unseen, {}, {"seen"}), list[i].uid, list[i].copy, list'[i].copy)
    <3> HIDE DEF unseen
    <3> QED
      BY <1>0, <1>1, <1>3, <2>1, <2>3, <2>4, RoundsEnd, Zenon
  <2> QED
    BY <1>6, <1>12, <2>1, <2>2, <2>5
<1>14. reply'.said = reply'.due
  <2>1. asked = {list'[i].uid : i \in at}
    BY <1>1, <1>10
  <2>2. \A i \in at : list'[i].uid \notin stirred => ToIMAPFlags(list'[i], del') = expect'[list'[i].uid]
    BY <1>1, <1>10, <1>12
  <2>3. AsAsked(list', at, del', expect', asked)
    BY <2>1, <2>2 DEF AsAsked
  <2> HIDE DEF asked
  <2>4. Said(list', at, del') = Due(expect', asked)
    BY <2>3, AnswersAgree
  <2> QED
    BY <1>6, <1>8, <2>4 DEF Said, Due
<1>15. FlagTypes'
  <2>1. \A u \in Inbox : expect'[u] \in SUBSET (ModelFlag \cup {"deleted"})
    BY <1>0, <1>3, <1>8 DEF FlagTypes
  <2>2. expect' \in [Inbox -> SUBSET (ModelFlag \cup {"deleted"})]
    BY <1>8, <2>1
  <2>3. todo' \in Seq(Rounds) /\ \A i, j \in 1 .. Len(todo') : i < j => todo'[i].uid # todo'[j].uid
    BY <1>4, <1>6 DEF RoundsOf
  <2>4. \A i, j \in 1 .. Len(list') : i < j => list'[i].uid < list'[j].uid
    BY <1>0, <1>10 DEF FlagTypes
  <2> QED
    BY <1>0, <1>6, <1>10, <2>2, <2>3, <2>4 DEF FlagTypes
<1> QED
  BY <1>13, <1>14, <1>15 DEF FlagInv

\* SEARCH answers from the copies.
LEMMA SearchFlags ==
  ASSUME FlagInv, NEW s \in NumSet \ {[kind |-> "saved"]}, NEW f \in ModelFlag \cup {"deleted"},
         NEW has \in BOOLEAN, NEW save, Search(s, f, has, save)
  PROVE  FlagInv'
<1> DEFINE hits == {i \in DOMAIN list : Matches(i, s, f, has)}
           due == {i \in Meant(s) : (f \in expect[list[i].uid]) = has}
           Uids(S) == Untouched({<<list[i].uid>> : i \in S})
<1>0. FlagTypes /\ todo = <<>>
  BY DEF FlagInv, Search, Command
<1>1. UNCHANGED <<list, del, here, flags, todo, expect, stirred>>
  BY DEF Search
<1>2. reply' = [said |-> Uids(hits), due |-> Uids(IF 0 \in {s.r.start, s.r.stop} THEN hits ELSE due)]
  BY DEF Search
<1>3. ASSUME 0 \in {s.r.start, s.r.stop} PROVE reply'.said = reply'.due
  BY <1>2, <1>3
<1>4. ASSUME 0 \notin {s.r.start, s.r.stop} PROVE reply'.said = reply'.due
  <2>1. s.kind \in {"seq", "uid"} /\ s.r \in NumRange /\ s \in NumSet
    BY DEF NumSet
  <2>2. s.r.start \in Nat /\ s.r.stop \in Nat /\ s.r.start <= s.r.stop /\ s.r.start > 0
    BY <1>4, <2>1, MaxNumAssumption DEF NumRange
  <2>3. Min({s.r.start, s.r.stop}) = s.r.start /\ Max({s.r.start, s.r.stop}) = s.r.stop
    BY <2>2, MinMaxOfTwo
  <2>4. Meant(s) = {i \in DOMAIN list : NumOf(s.kind, i) \in s.r.start .. s.r.stop}
    BY <1>4, <2>1, <2>3 DEF Meant
  <2>5. ASSUME NEW i \in DOMAIN list PROVE InRange(s.r, NumOf(s.kind, i)) <=> i \in Meant(s)
    <3>1. NumOf(s.kind, i) \in Nat
      BY <1>0, ListFacts DEF NumOf
    <3> QED
      BY <2>2, <2>4, <3>1 DEF InRange
  <2>6. ASSUME NEW i \in DOMAIN list, list[i].uid \notin stirred PROVE i \in hits <=> i \in due
    <3>1. i \in 1 .. Len(list)
      BY <1>0, ListFacts
    <3>2. expect[list[i].uid] = list[i].copy \cup (IF list[i].uid \in del THEN {"deleted"} ELSE {})
      BY <1>0, <2>6, <3>1, NothingLeft DEF ToIMAPFlags
    <3>3. list[i].copy \subseteq ModelFlag
      BY <1>0, <3>1, ListFacts
    <3>4. HasIMAPFlag(list[i], f) <=> f \in expect[list[i].uid]
      BY <3>2, <3>3, ModelFlagAssumption DEF HasIMAPFlag
    <3>5. HasIMAPFlag(list[i], f) = (f \in expect[list[i].uid])
      BY <3>4 DEF HasIMAPFlag
    <3>6. Matches(i, s, f, has) <=> i \in Meant(s) /\ (f \in expect[list[i].uid]) = has
      BY <2>5, <3>5 DEF Matches
    <3> QED
      BY <3>6
  <2>7. Meant(s) \subseteq DOMAIN list
    BY <2>4
  <2> HIDE DEF hits, due
  <2>8. hits \subseteq DOMAIN list /\ due \subseteq DOMAIN list
    BY <2>7 DEF hits, due
  <2>9. Uids(hits) = Uids(due)
    <3>1. ASSUME NEW x \in Uids(hits) PROVE x \in Uids(due)
      <4>1. PICK i \in hits : x = <<list[i].uid>>
        BY DEF Untouched
      <4>2. x[1] = list[i].uid /\ x[1] \notin stirred
        BY <4>1 DEF Untouched
      <4>3. i \in due
        BY <2>6, <2>8, <4>2
      <4> QED
        BY <4>1, <4>2, <4>3 DEF Untouched
    <3>2. ASSUME NEW x \in Uids(due) PROVE x \in Uids(hits)
      <4>1. PICK i \in due : x = <<list[i].uid>>
        BY DEF Untouched
      <4>2. x[1] = list[i].uid /\ x[1] \notin stirred
        BY <4>1 DEF Untouched
      <4>3. i \in hits
        BY <2>6, <2>8, <4>2
      <4> QED
        BY <4>1, <4>2, <4>3 DEF Untouched
    <3> QED
      BY <3>1, <3>2
  <2> QED
    BY <1>2, <1>4, <2>9
<1>5. reply'.said = reply'.due
  BY <1>3, <1>4
<1> QED
  BY <1>1, <1>5 DEF FlagInv, FlagTypes, Undisturbed, ToIMAPFlags

\* What is left after a flag f of the first round: the round is shorter or gone, and
\* where the flag was written the end stays the same.
LEMMA WithoutFacts ==
  ASSUME FlagTypes, todo # <<>>, NEW f \in Upcoming
  PROVE  /\ Without(f) \in Seq(Rounds)
         /\ \A j, k \in 1 .. Len(Without(f)) : j < k => Without(f)[j].uid # Without(f)[k].uid
         /\ Head(todo).uid \in Inbox
         /\ \A u, had, fs : u # Head(todo).uid /\ EndsWith(todo, u, had, fs) => EndsWith(Without(f), u, had, fs)
         /\ \A had, fs : EndsWith(todo, Head(todo).uid, had, fs)
              => EndsWith(Without(f), Head(todo).uid, SetFlag(had, f, Head(todo).off = {}), fs)
<1> DEFINE h == todo[1]
           rest == IF h.off # {} THEN [h EXCEPT !.off = @ \ {f}] ELSE [h EXCEPT !.on = @ \ {f}]
           n == Len(todo)
<1>1. n \in Nat /\ n >= 1 /\ Head(todo) = h /\ \A k \in 1 .. n : todo[k] \in Rounds
  BY SeqEntry DEF FlagTypes
<1>2. h \in Rounds
  BY <1>1
<1>3. f \in ModelFlag /\ f \in (IF h.off # {} THEN h.off ELSE h.on)
  BY <1>1, <1>2 DEF Upcoming, Rounds
<1>4. /\ rest \in Rounds /\ rest.uid = h.uid
      /\ rest.off = h.off \ {f} \/ h.off = {}
      /\ h.off # {} => rest.off = h.off \ {f} /\ rest.on = h.on
      /\ h.off = {} => rest.off = {} /\ rest.on = h.on \ {f}
  BY <1>2, <1>3 DEF Rounds
<1>5. ASSUME NEW had, NEW fs, (had \ h.off) \cup h.on = fs
      PROVE  (SetFlag(had, f, h.off = {}) \ rest.off) \cup rest.on = fs
  <2>1. CASE h.off # {}
    <3>1. SetFlag(had, f, h.off = {}) = had \ {f}
      BY <2>1 DEF SetFlag
    <3> QED
      BY <1>3, <1>4, <1>5, <2>1, <3>1
  <2>2. CASE h.off = {}
    <3>1. SetFlag(had, f, h.off = {}) = had \cup {f}
      BY <2>2 DEF SetFlag
    <3> QED
      BY <1>3, <1>4, <1>5, <2>2, <3>1
  <2> QED
    BY <2>1, <2>2
<1>6. Without(f) = IF rest.off \cup rest.on = {} THEN Tail(todo) ELSE [todo EXCEPT ![1] = rest]
  BY <1>1 DEF Without
<1>7. Head(todo).uid \in Inbox /\ h.uid \in Inbox
  BY <1>1, <1>2 DEF Rounds
<1> HIDE DEF rest, n, h
<1>8. CASE rest.off \cup rest.on = {}
  <2> DEFINE t == Tail(todo)
  <2>1. /\ t = Without(f) /\ t \in Seq(Rounds) /\ Len(t) = n - 1
        /\ \A k \in 1 .. Len(t) : k + 1 \in 1 .. n /\ t[k] = todo[k + 1]
    BY <1>1, <1>6, <1>8 DEF FlagTypes, n
  <2> HIDE DEF t
  <2>2. ASSUME NEW j \in 1 .. Len(t), NEW k \in 1 .. Len(t), j < k PROVE t[j].uid # t[k].uid
    <3>1. j + 1 \in 1 .. n /\ k + 1 \in 1 .. n /\ j + 1 < k + 1
      BY <1>1, <2>1, <2>2
    <3>2. todo[j + 1].uid # todo[k + 1].uid
      BY <3>1 DEF FlagTypes, n
    <3> QED
      BY <2>1, <3>2
  <2>3. ASSUME NEW k \in 1 .. Len(t) PROVE t[k].uid # h.uid
    <3>1. 1 \in 1 .. n /\ k + 1 \in 1 .. n /\ 1 < k + 1
      BY <1>1, <2>1
    <3>2. todo[1].uid # todo[k + 1].uid
      BY <3>1 DEF FlagTypes, n
    <3> QED
      BY <2>1, <3>2 DEF h
  <2>4. ASSUME NEW k \in 1 .. n, k # 1 PROVE k - 1 \in 1 .. Len(t) /\ t[k - 1] = todo[k]
    <3>1. k - 1 \in 1 .. Len(t) /\ (k - 1) + 1 = k
      BY <1>1, <2>1, <2>4
    <3> QED
      BY <2>1, <3>1
  <2>5. ASSUME NEW u, NEW had, NEW fs, u # h.uid, EndsWith(todo, u, had, fs) PROVE EndsWith(t, u, had, fs)
    <3>1. \A k \in 1 .. Len(t) : t[k].uid = u => (had \ t[k].off) \cup t[k].on = fs
      BY <2>1, <2>5 DEF EndsWith, n
    <3>2. ASSUME \A k \in 1 .. Len(t) : t[k].uid # u PROVE had = fs
      <4>1. ASSUME NEW k \in 1 .. n PROVE todo[k].uid # u
        BY <2>4, <2>5, <3>2 DEF h
      <4> QED
        BY <2>5, <4>1 DEF EndsWith, n
    <3> QED
      BY <3>1, <3>2 DEF EndsWith
  <2>6. ASSUME NEW had, NEW fs, EndsWith(todo, h.uid, had, fs)
        PROVE  EndsWith(t, h.uid, SetFlag(had, f, h.off = {}), fs)
    <3>1. (had \ h.off) \cup h.on = fs
      BY <1>1, <2>6 DEF EndsWith, n, h
    <3>2. (SetFlag(had, f, h.off = {}) \ rest.off) \cup rest.on = fs
      BY <1>5, <3>1
    <3>3. rest.off = {} /\ rest.on = {}
      BY <1>8
    <3>4. SetFlag(had, f, h.off = {}) = fs
      BY <3>2, <3>3
    <3> QED
      BY <2>3, <3>4 DEF EndsWith
  <2> QED
    BY <1>1, <1>7, <2>1, <2>2, <2>5, <2>6
<1>9. CASE rest.off \cup rest.on # {}
  <2> DEFINE t == [todo EXCEPT ![1] = rest]
  <2>1. /\ t = Without(f) /\ t \in Seq(Rounds) /\ Len(t) = n
        /\ \A k \in 1 .. n : t[k] = IF k = 1 THEN rest ELSE todo[k]
    BY <1>1, <1>4, <1>6, <1>9 DEF FlagTypes, n
  <2> HIDE DEF t
  <2>2. \A k \in 1 .. n : t[k].uid = todo[k].uid
    BY <1>4, <2>1 DEF h
  <2>3. \A j, k \in 1 .. n : j < k => t[j].uid # t[k].uid
    BY <2>2 DEF FlagTypes, n
  <2>4. ASSUME NEW u, NEW had, NEW fs, u # h.uid, EndsWith(todo, u, had, fs) PROVE EndsWith(t, u, had, fs)
    <3>1. \A k \in 1 .. n : t[k].uid = u => t[k] = todo[k]
      BY <1>4, <2>1, <2>4
    <3> QED
      BY <2>1, <2>2, <2>4, <3>1 DEF EndsWith, n
  <2>5. ASSUME NEW had, NEW fs, EndsWith(todo, h.uid, had, fs)
        PROVE  EndsWith(t, h.uid, SetFlag(had, f, h.off = {}), fs)
    <3>1. (had \ h.off) \cup h.on = fs
      BY <1>1, <2>5 DEF EndsWith, n, h
    <3>2. (SetFlag(had, f, h.off = {}) \ rest.off) \cup rest.on = fs
      BY <1>5, <3>1
    <3>3. ASSUME NEW k \in 1 .. n, t[k].uid = h.uid PROVE k = 1 /\ t[k] = rest
      <4>1. k = 1 \/ 1 < k
        BY <1>1
      <4>2. 1 < k => todo[1].uid # todo[k].uid
        BY <1>1 DEF FlagTypes, n
      <4>3. k = 1
        BY <2>2, <3>3, <4>1, <4>2 DEF h
      <4> QED
        BY <2>1, <4>3
    <3>4. 1 \in 1 .. n /\ t[1].uid = h.uid
      BY <1>1, <1>4, <2>1
    <3> QED
      BY <2>1, <3>2, <3>3, <3>4 DEF EndsWith
  <2> QED
    BY <1>1, <1>7, <2>1, <2>3, <2>4, <2>5
<1> QED
  BY <1>8, <1>9

\* One SetFlag of the command.
LEMMA WriteFlags ==
  ASSUME FlagInv, todo # <<>>, NEW f \in Upcoming, Write(f) \/ WriteFails(f)
  PROVE  FlagInv'
<1> DEFINE u == Head(todo).uid
<1>0. FlagTypes
  BY DEF FlagInv
<1>1. /\ Without(f) \in Seq(Rounds)
      /\ \A j, k \in 1 .. Len(Without(f)) : j < k => Without(f)[j].uid # Without(f)[k].uid
      /\ Head(todo).uid \in Inbox
      /\ \A v, had, fs : v # Head(todo).uid /\ EndsWith(todo, v, had, fs) => EndsWith(Without(f), v, had, fs)
      /\ \A had, fs : EndsWith(todo, Head(todo).uid, had, fs)
           => EndsWith(Without(f), Head(todo).uid, SetFlag(had, f, Head(todo).off = {}), fs)
  BY <1>0, WithoutFacts
<1>2. f \in ModelFlag
  <2>1. Head(todo) \in Rounds
    BY <1>0, SeqEntry DEF FlagTypes
  <2> QED
    BY <2>1 DEF Upcoming, Rounds
<1>3. todo' = Without(f) /\ UNCHANGED <<list, del, here, expect, reply>>
  BY DEF Write, WriteFails
<1>4. /\ flags' \in [Inbox -> SUBSET ModelFlag]
      /\ \A v \in Inbox : v # u => flags'[v] = flags[v]
  <2>1. flags \in [Inbox -> SUBSET ModelFlag]
    BY <1>0 DEF FlagTypes
  <2>2. CASE Write(f)
    <3>1. flags' = IF u \in here THEN [flags EXCEPT ![u] = SetFlag(@, f, Head(todo).off = {})] ELSE flags
      BY <2>2 DEF Write
    <3>2. SetFlag(flags[u], f, Head(todo).off = {}) \in SUBSET ModelFlag
      BY <1>1, <1>2, <2>1 DEF SetFlag
    <3> QED
      BY <1>1, <2>1, <3>1, <3>2
  <2>3. CASE WriteFails(f)
    BY <2>1, <2>3 DEF WriteFails
  <2> QED
    BY <2>2, <2>3
<1>5. FlagTypes'
  BY <1>0, <1>1, <1>3, <1>4 DEF FlagTypes
<1>6. ASSUME NEW i \in 1 .. Len(list), list[i].uid \notin stirred'
      PROVE  /\ list[i].uid \in here /\ ToIMAPFlags(list[i], del) = expect[list[i].uid]
             /\ EndsWith(todo', list[i].uid, flags'[list[i].uid], list[i].copy)
  <2>1. list[i].uid \notin stirred
    BY <1>6 DEF Write, WriteFails
  <2>2. /\ list[i].uid \in here /\ ToIMAPFlags(list[i], del) = expect[list[i].uid]
        /\ EndsWith(todo, list[i].uid, flags[list[i].uid], list[i].copy)
    BY <2>1 DEF FlagInv, Undisturbed
  <2>3. list[i].uid \in Inbox
    BY <1>0, ListFacts
  <2>4. CASE list[i].uid # u
    BY <1>1, <1>3, <1>4, <2>2, <2>3, <2>4
  <2>5. CASE list[i].uid = u
    <3>1. Write(f)
      BY <1>6, <2>5 DEF WriteFails
    <3>2. flags'[u] = SetFlag(flags[u], f, Head(todo).off = {})
      BY <1>0, <1>1, <2>2, <2>5, <3>1 DEF Write, FlagTypes
    <3> QED
      BY <1>1, <1>3, <2>2, <2>5, <3>2
  <2> QED
    BY <2>2, <2>4, <2>5
<1>7. \A i \in 1 .. Len(list') : Undisturbed(i)'
  BY <1>3, <1>6 DEF Undisturbed, ToIMAPFlags
<1> QED
  BY <1>3, <1>5, <1>7 DEF FlagInv

\* Others write to a message, or expunge it.
LEMMA OthersFlags ==
  ASSUME FlagInv, NEW u \in Inbox,
         OtherExpunge(u) \/ \E f \in ModelFlag, on \in BOOLEAN : OtherSetFlag(u, f, on)
  PROVE  FlagInv'
<1>0. FlagTypes
  BY DEF FlagInv
<1>1. UNCHANGED <<list, del, todo, expect, reply>> /\ stirred' = stirred \cup {u} /\ here \ {u} \subseteq here' /\ here' \subseteq here
  BY DEF OtherExpunge, OtherSetFlag, store
<1>2. /\ flags' \in [Inbox -> SUBSET ModelFlag]
      /\ \A v \in Inbox : v # u => flags'[v] = flags[v]
  <2>1. flags \in [Inbox -> SUBSET ModelFlag]
    BY <1>0 DEF FlagTypes
  <2>2. CASE OtherExpunge(u)
    BY <2>1, <2>2 DEF OtherExpunge
  <2>3. ASSUME NEW f \in ModelFlag, NEW on \in BOOLEAN, OtherSetFlag(u, f, on)
        PROVE  flags' \in [Inbox -> SUBSET ModelFlag] /\ \A v \in Inbox : v # u => flags'[v] = flags[v]
    <3>1. SetFlag(flags[u], f, on) \in SUBSET ModelFlag
      BY <2>1 DEF SetFlag
    <3> QED
      BY <2>1, <2>3, <3>1 DEF OtherSetFlag
  <2> QED
    BY <2>2, <2>3
<1>3. FlagTypes'
  BY <1>0, <1>1, <1>2 DEF FlagTypes
<1>4. ASSUME NEW i \in 1 .. Len(list'), list'[i].uid \notin stirred'
      PROVE  /\ list'[i].uid \in here' /\ ToIMAPFlags(list'[i], del') = expect'[list'[i].uid]
             /\ EndsWith(todo', list'[i].uid, flags'[list'[i].uid], list'[i].copy)
  <2>1. i \in 1 .. Len(list) /\ list[i].uid \in Inbox /\ list[i].uid # u /\ list[i].uid \notin stirred
    BY <1>0, <1>1, <1>4, ListFacts
  <2>2. /\ list[i].uid \in here /\ ToIMAPFlags(list[i], del) = expect[list[i].uid]
        /\ EndsWith(todo, list[i].uid, flags[list[i].uid], list[i].copy)
    BY <2>1 DEF FlagInv, Undisturbed
  <2> QED
    BY <1>1, <1>2, <2>1, <2>2
<1>5. \A i \in 1 .. Len(list') : Undisturbed(i)'
  BY <1>4 DEF Undisturbed
<1> QED
  BY <1>1, <1>3, <1>5 DEF FlagInv

\* Every step keeps the invariant.
LEMMA FlagStep == FlagInv /\ [StoreNext]_storeVars => FlagInv'
<1> SUFFICES ASSUME FlagInv, [StoreNext]_storeVars PROVE FlagInv'
  OBVIOUS
<1>1. CASE LoadSelection
  BY <1>1, LoadFlags
<1>2. CASE todo # <<>> /\ \E f \in Upcoming : Write(f) \/ WriteFails(f)
  BY <1>2, WriteFlags
<1>3. CASE \E s \in NumSet, op \in {"set", "add", "del"}, fs \in Wanted : Store(s, op, fs)
  <2>1. PICK s \in NumSet, op \in {"set", "add", "del"}, fs \in Wanted : Store(s, op, fs)
    BY <1>3
  <2> QED
    BY <2>1, StoreFlags, Zenon
<1>4. CASE \E s \in NumSet : \E k \in 0 .. Cardinality(ForEach(s)) : Fetch(s, k)
  <2>1. PICK s \in NumSet : \E k \in 0 .. Cardinality(ForEach(s)) : Fetch(s, k)
    BY <1>4
  <2>2. PICK k : Fetch(s, k)
    BY <2>1
  <2> QED
    BY <2>2, FetchFlags
<1>5. CASE \E s \in NumSet \ {[kind |-> "saved"]}, f \in ModelFlag \cup {"deleted"}, has, save \in BOOLEAN : Search(s, f, has, save)
  BY <1>5, SearchFlags
<1>6. CASE \E u \in Inbox, f \in ModelFlag, on \in BOOLEAN : OtherSetFlag(u, f, on)
  BY <1>6, OthersFlags
<1>7. CASE \E u \in Inbox : OtherExpunge(u)
  BY <1>7, OthersFlags
<1>8. CASE UNCHANGED storeVars
  BY <1>8 DEF storeVars, store, FlagInv, FlagTypes, Undisturbed, ToIMAPFlags
<1> QED
  BY <1>1, <1>2, <1>3, <1>4, <1>5, <1>6, <1>7, <1>8 DEF StoreNext

\* The inductive invariant of message sets and flags: for a message that nobody else wrote
\* to, the copy and mark of the session are what the client's commands asked for, and the
\* writes that are still to come make the account's flags the same; the last answer was
\* the one due.
THEOREM FlagInvariant == StoreSpec => []FlagInv
<1>1. StoreInit => FlagInv
  BY FlagInvStart
<1>2. FlagInv /\ [StoreNext]_storeVars => FlagInv'
  BY FlagStep
<1> QED
  BY <1>1, <1>2, PTL DEF StoreSpec

\* STORE, FETCH and SEARCH do what their message sets mean, for every mailbox, flag
\* vocabulary and number of commands, with the writes of others in between.
THEOREM FlagsAreAsAsked == StoreSpec => []FlagsAsAsked
<1>1. FlagInv => FlagsAsAsked
  <2> SUFFICES ASSUME FlagInv PROVE FlagsAsAsked
    OBVIOUS
  <2>1. FlagTypes /\ reply.said = reply.due
    BY DEF FlagInv
  <2>2. DOMAIN list = 1 .. Len(list)
    BY <2>1, ListFacts
  <2> QED
    BY <2>1, <2>2, NothingLeft DEF FlagsAsAsked
<1> QED
  BY <1>1, FlagInvariant, PTL
=============================================================================
