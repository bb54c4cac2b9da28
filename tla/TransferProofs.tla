--------------------------- MODULE TransferProofs ---------------------------
(***************************************************************************)
(* What becomes of accepted mail, for any accounts, messages, plans and    *)
(* number of faults.  The bags of the model come first; then the inductive *)
(* invariant: what is stored and queued is genuine (Shape), a transaction  *)
(* has served everyone it has crossed off (Transactions), and a submission *)
(* has accounted for every domain it has crossed off (Crossed).            *)
(***************************************************************************)
EXTENDS Transfer, Integers, FiniteSetTheorems, TLAPS

\* Adding an element to a bag makes it a member and keeps the others.
LEMMA PlusBag ==
  ASSUME NEW b, NEW x, IsABag(b)
  PROVE  /\ IsABag(Plus(b, x)) /\ DOMAIN Plus(b, x) = DOMAIN b \cup {x}
         /\ \A e \in DOMAIN b : e # x => Plus(b, x)[e] = b[e]
         /\ x \notin DOMAIN b => Plus(b, x)[x] = 1
         /\ x \in DOMAIN b => Plus(b, x)[x] = b[x] + 1
<1> DEFINE one == SetToBag({x})
<1>1. DOMAIN one = {x} /\ one[x] = 1
  BY DEF SetToBag
<1>2. Plus(b, x) = [e \in DOMAIN b \cup DOMAIN one |->
        (IF e \in DOMAIN b THEN b[e] ELSE 0) + (IF e \in DOMAIN one THEN one[e] ELSE 0)]
  BY DEF Plus, (+)
<1>3. \A e \in DOMAIN b : b[e] \in Nat /\ b[e] > 0
  BY DEF IsABag
<1> HIDE DEF one
<1>4. DOMAIN Plus(b, x) = DOMAIN b \cup {x}
  BY <1>1, <1>2
<1>5. \A e \in DOMAIN b : e # x => Plus(b, x)[e] = b[e]
  BY <1>1, <1>2, <1>3
<1>6. x \notin DOMAIN b => Plus(b, x)[x] = 1
  BY <1>1, <1>2
<1>7. x \in DOMAIN b => Plus(b, x)[x] = b[x] + 1
  BY <1>1, <1>2
<1>8. \A e \in DOMAIN b \cup {x} : Plus(b, x)[e] \in {n \in Nat : n > 0}
  BY <1>3, <1>5, <1>6, <1>7
<1> QED
  BY <1>2, <1>4, <1>5, <1>6, <1>7, <1>8 DEF IsABag

\* Removing one copy of an element leaves a bag with all the others.
LEMMA MinusBag ==
  ASSUME NEW b, NEW x, IsABag(b)
  PROVE  /\ IsABag(Minus(b, x)) /\ DOMAIN Minus(b, x) \subseteq DOMAIN b
         /\ DOMAIN b \subseteq DOMAIN Minus(b, x) \cup {x}
<1> DEFINE one == SetToBag({x})
           less == [e \in DOMAIN b |-> IF e \in DOMAIN one THEN b[e] - one[e] ELSE b[e]]
           kept == {d \in DOMAIN less : less[d] > 0}
<1>1. DOMAIN one = {x} /\ one[x] = 1
  BY DEF SetToBag
<1>2. Minus(b, x) = [e \in kept |-> less[e]]
  BY DEF Minus, (-)
<1>3. \A e \in DOMAIN b : b[e] \in Nat /\ b[e] > 0
  BY DEF IsABag
<1> HIDE DEF one
<1>4. \A e \in DOMAIN b : less[e] \in Int /\ (e # x => less[e] = b[e])
  BY <1>1, <1>3
<1>5. DOMAIN less = DOMAIN b
  OBVIOUS
<1> HIDE DEF less
<1>6. DOMAIN Minus(b, x) = kept /\ \A e \in kept : Minus(b, x)[e] = less[e]
  BY <1>2
<1>7. \A e \in kept : less[e] \in Nat /\ less[e] > 0
  BY <1>4, <1>5
<1>8. IsABag(Minus(b, x))
  BY <1>2, <1>6, <1>7 DEF IsABag
<1> QED
  BY <1>3, <1>4, <1>5, <1>6, <1>8

-----------------------------------------------------------------------------
(* The inductive invariant.                                                *)

Letters == {Person(m) : m \in Mail}
Replies == {msg \in Messages : msg.kind = "reply" /\ msg.depth = 1 /\ msg.from \in Acct}
Notices == {msg \in Messages : msg.kind = "dsn" /\ msg.depth \in 1 .. 2}
Queued == [msg : {Person(m) : m \in Submitted} \cup Replies, rcpts : SUBSET Addr]
Filing == [msg : Letters \cup Replies \cup Notices, label : {"inbox", "sent", "junk"}]
Origin == Inbound \cup {"sched"}

\* What is queued was submitted or answers a letter, what is stored is one of these or
\* a notice.
Shape ==
  /\ sub \in [Submitted -> [at : {"new", "store", "fan", "acked", "refused"}, left : SUBSET {"here", "elsewhere"}]]
  /\ conn \in [Origin -> [msg : Letters \cup Replies \cup {NoMsg}, left : SUBSET Acct, at : Acct \cup {Nobody},
                           label : {"inbox", "junk"}, junk : BOOLEAN, code : {"none", "2xx", "4xx", "5xx"}]]
  /\ outside \in [Inbound -> {"new", "accepted", "bounced"}]
  /\ IsABag(queue) /\ DOMAIN queue \subseteq Queued
  /\ IsABag(failed) /\ DOMAIN failed \subseteq Queued
  /\ item \in Queued \cup {NoItem}
  /\ box = [a \in Acct |-> box[a]]
  /\ \A a \in Acct : IsABag(box[a]) /\ DOMAIN box[a] \subseteq Filing

\* Those a transaction is for.
Meant(o) == IF o = "sched" THEN item.rcpts ELSE To[o]

\* The transaction of o carries its own message and has served those it has crossed off.
Transaction(o) ==
  /\ conn[o].msg = IF o = "sched" THEN item.msg ELSE IF conn[o].msg = NoMsg THEN NoMsg ELSE Person(o)
  /\ conn[o].msg = NoMsg => conn[o] = Idle
  /\ conn[o].at # Nobody => conn[o].at \in conn[o].left
  /\ conn[o].left # {} => conn[o].code = "none"
  /\ \A m \in Mail : conn[o].msg = Person(m) => \A r \in Meant(o) :
       \/ conn[o].code = "none" /\ r \in conn[o].left
       \/ conn[o].code \in {"4xx", "5xx"}
       \/ Delivered(m, r)
Transactions == \A o \in Origin : Transaction(o)

Accounted(m, r) ==
  \/ Delivered(m, r) \/ Reported(m, r)
  \/ Carries(BagToSet(queue) \cup BagToSet(failed) \cup silent, m, r)

\* A submission has accounted for the recipients whose domain it has crossed off.
Crossed ==
  \A m \in Submitted : \A r \in To[m] :
    (sub[m].at = "acked" \/ (sub[m].at = "fan" /\ Domain(r) \notin sub[m].left)) => Accounted(m, r)

TransferInv == Shape /\ Transactions /\ Crossed /\ AcceptedIsDelivered /\ OnceEach

-----------------------------------------------------------------------------
(* What never goes away.                                                   *)

Grown ==
  /\ \A a \in Acct : DOMAIN box[a] \subseteq DOMAIN box'[a]
  /\ remote \subseteq remote'

\* The people's messages are told apart by their root.
LEMMA PersonFacts ==
  /\ \A m \in Mail : /\ Person(m) \in Messages /\ Person(m).kind = "mail" /\ Person(m).root = m
                     /\ Person(m).from = From[m] /\ Person(m).depth = 0 /\ Person(m) # NoMsg
  /\ Submitted \subseteq Mail /\ Inbound \subseteq Mail /\ "sched" \notin Inbound
  /\ \A m \in Submitted : From[m] \in Acct
  /\ \A m \in Mail : To[m] \subseteq Addr
BY AddrAssumption, MailAssumption DEF Person, Messages, Addr, NoMsg, Submitted, Inbound

\* Mail that is delivered or reported stays so as accounts grow.
LEMMA StaysDelivered ==
  ASSUME Grown
  PROVE  /\ \A m \in Mail : \A r \in Addr : Delivered(m, r) => Delivered(m, r)'
         /\ \A m \in Submitted : \A r \in Addr : Reported(m, r) => Reported(m, r)'
<1>1. ASSUME NEW m \in Mail, NEW r \in Addr, Delivered(m, r)
      PROVE  Delivered(m, r)'
  <2>1. CASE r = Out
    BY <1>1, <2>1 DEF Delivered, Grown
  <2>2. CASE r # Out
    <3>1. r \in Acct /\ \E x \in DOMAIN box[r] : x.msg = Person(m)
      BY <1>1, <2>2 DEF Delivered, Copies, BagToSet
    <3>2. \E x \in DOMAIN box'[r] : x.msg = Person(m)
      BY <3>1 DEF Grown
    <3> QED
      BY <2>2, <3>1, <3>2 DEF Delivered, Copies, BagToSet
  <2> QED
    BY <2>1, <2>2
<1>2. ASSUME NEW m \in Submitted, NEW r \in Addr, Reported(m, r)
      PROVE  Reported(m, r)'
  BY <1>2, PersonFacts DEF Reported, BagToSet, Grown
<1> QED
  BY <1>1, <1>2

\* Nothing that is accounted for gets lost while accounts grow and what is carried is
\* carried on.
LEMMA StaysAccounted ==
  ASSUME Grown, NEW m \in Submitted, NEW r \in To[m], Accounted(m, r),
         \A x \in DOMAIN queue \cup DOMAIN failed \cup silent :
           x.msg = Person(m) /\ r \in x.rcpts => Accounted(m, r)' \/ x \in (DOMAIN queue \cup DOMAIN failed \cup silent)'
  PROVE  Accounted(m, r)'
<1> m \in Mail /\ r \in Addr
  BY PersonFacts
<1>1. CASE Delivered(m, r) \/ Reported(m, r)
  BY <1>1, StaysDelivered DEF Accounted
<1>2. CASE Carries(BagToSet(queue) \cup BagToSet(failed) \cup silent, m, r)
  BY <1>2 DEF Accounted, Carries, BagToSet
<1> QED
  BY <1>1, <1>2 DEF Accounted

\* Ingest stores the message once, and stores it.
LEMMA FiledFacts ==
  ASSUME Shape, OnceEach, NEW a \in Acct, NEW msg \in Letters \cup Replies \cup Notices,
         NEW label \in {"inbox", "sent", "junk"}, box' = Filed(a, msg, label), remote' = remote
  PROVE  /\ Grown /\ OnceEach'
         /\ box' = [b \in Acct |-> box'[b]]
         /\ \A b \in Acct : IsABag(box'[b]) /\ DOMAIN box'[b] \subseteq Filing
         /\ \E x \in DOMAIN box'[a] : x.msg = msg
<1> DEFINE new == [msg |-> msg, label |-> label]
<1> new \in Filing /\ new.msg = msg
  BY DEF Filing
<1> HIDE DEF new
<1>s. /\ box = [b \in Acct |-> box[b]]
      /\ \A b \in Acct : IsABag(box[b]) /\ DOMAIN box[b] \subseteq Filing
  BY DEF Shape
<1>o. \A b \in Acct : \A x \in DOMAIN box[b] : x.msg.kind = "mail" =>
        box[b][x] = 1 /\ \A y \in DOMAIN box[b] : y.msg = x.msg => y = x
  BY DEF OnceEach, Copies, BagToSet
<1>t. SUFFICES
        /\ Grown
        /\ \A b \in Acct : \A x \in DOMAIN box'[b] : x.msg.kind = "mail" =>
             box'[b][x] = 1 /\ \A y \in DOMAIN box'[b] : y.msg = x.msg => y = x
        /\ box' = [b \in Acct |-> box'[b]]
        /\ \A b \in Acct : IsABag(box'[b]) /\ DOMAIN box'[b] \subseteq Filing
        /\ \E x \in DOMAIN box'[a] : x.msg = msg
  BY DEF OnceEach, Copies, BagToSet
<1>1. CASE msg.kind = "mail" /\ Copies(a, msg) # {}
  <2>1. box' = box
    BY <1>1 DEF Filed
  <2>2. \E x \in DOMAIN box[a] : x.msg = msg
    BY <1>1 DEF Copies, BagToSet
  <2> QED
    BY <1>s, <1>o, <2>1, <2>2 DEF Grown
<1>2. CASE ~(msg.kind = "mail" /\ Copies(a, msg) # {})
  <2>1. box' = [box EXCEPT ![a] = Plus(@, new)]
    BY <1>2 DEF Filed, new
  <2>2. box'[a] = Plus(box[a], new) /\ \A b \in Acct : b # a => box'[b] = box[b]
    BY <1>s, <2>1
  <2>3. box' = [b \in Acct |-> box'[b]]
    BY <1>s, <2>1
  <2>4. /\ IsABag(box'[a]) /\ DOMAIN box'[a] = DOMAIN box[a] \cup {new}
        /\ \A e \in DOMAIN box[a] : e # new => box'[a][e] = box[a][e]
        /\ new \notin DOMAIN box[a] => box'[a][new] = 1
    <3>1. IsABag(box[a])
      BY <1>s
    <3> DEFINE b == box[a]
    <3>2. /\ IsABag(Plus(b, new)) /\ DOMAIN Plus(b, new) = DOMAIN b \cup {new}
          /\ \A e \in DOMAIN b : e # new => Plus(b, new)[e] = b[e]
          /\ new \notin DOMAIN b => Plus(b, new)[new] = 1
      BY <3>1, PlusBag, Zenon
    <3> QED
      BY <2>2, <3>2
  <2>5. \A b \in Acct : IsABag(box'[b]) /\ DOMAIN box'[b] \subseteq Filing
    BY <1>s, <2>2, <2>4
  <2>6. Grown
    BY <2>2, <2>4 DEF Grown
  <2>7. msg.kind = "mail" => \A x \in DOMAIN box[a] : x.msg # msg
    BY <1>2 DEF Copies, BagToSet
  <2>8. ASSUME NEW b \in Acct, NEW x \in DOMAIN box'[b], x.msg.kind = "mail"
        PROVE  box'[b][x] = 1 /\ \A y \in DOMAIN box'[b] : y.msg = x.msg => y = x
    <3>1. CASE b # a
      BY <3>1, <2>2, <2>8, <1>o
    <3>2. CASE b = a /\ x = new
      BY <3>2, <2>4, <2>7, <2>8
    <3>3. CASE b = a /\ x # new
      <4>1. x \in DOMAIN box[a] /\ box'[a][x] = box[a][x]
        BY <3>3, <2>4
      <4>2. ASSUME NEW y \in DOMAIN box'[a], y.msg = x.msg PROVE y = x
        <5>1. CASE y = new
          BY <5>1, <4>1, <4>2, <2>7, <2>8
        <5>2. CASE y \in DOMAIN box[a]
          BY <5>2, <4>1, <4>2, <2>8, <1>o
        <5> QED
          BY <5>1, <5>2, <2>4
      <4> QED
        BY <3>3, <4>1, <4>2, <2>8, <1>o
    <3> QED
      BY <3>1, <3>2, <3>3
  <2>9. \E x \in DOMAIN box'[a] : x.msg = msg
    BY <2>4
  <2> QED
    BY <2>3, <2>5, <2>6, <2>8, <2>9
<1> QED
  BY <1>1, <1>2

\* A transaction that a step leaves alone stays right.
LEMMA TransactionKept ==
  ASSUME Shape, NEW o \in Origin, Transaction(o), Grown, conn'[o] = conn[o], o = "sched" => item' = item
  PROVE  Transaction(o)'
<1>1. Meant(o) \subseteq Addr
  BY PersonFacts DEF Shape, Queued, NoItem, Item, Meant, Origin
<1>2. Meant(o)' = Meant(o)
  BY DEF Meant
<1>3. \A m \in Mail : \A r \in Addr : Delivered(m, r) => Delivered(m, r)'
  BY StaysDelivered
<1>4. /\ conn'[o].msg = IF o = "sched" THEN item'.msg ELSE IF conn'[o].msg = NoMsg THEN NoMsg ELSE Person(o)
      /\ conn'[o].msg = NoMsg => conn'[o] = Idle
      /\ conn'[o].at # Nobody => conn'[o].at \in conn'[o].left
      /\ conn'[o].left # {} => conn'[o].code = "none"
  BY DEF Transaction
<1>5. ASSUME NEW m \in Mail, conn'[o].msg = Person(m), NEW r \in Meant(o)'
      PROVE  \/ conn'[o].code = "none" /\ r \in conn'[o].left
             \/ conn'[o].code \in {"4xx", "5xx"}
             \/ Delivered(m, r)'
  BY <1>1, <1>2, <1>3, <1>5 DEF Transaction
<1> QED
  BY <1>4, <1>5 DEF Transaction

\* The recipients of m that its submission has crossed off.
Off(m, r) == sub[m].at = "acked" \/ (sub[m].at = "fan" /\ Domain(r) \notin sub[m].left)

\* Recipients that were crossed off stay accounted for when nothing stops being carried.
LEMMA CrossedKept ==
  ASSUME Crossed, Grown,
         \A m \in Submitted : \A r \in To[m] : Off(m, r)' => Off(m, r) \/ Accounted(m, r)',
         DOMAIN queue \cup DOMAIN failed \cup silent \subseteq (DOMAIN queue \cup DOMAIN failed \cup silent)'
  PROVE  Crossed'
<1>1. ASSUME NEW m \in Submitted, NEW r \in To[m], Off(m, r)
      PROVE  Accounted(m, r)'
  <2>1. Accounted(m, r)
    BY <1>1 DEF Crossed, Off
  <2> QED
    BY <2>1, StaysAccounted
<1> QED
  BY <1>1 DEF Crossed, Off

\* What was accepted for others stays delivered.
LEMMA AcceptedKept ==
  ASSUME AcceptedIsDelivered, Grown, outside' = outside
  PROVE  AcceptedIsDelivered'
<1>1. ASSUME NEW m \in Inbound, outside[m] = "accepted", NEW r \in To[m]
      PROVE  Delivered(m, r)'
  BY <1>1, PersonFacts, StaysDelivered DEF AcceptedIsDelivered
<1> QED
  BY <1>1 DEF AcceptedIsDelivered

\* The gates and the copy for Sent, and a fan-out that fails: nothing is crossed off.
LEMMA SubmissionInv ==
  ASSUME TransferInv, NEW m \in Submitted,
         \/ \E ok \in BOOLEAN : SubmitGates(m, ok) \/ SubmitStore(m, ok) \/ WebStore(m, ok) \/ SendRawGates(m, ok)
         \/ FanOutFails(m)
  PROVE  TransferInv'
<1> USE PersonFacts DEF TransferInv
<1>1. /\ sub' \in [Submitted -> [at : {"new", "store", "fan", "acked", "refused"}, left : SUBSET {"here", "elsewhere"}]]
      /\ \A n \in Submitted : n # m => sub'[n] = sub[n]
      /\ sub'[m].at # "acked" /\ (sub'[m].at = "fan" => sub'[m].left = Domains(m))
  <2>1. \E w \in {"new", "store", "refused", "fan"}, l \in {{}, Domains(m)} : At(m, w, l) /\ (w = "fan" => l = Domains(m))
    BY DEF SubmitGates, SubmitStore, WebStore, SendRawGates, FanOutFails
  <2>2. Domains(m) \subseteq {"here", "elsewhere"}
    BY DEF Domains, Domain
  <2> QED
    BY <2>1, <2>2 DEF At, Shape
<1>2. UNCHANGED <<queue, conn, outside, item, failed, remote, silent>>
  BY DEF SubmitGates, SubmitStore, WebStore, SendRawGates, FanOutFails
<1>3. box' = box \/ box' = Filed(From[m], Person(m), "sent")
  BY DEF SubmitGates, SubmitStore, WebStore, SendRawGates, FanOutFails
<1>4. /\ Grown /\ OnceEach'
      /\ box' = [b \in Acct |-> box'[b]]
      /\ \A b \in Acct : IsABag(box'[b]) /\ DOMAIN box'[b] \subseteq Filing
  <2>1. CASE box' = box
    BY <1>2, <2>1 DEF Grown, OnceEach, Copies, Shape
  <2>2. CASE box' = Filed(From[m], Person(m), "sent")
    <3>1. Person(m) \in Letters /\ From[m] \in Acct /\ remote' = remote
      BY <1>2 DEF Letters
    <3> QED
      BY <2>2, <3>1, FiledFacts, Zenon
  <2> QED
    BY <1>3, <2>1, <2>2
<1>5. Shape'
  BY <1>1, <1>2, <1>4 DEF Shape
<1>6. Transactions'
  BY <1>2, <1>4, TransactionKept DEF Transactions
<1>7. Crossed'
  <2>1. ASSUME NEW n \in Submitted, NEW r \in To[n], Off(n, r)' PROVE Off(n, r)
    <3>1. CASE n = m
      <4>1. Domain(r) \in Domains(m)
        BY <3>1 DEF Domains
      <4> QED
        BY <1>1, <2>1, <3>1, <4>1 DEF Off
    <3> QED
      BY <1>1, <2>1, <3>1 DEF Off
  <2> QED
    BY <1>2, <1>4, <2>1, CrossedKept
<1> QED
  BY <1>2, <1>4, <1>5, <1>6, <1>7, AcceptedKept

\* A domain is crossed off in the step that queues the message for it.
LEMMA FanOutInv ==
  ASSUME TransferInv, NEW m \in Submitted, NEW d \in {"here", "elsewhere"}, FanOut(m, d)
  PROVE  TransferInv'
<1> USE PersonFacts DEF TransferInv
<1> DEFINE mine == {r \in To[m] : Domain(r) = d}
           x == Item(Person(m), mine)
<1>1. /\ sub[m].at = "fan" /\ d \in sub[m].left
      /\ queue' = Plus(queue, x)
      /\ LET left == sub[m].left \ {d} IN At(m, IF left = {} THEN "acked" ELSE "fan", left)
      /\ UNCHANGED <<conn, outside, item, failed, box, remote, silent>>
  BY DEF FanOut
<1>2. x \in Queued /\ x.msg = Person(m) /\ x.rcpts = mine
  BY DEF Item, Queued
<1> HIDE DEF x
<1>3. IsABag(queue') /\ DOMAIN queue' = DOMAIN queue \cup {x}
  <2>1. IsABag(queue)
    BY DEF Shape
  <2> QED
    BY <1>1, <2>1, PlusBag, ZenonT(40)
<1>4. /\ sub' \in [Submitted -> [at : {"new", "store", "fan", "acked", "refused"}, left : SUBSET {"here", "elsewhere"}]]
      /\ \A n \in Submitted : n # m => sub'[n] = sub[n]
      /\ sub'[m].left = sub[m].left \ {d}
      /\ sub'[m].at = "acked" => sub'[m].left = {}
  BY <1>1 DEF At, Shape
<1>5. Grown /\ OnceEach'
  BY <1>1 DEF Grown, OnceEach, Copies
<1>6. Shape'
  BY <1>1, <1>2, <1>3, <1>4 DEF Shape
<1>7. Transactions'
  BY <1>1, <1>5, TransactionKept DEF Transactions
<1>8. Crossed'
  <2>1. ASSUME NEW n \in Submitted, NEW r \in To[n], Off(n, r)' PROVE Off(n, r) \/ Accounted(n, r)'
    <3>1. CASE n # m
      BY <1>4, <2>1, <3>1 DEF Off
    <3>2. CASE n = m /\ Domain(r) = d
      <4>1. x \in DOMAIN queue' /\ x.msg = Person(n) /\ r \in x.rcpts
        BY <1>2, <1>3, <3>2
      <4> QED
        BY <4>1 DEF Accounted, Carries, BagToSet
    <3>3. CASE n = m /\ Domain(r) # d
      BY <1>1, <1>4, <2>1, <3>3 DEF Off
    <3> QED
      BY <3>1, <3>2, <3>3
  <2> QED
    BY <1>1, <1>3, <1>5, <2>1, CrossedKept
<1> QED
  BY <1>1, <1>5, <1>6, <1>7, <1>8, AcceptedKept

-----------------------------------------------------------------------------
(* Steps of a transaction at the MX.                                       *)

ConnType ==
  [msg : Letters \cup Replies \cup {NoMsg}, left : SUBSET Acct, at : Acct \cup {Nobody},
   label : {"inbox", "junk"}, junk : BOOLEAN, code : {"none", "2xx", "4xx", "5xx"}]

\* What a new transaction looks like: nobody has been crossed off yet.
LEMMA OfferFacts ==
  ASSUME Shape, NEW o \in Origin, NEW msg \in Letters \cup Replies, NEW rcpts, NEW verdict,
         Offer(o, msg, rcpts, verdict)
  PROVE  /\ conn' \in [Origin -> ConnType] /\ \A q \in Origin : q # o => conn'[q] = conn[q]
         /\ conn'[o].msg = msg /\ conn'[o].at = Nobody
         /\ \/ conn'[o].code \in {"4xx", "5xx"} /\ conn'[o].left = {}
            \/ conn'[o].code = "none" /\ conn'[o].left = rcpts
<1>1. conn \in [Origin -> ConnType]
  BY DEF Shape, ConnType
<1> DEFINE c == IF ~(rcpts \subseteq Acct) \/ verdict = "reject" THEN [Idle EXCEPT !.msg = msg, !.code = "5xx"]
                ELSE IF verdict = "defer" THEN [Idle EXCEPT !.msg = msg, !.code = "4xx"]
                ELSE [Idle EXCEPT !.msg = msg, !.left = rcpts, !.junk = (verdict = "quarantine")]
<1>2. conn' = [conn EXCEPT ![o] = c]
  BY DEF Offer
<1>3. /\ c.msg = msg /\ c.at = Nobody
      /\ \/ c.code \in {"4xx", "5xx"} /\ c.left = {}
         \/ c.code = "none" /\ c.left = rcpts
  BY DEF Idle
<1>4. c \in ConnType
  <2>1. CASE ~(rcpts \subseteq Acct) \/ verdict = "reject"
    BY <2>1 DEF Idle, ConnType
  <2>2. CASE rcpts \subseteq Acct /\ verdict # "reject" /\ verdict = "defer"
    BY <2>2 DEF Idle, ConnType
  <2>3. CASE rcpts \subseteq Acct /\ verdict # "reject" /\ verdict # "defer"
    <3>1. c = [Idle EXCEPT !.msg = msg, !.left = rcpts, !.junk = (verdict = "quarantine")]
      BY <2>3
    <3> HIDE DEF c
    <3>2. (verdict = "quarantine") \in BOOLEAN
      OBVIOUS
    <3> DEFINE j == verdict = "quarantine"
    <3>3. c = [msg |-> msg, left |-> rcpts, at |-> Nobody, label |-> "inbox", junk |-> j, code |-> "none"]
      BY <3>1, Zenon DEF Idle
    <3> HIDE DEF j
    <3>4. j \in BOOLEAN
      BY <3>2 DEF j
    <3> QED
      BY <2>3, <3>3, <3>4 DEF ConnType
  <2> QED
    BY <2>1, <2>2, <2>3
<1> HIDE DEF c
<1> QED
  BY <1>1, <1>2, <1>3, <1>4

\* An answer ends the transaction of o.
LEMMA AnswerFacts ==
  ASSUME Shape, NEW o \in Origin, NEW code \in {"2xx", "4xx", "5xx"}, Answer(o, code)
  PROVE  /\ conn' \in [Origin -> ConnType] /\ \A q \in Origin : q # o => conn'[q] = conn[q]
         /\ conn'[o].msg = conn[o].msg /\ conn'[o].at = Nobody /\ conn'[o].code = code /\ conn'[o].left = {}
<1>1. conn \in [Origin -> ConnType]
  BY DEF Shape, ConnType
<1>2. conn[o].msg \in Letters \cup Replies \cup {NoMsg}
  BY <1>1 DEF ConnType
<1> DEFINE c == [Idle EXCEPT !.msg = conn[o].msg, !.code = code]
<1>3. c \in ConnType /\ c.msg = conn[o].msg /\ c.at = Nobody /\ c.code = code /\ c.left = {}
  BY <1>2 DEF ConnType, Idle
<1> HIDE DEF c
<1> QED
  BY <1>1, <1>3 DEF Answer, c

\* What a step at the MX must show: that the transaction it moves is right after it.
LEMMA MovedInv ==
  ASSUME TransferInv, NEW o \in Origin, conn' \in [Origin -> ConnType], Transaction(o)',
         \A q \in Origin : q # o => conn'[q] = conn[q],
         UNCHANGED <<sub, outside, item, failed, remote, silent>>,
         IsABag(queue'), DOMAIN queue \subseteq DOMAIN queue', DOMAIN queue' \subseteq Queued,
         Grown, OnceEach', box' = [b \in Acct |-> box'[b]],
         \A b \in Acct : IsABag(box'[b]) /\ DOMAIN box'[b] \subseteq Filing
  PROVE  TransferInv'
<1> USE PersonFacts DEF TransferInv
<1>1. Shape'
  BY DEF Shape, ConnType
<1>2. Transactions'
  BY TransactionKept DEF Transactions
<1>3. Crossed'
  BY CrossedKept DEF Off
<1> QED
  BY <1>1, <1>2, <1>3, AcceptedKept

\* The same when nothing else moves.
LEMMA ConnInv ==
  ASSUME TransferInv, NEW o \in Origin, conn' \in [Origin -> ConnType], Transaction(o)',
         \A q \in Origin : q # o => conn'[q] = conn[q],
         UNCHANGED <<sub, outside, item, failed, remote, silent, queue, box>>
  PROVE  TransferInv'
<1>1. Grown /\ OnceEach' /\ IsABag(queue') /\ DOMAIN queue' \subseteq Queued /\ DOMAIN queue \subseteq DOMAIN queue'
  BY DEF Grown, OnceEach, Copies, TransferInv, Shape
<1>2. /\ box' = [b \in Acct |-> box'[b]]
      /\ \A b \in Acct : IsABag(box'[b]) /\ DOMAIN box'[b] \subseteq Filing
  BY DEF TransferInv, Shape
<1> QED
  BY <1>1, <1>2, MovedInv

\* A transaction that was answered with an error is right whatever it has served.
LEMMA RefusedTransaction ==
  ASSUME TransferInv, NEW o \in Origin, NEW code \in {"4xx", "5xx"}, Answer(o, code), item' = item,
         conn[o].msg # NoMsg
  PROVE  Transaction(o)'
<1>1. /\ conn'[o].msg = conn[o].msg /\ conn'[o].at = Nobody /\ conn'[o].code = code /\ conn'[o].left = {}
  BY AnswerFacts DEF TransferInv
<1>2. conn[o].msg = IF o = "sched" THEN item.msg ELSE Person(o)
  BY DEF TransferInv, Transactions, Transaction
<1> QED
  BY <1>1, <1>2 DEF Transaction

\* A message is offered over SMTP.
LEMMA OfferInboundInv ==
  ASSUME TransferInv, NEW m \in Inbound, NEW v \in Verdicts, OfferInbound(m, v)
  PROVE  TransferInv'
<1> USE PersonFacts
<1> m \in Origin /\ m # "sched" /\ Person(m) \in Letters \cup Replies
  BY DEF Origin, Letters
<1>1. Offer(m, Person(m), To[m], v) /\ UNCHANGED <<sub, outside, item, failed, remote, silent, queue, box>>
  BY DEF OfferInbound
<1>2. /\ conn' \in [Origin -> ConnType] /\ \A q \in Origin : q # m => conn'[q] = conn[q]
      /\ conn'[m].msg = Person(m) /\ conn'[m].at = Nobody
      /\ \/ conn'[m].code \in {"4xx", "5xx"} /\ conn'[m].left = {}
         \/ conn'[m].code = "none" /\ conn'[m].left = To[m]
  BY <1>1, OfferFacts DEF TransferInv
<1>3. Meant(m)' = To[m]
  BY DEF Meant
<1>4. Transaction(m)'
  BY <1>2, <1>3 DEF Transaction
<1> QED
  BY <1>1, <1>2, <1>4, ConnInv

\* A message that is being delivered is one.
LEMMA Underway ==
  ASSUME TransferInv, NEW o \in Origin, conn[o].left # {} \/ conn[o].at # Nobody
  PROVE  /\ conn[o].msg \in Letters \cup Replies /\ conn[o].msg # NoMsg /\ conn[o].code = "none"
         /\ conn[o].left \subseteq Acct /\ conn[o] \in ConnType
         /\ conn[o].msg = IF o = "sched" THEN item.msg ELSE Person(o)
<1>1. Transaction(o)
  BY DEF TransferInv, Transactions
<1>2. conn[o] \in ConnType
  BY DEF TransferInv, Shape, ConnType
<1>3. conn[o] # Idle
  BY DEF Idle
<1> QED
  BY <1>1, <1>2, <1>3 DEF Transaction, ConnType

\* The checks before a message is stored for a recipient.
LEMMA DeliverCheckInv ==
  ASSUME TransferInv, NEW o \in Origin, NEW a \in Acct, NEW known \in BOOLEAN, NEW scan \in Scans,
         DeliverCheck(o, a, known, scan)
  PROVE  TransferInv'
<1> DEFINE l == IF conn[o].junk \/ scan = "junk" THEN "junk" ELSE "inbox"
<1>1. /\ a \in conn[o].left
      /\ Answer(o, "5xx") \/ conn' = [conn EXCEPT ![o].at = a, ![o].label = l]
      /\ UNCHANGED <<sub, outside, item, failed, remote, silent, queue, box>>
  BY DEF DeliverCheck
<1>2. CASE Answer(o, "5xx")
  <2>1. Transaction(o)'
    BY <1>1, <1>2, RefusedTransaction, Underway
  <2>2. conn' \in [Origin -> ConnType] /\ \A q \in Origin : q # o => conn'[q] = conn[q]
    BY <1>2, AnswerFacts DEF TransferInv
  <2> QED
    BY <1>1, <2>1, <2>2, ConnInv
<1>3. CASE conn' = [conn EXCEPT ![o].at = a, ![o].label = l]
  <2>1. conn \in [Origin -> ConnType] /\ l \in {"inbox", "junk"}
    BY DEF TransferInv, Shape, ConnType
  <2> HIDE DEF l
  <2>2. /\ conn' \in [Origin -> ConnType] /\ \A q \in Origin : q # o => conn'[q] = conn[q]
        /\ conn'[o].at = a /\ conn'[o].left = conn[o].left /\ conn'[o].msg = conn[o].msg /\ conn'[o].code = conn[o].code
    BY <1>3, <2>1, ZenonT(40) DEF ConnType
  <2>3. Transaction(o)'
    <3>1. Transaction(o) /\ conn[o].msg # NoMsg /\ conn[o].code = "none"
      BY <1>1, Underway DEF TransferInv, Transactions
    <3>2. Meant(o)' = Meant(o) /\ \A m, r : Delivered(m, r)' = Delivered(m, r)
      BY <1>1 DEF Meant, Delivered, Copies
    <3>3. /\ conn'[o].msg = IF o = "sched" THEN item'.msg ELSE IF conn'[o].msg = NoMsg THEN NoMsg ELSE Person(o)
          /\ conn'[o].msg # NoMsg /\ conn'[o].at \in conn'[o].left /\ conn'[o].code = "none"
      BY <1>1, <2>2, <3>1 DEF Transaction
    <3>4. ASSUME NEW m \in Mail, conn'[o].msg = Person(m), NEW r \in Meant(o)'
          PROVE  \/ conn'[o].code = "none" /\ r \in conn'[o].left
                 \/ Delivered(m, r)'
      <4>1. r \in conn[o].left \/ Delivered(m, r)
        BY <2>2, <3>1, <3>2, <3>4 DEF Transaction
      <4> QED
        BY <2>2, <3>1, <3>2, <4>1
    <3> QED
      BY <3>3, <3>4 DEF Transaction
  <2> QED
    BY <1>1, <2>2, <2>3, ConnInv
<1> QED
  BY <1>1, <1>2, <1>3

\* A delivery fails.
LEMMA DeliverFailsInv ==
  ASSUME TransferInv, NEW o \in Origin, DeliverFails(o)
  PROVE  TransferInv'
<1>1. conn[o].at # Nobody /\ Answer(o, "5xx") /\ UNCHANGED <<sub, outside, item, failed, remote, silent, queue, box>>
  BY DEF DeliverFails
<1>2. Transaction(o)'
  BY <1>1, RefusedTransaction, Underway
<1>3. conn' \in [Origin -> ConnType] /\ \A q \in Origin : q # o => conn'[q] = conn[q]
  BY <1>1, AnswerFacts DEF TransferInv
<1> QED
  BY <1>1, <1>2, <1>3, ConnInv

\* A vacation message answers a letter.
LEMMA VacationFacts ==
  ASSUME NEW a \in Acct, NEW msg \in Letters \cup Replies, ~Automatic(msg)
  PROVE  Item(Vacation(a, msg), {msg.from}) \in Queued
<1>1. PICK m \in Mail : msg = Person(m)
  BY DEF Automatic, Letters, Replies
<1>2. msg.root = m /\ msg.depth = 0 /\ msg.from \in Addr
  BY <1>1, PersonFacts DEF Messages
<1>3. Vacation(a, msg) \in Replies
  BY <1>2 DEF Vacation, Replies, Messages, Addr
<1> QED
  BY <1>2, <1>3 DEF Item, Queued

\* The recipient that is crossed off has the message.
LEMMA DeliverIngestInv ==
  ASSUME TransferInv, NEW o \in Origin, NEW queued \in BOOLEAN, DeliverIngest(o, queued)
  PROVE  TransferInv'
<1> DEFINE a == conn[o].at
           msg == conn[o].msg
           due == Due(a, msg, conn[o].label)
           x == Item(Vacation(a, msg), {msg.from})
           left == conn[o].left \ {a}
<1>1. /\ a # Nobody
      /\ box' = Filed(a, msg, conn[o].label)
      /\ queue' = IF due /\ queued THEN Plus(queue, x) ELSE queue
      /\ IF left = {} THEN Answer(o, "2xx")
         ELSE conn' = [conn EXCEPT ![o].left = left, ![o].at = Nobody, ![o].label = "inbox"]
      /\ UNCHANGED <<sub, outside, item, failed, remote, silent>>
  BY DEF DeliverIngest
<1>2. /\ msg \in Letters \cup Replies /\ msg # NoMsg /\ conn[o].code = "none" /\ conn[o].left \subseteq Acct
      /\ msg = IF o = "sched" THEN item.msg ELSE Person(o)
      /\ a \in Acct /\ a \in conn[o].left /\ conn[o].label \in {"inbox", "sent", "junk"}
  <2>1. conn[o] \in ConnType
    BY <1>1, Underway
  <2>2. a \in conn[o].left
    BY <1>1 DEF TransferInv, Transactions, Transaction
  <2> QED
    BY <1>1, <2>1, <2>2, Underway DEF ConnType
<1>3. due => x \in Queued
  BY <1>2, VacationFacts DEF Due
<1> HIDE DEF due, x
<1>4. IsABag(queue') /\ DOMAIN queue \subseteq DOMAIN queue' /\ DOMAIN queue' \subseteq Queued
  <2>1. IsABag(queue) /\ DOMAIN queue \subseteq Queued
    BY DEF TransferInv, Shape
  <2>2. IsABag(Plus(queue, x)) /\ DOMAIN Plus(queue, x) = DOMAIN queue \cup {x}
    BY <2>1, PlusBag
  <2> QED
    BY <1>1, <1>3, <2>1, <2>2
<1>5. /\ Grown /\ OnceEach'
      /\ box' = [b \in Acct |-> box'[b]]
      /\ \A b \in Acct : IsABag(box'[b]) /\ DOMAIN box'[b] \subseteq Filing
      /\ \E e \in DOMAIN box'[a] : e.msg = msg
  <2>1. Shape /\ OnceEach
    BY DEF TransferInv
  <2> HIDE DEF a, msg
  <2>2. box' = Filed(a, msg, conn[o].label) /\ remote' = remote
    BY <1>1 DEF a, msg
  <2>3. msg \in Letters \cup Replies \cup Notices /\ a \in Acct /\ conn[o].label \in {"inbox", "sent", "junk"}
    BY <1>2
  <2> QED
    BY <2>1, <2>2, <2>3, FiledFacts, Zenon
<1>6. /\ conn' \in [Origin -> ConnType] /\ \A q \in Origin : q # o => conn'[q] = conn[q]
      /\ conn'[o].msg = msg /\ conn'[o].at = Nobody /\ conn'[o].left = left
      /\ conn'[o].code = IF left = {} THEN "2xx" ELSE "none"
  <2>1. CASE left = {}
    BY <1>1, <2>1, AnswerFacts DEF TransferInv
  <2>2. CASE left # {}
    <3>1. conn \in [Origin -> ConnType]
      BY DEF TransferInv, Shape, ConnType
    <3>2. left \subseteq Acct
      BY <1>2
    <3>3. conn' = [conn EXCEPT ![o].left = left, ![o].at = Nobody, ![o].label = "inbox"]
      BY <1>1, <2>2
    <3> HIDE DEF left
    <3> DEFINE c == [conn[o] EXCEPT !.left = left, !.at = Nobody, !.label = "inbox"]
    <3>4. /\ c \in ConnType
          /\ c.msg = msg /\ c.at = Nobody /\ c.left = left /\ c.code = conn[o].code
      <4>1. conn[o] \in ConnType
        BY <3>1
      <4> QED
        BY <4>1, <3>2 DEF ConnType
    <3>5. conn' = [conn EXCEPT ![o] = c]
      BY <3>1, <3>3
    <3> HIDE DEF c
    <3> QED
      BY <1>2, <2>2, <3>1, <3>4, <3>5
  <2> QED
    BY <2>1, <2>2
<1>7. Transaction(o)'
  <2>1. ASSUME NEW m \in Mail, msg = Person(m), NEW r \in Meant(o)
        PROVE  r \in left \/ Delivered(m, r)'
    <3>1. r \in conn[o].left \/ Delivered(m, r)
      BY <1>2, <2>1 DEF TransferInv, Transactions, Transaction
    <3>2. r \in Addr
      BY PersonFacts, <2>1 DEF TransferInv, Shape, Queued, NoItem, Item, Meant, Origin
    <3>3. CASE r = a
      BY <1>2, <1>5, <2>1, <3>3, AddrAssumption DEF Delivered, Copies, BagToSet
    <3>4. CASE r # a
      BY <1>5, <3>1, <3>2, <3>4, StaysDelivered
    <3> QED
      BY <3>3, <3>4
  <2>2. Meant(o)' = Meant(o)
    BY <1>1 DEF Meant
  <2>3. /\ conn'[o].msg = IF o = "sched" THEN item'.msg ELSE IF conn'[o].msg = NoMsg THEN NoMsg ELSE Person(o)
        /\ conn'[o].msg # NoMsg /\ conn'[o].at = Nobody /\ (conn'[o].left # {} => conn'[o].code = "none")
    BY <1>1, <1>2, <1>6
  <2>4. ASSUME NEW m \in Mail, conn'[o].msg = Person(m), NEW r \in Meant(o)'
        PROVE  (conn'[o].code = "none" /\ r \in conn'[o].left) \/ Delivered(m, r)'
    BY <1>6, <2>1, <2>2, <2>4
  <2> QED
    BY <2>3, <2>4 DEF Transaction
<1> QED
  BY <1>1, <1>4, <1>5, <1>6, <1>7, MovedInv

\* The outside sender hears of a 2xx only when everyone has the message.
LEMMA ToldInv ==
  ASSUME TransferInv, NEW m \in Inbound, Told(m)
  PROVE  TransferInv'
<1> USE PersonFacts
<1> m \in Origin /\ m # "sched" /\ m \in Mail
  BY DEF Origin
<1>1. /\ conn[m].code # "none"
      /\ outside' = [outside EXCEPT ![m] =
           CASE conn[m].code = "2xx" -> "accepted" [] conn[m].code = "5xx" -> "bounced" [] OTHER -> "new"]
      /\ conn' = [conn EXCEPT ![m] = Idle]
      /\ UNCHANGED <<sub, queue, item, failed, box, remote, silent>>
  BY DEF Told
<1>2. conn \in [Origin -> ConnType] /\ Idle \in ConnType
  BY DEF TransferInv, Shape, ConnType, Idle
<1>3. conn' \in [Origin -> ConnType] /\ conn'[m] = Idle /\ \A q \in Origin : q # m => conn'[q] = conn[q]
  BY <1>1, <1>2
<1>4. /\ outside' \in [Inbound -> {"new", "accepted", "bounced"}]
      /\ \A n \in Inbound : n # m => outside'[n] = outside[n]
      /\ outside'[m] = "accepted" => conn[m].code = "2xx"
  BY <1>1, <1>2 DEF TransferInv, Shape, ConnType
<1>5. conn[m].msg = Person(m)
  BY <1>1 DEF TransferInv, Transactions, Transaction, Idle
<1>6. Grown /\ OnceEach'
  BY <1>1 DEF Grown, OnceEach, Copies, TransferInv
<1>7. Shape'
  BY <1>1, <1>3, <1>4 DEF TransferInv, Shape, ConnType
<1>8. Transactions'
  <2>1. Transaction(m)'
    BY <1>3 DEF Transaction, Idle
  <2> QED
    BY <1>1, <1>3, <1>6, <2>1, TransactionKept DEF TransferInv, Transactions
<1>9. Crossed'
  BY <1>1, <1>6, CrossedKept DEF Off, TransferInv
<1>10. AcceptedIsDelivered'
  <2>1. ASSUME NEW n \in Inbound, outside'[n] = "accepted", NEW r \in To[n]
        PROVE  Delivered(n, r)'
    <3>1. Delivered(n, r)
      <4>1. CASE n = m
        BY <1>4, <1>5, <2>1, <4>1 DEF TransferInv, Transactions, Transaction, Meant
      <4>2. CASE n # m
        BY <1>4, <2>1, <4>2 DEF TransferInv, AcceptedIsDelivered
      <4> QED
        BY <4>1, <4>2
    <3> QED
      BY <1>6, <3>1, StaysDelivered
  <2> QED
    BY <2>1 DEF AcceptedIsDelivered
<1> QED
  BY <1>6, <1>7, <1>8, <1>9, <1>10 DEF TransferInv

-----------------------------------------------------------------------------
(* Steps of the scheduler.                                                 *)

\* What a step of the scheduler must show.
LEMMA SchedulerInv ==
  ASSUME TransferInv, conn' \in [Origin -> ConnType], Transaction("sched")',
         \A q \in Origin : q # "sched" => conn'[q] = conn[q],
         item' \in Queued \cup {NoItem}, UNCHANGED <<sub, outside, box>>, remote \subseteq remote',
         IsABag(queue'), DOMAIN queue' \subseteq Queued, IsABag(failed'), DOMAIN failed' \subseteq Queued,
         Crossed'
  PROVE  TransferInv'
<1>1. Grown /\ OnceEach'
  BY DEF Grown, OnceEach, Copies, TransferInv
<1>2. Shape'
  BY DEF TransferInv, Shape, ConnType
<1>3. Transactions'
  BY <1>1, TransactionKept DEF TransferInv, Transactions
<1> QED
  BY <1>1, <1>2, <1>3, AcceptedKept DEF TransferInv

\* The queue sends a message, to an account here or elsewhere.
LEMMA SendInv ==
  ASSUME TransferInv, NEW x \in DOMAIN queue,
         \/ \E v \in Verdicts : SendHere(x, v)
         \/ \E code \in {"2xx", "4xx", "5xx"} : SendElsewhere(x, code)
  PROVE  TransferInv'
<1> USE PersonFacts
<1> "sched" \in Origin
  BY DEF Origin
<1>1. x \in Queued /\ x.msg \in Letters \cup Replies /\ x.msg # NoMsg
  BY DEF TransferInv, Shape, Queued, Letters, Replies, NoMsg
<1>2. item' = x /\ UNCHANGED <<sub, queue, outside, failed, box, silent>> /\ remote \subseteq remote'
  BY DEF SendHere, SendElsewhere
<1>3. Meant("sched")' = x.rcpts
  BY <1>2 DEF Meant
<1>4. /\ conn' \in [Origin -> ConnType] /\ \A q \in Origin : q # "sched" => conn'[q] = conn[q]
      /\ conn'["sched"].msg = x.msg /\ conn'["sched"].at = Nobody
      /\ \/ conn'["sched"].code \in {"4xx", "5xx"} /\ conn'["sched"].left = {}
         \/ conn'["sched"].code = "none" /\ conn'["sched"].left = x.rcpts
         \/ /\ conn'["sched"].code = "2xx" /\ conn'["sched"].left = {} /\ x.rcpts = {Out}
            /\ x.msg.kind = "mail" => x.msg.root \in remote'
  <2>1. CASE \E v \in Verdicts : SendHere(x, v)
    <3>1. \E v \in Verdicts : Offer("sched", x.msg, x.rcpts, v)
      BY <2>1 DEF SendHere
    <3> QED
      BY <1>1, <3>1, OfferFacts DEF TransferInv
  <2>2. ASSUME NEW code \in {"2xx", "4xx", "5xx"}, SendElsewhere(x, code)
        PROVE  <1>4!1 /\ <1>4!2 /\ <1>4!3
    <3> DEFINE c == [Idle EXCEPT !.msg = x.msg, !.code = code]
    <3>1. conn \in [Origin -> ConnType]
      BY DEF TransferInv, Shape, ConnType
    <3>2. c \in ConnType /\ c.msg = x.msg /\ c.at = Nobody /\ c.left = {} /\ c.code = code
      BY <1>1 DEF ConnType, Idle
    <3>3. /\ conn' = [conn EXCEPT !["sched"] = c] /\ x.rcpts = {Out}
          /\ remote' = IF code = "2xx" /\ x.msg.kind = "mail" THEN remote \cup {x.msg.root} ELSE remote
      BY <2>2 DEF SendElsewhere
    <3> HIDE DEF c
    <3> QED
      BY <3>1, <3>2, <3>3
  <2> QED
    BY <2>1, <2>2
<1>5. Transaction("sched")'
  <2>1. ASSUME NEW m \in Mail, conn'["sched"].msg = Person(m), NEW r \in Meant("sched")'
        PROVE  \/ conn'["sched"].code = "none" /\ r \in conn'["sched"].left
               \/ conn'["sched"].code \in {"4xx", "5xx"}
               \/ Delivered(m, r)'
    BY <1>3, <1>4, <2>1 DEF Delivered
  <2> QED
    BY <1>1, <1>2, <1>4, <2>1 DEF Transaction
<1>6. Crossed'
  <2>1. Grown
    BY <1>2 DEF Grown
  <2> QED
    BY <1>2, <2>1, CrossedKept DEF TransferInv, Off
<1> QED
  BY <1>1, <1>2, <1>4, <1>5, <1>6, SchedulerInv DEF TransferInv, Shape

\* An item leaves the queue when its recipients have the message or its bounce is to
\* be reported.
LEMMA SettleInv ==
  ASSUME TransferInv, NEW last \in BOOLEAN, Settle(last)
  PROVE  TransferInv'
<1> USE PersonFacts
<1> "sched" \in Origin
  BY DEF Origin
<1> DEFINE code == conn["sched"].code
           over == code = "5xx" \/ (code = "4xx" /\ last)
<1>1. /\ code # "none"
      /\ queue' = IF code = "2xx" \/ over THEN Minus(queue, item) ELSE queue
      /\ failed' = IF over THEN Plus(failed, item) ELSE failed
      /\ item' = NoItem
      /\ conn' = [conn EXCEPT !["sched"] = Idle]
      /\ UNCHANGED <<sub, outside, box, remote, silent>>
  BY DEF Settle
<1>2. conn \in [Origin -> ConnType] /\ Idle \in ConnType
  BY DEF TransferInv, Shape, ConnType, Idle
<1>3. item \in Queued /\ conn["sched"].msg = item.msg
  <2>1. conn["sched"].msg = item.msg /\ conn["sched"] # Idle /\ conn["sched"].msg # NoMsg
    BY <1>1 DEF TransferInv, Transactions, Transaction, Idle
  <2>2. item # NoItem
    BY <2>1 DEF NoItem, Item
  <2> QED
    BY <2>1, <2>2 DEF TransferInv, Shape
<1>4. conn' \in [Origin -> ConnType] /\ conn'["sched"] = Idle /\ \A q \in Origin : q # "sched" => conn'[q] = conn[q]
  BY <1>1, <1>2
<1>5. IsABag(queue) /\ DOMAIN queue \subseteq Queued /\ IsABag(failed) /\ DOMAIN failed \subseteq Queued
  BY DEF TransferInv, Shape
<1>6. /\ IsABag(Minus(queue, item)) /\ DOMAIN Minus(queue, item) \subseteq DOMAIN queue
      /\ DOMAIN queue \subseteq DOMAIN Minus(queue, item) \cup {item}
      /\ IsABag(Plus(failed, item)) /\ DOMAIN Plus(failed, item) = DOMAIN failed \cup {item}
  BY <1>5, MinusBag, PlusBag
<1> HIDE DEF over
<1>7. /\ IsABag(queue') /\ DOMAIN queue' \subseteq Queued /\ IsABag(failed') /\ DOMAIN failed' \subseteq Queued
      /\ DOMAIN failed \subseteq DOMAIN failed'
      /\ DOMAIN queue \subseteq DOMAIN queue' \cup {item}
      /\ over => item \in DOMAIN failed'
      /\ code # "2xx" /\ ~over => queue' = queue
  BY <1>1, <1>3, <1>5, <1>6
<1>8. Grown
  BY <1>1 DEF Grown
<1>9. Transaction("sched")'
  BY <1>1, <1>4 DEF Transaction, Idle, NoItem, Item
<1>10. Crossed'
  <2>1. ASSUME NEW m \in Submitted, NEW r \in To[m], Off(m, r)
        PROVE  Accounted(m, r)'
    <3>1. Accounted(m, r)
      BY <2>1 DEF TransferInv, Crossed, Off
    <3>2. ASSUME NEW x \in DOMAIN queue \cup DOMAIN failed \cup silent, x.msg = Person(m), r \in x.rcpts
          PROVE  Accounted(m, r)' \/ x \in (DOMAIN queue \cup DOMAIN failed \cup silent)'
      <4>1. CASE x # item \/ over \/ code # "2xx"
        BY <1>1, <1>7, <4>1
      <4>2. CASE x = item /\ ~over /\ code = "2xx"
        <5>1. Delivered(m, r)
          BY <1>3, <3>2, <4>2 DEF TransferInv, Transactions, Transaction, Meant
        <5> QED
          BY <1>8, <5>1, StaysDelivered DEF Accounted
      <4> QED
        BY <4>1, <4>2
    <3> QED
      BY <1>8, <3>1, <3>2, StaysAccounted
  <2> QED
    BY <1>1, <2>1 DEF Crossed, Off
<1> QED
  BY <1>1, <1>4, <1>7, <1>9, <1>10, SchedulerInv

\* The notice is in the sender's account, or its loss is on record.
LEMMA ReportInv ==
  ASSUME TransferInv, NEW x \in DOMAIN failed, NEW known \in BOOLEAN, NEW scan \in Scans, NEW ok \in BOOLEAN,
         Report(x, known, scan, ok)
  PROVE  TransferInv'
<1> USE PersonFacts
<1> DEFINE a == x.msg.from
           filed == ok /\ scan # "reject" /\ ~(known /\ OverCap(a))
           l == IF scan = "junk" THEN "junk" ELSE "inbox"
<1>1. /\ box' = IF filed THEN Filed(a, DSN(x), l) ELSE box
      /\ silent' = IF filed THEN silent ELSE silent \cup ByPeople({x})
      /\ failed' = Minus(failed, x)
      /\ UNCHANGED <<sub, queue, conn, outside, item, remote>>
  BY DEF Report
<1> HIDE DEF filed
<1>2. x \in Queued /\ a \in Acct
  BY DEF TransferInv, Shape, Queued, Replies
<1>3. DSN(x) \in Notices /\ DSN(x).kind = "dsn" /\ DSN(x).root = x.msg.root /\ DSN(x).about = x.rcpts
      /\ (x.msg.depth = 0 => DSN(x).depth = 1)
  <2>1. x.msg.root \in Mail \cup {Nobody} /\ x.msg.depth \in 0 .. 1 /\ x.rcpts \in SUBSET Addr
    BY <1>2 DEF Queued, Replies, Messages
  <2> QED
    BY <2>1 DEF DSN, Notices, Messages, Addr
<1>4. /\ Grown /\ OnceEach'
      /\ box' = [b \in Acct |-> box'[b]]
      /\ \A b \in Acct : IsABag(box'[b]) /\ DOMAIN box'[b] \subseteq Filing
      /\ filed => \E e \in DOMAIN box'[a] : e.msg = DSN(x)
  <2>1. CASE ~filed
    BY <1>1, <2>1 DEF Grown, OnceEach, Copies, TransferInv, Shape
  <2>2. CASE filed
    <3>1. box' = Filed(a, DSN(x), l) /\ remote' = remote
      BY <1>1, <2>2
    <3>2. Shape /\ OnceEach /\ l \in {"inbox", "sent", "junk"} /\ DSN(x) \in Letters \cup Replies \cup Notices
      BY <1>3 DEF TransferInv
    <3> HIDE DEF l, a
    <3>3. /\ Grown /\ OnceEach'
          /\ box' = [b \in Acct |-> box'[b]]
          /\ \A b \in Acct : IsABag(box'[b]) /\ DOMAIN box'[b] \subseteq Filing
          /\ \E e \in DOMAIN box'[a] : e.msg = DSN(x)
      BY <1>2, <3>1, <3>2, FiledFacts, ZenonT(40)
    <3> QED
      BY <3>3
  <2> QED
    BY <2>1, <2>2
<1>5. IsABag(failed') /\ DOMAIN failed' \subseteq DOMAIN failed /\ DOMAIN failed \subseteq DOMAIN failed' \cup {x}
  <2>1. IsABag(failed)
    BY DEF TransferInv, Shape
  <2> QED
    BY <1>1, <2>1, MinusBag
<1>6. Shape'
  BY <1>1, <1>4, <1>5 DEF TransferInv, Shape
<1>7. Transactions'
  BY <1>1, <1>4, TransactionKept DEF TransferInv, Transactions
<1>8. Crossed'
  <2>1. ASSUME NEW m \in Submitted, NEW r \in To[m], Off(m, r)
        PROVE  Accounted(m, r)'
    <3>1. Accounted(m, r)
      BY <2>1 DEF TransferInv, Crossed, Off
    <3>2. ASSUME NEW y \in DOMAIN queue \cup DOMAIN failed \cup silent, y.msg = Person(m), r \in y.rcpts
          PROVE  Accounted(m, r)' \/ y \in (DOMAIN queue \cup DOMAIN failed \cup silent)'
      <4>1. CASE y # x
        BY <1>1, <1>5, <4>1
      <4>2. CASE y = x /\ filed
        <5>1. PICK e \in DOMAIN box'[a] : e.msg = DSN(x)
          BY <1>4, <4>2
        <5>2. a = From[m] /\ e.msg.kind = "dsn" /\ e.msg.root = m /\ e.msg.depth = 1 /\ r \in e.msg.about
          BY <1>3, <3>2, <4>2, <5>1
        <5>3. Reported(m, r)'
          BY <5>1, <5>2 DEF Reported, BagToSet
        <5> QED
          BY <5>3 DEF Accounted
      <4>3. CASE y = x /\ ~filed
        BY <1>1, <3>2, <4>3 DEF ByPeople
      <4> QED
        BY <4>1, <4>2, <4>3
    <3> QED
      BY <1>4, <3>1, <3>2, StaysAccounted
  <2> QED
    BY <1>1, <2>1 DEF Crossed, Off
<1> QED
  BY <1>1, <1>4, <1>6, <1>7, <1>8, AcceptedKept DEF TransferInv

\* A restart forgets transactions and puts the bounces to be reported on record.
LEMMA RestartInv ==
  ASSUME TransferInv, Restart
  PROVE  TransferInv'
<1> USE PersonFacts
<1>1. /\ sub' = [m \in Submitted |->
           IF sub[m].at \in {"store", "fan"}
           THEN [at |-> IF m \in Web THEN "refused" ELSE "new", left |-> {}] ELSE sub[m]]
      /\ conn' = [o \in Inbound \cup {"sched"} |-> Idle]
      /\ item' = NoItem
      /\ silent' = silent \cup ByPeople(DOMAIN failed) /\ failed' = EmptyBag
      /\ UNCHANGED <<queue, outside, box, remote>>
  BY DEF Restart, BagToSet
<1>2. IsABag(failed') /\ DOMAIN failed' = {}
  BY <1>1 DEF EmptyBag, SetToBag, IsABag
<1>3. Idle \in ConnType /\ \A o \in Origin : conn'[o] = Idle
  BY <1>1 DEF ConnType, Idle, Origin
<1>4. sub' \in [Submitted -> [at : {"new", "store", "fan", "acked", "refused"}, left : SUBSET {"here", "elsewhere"}]]
  BY <1>1 DEF TransferInv, Shape
<1>5. Grown /\ OnceEach'
  BY <1>1 DEF Grown, OnceEach, Copies, TransferInv
<1>6. Shape'
  BY <1>1, <1>2, <1>3, <1>4 DEF TransferInv, Shape, ConnType, Origin
<1>7. Transactions'
  <2> SUFFICES ASSUME NEW o \in Origin PROVE Transaction(o)'
    BY DEF Transactions
  <2>1. conn'[o] = Idle /\ item'.msg = NoMsg
    BY <1>1, <1>3 DEF NoItem, Item
  <2>2. Idle.msg = NoMsg /\ Idle.at = Nobody /\ Idle.left = {}
    BY DEF Idle
  <2>3. \A m \in Mail : conn'[o].msg # Person(m)
    BY <2>1, <2>2
  <2> QED
    BY <2>1, <2>2, <2>3 DEF Transaction
<1>8. Crossed'
  <2>1. ASSUME NEW m \in Submitted, NEW r \in To[m], Off(m, r)'
        PROVE  Accounted(m, r)'
    <3>1. Off(m, r)
      BY <1>1, <2>1 DEF Off
    <3>2. Accounted(m, r)
      BY <3>1 DEF TransferInv, Crossed, Off
    <3>3. ASSUME NEW y \in DOMAIN queue \cup DOMAIN failed \cup silent, y.msg = Person(m), r \in y.rcpts
          PROVE  y \in (DOMAIN queue \cup DOMAIN failed \cup silent)'
      BY <1>1, <3>3 DEF ByPeople
    <3> QED
      BY <1>5, <3>2, <3>3, StaysAccounted
  <2> QED
    BY <2>1 DEF Crossed, Off
<1> QED
  BY <1>1, <1>5, <1>6, <1>7, <1>8, AcceptedKept DEF TransferInv

-----------------------------------------------------------------------------
(* The theorems.                                                           *)

\* Nothing is under way.
LEMMA TransferStart == Init => TransferInv
<1> SUFFICES ASSUME Init PROVE TransferInv
  OBVIOUS
<1>1. IsABag(EmptyBag) /\ DOMAIN EmptyBag = {}
  BY DEF EmptyBag, SetToBag, IsABag
<1>2. Idle \in ConnType
  BY DEF ConnType, Idle
<1>3. Shape
  BY <1>1, <1>2 DEF Init, Shape, ConnType, Origin
<1>4. Transactions
  BY PersonFacts DEF Init, Transactions, Transaction, Origin, Idle, NoItem, Item
<1> QED
  BY <1>1, <1>3, <1>4 DEF Init, TransferInv, Crossed, AcceptedIsDelivered, OnceEach, BagToSet

\* Every step keeps the invariant.
LEMMA TransferStep == TransferInv /\ [Next]_vars => TransferInv'
<1> SUFFICES ASSUME TransferInv, [Next]_vars PROVE TransferInv'
  OBVIOUS
<1>1. ASSUME NEW m \in Submitted, NEW ok \in BOOLEAN,
             SubmitGates(m, ok) \/ SubmitStore(m, ok) \/ WebStore(m, ok) \/ SendRawGates(m, ok)
      PROVE  TransferInv'
  BY <1>1, SubmissionInv
<1>2. ASSUME NEW m \in Submitted, FanOutFails(m) PROVE TransferInv'
  BY <1>2, SubmissionInv
<1>3. ASSUME NEW m \in Submitted, NEW d \in {"here", "elsewhere"}, FanOut(m, d) PROVE TransferInv'
  BY <1>3, FanOutInv
<1>4. ASSUME NEW m \in Inbound, (\E v \in Verdicts : OfferInbound(m, v)) \/ Told(m) PROVE TransferInv'
  BY <1>4, OfferInboundInv, ToldInv
<1>5. ASSUME NEW o \in Inbound \cup {"sched"},
             \/ \E a \in Acct, known \in BOOLEAN, scan \in Scans : DeliverCheck(o, a, known, scan)
             \/ \E queued \in BOOLEAN : DeliverIngest(o, queued)
             \/ DeliverFails(o)
      PROVE  TransferInv'
  BY <1>5, DeliverCheckInv, DeliverIngestInv, DeliverFailsInv DEF Origin
<1>6. ASSUME NEW x \in BagToSet(queue),
             \/ \E v \in Verdicts : SendHere(x, v)
             \/ \E code \in {"2xx", "4xx", "5xx"} : SendElsewhere(x, code)
      PROVE  TransferInv'
  BY <1>6, SendInv DEF BagToSet
<1>7. ASSUME NEW last \in BOOLEAN, Settle(last) PROVE TransferInv'
  BY <1>7, SettleInv
<1>8. ASSUME NEW x \in BagToSet(failed), NEW known \in BOOLEAN, NEW scan \in Scans, NEW ok \in BOOLEAN,
             Report(x, known, scan, ok)
      PROVE  TransferInv'
  BY <1>8, ReportInv DEF BagToSet
<1>9. CASE Restart
  BY <1>9, RestartInv
<1>10. CASE UNCHANGED vars
  <2>1. Grown /\ OnceEach'
    BY <1>10 DEF vars, Grown, OnceEach, Copies, TransferInv
  <2>2. Shape'
    BY <1>10 DEF vars, Shape, TransferInv
  <2>3. Transactions'
    BY <1>10, <2>1, TransactionKept DEF vars, TransferInv, Transactions
  <2>4. Crossed'
    BY <1>10, <2>1, CrossedKept DEF vars, TransferInv, Off
  <2> QED
    BY <1>10, <2>1, <2>2, <2>3, <2>4, AcceptedKept DEF vars, TransferInv
<1> QED
  BY <1>1, <1>2, <1>3, <1>4, <1>5, <1>6, <1>7, <1>8, <1>9, <1>10 DEF Next

\* The inductive invariant holds, whatever the accounts, the mail, the plans and the
\* faults.
THEOREM TransferInvariant == Spec => []TransferInv
<1>1. Init => TransferInv
  BY TransferStart
<1>2. TransferInv /\ [Next]_vars => TransferInv'
  BY TransferStep
<1> QED
  BY <1>1, <1>2, PTL DEF Spec

\* Of a message whose submitter was told 250 every recipient has it, or it is queued
\* for them, or the sender has a notice that names them or one under way; unless a
\* crash or the sender's own account swallowed the notice.  Whatever the servers
\* elsewhere answer and whichever transactions were served in part.
THEOREM AckedMailIsAccountedFor == Spec => []AckedIsAccountedFor
<1>1. TransferInv => AckedIsAccountedFor
  BY DEF TransferInv, Crossed, Accounted, AckedIsAccountedFor
<1> QED
  BY <1>1, TransferInvariant, PTL

\* A 250 to another server means that all of the recipients have the message, and no
\* account ever has it twice.
THEOREM ReceptionIsExact == Spec => []DeliveredOnce
<1>1. TransferInv => DeliveredOnce
  BY DEF TransferInv, DeliveredOnce
<1> QED
  BY <1>1, TransferInvariant, PTL

\* No mail loops: a reply answers a person's message, and nothing is further than two
\* steps from one.
THEOREM NoLoops == Spec => []ChainsEnd
<1>1. TransferInv => ChainsEnd
  <2> SUFFICES ASSUME TransferInv, NEW msg \in Everything
               PROVE  (msg.kind = "reply" => msg.depth = 1) /\ msg.depth <= 2
    BY DEF ChainsEnd
  <2>1. msg \in Letters \cup Replies \cup Notices
    BY PersonFacts DEF TransferInv, Shape, Everything, Queued, Filing, BagToSet, Letters
  <2> QED
    BY <2>1, PersonFacts DEF Letters, Replies, Notices
<1> QED
  BY <1>1, TransferInvariant, PTL

-----------------------------------------------------------------------------
(* The storage cap.                                                        *)

\* Transactions that are past the cap for a and have not stored their message yet.
Pending(a) == {o \in Origin : conn[o].at = a}

\* What the cap is passed by is pending, or was let in while the plan was unknown.
CapInv ==
  /\ faults \in Nat
  /\ \A a \in Acct :
       /\ IsFiniteSet(Pieces(a, {"inbox", "sent", "junk"}))
       /\ Cardinality(Pieces(a, {"inbox"})) + Cardinality(Pending(a)) <= MaxBytes[a] + Cardinality(Inbound) + faults

\* Storing a message adds one copy, under its label.
LEMMA OneMorePiece ==
  ASSUME NEW a \in Acct, NEW new, IsABag(box[a]), box'[a] = Plus(box[a], new)
  PROVE  \E k : \A labels : Pieces(a, labels)' = Pieces(a, labels) \cup (IF new.label \in labels THEN {<<new, k>>} ELSE {})
<1> DEFINE b == box[a]
           k == IF new \in DOMAIN b THEN b[new] + 1 ELSE 1
<1>1. /\ DOMAIN box'[a] = DOMAIN b \cup {new}
      /\ \A e \in DOMAIN b : e # new => box'[a][e] = b[e]
      /\ box'[a][new] = k
  <2>1. /\ DOMAIN Plus(b, new) = DOMAIN b \cup {new}
        /\ \A e \in DOMAIN b : e # new => Plus(b, new)[e] = b[e]
        /\ new \notin DOMAIN b => Plus(b, new)[new] = 1
        /\ new \in DOMAIN b => Plus(b, new)[new] = b[new] + 1
    BY PlusBag, Zenon
  <2> QED
    BY <2>1
<1>2. \A e \in DOMAIN b : b[e] \in Nat
  BY DEF IsABag
<1>3. 1 .. k = IF new \in DOMAIN b THEN (1 .. b[new]) \cup {k} ELSE {k}
  <2>1. \A n \in Nat : 1 .. (n + 1) = (1 .. n) \cup {n + 1}
    OBVIOUS
  <2>2. CASE new \in DOMAIN b
    <3>1. k = b[new] + 1 /\ b[new] \in Nat
      BY <1>2, <2>2
    <3> HIDE DEF k, b
    <3> QED
      BY <2>1, <2>2, <3>1
  <2>3. CASE new \notin DOMAIN b
    <3>1. k = 1
      BY <2>3
    <3>2. 1 .. 1 = {1}
      OBVIOUS
    <3> QED
      BY <2>3, <3>1, <3>2
  <2> QED
    BY <2>2, <2>3
<1> HIDE DEF k
<1>4. ASSUME NEW labels
      PROVE  Pieces(a, labels)' = Pieces(a, labels) \cup (IF new.label \in labels THEN {<<new, k>>} ELSE {})
  <2>1. ASSUME NEW p \in Pieces(a, labels)'
        PROVE  p \in Pieces(a, labels) \cup (IF new.label \in labels THEN {<<new, k>>} ELSE {})
    <3>1. PICK x \in DOMAIN box'[a] : x.label \in labels /\ p \in {x} \X (1 .. box'[a][x])
      BY <2>1 DEF Pieces, BagToSet
    <3>2. CASE x # new
      <4>1. x \in DOMAIN box[a] /\ p \in {x} \X (1 .. box[a][x])
        BY <1>1, <3>1, <3>2
      <4> QED
        BY <3>1, <4>1 DEF Pieces, BagToSet
    <3>3. CASE x = new
      <4>0. p \in {new} \X (1 .. k)
        BY <1>1, <3>1, <3>3
      <4>1. p = <<new, k>> \/ (new \in DOMAIN box[a] /\ p \in {new} \X (1 .. box[a][new]))
        <5>1. PICK n \in 1 .. k : p = <<new, n>>
          BY <4>0
        <5> QED
          BY <1>3, <5>1
      <4> QED
        BY <3>1, <3>3, <4>1 DEF Pieces, BagToSet
    <3> QED
      BY <3>2, <3>3
  <2>2. ASSUME NEW p \in Pieces(a, labels)
        PROVE  p \in Pieces(a, labels)'
    <3>1. PICK x \in DOMAIN box[a] : x.label \in labels /\ p \in {x} \X (1 .. box[a][x])
      BY <2>2 DEF Pieces, BagToSet
    <3>2. x \in DOMAIN box'[a] /\ p \in {x} \X (1 .. box'[a][x])
      BY <1>1, <1>3, <3>1
    <3> QED
      BY <3>1, <3>2 DEF Pieces, BagToSet
  <2>3. new.label \in labels => <<new, k>> \in Pieces(a, labels)'
    <3>1. new \in DOMAIN box'[a] /\ <<new, k>> \in {new} \X (1 .. box'[a][new])
      BY <1>1, <1>3
    <3> QED
      BY <3>1 DEF Pieces, BagToSet
  <2> QED
    BY <2>1, <2>2, <2>3
<1> QED
  BY <1>4

\* The pieces under some of the labels.
LEMMA FewerPieces ==
  ASSUME NEW a \in Acct, IsFiniteSet(Pieces(a, {"inbox", "sent", "junk"})),
         NEW labels \in SUBSET {"inbox", "sent", "junk"}, NEW fewer \in SUBSET labels
  PROVE  /\ IsFiniteSet(Pieces(a, labels)) /\ IsFiniteSet(Pieces(a, fewer))
         /\ Cardinality(Pieces(a, fewer)) \in Nat /\ Cardinality(Pieces(a, labels)) \in Nat
         /\ Cardinality(Pieces(a, fewer)) <= Cardinality(Pieces(a, labels))
<1>1. Pieces(a, fewer) \subseteq Pieces(a, labels) /\ Pieces(a, labels) \subseteq Pieces(a, {"inbox", "sent", "junk"})
  BY DEF Pieces
<1>2. IsFiniteSet(Pieces(a, labels))
  BY <1>1, FS_Subset
<1> QED
  BY <1>1, <1>2, FS_Subset, FS_CardinalityType

\* One element more makes a set larger by one at most.
LEMMA OneMore ==
  ASSUME NEW S, NEW e, IsFiniteSet(S)
  PROVE  /\ IsFiniteSet(S \cup {e}) /\ Cardinality(S) \in Nat /\ Cardinality(S \cup {e}) \in Nat
         /\ Cardinality(S \cup {e}) <= Cardinality(S) + 1
<1>1. IsFiniteSet(S \cup {e}) /\ Cardinality(S \cup {e}) = IF e \in S THEN Cardinality(S) ELSE Cardinality(S) + 1
  BY FS_AddElement
<1>2. Cardinality(S) \in Nat
  BY FS_CardinalityType
<1> QED
  BY <1>1, <1>2

\* What Ingest does to the count of an account.
LEMMA FiledCount ==
  ASSUME Shape, CapInv, NEW a \in Acct, NEW msg, NEW label \in {"inbox", "sent", "junk"}, box' = Filed(a, msg, label)
  PROVE  /\ \A b \in Acct : b # a => box'[b] = box[b]
         /\ IsFiniteSet(Pieces(a, {"inbox", "sent", "junk"})')
         /\ Cardinality(Pieces(a, {"inbox"})') \in Nat
         /\ Cardinality(Pieces(a, {"inbox"})') <= Cardinality(Pieces(a, {"inbox"})) + 1
         /\ label # "inbox" => Pieces(a, {"inbox"})' = Pieces(a, {"inbox"})
<1> DEFINE new == [msg |-> msg, label |-> label]
<1>s. box = [b \in Acct |-> box[b]] /\ IsABag(box[a])
  BY DEF Shape
<1>f. IsFiniteSet(Pieces(a, {"inbox", "sent", "junk"}))
  BY DEF CapInv
<1>c. IsFiniteSet(Pieces(a, {"inbox"})) /\ Cardinality(Pieces(a, {"inbox"})) \in Nat
  BY <1>f, FewerPieces
<1>1. CASE box' = box
  <2>1. \A labels : Pieces(a, labels)' = Pieces(a, labels)
    BY <1>1 DEF Pieces
  <2> QED
    BY <1>1, <1>f, <1>c, <2>1
<1>2. CASE box' = [box EXCEPT ![a] = Plus(@, new)]
  <2>1. box'[a] = Plus(box[a], new) /\ \A b \in Acct : b # a => box'[b] = box[b]
    BY <1>2, <1>s
  <2>2. new.label = label
    OBVIOUS
  <2> HIDE DEF new
  <2>3. PICK k : \A labels : Pieces(a, labels)' = Pieces(a, labels) \cup (IF new.label \in labels THEN {<<new, k>>} ELSE {})
    BY <1>s, <2>1, OneMorePiece, Zenon
  <2>4. IsFiniteSet(Pieces(a, {"inbox", "sent", "junk"}) \cup {<<new, k>>})
    BY <1>f, FS_AddElement
  <2>5. /\ IsFiniteSet(Pieces(a, {"inbox"}) \cup {<<new, k>>})
        /\ Cardinality(Pieces(a, {"inbox"}) \cup {<<new, k>>}) <= Cardinality(Pieces(a, {"inbox"})) + 1
        /\ Cardinality(Pieces(a, {"inbox"}) \cup {<<new, k>>}) \in Nat
    BY <1>c, OneMore, Zenon
  <2>6. Pieces(a, {"inbox", "sent", "junk"})' = Pieces(a, {"inbox", "sent", "junk"}) \cup {<<new, k>>}
    BY <2>2, <2>3
  <2>7. Pieces(a, {"inbox"})' = IF label = "inbox" THEN Pieces(a, {"inbox"}) \cup {<<new, k>>} ELSE Pieces(a, {"inbox"})
    BY <2>2, <2>3
  <2>8. IsFiniteSet(Pieces(a, {"inbox", "sent", "junk"})')
    BY <2>4, <2>6
  <2>9. /\ Cardinality(Pieces(a, {"inbox"})') \in Nat
        /\ Cardinality(Pieces(a, {"inbox"})') <= Cardinality(Pieces(a, {"inbox"})) + 1
    <3>1. CASE label = "inbox"
      BY <2>5, <2>7, <3>1
    <3>2. CASE label # "inbox"
      BY <1>c, <2>7, <3>2
    <3> QED
      BY <3>1, <3>2
  <2> QED
    BY <2>1, <2>7, <2>8, <2>9
<1> QED
  BY <1>1, <1>2 DEF Filed

\* There are as many transactions as senders, and the scheduler.
LEMMA PendingFinite ==
  /\ IsFiniteSet(Inbound) /\ Cardinality(Inbound) \in Nat
  /\ IsFiniteSet(Origin) /\ Cardinality(Origin) = Cardinality(Inbound) + 1
  /\ \A S : S \subseteq Origin => IsFiniteSet(S) /\ Cardinality(S) \in Nat /\ Cardinality(S) <= Cardinality(Inbound) + 1
<1>1. IsFiniteSet(Inbound)
  BY MailAssumption, FS_Subset DEF Inbound
<1>2. Cardinality(Inbound) \in Nat
  BY <1>1, FS_CardinalityType
<1>3. IsFiniteSet(Origin) /\ Cardinality(Origin) = Cardinality(Inbound) + 1
  BY <1>1, PersonFacts, FS_AddElement DEF Origin
<1> QED
  BY <1>1, <1>2, <1>3, FS_Subset, FS_CardinalityType

\* Steps that store nothing in an inbox and let nobody past the cap.
LEMMA CapKept ==
  ASSUME CapInv, faults' \in Nat, faults <= faults',
         \A a \in Acct : /\ IsFiniteSet(Pieces(a, {"inbox", "sent", "junk"})')
                         /\ Pieces(a, {"inbox"})' = Pieces(a, {"inbox"})
                         /\ Pending(a)' \subseteq Pending(a)
  PROVE  CapInv'
<1>1. ASSUME NEW a \in Acct
      PROVE  Cardinality(Pieces(a, {"inbox"})') + Cardinality(Pending(a)') <= MaxBytes[a] + Cardinality(Inbound) + faults'
  <2>1. /\ Cardinality(Pieces(a, {"inbox"})) + Cardinality(Pending(a)) <= MaxBytes[a] + Cardinality(Inbound) + faults
        /\ faults \in Nat /\ IsFiniteSet(Pieces(a, {"inbox", "sent", "junk"}))
    BY DEF CapInv
  <2>2. /\ Cardinality(Pending(a)) \in Nat /\ Cardinality(Pending(a)') \in Nat /\ Cardinality(Pending(a)') <= Cardinality(Pending(a))
    <3>1. Pending(a) \subseteq Origin
      BY DEF Pending
    <3> QED
      BY <3>1, PendingFinite, FS_Subset, FS_CardinalityType
  <2>3. Cardinality(Pieces(a, {"inbox"})) \in Nat
    BY <2>1, FewerPieces
  <2>4. MaxBytes[a] \in Nat /\ Cardinality(Inbound) \in Nat
    BY BoundAssumption, PendingFinite
  <2>5. Pieces(a, {"inbox"})' = Pieces(a, {"inbox"})
    OBVIOUS
  <2> QED
    BY <2>1, <2>2, <2>3, <2>4, <2>5
<1> QED
  BY <1>1 DEF CapInv

\* The steps that leave every inbox and every pending delivery as they are, or end some.
LEMMA CapQuietStep ==
  ASSUME TransferInv, CapInv,
         \/ \E m \in Submitted : \/ FanOutFails(m)
                                 \/ \E d \in {"here", "elsewhere"} : FanOut(m, d)
                                 \/ \E ok \in BOOLEAN : SubmitGates(m, ok) \/ SubmitStore(m, ok) \/ WebStore(m, ok) \/ SendRawGates(m, ok)
         \/ \E m \in Inbound : Told(m) \/ \E v \in Verdicts : OfferInbound(m, v)
         \/ \E o \in Origin : DeliverFails(o)
         \/ \E x \in DOMAIN queue : \/ \E v \in Verdicts : SendHere(x, v)
                                    \/ \E code \in {"2xx", "4xx", "5xx"} : SendElsewhere(x, code)
         \/ \E last \in BOOLEAN : Settle(last)
         \/ Restart
         \/ UNCHANGED vars
  PROVE  CapInv'
<1>1. faults' \in Nat /\ faults <= faults'
  <2>1. faults \in Nat
    BY SMTT(30) DEF CapInv
  <2>2. faults' = faults \/ faults' = faults + 1
    BY ZenonT(40) DEF FanOutFails, FanOut, SubmitGates, SubmitStore, WebStore, SendRawGates, Told, OfferInbound, DeliverFails,
         SendHere, SendElsewhere, Settle, Restart, vars, Fault, FaultIf
  <2> QED
    BY <2>1, <2>2
<1>2. \A a \in Acct : Pending(a)' \subseteq Pending(a)
  <2>1. conn \in [Origin -> ConnType]
    BY DEF TransferInv, Shape, ConnType
  <2>2. SUFFICES \A o \in Origin : conn'[o] = conn[o] \/ conn'[o].at = Nobody
    BY AddrAssumption DEF Pending
  <2>3. Idle.at = Nobody /\ \A q, c : [Idle EXCEPT !.msg = q, !.code = c].at = Nobody
    BY DEF Idle
  <2>4. ASSUME NEW m \in Inbound, Told(m) \/ \E v \in Verdicts : OfferInbound(m, v)
        PROVE  \A o \in Origin : conn'[o] = conn[o] \/ conn'[o].at = Nobody
    <3>1. CASE Told(m)
      BY <2>1, <2>3, <3>1 DEF Told
    <3>2. ASSUME NEW v \in Verdicts, OfferInbound(m, v)
          PROVE  conn'[m].at = Nobody /\ \A q \in Origin : q # m => conn'[q] = conn[q]
      <4>1. Offer(m, Person(m), To[m], v) /\ Person(m) \in Letters \cup Replies /\ m \in Origin /\ Shape
        BY <3>2, PersonFacts DEF OfferInbound, Letters, Origin, TransferInv
      <4> QED
        BY <4>1, OfferFacts
    <3> QED
      BY <2>4, <3>1, <3>2
  <2>5. ASSUME NEW o \in Origin, DeliverFails(o)
        PROVE  \A q \in Origin : conn'[q] = conn[q] \/ conn'[q].at = Nobody
    BY <2>1, <2>3, <2>5 DEF DeliverFails, Answer
  <2>6. ASSUME NEW x \in DOMAIN queue,
               (\E v \in Verdicts : SendHere(x, v)) \/ \E code \in {"2xx", "4xx", "5xx"} : SendElsewhere(x, code)
        PROVE  \A q \in Origin : conn'[q] = conn[q] \/ conn'[q].at = Nobody
    <3>1. ASSUME NEW v \in Verdicts, SendHere(x, v)
          PROVE  conn'["sched"].at = Nobody /\ \A q \in Origin : q # "sched" => conn'[q] = conn[q]
      <4>1. Offer("sched", x.msg, x.rcpts, v) /\ x.msg \in Letters \cup Replies /\ "sched" \in Origin /\ Shape
        BY <3>1, PersonFacts DEF SendHere, Letters, Origin, TransferInv, Shape, Queued
      <4> QED
        BY <4>1, OfferFacts
    <3>2. ASSUME NEW code \in {"2xx", "4xx", "5xx"}, SendElsewhere(x, code)
          PROVE  \A q \in Origin : conn'[q] = conn[q] \/ conn'[q].at = Nobody
      BY <2>1, <2>3, <3>2 DEF SendElsewhere
    <3> QED
      BY <2>6, <3>1, <3>2
  <2>7. ASSUME NEW last \in BOOLEAN, Settle(last)
        PROVE  \A q \in Origin : conn'[q] = conn[q] \/ conn'[q].at = Nobody
    BY <2>1, <2>3, <2>7 DEF Settle
  <2>8. CASE Restart
    BY <2>3, <2>8 DEF Restart, Origin
  <2>9. ASSUME NEW m \in Submitted,
               \/ FanOutFails(m)
               \/ \E d \in {"here", "elsewhere"} : FanOut(m, d)
               \/ \E ok \in BOOLEAN : SubmitGates(m, ok) \/ SubmitStore(m, ok) \/ WebStore(m, ok) \/ SendRawGates(m, ok)
        PROVE  conn' = conn
    BY <2>9 DEF FanOutFails, FanOut, SubmitGates, SubmitStore, WebStore, SendRawGates
  <2> QED
    BY <2>4, <2>5, <2>6, <2>7, <2>8, <2>9 DEF vars
<1>3. box' = box \/ \E m \in Submitted : box' = Filed(From[m], Person(m), "sent")
  BY ZenonT(40) DEF FanOutFails, FanOut, SubmitGates, SubmitStore, WebStore, SendRawGates, Told, OfferInbound, DeliverFails,
       SendHere, SendElsewhere, Settle, Restart, vars
<1>4. \A a \in Acct : /\ IsFiniteSet(Pieces(a, {"inbox", "sent", "junk"})')
                      /\ Pieces(a, {"inbox"})' = Pieces(a, {"inbox"})
  <2>1. CASE box' = box
    BY <2>1, ZenonT(40) DEF Pieces, CapInv
  <2>2. ASSUME NEW m \in Submitted, box' = Filed(From[m], Person(m), "sent"), NEW a \in Acct
        PROVE  /\ IsFiniteSet(Pieces(a, {"inbox", "sent", "junk"})')
               /\ Pieces(a, {"inbox"})' = Pieces(a, {"inbox"})
    <3>1. From[m] \in Acct /\ Shape
      BY PersonFacts DEF TransferInv
    <3>2. CASE a = From[m]
      BY <2>2, <3>1, <3>2, FiledCount
    <3>3. CASE a # From[m]
      <4>1. box'[a] = box[a]
        BY <2>2, <3>1, <3>3, FiledCount
      <4> QED
        BY <4>1 DEF Pieces, CapInv
    <3> QED
      BY <3>2, <3>3
  <2> QED
    BY <1>3, <2>1, <2>2
<1> QED
  BY <1>1, <1>2, <1>4, CapKept

\* A delivery passes the cap while there is room, or at the price of a fault.
LEMMA CapCheckStep ==
  ASSUME TransferInv, CapInv, NEW o \in Origin, NEW a \in Acct, NEW known \in BOOLEAN, NEW scan \in Scans,
         DeliverCheck(o, a, known, scan)
  PROVE  CapInv'
<1>1. /\ conn[o].at = Nobody /\ box' = box
      /\ \/ Answer(o, "5xx")
         \/ /\ ~(known /\ OverCap(a))
            /\ \E l : conn' = [conn EXCEPT ![o].at = a, ![o].label = l]
      /\ FaultIf(~known)
  BY DEF DeliverCheck
<1>2. /\ faults \in Nat /\ faults' \in Nat /\ faults <= faults'
      /\ ~known => faults' = faults + 1
  BY <1>1 DEF CapInv, FaultIf, Fault
<1>3. conn \in [Origin -> ConnType]
  BY DEF TransferInv, Shape, ConnType
<1>4. \A b \in Acct : /\ IsFiniteSet(Pieces(b, {"inbox", "sent", "junk"})')
                      /\ Pieces(b, {"inbox"})' = Pieces(b, {"inbox"})
  <2>1. \A b, labels : Pieces(b, labels)' = Pieces(b, labels)
    BY <1>1 DEF Pieces
  <2> QED
    BY <2>1 DEF CapInv
<1>5. CASE Answer(o, "5xx")
  <2>1. \A b \in Acct : Pending(b)' \subseteq Pending(b)
    BY <1>5, AnswerFacts, AddrAssumption DEF TransferInv, Pending
  <2> QED
    BY <1>2, <1>4, <2>1, CapKept
<1>6. CASE ~(known /\ OverCap(a)) /\ \E l : conn' = [conn EXCEPT ![o].at = a, ![o].label = l]
  <2>1. conn'[o].at = a /\ \A q \in Origin : q # o => conn'[q] = conn[q]
    BY <1>3, <1>6 DEF ConnType
  <2>2. Pending(a)' = Pending(a) \cup {o} /\ \A b \in Acct : b # a => Pending(b)' = Pending(b)
    BY <1>1, <2>1, AddrAssumption DEF Pending
  <2>3. ASSUME NEW b \in Acct
        PROVE  Cardinality(Pieces(b, {"inbox"})') + Cardinality(Pending(b)') <= MaxBytes[b] + Cardinality(Inbound) + faults'
    <3>1. /\ Cardinality(Pieces(b, {"inbox"})) + Cardinality(Pending(b)) <= MaxBytes[b] + Cardinality(Inbound) + faults
          /\ Pieces(b, {"inbox"})' = Pieces(b, {"inbox"})
      BY <1>4 DEF CapInv
    <3>2. /\ Cardinality(Pieces(b, {"inbox"})) \in Nat /\ Cardinality(Pieces(b, {"inbox", "sent"})) \in Nat
          /\ Cardinality(Pieces(b, {"inbox"})) <= Cardinality(Pieces(b, {"inbox", "sent"}))
      <4>1. IsFiniteSet(Pieces(b, {"inbox", "sent", "junk"}))
        BY DEF CapInv
      <4> QED
        BY <4>1, FewerPieces
    <3>3. MaxBytes[b] \in Nat /\ Cardinality(Inbound) \in Nat
      BY BoundAssumption, PendingFinite
    <3>4. IsFiniteSet(Pending(b)) /\ Cardinality(Pending(b)) \in Nat
      BY PendingFinite DEF Pending
    <3>5. CASE b # a
      BY <1>2, <2>2, <3>1, <3>2, <3>3, <3>4, <3>5
    <3>6. CASE b = a /\ ~known
      <4>1. Cardinality(Pending(b)') <= Cardinality(Pending(b)) + 1 /\ Cardinality(Pending(b)') \in Nat
        BY <2>2, <3>4, <3>6, OneMore
      <4>2. faults' = faults + 1
        BY <1>2, <3>6
      <4> QED
        BY <1>2, <3>1, <3>2, <3>3, <3>4, <4>1, <4>2
    <3>7. CASE b = a /\ known
      <4>1. Cardinality(Pieces(b, {"inbox", "sent"})) + 1 <= MaxBytes[b]
        BY <1>6, <3>2, <3>3, <3>7 DEF OverCap, Stored
      <4>2. Pending(b)' \subseteq Origin
        BY DEF Pending
      <4>3. Cardinality(Pending(b)') \in Nat /\ Cardinality(Pending(b)') <= Cardinality(Inbound) + 1
        BY <4>2, PendingFinite
      <4> QED
        BY <1>2, <3>1, <3>2, <3>3, <4>1, <4>3
    <3> QED
      BY <3>5, <3>6, <3>7
  <2> QED
    BY <1>2, <1>4, <2>3 DEF CapInv
<1> QED
  BY <1>1, <1>5, <1>6

\* What is stored in the inbox was pending.
LEMMA CapIngestStep ==
  ASSUME TransferInv, CapInv, NEW o \in Origin, NEW queued \in BOOLEAN, DeliverIngest(o, queued)
  PROVE  CapInv'
<1>0. PICK a : a = conn[o].at
  OBVIOUS
<1> DEFINE left == conn[o].left \ {a}
<1>1. /\ a # Nobody /\ box' = Filed(a, conn[o].msg, conn[o].label)
      /\ IF left = {} THEN Answer(o, "2xx")
         ELSE conn' = [conn EXCEPT ![o].left = left, ![o].at = Nobody, ![o].label = "inbox"]
  BY <1>0 DEF DeliverIngest
<1>2. faults \in Nat /\ faults' \in Nat /\ faults <= faults'
  <2>1. faults' = faults \/ faults' = faults + 1
    BY DEF DeliverIngest, FaultIf, Fault
  <2> QED
    BY <2>1 DEF CapInv
<1>3. conn \in [Origin -> ConnType]
  BY DEF TransferInv, Shape, ConnType
<1>4. a \in Acct /\ conn[o].label \in {"inbox", "sent", "junk"}
  BY <1>0, <1>1, <1>3 DEF ConnType
<1>5. conn'[o].at = Nobody /\ \A q \in Origin : q # o => conn'[q] = conn[q]
  <2>1. CASE left = {}
    BY <1>1, <2>1, AnswerFacts DEF TransferInv
  <2>2. CASE left # {}
    BY <1>1, <1>3, <2>2 DEF ConnType
  <2> QED
    BY <2>1, <2>2
<1>6. Pending(a)' = Pending(a) \ {o} /\ o \in Pending(a) /\ \A b \in Acct : b # a => Pending(b)' = Pending(b)
  BY <1>0, <1>4, <1>5, AddrAssumption DEF Pending
<1>7. /\ \A b \in Acct : b # a => box'[b] = box[b]
      /\ IsFiniteSet(Pieces(a, {"inbox", "sent", "junk"})')
      /\ Cardinality(Pieces(a, {"inbox"})') \in Nat
      /\ Cardinality(Pieces(a, {"inbox"})') <= Cardinality(Pieces(a, {"inbox"})) + 1
  <2>1. Shape
    BY DEF TransferInv
  <2> QED
    BY <1>1, <1>4, <2>1, FiledCount, Zenon
<1>8. ASSUME NEW b \in Acct
      PROVE  /\ IsFiniteSet(Pieces(b, {"inbox", "sent", "junk"})')
             /\ Cardinality(Pieces(b, {"inbox"})') + Cardinality(Pending(b)') <= MaxBytes[b] + Cardinality(Inbound) + faults'
  <2>1. /\ IsFiniteSet(Pieces(b, {"inbox", "sent", "junk"}))
        /\ Cardinality(Pieces(b, {"inbox"})) + Cardinality(Pending(b)) <= MaxBytes[b] + Cardinality(Inbound) + faults
    BY DEF CapInv
  <2>2. Cardinality(Pieces(b, {"inbox"})) \in Nat
    BY <2>1, FewerPieces
  <2>3. MaxBytes[b] \in Nat /\ Cardinality(Inbound) \in Nat
    BY BoundAssumption, PendingFinite
  <2>4. IsFiniteSet(Pending(b)) /\ Cardinality(Pending(b)) \in Nat
    BY PendingFinite DEF Pending
  <2>5. CASE b # a
    <3>1. box'[b] = box[b] /\ Pending(b)' = Pending(b)
      BY <1>6, <1>7, <2>5
    <3>2. \A labels : Pieces(b, labels)' = Pieces(b, labels)
      BY <3>1 DEF Pieces
    <3> QED
      BY <1>2, <2>1, <2>2, <2>3, <2>4, <3>1, <3>2
  <2>6. CASE b = a
    <3>1. Cardinality(Pending(b)') = Cardinality(Pending(b)) - 1
      BY <1>6, <2>4, <2>6, FS_RemoveElement
    <3>2. /\ Cardinality(Pieces(b, {"inbox"})') \in Nat /\ IsFiniteSet(Pieces(b, {"inbox", "sent", "junk"})')
          /\ Cardinality(Pieces(b, {"inbox"})') <= Cardinality(Pieces(b, {"inbox"})) + 1
      BY <1>7, <2>6
    <3> QED
      BY <1>2, <2>1, <2>2, <2>3, <2>4, <3>1, <3>2
  <2> QED
    BY <2>5, <2>6
<1> QED
  BY <1>2, <1>8 DEF CapInv

\* A notice passes the cap while the scheduler is not delivering.
LEMMA CapReportStep ==
  ASSUME TransferInv, CapInv, NEW x \in DOMAIN failed, NEW known \in BOOLEAN, NEW scan \in Scans, NEW ok \in BOOLEAN,
         Report(x, known, scan, ok)
  PROVE  CapInv'
<1> DEFINE a == x.msg.from
           filed == ok /\ scan # "reject" /\ ~(known /\ OverCap(a))
           l == IF scan = "junk" THEN "junk" ELSE "inbox"
<1>1. /\ item = NoItem /\ conn' = conn
      /\ FaultIf(~known \/ ~ok)
      /\ box' = IF filed THEN Filed(a, DSN(x), l) ELSE box
  BY DEF Report
<1>2. /\ faults \in Nat /\ faults' \in Nat /\ faults <= faults'
      /\ ~known => faults' = faults + 1
  BY <1>1 DEF CapInv, FaultIf, Fault
<1>3. a \in Acct /\ l \in {"inbox", "sent", "junk"}
  BY PersonFacts DEF TransferInv, Shape, Queued, Replies
<1>4. \A b \in Acct : Pending(b)' = Pending(b)
  BY <1>1 DEF Pending
<1>5. CASE ~filed
  <2>1. \A b \in Acct : /\ IsFiniteSet(Pieces(b, {"inbox", "sent", "junk"})')
                        /\ Pieces(b, {"inbox"})' = Pieces(b, {"inbox"})
    <3>1. \A b, labels : Pieces(b, labels)' = Pieces(b, labels)
      BY <1>1, <1>5 DEF Pieces
    <3> QED
      BY <3>1 DEF CapInv
  <2> QED
    BY <1>2, <1>4, <2>1, CapKept
<1>6. CASE filed
  <2>1. /\ \A b \in Acct : b # a => box'[b] = box[b]
        /\ IsFiniteSet(Pieces(a, {"inbox", "sent", "junk"})')
        /\ Cardinality(Pieces(a, {"inbox"})') \in Nat
        /\ Cardinality(Pieces(a, {"inbox"})') <= Cardinality(Pieces(a, {"inbox"})) + 1
    <3>1. Shape /\ box' = Filed(a, DSN(x), l)
      BY <1>1, <1>6 DEF TransferInv
    <3> HIDE DEF a, l
    <3> QED
      BY <1>3, <3>1, FiledCount, Zenon
  <2>2. ASSUME NEW b \in Acct
        PROVE  /\ IsFiniteSet(Pieces(b, {"inbox", "sent", "junk"})')
               /\ Cardinality(Pieces(b, {"inbox"})') + Cardinality(Pending(b)') <= MaxBytes[b] + Cardinality(Inbound) + faults'
    <3>1. /\ IsFiniteSet(Pieces(b, {"inbox", "sent", "junk"}))
          /\ Cardinality(Pieces(b, {"inbox"})) + Cardinality(Pending(b)) <= MaxBytes[b] + Cardinality(Inbound) + faults
      BY DEF CapInv
    <3>2. /\ Cardinality(Pieces(b, {"inbox"})) \in Nat /\ Cardinality(Pieces(b, {"inbox", "sent"})) \in Nat
          /\ Cardinality(Pieces(b, {"inbox"})) <= Cardinality(Pieces(b, {"inbox", "sent"}))
      BY <3>1, FewerPieces
    <3>3. MaxBytes[b] \in Nat /\ Cardinality(Inbound) \in Nat
      BY BoundAssumption, PendingFinite
    <3>4. Cardinality(Pending(b)) \in Nat /\ Pending(b)' = Pending(b)
      BY <1>4, PendingFinite DEF Pending
    <3>5. CASE b # a
      <4>1. \A labels : Pieces(b, labels)' = Pieces(b, labels)
        BY <2>1, <3>5 DEF Pieces
      <4> QED
        BY <1>2, <3>1, <3>2, <3>3, <3>4, <4>1
    <3>6. CASE b = a /\ ~known
      <4>1. /\ faults' = faults + 1 /\ IsFiniteSet(Pieces(b, {"inbox", "sent", "junk"})')
            /\ Cardinality(Pieces(b, {"inbox"})') \in Nat
            /\ Cardinality(Pieces(b, {"inbox"})') <= Cardinality(Pieces(b, {"inbox"})) + 1
        BY <1>2, <2>1, <3>6
      <4> QED
        BY <1>2, <3>1, <3>2, <3>3, <3>4, <4>1
    <3>7. CASE b = a /\ known
      <4>1. Cardinality(Pieces(b, {"inbox", "sent"})) + 1 <= MaxBytes[b]
        BY <1>6, <3>2, <3>3, <3>7 DEF OverCap, Stored
      <4>2. Pending(b) \subseteq Inbound
        <5>1. conn["sched"].at = Nobody
          BY <1>1 DEF TransferInv, Transactions, Transaction, Origin, NoItem, Item, Idle
        <5> QED
          BY <5>1, AddrAssumption DEF Pending, Origin
      <4>3. Cardinality(Pending(b)) <= Cardinality(Inbound)
        BY <4>2, PendingFinite, FS_Subset
      <4>4. /\ Cardinality(Pieces(b, {"inbox"})') \in Nat /\ IsFiniteSet(Pieces(b, {"inbox", "sent", "junk"})')
            /\ Cardinality(Pieces(b, {"inbox"})') <= Cardinality(Pieces(b, {"inbox"})) + 1
        BY <2>1, <3>7
      <4> QED
        BY <1>2, <3>1, <3>2, <3>3, <3>4, <4>1, <4>3, <4>4
    <3> QED
      BY <3>5, <3>6, <3>7
  <2> QED
    BY <1>2, <2>2 DEF CapInv
<1> QED
  BY <1>5, <1>6

\* An inbox passes the plan's cap by no more than the transactions that were checked at
\* the same time and the faults, one message each.
THEOREM CapIsKept == Spec => []CapOverrun
<1>1. Init => CapInv
  <2> SUFFICES ASSUME Init, NEW a \in Acct
               PROVE  /\ faults \in Nat /\ IsFiniteSet(Pieces(a, {"inbox", "sent", "junk"}))
                      /\ Cardinality(Pieces(a, {"inbox"})) + Cardinality(Pending(a)) <= MaxBytes[a] + Cardinality(Inbound) + faults
    BY DEF CapInv, Init
  <2>1. \A labels : Pieces(a, labels) = {}
    BY DEF Init, Pieces, BagToSet, EmptyBag, SetToBag
  <2>2. Pending(a) = {}
    BY AddrAssumption DEF Init, Pending, Origin, Idle
  <2>3. IsFiniteSet({}) /\ Cardinality({}) = 0
    BY FS_EmptySet
  <2>4. MaxBytes[a] \in Nat /\ Cardinality(Inbound) \in Nat /\ faults = 0
    BY BoundAssumption, PendingFinite DEF Init
  <2>5. Cardinality(Pieces(a, {"inbox"})) = 0 /\ Cardinality(Pending(a)) = 0 /\ IsFiniteSet(Pieces(a, {"inbox", "sent", "junk"}))
    BY <2>1, <2>2, <2>3
  <2> QED
    BY <2>4, <2>5
<1>2. TransferInv /\ CapInv /\ [Next]_vars => CapInv'
  <2> SUFFICES ASSUME TransferInv, CapInv, [Next]_vars PROVE CapInv'
    OBVIOUS
  <2> USE DEF Origin, BagToSet
  <2>1. CASE \E o \in Inbound \cup {"sched"}, a \in Acct, known \in BOOLEAN, scan \in Scans : DeliverCheck(o, a, known, scan)
    BY <2>1, CapCheckStep
  <2>2. CASE \E o \in Inbound \cup {"sched"}, queued \in BOOLEAN : DeliverIngest(o, queued)
    BY <2>2, CapIngestStep
  <2>3. CASE \E x \in BagToSet(failed), known \in BOOLEAN, scan \in Scans, ok \in BOOLEAN : Report(x, known, scan, ok)
    BY <2>3, CapReportStep
  <2> QED
    BY <2>1, <2>2, <2>3, CapQuietStep DEF Next
<1>3. CapInv => CapOverrun
  <2> SUFFICES ASSUME CapInv, NEW a \in Acct
               PROVE  Cardinality(Pieces(a, {"inbox"})) <= MaxBytes[a] + Cardinality(Inbound) + faults
    BY DEF CapOverrun
  <2>1. /\ IsFiniteSet(Pieces(a, {"inbox", "sent", "junk"})) /\ faults \in Nat
        /\ Cardinality(Pieces(a, {"inbox"})) + Cardinality(Pending(a)) <= MaxBytes[a] + Cardinality(Inbound) + faults
    BY DEF CapInv
  <2>2. Cardinality(Pieces(a, {"inbox"})) \in Nat
    BY <2>1, FewerPieces
  <2>3. MaxBytes[a] \in Nat /\ Cardinality(Inbound) \in Nat /\ Cardinality(Pending(a)) \in Nat
    BY BoundAssumption, PendingFinite DEF Pending
  <2> QED
    BY <2>1, <2>2, <2>3
<1> QED
  BY <1>1, <1>2, <1>3, TransferInvariant, PTL DEF Spec
=============================================================================
