------------------------------ MODULE Transfer ------------------------------
(***************************************************************************)
(* A message on its way through the server, end to end: submission over    *)
(* SMTP or the web, the fan-out by destination domain into the outbound    *)
(* queue, the scheduler's sends (those to the server's own domain come     *)
(* back in through its MX), reception for several recipients, bounces and  *)
(* vacation replies.  Outside senders and clients try again as SMTP asks   *)
(* them to.                                                                *)
(*                                                                         *)
(* Accounts are what Mailbox shows of Ingest, one copy per Message-ID; the *)
(* queue is what OutQueue shows of it, durable items.  The abuse filter    *)
(* and the sending quotas may refuse at any time.  Refused writes, lookups *)
(* of a plan that fail and restarts are faults.                            *)
(***************************************************************************)
EXTENDS Naturals, FiniteSets, Bags

CONSTANTS
  Acct, Nobody,  \* the accounts, and an address of this domain without one
  Out,           \* an address elsewhere
  Mail,          \* messages people send
  From, To,      \* Mail -> address, Mail -> SUBSET address
  Web,           \* the mail that is sent from the web client
  Away,          \* accounts with a vacation message
  MaxBytes,      \* the storage cap of each account's plan, in messages
  MaxFaults      \* bound on faults

Addr == Acct \cup {Nobody, Out}
Domain(a) == IF a = Out THEN "elsewhere" ELSE "here"
Submitted == {m \in Mail : From[m] \in Acct}
Inbound == Mail \ Submitted

ASSUME AddrAssumption == Nobody \notin Acct /\ Out \notin Acct /\ Nobody # Out
ASSUME MailAssumption ==
  /\ From \in [Mail -> Acct \cup {Out}] /\ To \in [Mail -> SUBSET Addr]
  /\ Web \subseteq Submitted /\ "sched" \notin Mail /\ IsFiniteSet(Mail)
  /\ \A m \in Mail : To[m] # {} /\ (m \in Inbound => To[m] \subseteq Acct)
ASSUME BoundAssumption == MaxBytes \in [Acct -> Nat \ {0}] /\ MaxFaults \in Nat /\ Away \subseteq Acct

VARIABLES
  sub,      \* each submission: where it is, and the domains it has still to queue
  queue,    \* bag of items: a message and its recipients in one domain
  conn,     \* SMTP transactions at the MX, by sender; the scheduler is one of them
  outside,  \* what the sender of inbound mail was told
  item,     \* what the scheduler is sending
  failed,   \* bag of items whose bounce is to be reported
  box,      \* each account: bag of messages with their label
  remote,   \* history: the mail a server elsewhere took
  replied,  \* Responder.last: account and sender pairs answered
  silent,   \* history: mail whose bounce could not be delivered
  faults

vars == <<sub, queue, conn, outside, item, failed, box, remote, replied, silent, faults>>

-----------------------------------------------------------------------------
(* Messages.                                                               *)

\* depth counts the automatic messages in the chain that led to this one.
Person(m) == [kind |-> "mail", root |-> m, from |-> From[m], depth |-> 0, about |-> {}]

\* BuildReply and dsn.Build; neither writes a Message-ID.
Vacation(a, msg) == [kind |-> "reply", root |-> msg.root, from |-> a, depth |-> msg.depth + 1, about |-> {}]
DSN(x) == [kind |-> "dsn", root |-> x.msg.root, from |-> Nobody, depth |-> x.msg.depth + 1, about |-> x.rcpts]

\* IsAutomated and IsDaemonAddress.
Automatic(msg) == msg.kind # "mail"

Item(msg, rcpts) == [msg |-> msg, rcpts |-> rcpts]
ByPeople(items) == {x \in items : x.msg.kind = "mail"}
Plus(b, x) == b (+) SetToBag({x})
Minus(b, x) == b (-) SetToBag({x})

Copies(a, msg) == {x \in BagToSet(box[a]) : x.msg = msg}

\* Mutant of Filed: every delivery is stored.
FiledAgain(a, msg, label) == [box EXCEPT ![a] = Plus(@, [msg |-> msg, label |-> label])]

\* Ingest: a message the account has by its Message-ID is not stored again.
Filed(a, msg, label) ==
  IF msg.kind = "mail" /\ Copies(a, msg) # {} THEN box
  ELSE [box EXCEPT ![a] = Plus(@, [msg |-> msg, label |-> label])]

\* Every single copy of the messages of the account with one of the labels.
Pieces(a, labels) == UNION {{x} \X (1 .. box[a][x]) : x \in {y \in BagToSet(box[a]) : y.label \in labels}}

\* MailboxBytes, which leaves spam out.
Stored(a) == Cardinality(Pieces(a, {"inbox", "sent"}))

\* Mutant of OverCap: the message to come is not counted.
OverCapOnceFull(a) == Stored(a) > MaxBytes[a]

OverCap(a) == Stored(a) + 1 > MaxBytes[a]

Fault == faults < MaxFaults /\ faults' = faults + 1
FaultIf(b) == IF b THEN Fault ELSE UNCHANGED faults

-----------------------------------------------------------------------------
NoMsg == [kind |-> "none", root |-> Nobody, from |-> Nobody, depth |-> 0, about |-> {}]
NoItem == Item(NoMsg, {})

\* A transaction: the recipients still to be served, the one deliver is working on
\* with the label it chose, and the answer once there is one.
Idle == [msg |-> NoMsg, left |-> {}, at |-> Nobody, label |-> "inbox", junk |-> FALSE, code |-> "none"]

Init ==
  /\ sub = [m \in Submitted |-> [at |-> "new", left |-> {}]]
  /\ queue = EmptyBag
  /\ conn = [o \in Inbound \cup {"sched"} |-> Idle]
  /\ outside = [m \in Inbound |-> "new"]
  /\ item = NoItem /\ failed = EmptyBag
  /\ box = [a \in Acct |-> EmptyBag]
  /\ remote = {} /\ replied = {} /\ silent = {} /\ faults = 0

At(m, where, left) == sub' = [sub EXCEPT ![m] = [at |-> where, left |-> left]]
Domains(m) == {Domain(r) : r \in To[m]}

\* submitSession.Data, the gates; a refusal that asks to try again changes nothing.
SubmitGates(m, ok) ==
  /\ m \notin Web /\ sub[m].at = "new"
  /\ At(m, IF ok THEN "store" ELSE "refused", {})
  /\ UNCHANGED <<queue, conn, outside, item, failed, box, remote, replied, silent, faults>>

\* The copy for Sent.  When it fails the client is told 554 and gives up.
SubmitStore(m, ok) ==
  /\ m \notin Web /\ sub[m].at = "store"
  /\ FaultIf(~ok)
  /\ box' = IF ok THEN Filed(From[m], Person(m), "sent") ELSE box
  /\ IF ok THEN At(m, "fan", Domains(m)) ELSE At(m, "refused", {})
  /\ UNCHANGED <<queue, conn, outside, item, failed, remote, replied, silent>>

\* WebSendMsg: the copy for Sent first, whether it works or not, then SendRaw.
WebStore(m, ok) ==
  /\ m \in Web /\ sub[m].at = "new"
  /\ FaultIf(~ok)
  /\ box' = IF ok THEN Filed(From[m], Person(m), "sent") ELSE box
  /\ At(m, "store", {})
  /\ UNCHANGED <<queue, conn, outside, item, failed, remote, replied, silent>>

SendRawGates(m, ok) ==
  /\ m \in Web /\ sub[m].at = "store"
  /\ IF ok THEN At(m, "fan", Domains(m)) ELSE At(m, "refused", {})
  /\ UNCHANGED <<queue, conn, outside, item, failed, box, remote, replied, silent, faults>>

\* Mutant of FanOut: the first domain that is queued makes the answer a 250.
FanOutFirst(m, d) ==
  /\ sub[m].at = "fan" /\ d \in sub[m].left
  /\ queue' = Plus(queue, Item(Person(m), {r \in To[m] : Domain(r) = d}))
  /\ At(m, "acked", {})
  /\ UNCHANGED <<conn, outside, item, failed, box, remote, replied, silent, faults>>

\* One Enqueue per domain, in the order of a map; the last one makes it a 250.
FanOut(m, d) ==
  /\ sub[m].at = "fan" /\ d \in sub[m].left
  /\ queue' = Plus(queue, Item(Person(m), {r \in To[m] : Domain(r) = d}))
  /\ LET left == sub[m].left \ {d} IN At(m, IF left = {} THEN "acked" ELSE "fan", left)
  /\ UNCHANGED <<conn, outside, item, failed, box, remote, replied, silent, faults>>

\* Enqueue fails: a 451, and what was queued stays queued.  An SMTP client tries the
\* whole message again.
FanOutFails(m) ==
  /\ sub[m].at = "fan"
  /\ Fault
  /\ At(m, IF m \in Web THEN "refused" ELSE "new", {})
  /\ UNCHANGED <<queue, conn, outside, item, failed, box, remote, replied, silent>>

-----------------------------------------------------------------------------
(* Reception.                                                              *)

Answer(o, code) == conn' = [conn EXCEPT ![o] = [Idle EXCEPT !.msg = conn[o].msg, !.code = code]]

\* MAIL, RCPT and the verdict on DATA.  One unknown recipient is enough for a sender
\* that gives up at the first RCPT refused, as SMTPSender does.
Offer(o, msg, rcpts, verdict) ==
  conn' = [conn EXCEPT ![o] =
    IF ~(rcpts \subseteq Acct) \/ verdict = "reject" THEN [Idle EXCEPT !.msg = msg, !.code = "5xx"]
    ELSE IF verdict = "defer" THEN [Idle EXCEPT !.msg = msg, !.code = "4xx"]
    ELSE [Idle EXCEPT !.msg = msg, !.left = rcpts, !.junk = (verdict = "quarantine")]]

Verdicts == {"pass", "quarantine", "reject", "defer"}

OfferInbound(m, verdict) ==
  /\ outside[m] = "new" /\ conn[m].msg = NoMsg
  /\ Offer(m, Person(m), To[m], verdict)
  /\ UNCHANGED <<sub, queue, outside, item, failed, box, remote, replied, silent, faults>>

\* deliver up to Ingest: the cap, if the plan is known, and the scanners.  Plain
\* errors become a 554 on the wire.
DeliverCheck(o, a, known, scan) ==
  /\ a \in conn[o].left /\ conn[o].at = Nobody
  /\ FaultIf(~known)
  /\ IF (known /\ OverCap(a)) \/ scan = "reject"
     THEN Answer(o, "5xx")
     ELSE conn' = [conn EXCEPT ![o].at = a,
                               ![o].label = IF conn[o].junk \/ scan = "junk" THEN "junk" ELSE "inbox"]
  /\ UNCHANGED <<sub, queue, outside, item, failed, box, remote, replied, silent>>

Scans == {"accept", "junk", "reject"}

\* Mutant of Due: automatic mail is answered too.
DueForAll(a, msg, label) ==
  /\ label = "inbox" /\ a \in Away /\ msg.from # a
  /\ <<a, msg.from>> \notin replied

\* maybeVacation.  ShouldReply's interval does not run out here.
Due(a, msg, label) ==
  /\ label = "inbox" /\ a \in Away /\ msg.from # a
  /\ ~Automatic(msg)
  /\ <<a, msg.from>> \notin replied

\* The rest of deliver; a reply that cannot be queued is dropped.  After the last
\* recipient the sender is told 250.
DeliverIngest(o, queued) ==
  LET a == conn[o].at
      msg == conn[o].msg
      due == Due(a, msg, conn[o].label)
      left == conn[o].left \ {a}
  IN  /\ a # Nobody
      /\ FaultIf(due /\ ~queued)
      /\ box' = Filed(a, msg, conn[o].label)
      /\ replied' = IF due THEN replied \cup {<<a, msg.from>>} ELSE replied
      /\ queue' = IF due /\ queued THEN Plus(queue, Item(Vacation(a, msg), {msg.from})) ELSE queue
      /\ IF left = {} THEN Answer(o, "2xx")
         ELSE conn' = [conn EXCEPT ![o].left = left, ![o].at = Nobody, ![o].label = "inbox"]
      /\ UNCHANGED <<sub, outside, item, failed, remote, silent>>

\* Mutant of DeliverFails: the other recipients are served and the error forgotten.
DeliverFailsQuietly(o) ==
  /\ conn[o].at # Nobody
  /\ Fault
  /\ LET left == conn[o].left \ {conn[o].at} IN
       IF left = {} THEN Answer(o, "2xx")
       ELSE conn' = [conn EXCEPT ![o].left = left, ![o].at = Nobody]
  /\ UNCHANGED <<sub, queue, outside, item, failed, box, remote, replied, silent>>

\* The account does not open or Ingest fails: the transaction ends there, with recipients served before.
DeliverFails(o) ==
  /\ conn[o].at # Nobody
  /\ Fault
  /\ Answer(o, "5xx")
  /\ UNCHANGED <<sub, queue, outside, item, failed, box, remote, replied, silent>>

\* The outside sender reads the answer; on a 4xx it tries again.
Told(m) ==
  /\ conn[m].code # "none"
  /\ outside' = [outside EXCEPT ![m] =
       CASE conn[m].code = "2xx" -> "accepted" [] conn[m].code = "5xx" -> "bounced" [] OTHER -> "new"]
  /\ conn' = [conn EXCEPT ![m] = Idle]
  /\ UNCHANGED <<sub, queue, item, failed, box, remote, replied, silent, faults>>

-----------------------------------------------------------------------------
(* The scheduler, one item at a time.                                      *)

SendHere(x, verdict) ==
  /\ item = NoItem /\ x.rcpts # {Out}
  /\ item' = x
  /\ Offer("sched", x.msg, x.rcpts, verdict)
  /\ UNCHANGED <<sub, queue, outside, failed, box, remote, replied, silent, faults>>

SendElsewhere(x, code) ==
  /\ item = NoItem /\ x.rcpts = {Out}
  /\ item' = x
  /\ conn' = [conn EXCEPT !["sched"] = [Idle EXCEPT !.msg = x.msg, !.code = code]]
  /\ remote' = IF code = "2xx" /\ x.msg.kind = "mail" THEN remote \cup {x.msg.root} ELSE remote
  /\ UNCHANGED <<sub, queue, outside, failed, box, replied, silent, faults>>

\* Tick after Send; last says that a temporary failure used up the attempts.
Settle(last) ==
  /\ conn["sched"].code # "none"
  /\ LET code == conn["sched"].code
         over == code = "5xx" \/ (code = "4xx" /\ last)
     IN  /\ queue' = IF code = "2xx" \/ over THEN Minus(queue, item) ELSE queue
         /\ failed' = IF over THEN Plus(failed, item) ELSE failed
  /\ item' = NoItem
  /\ conn' = [conn EXCEPT !["sched"] = Idle]
  /\ UNCHANGED <<sub, outside, box, remote, replied, silent, faults>>

\* HandleBounce: the notice goes to the sender's account directly, and what deliver
\* answers is not looked at.
Report(x, known, scan, ok) ==
  LET a == x.msg.from
      filed == ok /\ scan # "reject" /\ ~(known /\ OverCap(a))
  IN  /\ item = NoItem
      /\ FaultIf(~known \/ ~ok)
      /\ box' = IF filed THEN Filed(a, DSN(x), IF scan = "junk" THEN "junk" ELSE "inbox") ELSE box
      /\ silent' = IF filed THEN silent ELSE silent \cup ByPeople({x})
      /\ failed' = Minus(failed, x)
      /\ UNCHANGED <<sub, queue, conn, outside, item, remote, replied>>

\* The process restarts: connections break, accounts and queue stay.
Restart ==
  /\ Fault
  /\ sub' = [m \in Submitted |->
       IF sub[m].at \in {"store", "fan"}
       THEN [at |-> IF m \in Web THEN "refused" ELSE "new", left |-> {}] ELSE sub[m]]
  /\ conn' = [o \in Inbound \cup {"sched"} |-> Idle]
  /\ item' = NoItem
  /\ silent' = silent \cup ByPeople(BagToSet(failed)) /\ failed' = EmptyBag
  /\ replied' = {}
  /\ UNCHANGED <<queue, outside, box, remote>>

Next ==
  \/ \E m \in Submitted, ok \in BOOLEAN : SubmitGates(m, ok)
  \/ \E m \in Submitted, ok \in BOOLEAN : SubmitStore(m, ok)
  \/ \E m \in Submitted, ok \in BOOLEAN : WebStore(m, ok)
  \/ \E m \in Submitted, ok \in BOOLEAN : SendRawGates(m, ok)
  \/ \E m \in Submitted, d \in {"here", "elsewhere"} : FanOut(m, d)
  \/ \E m \in Submitted : FanOutFails(m)
  \/ \E m \in Inbound, v \in Verdicts : OfferInbound(m, v)
  \/ \E o \in Inbound \cup {"sched"}, a \in Acct, known \in BOOLEAN, scan \in Scans :
       DeliverCheck(o, a, known, scan)
  \/ \E o \in Inbound \cup {"sched"}, queued \in BOOLEAN : DeliverIngest(o, queued)
  \/ \E o \in Inbound \cup {"sched"} : DeliverFails(o)
  \/ \E m \in Inbound : Told(m)
  \/ \E x \in BagToSet(queue), v \in Verdicts : SendHere(x, v)
  \/ \E x \in BagToSet(queue), code \in {"2xx", "4xx", "5xx"} : SendElsewhere(x, code)
  \/ \E last \in BOOLEAN : Settle(last)
  \/ \E x \in BagToSet(failed), known \in BOOLEAN, scan \in Scans, ok \in BOOLEAN :
       Report(x, known, scan, ok)
  \/ Restart

Spec == Init /\ [][Next]_vars

-----------------------------------------------------------------------------
(* Properties.                                                             *)

Messages ==
  [kind : {"mail", "reply", "dsn", "none"}, root : Mail \cup {Nobody}, from : Addr, depth : Nat, about : SUBSET Addr]
Items == [msg : Messages, rcpts : SUBSET Addr]

TypeOK ==
  /\ \A m \in Submitted :
       sub[m] \in [at : {"new", "store", "fan", "acked", "refused"}, left : SUBSET {"here", "elsewhere"}]
  /\ BagToSet(queue) \subseteq Items /\ BagToSet(failed) \subseteq Items
  /\ \A o \in Inbound \cup {"sched"} :
       conn[o] \in [msg : Messages, left : SUBSET Acct, at : Acct \cup {Nobody},
                    label : {"inbox", "junk"}, junk : BOOLEAN, code : {"none", "2xx", "4xx", "5xx"}]
  /\ outside \in [Inbound -> {"new", "accepted", "bounced"}]
  /\ item \in Items
  /\ item # NoItem => BagIn(item, queue)
  /\ \A a \in Acct : BagToSet(box[a]) \subseteq [msg : Messages, label : {"inbox", "sent", "junk"}]
  /\ remote \in SUBSET Mail /\ replied \in SUBSET (Acct \X Addr)
  /\ silent \in SUBSET Items /\ faults \in 0 .. MaxFaults

Delivered(m, r) == IF r = Out THEN m \in remote ELSE r \in Acct /\ Copies(r, Person(m)) # {}
Carries(items, m, r) == \E x \in items : x.msg = Person(m) /\ r \in x.rcpts
Reported(m, r) ==
  \E x \in BagToSet(box[From[m]]) :
    x.msg.kind = "dsn" /\ x.msg.root = m /\ x.msg.depth = 1 /\ r \in x.msg.about

\* End to end: of a message whose submitter was told 250, every recipient has it, or
\* it is queued for that recipient, or its sender has a notice naming that recipient
\* or one under way.  The only silence is a notice that a crash wiped out or the
\* sender's own account refused.
AckedIsAccountedFor ==
  \A m \in Submitted : sub[m].at = "acked" => \A r \in To[m] :
    \/ Delivered(m, r) \/ Reported(m, r)
    \/ Carries(BagToSet(queue) \cup BagToSet(failed) \cup silent, m, r)

\* A 250 to another server means that every recipient has the message, whichever of
\* them refused it, failed or was interrupted in an earlier try.
AcceptedIsDelivered ==
  \A m \in Inbound : outside[m] = "accepted" => \A r \in To[m] : Delivered(m, r)

\* However often clients, senders and the scheduler repeat a transaction that was
\* served in part, an account has a message once.
OnceEach ==
  \A a \in Acct : \A x \in BagToSet(box[a]) :
    x.msg.kind = "mail" => box[a][x] = 1 /\ \A y \in Copies(a, x.msg) : y = x

\* Reception of mail is exact: all of those who were accepted, and no one twice.
DeliveredOnce == AcceptedIsDelivered /\ OnceEach

Everything == {x.msg : x \in BagToSet(queue) \cup BagToSet(failed)} \cup UNION {{x.msg : x \in BagToSet(box[a])} : a \in Acct}

\* No mail loops: vacation messages answer people only, even between two accounts
\* that are both away, so every chain ends with the notice that a vacation message
\* could not be delivered.
ChainsEnd ==
  \A msg \in Everything :
    /\ msg.kind = "reply" => msg.depth = 1
    /\ msg.depth <= 2

\* Deliveries pass the storage cap by no more than what was checked at the same time
\* and what came in while the plan was unknown.
CapOverrun ==
  \A a \in Acct : Cardinality(Pieces(a, {"inbox"})) <= MaxBytes[a] + Cardinality(Inbound) + faults
=============================================================================
