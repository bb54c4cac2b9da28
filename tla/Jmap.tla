-------------------------------- MODULE Jmap --------------------------------
(***************************************************************************)
(* JMAP (adapters/jmap): Email/set, EmailSubmission/set and Email/query.   *)
(* One method call is many calls of the account's runtime, each of which   *)
(* appends one event under the runtime's lock; the calls of several        *)
(* clients interleave between them.  An append may fail.                   *)
(***************************************************************************)
EXTENDS Naturals, SequencesExt, FiniteSets, Lists

CONSTANTS
  Msg, Mailbox, Keyword, Drafts,
  Patches,   \* what updates ask for: sets of paths
  JClient,
  Limit,     \* the page size of a client that lists a mailbox
  MaxFailed  \* bound on failed appends and submissions

ASSUME JmapAssumption ==
  /\ Msg # {} /\ Drafts \in Mailbox /\ Limit \in Nat \ {0} /\ MaxFailed \in Nat
  /\ Patches \subseteq SUBSET ([path : {"mailboxIds", "mailboxIds/"}, want : SUBSET Mailbox, on : BOOLEAN]
                             \cup [path : {"keywords", "keywords/"}, want : SUBSET Keyword, on : BOOLEAN])

VARIABLES
  listing,   \* the messages in ingest order (projection.order and Messages)
  mail,    \* labels and flags of each
  set,     \* each client's method call
  pager,   \* a client that lists one mailbox page by page
  broken,  \* history: messages an update of which failed half-way, or only removed labels
  failed

jmapVars == <<listing, mail, set, pager, broken, failed>>

Blank == [labels |-> {}, flags |-> {}]
Patching(at, m, patch) ==
  [at |-> at, id |-> m, asked |-> patch, left |-> patch, drop |-> {}, add |-> {}, put |-> {}, alone |-> TRUE]
NoPatch == Patching("idle", CHOOSE m \in Msg : TRUE, {})
NotListing == [pos |-> 0, seen |-> {}, due |-> {}, on |-> FALSE]

JmapInit ==
  /\ listing = <<>> /\ mail = [m \in Msg |-> Blank] /\ set = [c \in JClient |-> NoPatch]
  /\ pager = NotListing /\ broken = {} /\ failed = 0

Here(m) == m \in ToSet(listing)
Wrongly(b) == IF b THEN failed < MaxFailed /\ failed' = failed + 1 ELSE UNCHANGED failed
InBox(l) == KeepIn(listing, {m \in Msg : l \in mail[m].labels})

\* The client that lists a mailbox gives up when a message is taken out of it.
Shorter(m, labels) == IF Drafts \in mail[m].labels \ labels THEN [pager EXCEPT !.on = FALSE] ELSE pager

\* Others that work on the same message are no longer alone with it.
Seen(c, m, r) == [d \in JClient |-> IF d = c THEN r ELSE IF set[d].at # "idle" /\ set[d].id = m THEN [set[d] EXCEPT !.alone = FALSE] ELSE set[d]]

-----------------------------------------------------------------------------
(* Email/set.                                                              *)

\* createEmail: composed, ingested with its labels, as a draft when it has none.  (An id
\* that nobody holds any more stands for a new one.)
CreateEmail(c, m, labels, flags) ==
  /\ set[c].at = "idle" /\ ~Here(m) /\ \A d \in JClient : set[d].at = "idle" \/ set[d].id # m
  /\ listing' = Append(listing, m)
  /\ mail' = [mail EXCEPT ![m] = [labels |-> IF labels = {} THEN {Drafts} ELSE labels, flags |-> flags]]
  /\ broken' = broken \ {m}
  /\ UNCHANGED <<set, pager, failed>>

\* Expunge; an id nobody has is "destroyed" as well.
Destroy(c, m) ==
  /\ set[c].at = "idle" /\ Here(m)
  /\ listing' = KeepIn(listing, Msg \ {m})
  /\ mail' = [mail EXCEPT ![m] = Blank]
  /\ pager' = Shorter(m, {})
  /\ set' = Seen(c, m, set[c])
  /\ UNCHANGED <<broken, failed>>

Update(c, m, patch) ==
  /\ set[c].at = "idle" /\ Here(m)
  /\ set' = [set EXCEPT ![c] = Patching("patch", m, patch)]
  /\ UNCHANGED <<listing, mail, pager, broken, failed>>

Ready(c) == set[c].at = "patch" /\ set[c].drop = {} /\ set[c].add = {} /\ set[c].put = {}

\* Mutant of MailboxesToAdd: a label the message had is not set again.
MailboxesMissing(m, want) == want \ mail[m].labels

\* setAllMailboxes sets every label that is asked for, whatever it found.
MailboxesToAdd(m, want) == want

\* Mutant of KeywordsToPut: flags are set and never cleared.
KeywordsMissing(m, want) == {[flag |-> f, on |-> TRUE] : f \in want \ mail[m].flags}

\* setAllKeywords goes over the four flags and sets those that differ.
KeywordsToPut(m, want) == {[flag |-> f, on |-> f \in want] : f \in {g \in Keyword : (g \in want) # (g \in mail[m].flags)}}

\* applyPatch takes the paths in any order.  A whole property is compared with a copy of
\* the message that is read now; a message that is gone is left alone.
ToDrop(m, p) ==
  CASE p.path = "mailboxIds" /\ Here(m) -> mail[m].labels \ p.want
    [] p.path = "mailboxIds/" /\ ~p.on -> p.want
    [] OTHER -> {}

ToAdd(m, p) ==
  CASE p.path = "mailboxIds" /\ Here(m) -> MailboxesToAdd(m, p.want)
    [] p.path = "mailboxIds/" /\ p.on -> p.want
    [] OTHER -> {}

ToPut(m, p) ==
  CASE p.path = "keywords" /\ Here(m) -> KeywordsToPut(m, p.want)
    [] p.path = "keywords/" -> {[flag |-> f, on |-> p.on] : f \in p.want}
    [] OTHER -> {}

OnlyRemoves(p) == (p.path = "mailboxIds" /\ p.want = {}) \/ (p.path = "mailboxIds/" /\ ~p.on)

TakePath(c, p) ==
  LET m == set[c].id
  IN  /\ Ready(c) /\ p \in set[c].left
      /\ set' = [set EXCEPT ![c] =
           [at |-> "patch", id |-> m, asked |-> set[c].asked, left |-> set[c].left \ {p},
            drop |-> ToDrop(m, p), add |-> ToAdd(m, p), put |-> ToPut(m, p), alone |-> set[c].alone]]
      /\ broken' = IF OnlyRemoves(p) THEN broken \cup {m} ELSE broken
      /\ UNCHANGED <<listing, mail, pager, failed>>

\* One append: an event about a message that is gone changes nothing.  When it fails
\* the rest of the patch is not tried.
Append1(c, ok, r, after) ==
  LET m == set[c].id IN
  /\ Wrongly(~ok)
  /\ IF ok
     THEN /\ mail' = IF Here(m) THEN [mail EXCEPT ![m] = after] ELSE mail
          /\ set' = Seen(c, m, r) /\ UNCHANGED broken
          /\ pager' = Shorter(m, after.labels)
     ELSE /\ set' = [set EXCEPT ![c] = NoPatch] /\ broken' = broken \cup {m} /\ UNCHANGED <<mail, pager>>
  /\ UNCHANGED listing

DropLabel(c, l, ok) ==
  /\ set[c].at = "patch" /\ l \in set[c].drop
  /\ Append1(c, ok, [set[c] EXCEPT !.drop = @ \ {l}], [mail[set[c].id] EXCEPT !.labels = @ \ {l}])

AddLabel(c, l, ok) ==
  /\ set[c].at = "patch" /\ set[c].drop = {} /\ l \in set[c].add
  /\ Append1(c, ok, [set[c] EXCEPT !.add = @ \ {l}], [mail[set[c].id] EXCEPT !.labels = @ \cup {l}])

PutFlag(c, e, ok) ==
  /\ set[c].at = "patch" /\ e \in set[c].put
  /\ Append1(c, ok, [set[c] EXCEPT !.put = @ \ {e}],
             [mail[set[c].id] EXCEPT !.flags = IF e.on THEN @ \cup {e.flag} ELSE @ \ {e.flag}])

Complete(c) == Ready(c) /\ set[c].left = {}

Updated(c) ==
  /\ Complete(c)
  /\ set' = [set EXCEPT ![c] = NoPatch]
  /\ UNCHANGED <<listing, mail, pager, broken, failed>>

-----------------------------------------------------------------------------
(* EmailSubmission/set: the message is read and sent, and then patched; an *)
(* error of the patch is not reported.                                     *)

SubmitRead(c, m, patch) ==
  /\ set[c].at = "idle" /\ Here(m)
  /\ set' = [set EXCEPT ![c] = Patching("send", m, patch)]
  /\ UNCHANGED <<listing, mail, pager, broken, failed>>

Submit(c, ok) ==
  /\ set[c].at = "send"
  /\ Wrongly(~ok)
  /\ set' = [set EXCEPT ![c] = IF ok THEN [set[c] EXCEPT !.at = "patch"] ELSE NoPatch]
  /\ UNCHANGED <<listing, mail, pager, broken>>

-----------------------------------------------------------------------------
(* Email/query, newest first, by a client that asks for page after page.   *)

\* Mutant of EmailQuery: the window begins one further than asked.
EmailQueryAhead(l, pos) ==
  LET ids == Reverse(InBox(l)) IN SubSeq(ids, pos + 2, IF pos + 1 + Limit < Len(ids) THEN pos + 1 + Limit ELSE Len(ids))

EmailQuery(l, pos) ==
  LET ids == Reverse(InBox(l)) IN SubSeq(ids, pos + 1, IF pos + Limit < Len(ids) THEN pos + Limit ELSE Len(ids))

\* External: the client begins, or begins again, with what is there.
List ==
  /\ ~pager.on \/ EmailQuery(Drafts, pager.pos) = <<>>
  /\ pager' = [pos |-> 0, seen |-> {}, due |-> ToSet(InBox(Drafts)), on |-> TRUE]
  /\ UNCHANGED <<listing, mail, set, broken, failed>>

Page ==
  LET ids == EmailQuery(Drafts, pager.pos) IN
  /\ pager.on /\ ids # <<>>
  /\ pager' = [pos |-> pager.pos + Limit, seen |-> pager.seen \cup ToSet(ids), due |-> pager.due, on |-> TRUE]
  /\ UNCHANGED <<listing, mail, set, broken, failed>>

ListNext == List \/ Page

JmapNext(clients, msgs) ==
  \E c \in clients :
    \/ Updated(c)
    \/ \E ok \in BOOLEAN : Submit(c, ok)
    \/ \E m \in msgs : Destroy(c, m) \/ \E labels \in SUBSET Mailbox, flags \in SUBSET Keyword : CreateEmail(c, m, labels, flags)
    \/ \E m \in msgs, patch \in Patches : Update(c, m, patch) \/ SubmitRead(c, m, patch)
    \/ \E p \in set[c].left : TakePath(c, p)
    \/ \E l \in Mailbox, ok \in BOOLEAN : DropLabel(c, l, ok) \/ AddLabel(c, l, ok)
    \/ \E e \in set[c].put, ok \in BOOLEAN : PutFlag(c, e, ok)

JmapSpec == JmapInit /\ [][ListNext \/ JmapNext(JClient, Msg)]_jmapVars

-----------------------------------------------------------------------------
JmapTypeOK ==
  /\ IsInjective(listing) /\ ToSet(listing) \subseteq Msg
  /\ \A m \in Msg : mail[m].labels \subseteq Mailbox /\ mail[m].flags \subseteq Keyword
  /\ \A c \in JClient : set[c].at \in {"idle", "patch", "send"} /\ set[c].left \subseteq set[c].asked

\* Clients that move a message at the same time, each by replacing its mailboxes, may
\* leave it in several, and never in none once they are done.
NeverNowhere ==
  \A m \in ToSet(listing) \ broken : (\A c \in JClient : set[c].at # "patch" \/ set[c].id # m) => mail[m].labels # {}

\* Two paths of a patch that do not undo each other, in whatever order they are taken.
OfMailboxes(p) == p.path \in {"mailboxIds", "mailboxIds/"}
Whole(p) == p.path \in {"mailboxIds", "keywords"}
Apart(p, q) == (OfMailboxes(p) # OfMailboxes(q)) \/ (~Whole(p) /\ ~Whole(q) /\ p.want \cap q.want = {})

\* What a path asks of a message's labels and flags.
Holds(p, labels, flags) ==
  LET has == IF OfMailboxes(p) THEN labels ELSE flags
  IN  IF Whole(p) THEN has = p.want ELSE IF p.on THEN p.want \subseteq has ELSE p.want \cap has = {}

\* An update that was alone with its message has done what it asked for.
UpdateTakes ==
  \A c \in JClient :
    Complete(c) /\ set[c].alone /\ Here(set[c].id) =>
      \A p \in set[c].asked :
        (\A q \in set[c].asked \ {p} : Apart(p, q)) => Holds(p, mail[set[c].id].labels, mail[set[c].id].flags)

\* What updates over JMAP come to.
UpdatesEndWell == NeverNowhere /\ UpdateTakes

\* A client that pages through a mailbox until a page is empty has seen every message
\* that was there, while others arrive, as long as none is taken out.
PagingMissesNothing == pager.on /\ EmailQuery(Drafts, pager.pos) = <<>> => pager.due \subseteq pager.seen
=============================================================================
