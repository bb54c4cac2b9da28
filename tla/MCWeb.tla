------------------------------- MODULE MCWeb --------------------------------
(***************************************************************************)
(* An account's mailbox, JMAP, the limits of sending, calendars and        *)
(* contacts and their query, side by side: a behaviour is about one part.  *)
(***************************************************************************)
EXTENDS Mailbox, Dav, CalQuery, Jmap, Gates

CONSTANTS root, answer, bare, h1, h2, inbox, sent, seen

\* A message, a reply to it, and one without a Message-ID.
Headers == (root :> h1) @@ (answer :> h2) @@ (bare :> NoHeader)
Refs == (root :> <<>>) @@ (answer :> <<h1>>) @@ (bare :> <<h2>>)

VARIABLE part

MCHref == {<<"x">>, <<"X">>, <<"x", "@">>}
MCBatch == {<<[uid |-> <<"x">>, body |-> "b1"], [uid |-> NoUid, body |-> "b1"], [uid |-> <<"X">>, body |-> "b2"]>>,
            <<[uid |-> <<"x", "@">>, body |-> "b1"], [uid |-> <<"x", "@", "X">>, body |-> "b2"]>>}

Path(path, want, on) == [path |-> path, want |-> want, on |-> on]
MCPatches ==
  {{Path("mailboxIds", {"drafts"}, TRUE)},
   {Path("mailboxIds", {"sent"}, TRUE), Path("keywords", {}, TRUE)},
   {Path("mailboxIds", {}, TRUE), Path("keywords/", {"seen"}, TRUE)},
   {Path("keywords", {"seen"}, TRUE)},
   {Path("mailboxIds/", {"drafts"}, FALSE), Path("mailboxIds/", {"sent"}, TRUE), Path("keywords/", {"seen"}, FALSE)}}

First == CHOOSE m \in Msg : TRUE

\* An account, and the same with a display name.
MCPlanKey == ("A@d" :> "a@d") @@ ("A <a@d>" :> "a <a@d>")
MCTenantFor == ("A@d" :> "d") @@ ("A <a@d>" :> "d>")

\* Messages on their way through the gates are alike.
Alike == Permutations(Sending)

\* The states that are explored: flags do not matter to a listing, and one sender at a
\* time is held back by the abuse filter.
NoFlags == part = "list" => \A m \in Msg : mail[m].flags = {}
OneHeld == Cardinality(suspended) <= 1 /\ Cardinality({s \in Spelling : recent[s] > 0}) <= 1

vars == <<mailboxVars, davVars, queryVars, jmapVars, gateVars, part>>

Init ==
  /\ MailboxInit /\ DavInit /\ QueryInit /\ JmapInit /\ GatesInit
  /\ part \in Kind \cup {"mailbox", "query", "jmap", "list", "gates"}
  /\ part # "query" => report.ev = CHOOSE ev \in Event : TRUE

Next ==
  \/ part = "mailbox" /\ MailboxNext /\ UNCHANGED <<davVars, queryVars, jmapVars, gateVars, part>>
  \/ part = "calendar" /\ CalendarNext /\ UNCHANGED <<mailboxVars, queryVars, jmapVars, gateVars, part>>
  \/ part = "contacts" /\ ContactsNext /\ UNCHANGED <<mailboxVars, queryVars, jmapVars, gateVars, part>>
  \/ part = "query" /\ QueryNext /\ UNCHANGED <<mailboxVars, davVars, jmapVars, gateVars, part>>
  \/ part = "jmap" /\ JmapNext(JClient, {First}) /\ UNCHANGED <<mailboxVars, davVars, queryVars, gateVars, part>>
  \/ part = "list" /\ (ListNext \/ JmapNext({CHOOSE c \in JClient : TRUE}, Msg)) /\ UNCHANGED <<mailboxVars, davVars, queryVars, gateVars, part>>
  \/ part = "gates" /\ GatesNext /\ UNCHANGED <<mailboxVars, davVars, queryVars, jmapVars, part>>

Spec == Init /\ [][Next]_vars
=============================================================================
