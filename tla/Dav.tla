-------------------------------- MODULE Dav ---------------------------------
(***************************************************************************)
(* Calendars and contacts: the resources of an account are files, written  *)
(* in place by PUT and by the bulk import, both without a temporary file.  *)
(* Each call of the store holds its lock; a PUT looks first and writes     *)
(* then, an import writes item by item, and others come in between.        *)
(***************************************************************************)
EXTENDS Naturals, SequencesExt, FiniteSetsExt

CONSTANTS
  Account, Body, Caller,
  Href,      \* names, sequences of characters as the replacers tell them apart
  MaxUid,    \* pimSafeHref's limit of 200
  Batch,     \* what an import may bring: sequences of items
  None, Torn,
  MaxWrongs  \* bound on failed writes and crashes

ASSUME DavAssumption == MaxUid \in Nat \ {0} /\ MaxWrongs \in Nat /\ {None, Torn} \cap Body = {} /\ Account # {}

Kind == {"calendar", "contacts"}
NoUid == <<>>

-----------------------------------------------------------------------------
(* Names.  "x" is any small letter and "X" its capital.                    *)

Lower(h) == [i \in DOMAIN h |-> IF h[i] = "X" THEN "x" ELSE h[i]]

Replaced(ch) ==
  CASE ch \in {"/", ".."} -> <<"_">>
    [] ch = "@" -> <<"_", "at", "_">>
    [] OTHER -> <<ch>>

Safe(h) == FlattenSeq([i \in DOMAIN h |-> Replaced(h[i])])

\* The calendar's names are lower-cased, the address book's are not.
File(kind, h) == IF kind = "calendar" THEN Safe(Lower(h)) ELSE Safe(h)

\* An import names its files by the items' UIDs.
PimSafeHref(uid) ==
  [i \in 1 .. Min({Len(uid), MaxUid}) |-> IF uid[i] \in {"/", "@"} THEN "_" ELSE uid[i]]

Name == {File(k, h) : k \in Kind, h \in Href} \cup {File(k, PimSafeHref(h)) : k \in Kind, h \in Href}

\* The names that imports use are among them.
ASSUME BatchAssumption ==
  \A items \in Batch :
    /\ Len(items) \in Nat /\ DOMAIN items = 1 .. Len(items)
    /\ \A i \in DOMAIN items : items[i].body \in Body
    /\ \A i \in DOMAIN items, k \in Kind : items[i].uid # NoUid => File(k, PimSafeHref(items[i].uid)) \in Name

-----------------------------------------------------------------------------
VARIABLES
  files,    \* kind, account and name: the content
  call,     \* each caller's request
  own,      \* history: files an import wrote and nobody touched since, and those that
            \* somebody did
  slipped,  \* history: imports of which a calendar write failed without a word
  wrongs

davVars == <<files, call, own, slipped, wrongs>>

Request(at, kind, a, name, body, items) ==
  [at |-> at, kind |-> kind, acct |-> a, name |-> name, body |-> body, items |-> items, next |-> 1, imported |-> 0, errors |-> 0]
Resting == Request("idle", "contacts", CHOOSE a \in Account : TRUE, <<>>, None, <<>>)

NoMark == [mine |-> {}, lost |-> {}]

DavInit ==
  /\ files = [f \in Kind \X Account \X Name |-> None]
  /\ own = [c \in Caller |-> NoMark]
  /\ call = [c \in Caller |-> Resting] /\ slipped = {} /\ wrongs = 0

Wrong(b) == IF b THEN wrongs < MaxWrongs /\ wrongs' = wrongs + 1 ELSE UNCHANGED wrongs

Touched(c, f) ==
  [d \in Caller |->
    IF d = c THEN IF call[c].at # "import" THEN NoMark ELSE [mine |-> own[d].mine \cup {f}, lost |-> own[d].lost \ {f}]
    ELSE IF f \in own[d].mine THEN [mine |-> own[d].mine \ {f}, lost |-> own[d].lost \cup {f}]
    ELSE own[d]]

\* External, os.WriteFile: it may not begin, or the file is truncated and then not filled.
WriteFile(c, k, a, n, body, outcome) ==
  /\ Wrong(outcome # "stored")
  /\ own' = Touched(c, <<k, a, n>>)
  /\ files' = [files EXCEPT ![<<k, a, n>>] = CASE outcome = "stored" -> body [] outcome = "unopened" -> @ [] OTHER -> Torn]

Outcome == {"stored", "unopened", "truncated"}

\* The calendar's Put has no error to return; the address book's has.
CalPut(c, a, n, body, outcome) ==
  /\ WriteFile(c, "calendar", a, n, body, outcome)
  /\ slipped' = IF call[c].at = "import" /\ outcome # "stored" THEN slipped \cup {c} ELSE slipped

CardPut(c, a, n, body, outcome) ==
  /\ WriteFile(c, "contacts", a, n, body, outcome)
  /\ UNCHANGED slipped

\* The resources of an account, as PROPFIND lists and GET returns them.
Listed(k, a) == [n \in {m \in Name : files[<<k, a, m>>] # None} |-> files[<<k, a, n>>]]

-----------------------------------------------------------------------------
(* Requests.  PUT looks whether the resource exists, for its answer, and   *)
(* then stores it.                                                         *)

Ask(c, r) ==
  /\ call[c].at = "idle"
  /\ call' = [call EXCEPT ![c] = r]
  /\ UNCHANGED <<files, own, slipped, wrongs>>

PutEvent(c, a, h, body) == Ask(c, Request("put", "calendar", a, File("calendar", h), body, <<>>))
PutCard(c, a, h, body) == Ask(c, Request("put", "contacts", a, File("contacts", h), body, <<>>))

Putting(c, kind) == call[c].at = "put" /\ call[c].kind = kind /\ call' = [call EXCEPT ![c] = Resting]

PutEventWrite(c, outcome) == Putting(c, "calendar") /\ CalPut(c, call[c].acct, call[c].name, call[c].body, outcome)
PutCardWrite(c, outcome) == Putting(c, "contacts") /\ CardPut(c, call[c].acct, call[c].name, call[c].body, outcome)

RemoveFile(c, k, a, h) ==
  /\ call[c].at = "idle" /\ File(k, h) \in DOMAIN Listed(k, a)
  /\ files' = [files EXCEPT ![<<k, a, File(k, h)>>] = None]
  /\ own' = Touched(c, <<k, a, File(k, h)>>)
  /\ UNCHANGED <<call, slipped, wrongs>>

DeleteEvent(c, a, h) == RemoveFile(c, "calendar", a, h)
DeleteCard(c, a, h) == RemoveFile(c, "contacts", a, h)

\* POST import/contacts and import/events.
Import(c, k, a, items) == Ask(c, Request("import", k, a, <<>>, None, items))

ItemName(q, i) == File(q.kind, PimSafeHref(q.items[i].uid))

Importing(c, kind) == call[c].at = "import" /\ call[c].kind = kind /\ call[c].next <= Len(call[c].items)
Item(c) == call[c].items[call[c].next]
Count(c, ok) ==
  LET q == call[c] IN
  call' = [call EXCEPT ![c] =
    [at |-> q.at, kind |-> q.kind, acct |-> q.acct, name |-> q.name, body |-> q.body, items |-> q.items, next |-> q.next + 1,
     imported |-> IF ok THEN q.imported + 1 ELSE q.imported, errors |-> IF ok THEN q.errors ELSE q.errors + 1]]

\* An item without a UID is an error and nothing is written.
SkipItem(c, kind) ==
  /\ Importing(c, kind) /\ Item(c).uid = NoUid
  /\ Count(c, FALSE) /\ UNCHANGED <<files, own, slipped, wrongs>>

\* Mutant of Counted: the address book's error is ignored too.
CountedAnyway(outcome) == TRUE

Counted(outcome) == outcome = "stored"

\* The contacts' loop counts an item whose write failed among the errors...
ImportCard(c, outcome) ==
  /\ Importing(c, "contacts") /\ Item(c).uid # NoUid
  /\ CardPut(c, call[c].acct, ItemName(call[c], call[c].next), Item(c).body, outcome)
  /\ Count(c, Counted(outcome))

\* ...the events' loop does not look.
ImportEvent(c, outcome) ==
  /\ Importing(c, "calendar") /\ Item(c).uid # NoUid
  /\ CalPut(c, call[c].acct, ItemName(call[c], call[c].next), Item(c).body, outcome)
  /\ Count(c, TRUE)

Imported(c) == call[c].at = "import" /\ call[c].next > Len(call[c].items)

Answered(c) ==
  /\ Imported(c)
  /\ call' = [call EXCEPT ![c] = Resting]
  /\ own' = [own EXCEPT ![c] = NoMark] /\ slipped' = slipped \ {c}
  /\ UNCHANGED <<files, wrongs>>

\* The process ends in the middle of requests; a file that was being written is torn.
Crash(c) ==
  /\ Wrong(TRUE)
  /\ LET q == call[c] IN
     files' = IF q.at = "put" THEN [files EXCEPT ![<<q.kind, q.acct, q.name>>] = Torn] ELSE files
  /\ own' = [d \in Caller |-> NoMark]
  /\ call' = [d \in Caller |-> Resting] /\ slipped' = {}

Always(c) == Answered(c) \/ Crash(c)

CalendarNext ==
  \E c \in Caller :
    \/ Always(c) \/ SkipItem(c, "calendar")
    \/ \E outcome \in Outcome : PutEventWrite(c, outcome) \/ ImportEvent(c, outcome)
    \/ \E a \in Account :
         \/ \E items \in Batch : Import(c, "calendar", a, items)
         \/ \E h \in Href : DeleteEvent(c, a, h) \/ \E body \in Body : PutEvent(c, a, h, body)

ContactsNext ==
  \E c \in Caller :
    \/ Always(c) \/ SkipItem(c, "contacts")
    \/ \E outcome \in Outcome : PutCardWrite(c, outcome) \/ ImportCard(c, outcome)
    \/ \E a \in Account :
         \/ \E items \in Batch : Import(c, "contacts", a, items)
         \/ \E h \in Href : DeleteCard(c, a, h) \/ \E body \in Body : PutCard(c, a, h, body)

DavSpec == DavInit /\ [][CalendarNext \/ ContactsNext]_davVars

-----------------------------------------------------------------------------
DavTypeOK ==
  /\ \A f \in DOMAIN files : files[f] \in Body \cup {None, Torn}
  /\ \A c \in Caller : call[c].at \in {"idle", "put", "import"} /\ call[c].imported + call[c].errors = call[c].next - 1
  /\ slipped \subseteq Caller /\ wrongs \in 0 .. MaxWrongs

\* Every item is there, the last of those that share a name, or someone else changed it.
AllThere(c) ==
  LET q == call[c] IN
  \A i \in DOMAIN q.items :
    q.items[i].uid # NoUid =>
      LET n == ItemName(q, i)
          last == Max({j \in DOMAIN q.items : q.items[j].uid # NoUid /\ ItemName(q, j) = n})
      IN  \/ <<q.kind, q.acct, n>> \in own[c].lost
          \/ <<q.kind, q.acct, n>> \in own[c].mine /\ n \in DOMAIN Listed(q.kind, q.acct) /\ Listed(q.kind, q.acct)[n] = q.items[last].body

NoUids(q) == Cardinality({i \in DOMAIN q.items : q.items[i].uid = NoUid})

\* An import that reports no errors but the items without a UID has stored all of its
\* items, whoever wrote in between; unless the calendar store failed, which it hides.
ImportIsThere ==
  \A c \in Caller : Imported(c) /\ call[c].errors = NoUids(call[c]) /\ c \notin slipped => AllThere(c)
=============================================================================
