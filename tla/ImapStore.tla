----------------------------- MODULE ImapStore ------------------------------
(***************************************************************************)
(* Message sets and flags in an IMAP session.  A command names messages by *)
(* a range of sequence numbers or UIDs, in which `*' stands for the last   *)
(* one, or by the result of a saved search; the session looks for them in  *)
(* its list, which holds a copy of each message from the time of SELECT,   *)
(* and writes flags one event at a time, among the events of others.       *)
(*                                                                         *)
(* A range is what the parser makes of it, 0 for `*'.  Sets of more than   *)
(* one range are the library's to search.                                  *)
(***************************************************************************)
EXTENDS Naturals, Sequences, FiniteSetsExt, Lists

CONSTANTS
  Inbox,        \* the UIDs of the mailbox
  ModelFlag,    \* flags that the account keeps, "seen" among them
  Wanted,       \* sets of flags that clients write; "deleted" and unknown ones too
  MaxNum,       \* the largest number a client writes
  MaxCommands,  \* bound on commands
  MaxStirs      \* bound on writes by others and on failures

ASSUME InboxAssumption == Inbox \subseteq Nat \ {0} /\ IsFiniteSet(Inbox)
ASSUME MaxNumAssumption == MaxNum \in Nat
ASSUME ModelFlagAssumption == "seen" \in ModelFlag /\ "deleted" \notin ModelFlag

VARIABLES
  list,     \* session.msgs: UID and the copied flags
  del,      \* session.deleted
  saved,    \* session.searchRes
  here,     \* the account's messages
  flags,    \* and their flags
  todo,     \* the messages the command still writes to, each with the flags that it
            \* has yet to take away and those that it sets after them
  expect,   \* history: the flags that the client's commands ask for
  stirred,  \* history: messages others wrote to since SELECT, or whose write failed
  reply,    \* the last answer, and history: what it should be
  commands, stirs

store == <<list, del, saved, todo, expect, reply, commands>>
storeVars == <<store, here, flags, stirred, stirs>>

NumRange == {r \in [start : 0 .. MaxNum, stop : 0 .. MaxNum] : 0 \in {r.start, r.stop} \/ r.start <= r.stop}
NumSet == [kind : {"seq", "uid"}, r : NumRange] \cup {[kind |-> "saved"]}

\* External: Range.Contains of go-imap.
InRange(r, q) == r.start # 0 /\ r.start <= q /\ (q <= r.stop \/ r.stop = 0)

-----------------------------------------------------------------------------
(* Which messages a command reaches.                                       *)

NumOf(kind, i) == IF kind = "seq" THEN i ELSE list[i].uid
Top(kind) == IF list = <<>> THEN 0 ELSE NumOf(kind, Len(list))

\* Mutant of FixRange: `n:*' with n beyond the last message is empty.
FixRangeInOrder(r, top) ==
  [start |-> IF r.start = 0 THEN top ELSE r.start, stop |-> IF r.stop = 0 THEN top ELSE r.stop]

FixRange(r, top) ==
  LET f == [start |-> IF r.start = 0 THEN top ELSE r.start, stop |-> IF r.stop = 0 THEN top ELSE r.stop]
  IN  IF 0 \in {r.start, r.stop} /\ f.start > f.stop THEN [start |-> f.stop, stop |-> f.start] ELSE f

StaticNumSet(s) == [s EXCEPT !.r = FixRange(@, Top(s.kind))]

ForEach(s) ==
  IF s.kind = "saved" THEN {i \in DOMAIN list : list[i].uid \in saved}
  ELSE {i \in DOMAIN list : InRange(StaticNumSet(s).r, NumOf(s.kind, i))}

\* What RFC 9051 means by a set: the numbers between its ends, in either order.
Meant(s) ==
  LET End(n) == IF n = 0 THEN Top(s.kind) ELSE n
      ends == {End(s.r.start), End(s.r.stop)}
  IN  IF s.kind = "saved" THEN ForEach(s) ELSE {i \in DOMAIN list : NumOf(s.kind, i) \in Min(ends) .. Max(ends)}

-----------------------------------------------------------------------------
(* Flags.  The session's own part is done at once: nobody else reads it.   *)

Kept(fs) == fs \cap ModelFlag
HasIMAPFlag(m, f) == IF f = "deleted" THEN m.uid \in del ELSE f \in m.copy
ToIMAPFlags(m, marked) == m.copy \cup (IF m.uid \in marked THEN {"deleted"} ELSE {})

After(op, had, fs) == CASE op = "set" -> fs [] op = "add" -> had \cup fs [] op = "del" -> had \ fs

\* "set" takes every flag away before it sets any.
Taken(op, fs) == CASE op = "set" -> ModelFlag [] op = "add" -> {} [] op = "del" -> Kept(fs)
Given(op, fs) == IF op = "del" THEN {} ELSE Kept(fs)

\* One message after another; there is nothing to do where no flag is written.
EachInTurn(at, off, on) ==
  IF off \cup on = {} THEN <<>>
  ELSE [k \in 1 .. Cardinality(at) |-> [uid |-> list[InOrder(at)[k]].uid, off |-> off, on |-> on]]

Untouched(f) == {x \in f : x[1] \notin stirred}
Flagged(ms, marked) == {<<m.uid, ToIMAPFlags(m, marked)>> : m \in ms}

Command == todo = <<>> /\ commands < MaxCommands /\ commands' = commands + 1

StoreInit ==
  /\ list = <<>> /\ del = {} /\ saved = {} /\ here = Inbox
  /\ flags = [u \in Inbox |-> {}] /\ todo = <<>>
  /\ expect = flags /\ stirred = {} /\ reply = [said |-> {}, due |-> {}]
  /\ commands = 0 /\ stirs = 0

\* SELECT leaves the saved search.
LoadSelection ==
  /\ todo = <<>>
  /\ list' = [k \in 1 .. Cardinality(here) |-> [uid |-> InOrder(here)[k], copy |-> flags[InOrder(here)[k]]]]
  /\ del' = {} /\ stirred' = {} /\ expect' = flags
  /\ reply' = [said |-> {}, due |-> {}]
  /\ UNCHANGED <<saved, here, flags, todo, commands, stirs>>

\* Asked for silently or not; the answer is read from the list.
Store(s, op, fs) ==
  LET at == ForEach(s)
      reached == {list[i].uid : i \in at}
      Asked(u) == \E i \in Meant(s) : list[i].uid = u
  IN
  /\ Command
  /\ list' = [i \in DOMAIN list |-> IF i \in at THEN [list[i] EXCEPT !.copy = Kept(After(op, @, fs))] ELSE list[i]]
  /\ del' = IF "deleted" \in fs /\ op # "del" THEN del \cup reached
            ELSE IF "deleted" \in fs \/ op = "set" THEN del \ reached ELSE del
  /\ todo' = EachInTurn(at, Taken(op, fs), Given(op, fs))
  /\ expect' = [u \in Inbox |-> IF Asked(u) THEN After(op, expect[u], fs \cap (ModelFlag \cup {"deleted"})) ELSE expect[u]]
  /\ reply' = [said |-> Untouched(Flagged({list'[i] : i \in at}, del')),
               due |-> Untouched({<<u, expect'[u]>> : u \in {v \in Inbox : Asked(v)}})]
  /\ UNCHANGED <<saved, here, flags, stirred, stirs>>

\* FETCH of a body: it marks what its copy says is unseen.  A body that cannot be read,
\* after the first k, ends the command.
Fetch(s, k) ==
  LET at == {i \in ForEach(s) : Cardinality({j \in ForEach(s) : j <= i}) <= k}
      asked == {list[i].uid : i \in {j \in Meant(s) : Cardinality({l \in Meant(s) : l <= j}) <= k}}
  IN
  /\ Command
  /\ k < Cardinality(ForEach(s)) => stirs < MaxStirs
  /\ stirs' = IF k < Cardinality(ForEach(s)) THEN stirs + 1 ELSE stirs
  /\ list' = [i \in DOMAIN list |-> IF i \in at THEN [list[i] EXCEPT !.copy = @ \cup {"seen"}] ELSE list[i]]
  /\ todo' = EachInTurn({i \in at : "seen" \notin list[i].copy}, {}, {"seen"})
  /\ expect' = [u \in Inbox |-> IF u \in asked THEN expect[u] \cup {"seen"} ELSE expect[u]]
  /\ reply' = [said |-> Untouched(Flagged({list'[i] : i \in at}, del)), due |-> Untouched({<<u, expect'[u]>> : u \in asked})]
  /\ UNCHANGED <<del, saved, here, flags, stirred>>

\* A search takes ranges as they are, without what `*' stands for.
Matches(i, s, f, has) == InRange(s.r, NumOf(s.kind, i)) /\ HasIMAPFlag(list[i], f) = has

Search(s, f, has, save) ==
  LET hits == {i \in DOMAIN list : Matches(i, s, f, has)}
      Uids(S) == Untouched({<<list[i].uid>> : i \in S})
      due == {i \in Meant(s) : (f \in expect[list[i].uid]) = has}
  IN
  /\ Command
  /\ saved' = IF save THEN {list[i].uid : i \in hits} ELSE saved
  /\ reply' = [said |-> Uids(hits), due |-> Uids(IF 0 \in {s.r.start, s.r.stop} THEN hits ELSE due)]
  /\ UNCHANGED <<list, del, here, flags, todo, expect, stirred, stirs>>

\* One SetFlag; an expunged message has no flags.  The flags of a command come in the
\* client's order.
SetFlag(fs, f, on) == IF on THEN fs \cup {f} ELSE fs \ {f}

Upcoming == IF Head(todo).off # {} THEN Head(todo).off ELSE Head(todo).on

Without(f) ==
  LET rest == IF Head(todo).off # {} THEN [Head(todo) EXCEPT !.off = @ \ {f}] ELSE [Head(todo) EXCEPT !.on = @ \ {f}]
  IN  IF rest.off \cup rest.on = {} THEN Tail(todo) ELSE [todo EXCEPT ![1] = rest]

Write(f) ==
  LET u == Head(todo).uid
  IN
  /\ todo' = Without(f)
  /\ flags' = IF u \in here THEN [flags EXCEPT ![u] = SetFlag(@, f, Head(todo).off = {})] ELSE flags
  /\ UNCHANGED <<list, del, saved, here, expect, stirred, reply, commands, stirs>>

\* The error of a failed append is dropped.
WriteFails(f) ==
  /\ stirs < MaxStirs
  /\ todo' = Without(f) /\ stirred' = stirred \cup {Head(todo).uid} /\ stirs' = stirs + 1
  /\ UNCHANGED <<list, del, saved, here, flags, expect, reply, commands>>

\* Another session or client.
OtherSetFlag(u, f, on) ==
  /\ u \in here /\ stirs < MaxStirs
  /\ flags' = [flags EXCEPT ![u] = SetFlag(@, f, on)]
  /\ stirred' = stirred \cup {u} /\ stirs' = stirs + 1
  /\ UNCHANGED <<store, here>>

OtherExpunge(u) ==
  /\ u \in here /\ stirs < MaxStirs
  /\ here' = here \ {u} /\ flags' = [flags EXCEPT ![u] = {}]
  /\ stirred' = stirred \cup {u} /\ stirs' = stirs + 1
  /\ UNCHANGED store

StoreNext ==
  \/ LoadSelection
  \/ todo # <<>> /\ \E f \in Upcoming : Write(f) \/ WriteFails(f)
  \/ \E s \in NumSet, op \in {"set", "add", "del"}, fs \in Wanted : Store(s, op, fs)
  \/ \E s \in NumSet : \E k \in 0 .. Cardinality(ForEach(s)) : Fetch(s, k)
  \/ \E s \in NumSet \ {[kind |-> "saved"]}, f \in ModelFlag \cup {"deleted"}, has, save \in BOOLEAN : Search(s, f, has, save)
  \/ \E u \in Inbox, f \in ModelFlag, on \in BOOLEAN : OtherSetFlag(u, f, on)
  \/ \E u \in Inbox : OtherExpunge(u)

StoreSpec == StoreInit /\ [][StoreNext]_storeVars

-----------------------------------------------------------------------------
\* STORE, FETCH and SEARCH reach the messages that their set means, `*' and ranges from
\* beyond the last message included: their answers name those with their flags, and
\* once their writes are done account and session hold the flags the client asked for.
\* Messages that others wrote to since SELECT, or whose write failed, are left aside, and
\* so are searches for a set with `*'.
FlagsAsAsked ==
  /\ reply.said = reply.due
  /\ todo = <<>> => \A i \in DOMAIN list : list[i].uid \notin stirred =>
       /\ ToIMAPFlags(list[i], del) = expect[list[i].uid]
       /\ flags[list[i].uid] = list[i].copy
=============================================================================
