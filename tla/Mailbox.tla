------------------------------ MODULE Mailbox -------------------------------
(***************************************************************************)
(* One account as its owner holds it in memory: projection.Account, the    *)
(* threader, and the operations of account.Runtime that append an event    *)
(* and fold it.  Each of them holds Runtime.mu from its first read to its  *)
(* last write, so it is one action.  FileLog shows that what is folded is  *)
(* what a restart folds again; here a restart (or a compaction followed by *)
(* one) is what it does to the state that no event carries: the Message-ID *)
(* index is rebuilt and the threader seeded from the live messages.        *)
(*                                                                         *)
(* Message and thread ids are drawn fresh and in order by ids.Gen.         *)
(***************************************************************************)
EXTENDS Naturals, Sequences, FiniteSets, Lists

CONSTANTS
  Header,    \* Message-ID headers
  NoHeader,  \* stands for a message without one
  Env,       \* envelopes that arrive
  HeaderOf,  \* Env -> Header or NoHeader
  RefsOf,    \* Env -> its References followed by In-Reply-To
  Label, System,  \* labels and the ones every account starts with
  Flag,
  MaxMsgs    \* bound on the ids drawn for messages and for threads

ASSUME HeaderAssumption == NoHeader \notin Header
ASSUME EnvAssumption ==
  Env # {} /\ HeaderOf \in [Env -> Header \cup {NoHeader}] /\ RefsOf \in [Env -> Seq(Header)]
ASSUME LabelAssumption == System \subseteq Label
ASSUME BoundAssumption == MaxMsgs \in Nat

Id == 1 .. MaxMsgs

VARIABLES
  live,      \* the keys of Account.Messages
  envOf, threadOf, labels, flags,  \* the fields of a message, by id
  labelSet,  \* the keys of Account.Labels
  order,     \* Account.order
  threads,   \* Account.Threads: thread id -> MessageIDs, <<>> when absent
  index,     \* Account.byMessageID: header -> id, 0 when absent
  byHeader,  \* Threader.byHeader: header -> thread id, 0 when absent
  nextMsg, nextThread,  \* ids.Gen
  reply      \* what the last Ingest told its caller

message == <<envOf, threadOf, labels, flags>>
mailboxVars == <<live, message, labelSet, order, threads, index, byHeader, nextMsg, nextThread, reply>>

NoReply == [id |-> 0, header |-> NoHeader]

-----------------------------------------------------------------------------
(* The pieces of projection.Apply and of opening an account.               *)

\* Mutant of Drop: what stands at that position goes.
DropPosition(s, id) ==
  [k \in 1 .. (IF id <= Len(s) THEN Len(s) - 1 ELSE Len(s)) |-> IF k < id THEN s[k] ELSE s[k + 1]]

\* removeID
Drop(s, id) == KeepIn(s, Id \ {id})

\* Restore's index over the messages of a snapshot.
IndexOver(S, env) ==
  [h \in Header |->
     IF \E i \in S : HeaderOf[env[i]] = h
     THEN CHOOSE i \in S : HeaderOf[env[i]] = h
     ELSE 0]

\* Open's seed for the threader.
Seed(S, env, thr) ==
  [h \in Header |->
     IF \E i \in S : HeaderOf[env[i]] = h
     THEN thr[CHOOSE i \in S : HeaderOf[env[i]] = h]
     ELSE 0]

\* Resolve: the thread of the first known reference, else a fresh one.
Known(e) == {k \in 1 .. Len(RefsOf[e]) : byHeader[RefsOf[e][k]] # 0}
ResolveThread(e) ==
  IF Known(e) = {} THEN nextThread
  ELSE byHeader[RefsOf[e][CHOOSE k \in Known(e) : \A j \in Known(e) : k <= j]]

\* Resolve also remembers the message's own header, and draws an id if it must.
Resolve(e) ==
  /\ byHeader' = [h \in Header |-> IF h = HeaderOf[e] THEN ResolveThread(e) ELSE byHeader[h]]
  /\ nextThread' = IF Known(e) = {} THEN nextThread + 1 ELSE nextThread

Duplicate(e) == HeaderOf[e] \in Header /\ index[HeaderOf[e]] # 0

-----------------------------------------------------------------------------
MailboxInit ==
  /\ live = {}
  /\ envOf \in [Id -> {CHOOSE e \in Env : TRUE}]
  /\ threadOf = [i \in Id |-> 0]
  /\ labels = [i \in Id |-> {}] /\ flags = [i \in Id |-> {}]
  /\ labelSet = System
  /\ order = <<>>
  /\ threads = [t \in Id |-> <<>>]
  /\ index = [h \in Header |-> 0]
  /\ byHeader = [h \in Header |-> 0]
  /\ nextMsg = 1 /\ nextThread = 1
  /\ reply = NoReply

\* Ingest of a message the account already holds: its id is returned, and the labels
\* that were asked for are not added.
IngestAgain(e) ==
  /\ Duplicate(e)
  /\ reply' = [id |-> index[HeaderOf[e]], header |-> HeaderOf[e]]
  /\ UNCHANGED <<live, message, labelSet, order, threads, index, byHeader, nextMsg, nextThread>>

\* Mutant of Ingest: the header of the new message is not indexed.
IngestUnindexed(e, ls, fs) ==
  /\ ~Duplicate(e)
  /\ nextMsg <= MaxMsgs /\ nextThread <= MaxMsgs
  /\ Resolve(e)
  /\ LET t == ResolveThread(e) IN
       /\ live' = live \cup {nextMsg}
       /\ envOf' = [envOf EXCEPT ![nextMsg] = e]
       /\ threadOf' = [threadOf EXCEPT ![nextMsg] = t]
       /\ labels' = [labels EXCEPT ![nextMsg] = ls]
       /\ flags' = [flags EXCEPT ![nextMsg] = fs]
       /\ order' = Append(order, nextMsg)
       /\ threads' = [threads EXCEPT ![t] = Append(@, nextMsg)]
  /\ nextMsg' = nextMsg + 1
  /\ reply' = [id |-> nextMsg, header |-> HeaderOf[e]]
  /\ UNCHANGED <<index, labelSet>>

\* Ingest of a new message: Resolve, Append, Apply of MessageIngested.
Ingest(e, ls, fs) ==
  /\ ~Duplicate(e)
  /\ nextMsg <= MaxMsgs /\ nextThread <= MaxMsgs
  /\ Resolve(e)
  /\ LET t == ResolveThread(e) IN
       /\ live' = live \cup {nextMsg}
       /\ envOf' = [envOf EXCEPT ![nextMsg] = e]
       /\ threadOf' = [threadOf EXCEPT ![nextMsg] = t]
       /\ labels' = [labels EXCEPT ![nextMsg] = ls]
       /\ flags' = [flags EXCEPT ![nextMsg] = fs]
       /\ order' = Append(order, nextMsg)
       /\ threads' = [threads EXCEPT ![t] = Append(@, nextMsg)]
  /\ index' = [h \in Header |-> IF h = HeaderOf[e] /\ index[h] = 0 THEN nextMsg ELSE index[h]]
  /\ nextMsg' = nextMsg + 1
  /\ reply' = [id |-> nextMsg, header |-> HeaderOf[e]]
  /\ UNCHANGED labelSet

\* The log refuses the event: Resolve has already changed the threader, and ids
\* were drawn.
IngestFails(e) ==
  /\ ~Duplicate(e)
  /\ nextMsg <= MaxMsgs /\ nextThread <= MaxMsgs
  /\ Resolve(e)
  /\ nextMsg' = nextMsg + 1
  /\ reply' = NoReply
  /\ UNCHANGED <<live, message, labelSet, order, threads, index>>

Given == {i \in Id : i < nextMsg}

\* A client may name any id drawn so far, live or not.
LabelMsg(i, l) ==
  /\ labels' = IF i \in live THEN [labels EXCEPT ![i] = @ \cup {l}] ELSE labels
  /\ reply' = NoReply
  /\ UNCHANGED <<live, envOf, threadOf, flags, labelSet, order, threads, index, byHeader, nextMsg, nextThread>>

Unlabel(i, l) ==
  /\ labels' = IF i \in live THEN [labels EXCEPT ![i] = @ \ {l}] ELSE labels
  /\ reply' = NoReply
  /\ UNCHANGED <<live, envOf, threadOf, flags, labelSet, order, threads, index, byHeader, nextMsg, nextThread>>

SetFlag(i, f, value) ==
  /\ flags' = IF i \in live
              THEN [flags EXCEPT ![i] = IF value THEN @ \cup {f} ELSE @ \ {f}]
              ELSE flags
  /\ reply' = NoReply
  /\ UNCHANGED <<live, envOf, threadOf, labels, labelSet, order, threads, index, byHeader, nextMsg, nextThread>>

CreateLabel(l) ==
  /\ labelSet' = labelSet \cup {l}
  /\ reply' = NoReply
  /\ UNCHANGED <<live, message, order, threads, index, byHeader, nextMsg, nextThread>>

DeleteLabel(l) ==
  /\ labelSet' = labelSet \ {l}
  /\ labels' = [i \in Id |-> labels[i] \ {l}]
  /\ reply' = NoReply
  /\ UNCHANGED <<live, envOf, threadOf, flags, order, threads, index, byHeader, nextMsg, nextThread>>

\* Mutant of Expunge: the message stays in its conversation and in the index.
ExpungeShallow(i) ==
  /\ live' = live \ {i}
  /\ order' = Drop(order, i)
  /\ reply' = NoReply
  /\ UNCHANGED <<message, labelSet, threads, index, byHeader, nextMsg, nextThread>>

\* Apply of MessageExpunged: message, order, index and threads; the threader keeps
\* the header.
Expunge(i) ==
  /\ IF i \in live
     THEN /\ live' = live \ {i}
          /\ order' = Drop(order, i)
          /\ threads' = [t \in Id |-> Drop(threads[t], i)]
          /\ index' = [h \in Header |->
                         IF h = HeaderOf[envOf[i]] /\ index[h] = i THEN 0 ELSE index[h]]
          /\ labels' = [labels EXCEPT ![i] = {}] /\ flags' = [flags EXCEPT ![i] = {}]
     ELSE UNCHANGED <<live, order, threads, index, labels, flags>>
  /\ reply' = NoReply
  /\ UNCHANGED <<envOf, threadOf, labelSet, byHeader, nextMsg, nextThread>>

\* Mutant of Reopen: the threader starts out empty.
ReopenUnseeded ==
  /\ byHeader' = [h \in Header |-> 0]
  /\ reply' = NoReply
  /\ UNCHANGED <<live, message, labelSet, order, threads, index, nextMsg, nextThread>>

\* The account is opened again, from a snapshot or from the log.
Reopen ==
  /\ index' = IndexOver(live, envOf)
  /\ byHeader' = Seed(live, envOf, threadOf)
  /\ reply' = NoReply
  /\ UNCHANGED <<live, message, labelSet, order, threads, nextMsg, nextThread>>

MailboxNext ==
  \/ \E e \in Env : IngestAgain(e)
  \/ \E e \in Env, ls \in SUBSET Label, fs \in SUBSET Flag :
       Cardinality(ls) = 1 /\ Ingest(e, ls, fs)
  \/ \E e \in Env : IngestFails(e)
  \/ \E i \in Given, l \in Label : LabelMsg(i, l)
  \/ \E i \in Given, l \in Label : Unlabel(i, l)
  \/ \E i \in Given, f \in Flag, value \in BOOLEAN : SetFlag(i, f, value)
  \/ \E l \in Label : CreateLabel(l)
  \/ \E l \in Label : DeleteLabel(l)
  \/ \E i \in Given : Expunge(i)
  \/ Reopen

MailboxSpec == MailboxInit /\ [][MailboxNext]_mailboxVars

-----------------------------------------------------------------------------
(* Properties.                                                             *)

MailboxTypeOK ==
  /\ live \in SUBSET Id
  /\ envOf \in [Id -> Env]
  /\ threadOf \in [Id -> Nat]
  /\ labels \in [Id -> SUBSET Label] /\ flags \in [Id -> SUBSET Flag]
  /\ labelSet \in SUBSET Label
  /\ order \in Seq(Id)
  /\ threads \in [Id -> Seq(Id)]
  /\ index \in [Header -> Nat] /\ byHeader \in [Header -> Nat]
  /\ nextMsg \in 1 .. MaxMsgs + 1 /\ nextThread \in 1 .. MaxMsgs + 1
  /\ reply \in [id : Nat, header : Header \cup {NoHeader}]

Occurrences(s, i) == {k \in 1 .. Len(s) : s[k] = i}

\* Delivery is idempotent: however retries, refused appends, expunges and restarts
\* interleave, the account never holds two messages with one Message-ID, and what
\* Ingest takes for a repetition it still holds: it was not expunged since.
Idempotent ==
  /\ \A i, j \in live :
       HeaderOf[envOf[i]] # NoHeader /\ HeaderOf[envOf[i]] = HeaderOf[envOf[j]] => i = j
  /\ reply # NoReply => reply.id \in live /\ HeaderOf[envOf[reply.id]] = reply.header

\* A snapshot loses nothing: the index that Restore rebuilds is the index that the
\* events built up, so an expunged message can arrive again and no other can.
IndexIsRestored == index = IndexOver(live, envOf)

\* The places a message stands in agree: every live message stands once in the
\* thread it names and in no other, and once, in ingest order, in the listing; an
\* expunged message stands nowhere.
PlacesAgree ==
  /\ \A i, t \in Id :
       Cardinality(Occurrences(threads[t], i)) = (IF i \in live /\ threadOf[i] = t THEN 1 ELSE 0)
  /\ {order[k] : k \in 1 .. Len(order)} = live
  /\ \A j, k \in 1 .. Len(order) : j < k => order[j] < order[k]

\* Every message is there once, however often it is delivered, and stands where it
\* should: in the index as in the threads and the listing.
MailboxAgrees == Idempotent /\ PlacesAgree /\ IndexIsRestored

\* A reply is filed with its parent: when the message its first reference names was
\* there before it, the two are in one conversation, restarts in between or not.
RepliesJoin ==
  \A i, j \in live :
    /\ j < i
    /\ RefsOf[envOf[i]] # <<>>
    /\ HeaderOf[envOf[j]] = Head(RefsOf[envOf[i]])
    => threadOf[i] = threadOf[j]
=============================================================================
