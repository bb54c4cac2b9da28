----------------------------- MODULE WebProofs ------------------------------
(***************************************************************************)
(* Proofs about Mailbox: the places in which projection.Apply and the      *)
(* threader keep a message agree after every sequence of deliveries,       *)
(* expunges, refused appends and restarts.  About Gates: the limits of     *)
(* a day hold wherever midnight falls.  About CalQuery: a time range finds *)
(* the events it should.  About Jmap: what concurrent updates and paging   *)
(* come to.  And about Dav: what an import has stored.                     *)
(***************************************************************************)
EXTENDS Mailbox, Gates, CalQuery, Jmap, Dav, ListProofs, FiniteSetTheorems

HeaderAt(i) == HeaderOf[envOf[i]]

\* Ids are drawn in order, and every thread that is named was drawn.
Drawn ==
  /\ \A i \in live : i < nextMsg /\ threadOf[i] \in 1 .. nextThread - 1
  /\ \A h \in Header : byHeader[h] \in 0 .. nextThread - 1

\* The index has the live messages and nothing else.
Indexed ==
  /\ \A h \in Header : index[h] # 0 => index[h] \in live /\ HeaderAt(index[h]) = h
  /\ \A i \in live : HeaderAt(i) # NoHeader => index[HeaderAt(i)] = i

\* The threader knows the thread of every live message with a header.
Threaded ==
  \A i \in live : HeaderAt(i) # NoHeader => byHeader[HeaderAt(i)] = threadOf[i]

\* s has the members of S, each of them once.
ListOf(s, S) ==
  /\ {s[k] : k \in 1 .. Len(s)} = S
  /\ \A j, k \in 1 .. Len(s) : j # k => s[j] # s[k]

InThread(t) == {i \in live : threadOf[i] = t}

Placed ==
  /\ \A t \in Id : ListOf(threads[t], InThread(t))
  /\ ListOf(order, live)
  /\ \A j, k \in 1 .. Len(order) : j < k => order[j] < order[k]

ReplyIsHere == reply # NoReply => reply.id \in live /\ HeaderAt(reply.id) = reply.header

MailboxInv == MailboxTypeOK /\ Drawn /\ Indexed /\ Threaded /\ Placed /\ ReplyIsHere /\ RepliesJoin

-----------------------------------------------------------------------------
(* Lists that hold every member of a set once.                             *)

\* Appending what is not there yet.
LEMMA AppendListOf ==
  ASSUME NEW E, NEW s \in Seq(E), NEW S, NEW x \in E, x \notin S, ListOf(s, S)
  PROVE  Append(s, x) \in Seq(E) /\ ListOf(Append(s, x), S \cup {x})
<1> DEFINE u == Append(s, x)
<1>1. /\ u \in Seq(E) /\ Len(u) = Len(s) + 1 /\ u[Len(s) + 1] = x /\ Len(s) \in Nat
      /\ \A k \in 1 .. Len(s) : u[k] = s[k]
  OBVIOUS
<1> HIDE DEF u
<1>2. \A k \in 1 .. Len(u) : k = Len(s) + 1 \/ k \in 1 .. Len(s)
  BY <1>1
<1>3. (\A k \in 1 .. Len(s) : k \in 1 .. Len(u)) /\ Len(s) + 1 \in 1 .. Len(u)
  BY <1>1
<1>4. \A k \in 1 .. Len(s) : s[k] \in S
  BY DEF ListOf
<1>5. {u[k] : k \in 1 .. Len(u)} = S \cup {x}
  <2>1. \A k \in 1 .. Len(u) : u[k] \in S \cup {x}
    BY <1>1, <1>2, <1>4
  <2>2. ASSUME NEW y \in S PROVE \E k \in 1 .. Len(u) : u[k] = y
    <3>1. PICK k \in 1 .. Len(s) : s[k] = y
      BY DEF ListOf
    <3> QED
      BY <1>1, <1>3, <3>1
  <2>3. \E k \in 1 .. Len(u) : u[k] = x
    BY <1>1, <1>3
  <2> QED
    BY <2>1, <2>2, <2>3
<1>6. ASSUME NEW j \in 1 .. Len(u), NEW k \in 1 .. Len(u), j # k PROVE u[j] # u[k]
  <2>1. CASE j \in 1 .. Len(s) /\ k \in 1 .. Len(s)
    BY <1>1, <1>6, <2>1 DEF ListOf
  <2>2. CASE j = Len(s) + 1
    BY <1>1, <1>2, <1>4, <1>6, <2>2
  <2>3. CASE k = Len(s) + 1
    BY <1>1, <1>2, <1>4, <1>6, <2>3
  <2> QED
    BY <1>2, <2>1, <2>2, <2>3
<1> QED
  BY <1>1, <1>5, <1>6 DEF ListOf, u

\* removeID takes the message out and disturbs nothing else.
LEMMA DropListOf ==
  ASSUME NEW s \in Seq(Id), NEW S, NEW i, ListOf(s, S)
  PROVE  /\ Drop(s, i) \in Seq(Id) /\ ListOf(Drop(s, i), S \ {i})
         /\ (\A j, k \in 1 .. Len(s) : j < k => s[j] < s[k])
            => \A j, k \in 1 .. Len(Drop(s, i)) : j < k => Drop(s, i)[j] < Drop(s, i)[k]
<1> DEFINE t == Drop(s, i)
           K == Id \ {i}
<1>1. t = KeepIn(s, K)
  BY DEF Drop
<1> HIDE DEF t, K
<1>2. t \in Seq(Id) /\ Filters(s, K, Len(s), t)
  BY <1>1, KeepInKeeps
<1>3. Len(t) \in Nat /\ \A a \in 1 .. Len(s) : s[a] \in Id
  BY <1>2, SeqEntry
<1>4. \A j, k \in 1 .. Len(t) : j < k =>
        \E a, b \in 1 .. Len(s) : a < b /\ t[j] = s[a] /\ t[k] = s[b]
  BY <1>2 DEF Filters
<1>5. {t[k] : k \in 1 .. Len(t)} = S \ {i}
  <2>1. ASSUME NEW k \in 1 .. Len(t) PROVE t[k] \in S \ {i}
    <3>1. PICK a \in 1 .. Len(s) : t[k] = s[a] /\ s[a] \in K
      BY <1>2, Zenon DEF Filters
    <3> QED
      BY <3>1 DEF ListOf, K
  <2>2. ASSUME NEW y \in S, y # i PROVE \E k \in 1 .. Len(t) : t[k] = y
    <3>1. PICK a \in 1 .. Len(s) : s[a] = y
      BY DEF ListOf
    <3>2. s[a] \in K
      BY <1>3, <2>2, <3>1 DEF K
    <3> QED
      BY <1>2, <3>1, <3>2 DEF Filters
  <2> QED
    BY <2>1, <2>2
<1>6. ASSUME NEW j \in 1 .. Len(t), NEW k \in 1 .. Len(t), j < k PROVE t[j] # t[k]
  <2>1. PICK a \in 1 .. Len(s), b \in 1 .. Len(s) : a < b /\ t[j] = s[a] /\ t[k] = s[b]
    BY <1>4, <1>6
  <2> QED
    BY <2>1 DEF ListOf
<1>7. \A j, k \in 1 .. Len(t) : j # k => t[j] # t[k]
  BY <1>3, <1>6
<1>8. ASSUME \A j, k \in 1 .. Len(s) : j < k => s[j] < s[k],
             NEW j \in 1 .. Len(t), NEW k \in 1 .. Len(t), j < k
      PROVE  t[j] < t[k]
  <2>1. PICK a \in 1 .. Len(s), b \in 1 .. Len(s) : a < b /\ t[j] = s[a] /\ t[k] = s[b]
    BY <1>4, <1>8
  <2> QED
    BY <1>8, <2>1
<1> QED
  BY <1>2, <1>5, <1>7, <1>8 DEF ListOf, t

\* In a list of a set an element of it occurs once, and nothing else does.
LEMMA ListCounts ==
  ASSUME NEW s, NEW S, NEW i, ListOf(s, S)
  PROVE  Cardinality(Occurrences(s, i)) = IF i \in S THEN 1 ELSE 0
<1>1. CASE i \in S
  <2>1. PICK k \in 1 .. Len(s) : s[k] = i
    BY <1>1 DEF ListOf
  <2>2. Occurrences(s, i) = {k}
    BY <2>1 DEF Occurrences, ListOf
  <2> QED
    BY <1>1, <2>2, FS_Singleton
<1>2. CASE i \notin S
  <2>1. Occurrences(s, i) = {}
    BY <1>2 DEF Occurrences, ListOf
  <2> QED
    BY <1>2, <2>1, FS_EmptySet
<1> QED
  BY <1>1, <1>2

-----------------------------------------------------------------------------
(* The invariant.                                                          *)

\* The parts of the type invariant that the steps need, one by one.
LEMMA Types ==
  ASSUME MailboxTypeOK
  PROVE  /\ live \in SUBSET Id /\ envOf \in [Id -> Env] /\ threadOf \in [Id -> Nat]
         /\ order \in Seq(Id) /\ threads \in [Id -> Seq(Id)]
         /\ index \in [Header -> Nat] /\ byHeader \in [Header -> Nat]
         /\ nextMsg \in Nat /\ 1 <= nextMsg /\ nextMsg <= MaxMsgs + 1
         /\ nextThread \in Nat /\ 1 <= nextThread /\ nextThread <= MaxMsgs + 1
         /\ \A i \in live : HeaderAt(i) \in Header \cup {NoHeader}
         /\ \A e \in Env : HeaderOf[e] \in Header \cup {NoHeader}
BY EnvAssumption, BoundAssumption DEF MailboxTypeOK, HeaderAt

\* An empty mailbox.
LEMMA MailboxStart ==
  MailboxInit => MailboxInv
<1> SUFFICES ASSUME MailboxInit PROVE MailboxInv
  OBVIOUS
<1>1. envOf \in [Id -> Env]
  BY EnvAssumption DEF MailboxInit
<1>2. /\ live = {} /\ threadOf \in [Id -> Nat] /\ order = <<>>
      /\ labels \in [Id -> SUBSET Label] /\ flags \in [Id -> SUBSET Flag] /\ labelSet \in SUBSET Label
      /\ threads = [t \in Id |-> <<>>] /\ index = [h \in Header |-> 0] /\ byHeader = [h \in Header |-> 0]
      /\ nextMsg = 1 /\ nextThread = 1 /\ reply = NoReply
  BY LabelAssumption DEF MailboxInit
<1>3. MailboxTypeOK
  <2>1. reply \in [id : Nat, header : Header \cup {NoHeader}]
    BY <1>2 DEF NoReply
  <2> QED
    BY <1>1, <1>2, <2>1, BoundAssumption DEF MailboxTypeOK
<1>4. ListOf(<<>>, {})
  BY DEF ListOf
<1>5. Placed
  BY <1>2, <1>4 DEF Placed, InThread
<1>6. Drawn /\ Indexed /\ Threaded /\ ReplyIsHere /\ RepliesJoin
  BY <1>2 DEF Drawn, Indexed, Threaded, ReplyIsHere, RepliesJoin
<1> QED
  BY <1>3, <1>5, <1>6 DEF MailboxInv

\* Labels and flags are not among the places the invariant speaks of.
LEMMA QuietInv ==
  ASSUME MailboxInv, reply' = NoReply,
         labels' \in [Id -> SUBSET Label], flags' \in [Id -> SUBSET Flag], labelSet' \in SUBSET Label,
         UNCHANGED <<live, envOf, threadOf, order, threads, index, byHeader, nextMsg, nextThread>>
  PROVE  MailboxInv'
<1>1. MailboxTypeOK'
  <2>1. reply' \in [id : Nat, header : Header \cup {NoHeader}]
    BY DEF NoReply
  <2> QED
    BY <2>1 DEF MailboxInv, MailboxTypeOK
<1>2. Drawn' /\ Indexed' /\ Threaded' /\ RepliesJoin'
  BY DEF MailboxInv, Drawn, Indexed, Threaded, RepliesJoin, HeaderAt
<1>3. Placed'
  BY DEF MailboxInv, Placed, InThread
<1>4. ReplyIsHere'
  BY DEF ReplyIsHere
<1> QED
  BY <1>1, <1>2, <1>3, <1>4 DEF MailboxInv

\* What Resolve answers: a thread that was drawn before, or the next one; and the
\* thread of the first reference when the threader knows that one.
LEMMA Resolves ==
  ASSUME MailboxInv, NEW e \in Env, nextThread <= MaxMsgs, Resolve(e)
  PROVE  /\ ResolveThread(e) \in Id /\ ResolveThread(e) \in 1 .. nextThread' - 1
         /\ nextThread' \in 1 .. MaxMsgs + 1 /\ nextThread <= nextThread'
         /\ byHeader' \in [Header -> Nat]
         /\ \A h \in Header : byHeader'[h] \in 0 .. nextThread' - 1
         /\ \A h \in Header : byHeader'[h] = IF h = HeaderOf[e] THEN ResolveThread(e) ELSE byHeader[h]
         /\ RefsOf[e] # <<>> /\ byHeader[Head(RefsOf[e])] # 0
            => ResolveThread(e) = byHeader[Head(RefsOf[e])]
<1> DEFINE refs == RefsOf[e]
           first == CHOOSE k \in Known(e) : \A j \in Known(e) : k <= j
<1>1. MailboxTypeOK /\ Drawn
  BY DEF MailboxInv
<1>2. /\ byHeader \in [Header -> Nat] /\ nextThread \in Nat /\ 1 <= nextThread /\ MaxMsgs \in Nat
      /\ \A h \in Header : byHeader[h] \in 0 .. nextThread - 1
  BY <1>1, Types, BoundAssumption DEF Drawn
<1>3. refs \in Seq(Header) /\ Len(refs) \in Nat
  BY EnvAssumption
<1>4. Known(e) \subseteq 1 .. Len(refs) /\ \A k \in Known(e) : byHeader[refs[k]] # 0
  BY DEF Known
<1>5. Known(e) # {} => first \in Known(e) /\ \A j \in Known(e) : first <= j
  <2> SUFFICES ASSUME Known(e) # {} PROVE first \in Known(e) /\ \A j \in Known(e) : first <= j
    OBVIOUS
  <2>1. Known(e) \in SUBSET Nat
    BY <1>4
  <2>2. \E k \in Known(e) : \A j \in Known(e) : k <= j
    BY <2>1, LeastNumber, Zenon
  <2> QED
    BY <2>2, Zenon
<1>6. ResolveThread(e) = IF Known(e) = {} THEN nextThread ELSE byHeader[refs[first]]
  BY DEF ResolveThread
<1> HIDE DEF first, refs
<1>7. Known(e) # {} => refs[first] \in Header
  BY <1>3, <1>4, <1>5, SeqEntry
<1>8. /\ nextThread' = IF Known(e) = {} THEN nextThread + 1 ELSE nextThread
      /\ byHeader' = [h \in Header |-> IF h = HeaderOf[e] THEN ResolveThread(e) ELSE byHeader[h]]
  BY DEF Resolve
<1>9. /\ ResolveThread(e) \in 1 .. nextThread' - 1 /\ ResolveThread(e) \in Nat
      /\ nextThread' \in 1 .. MaxMsgs + 1 /\ nextThread <= nextThread'
  <2>1. CASE Known(e) = {}
    BY <1>2, <1>6, <1>8, <2>1
  <2>2. CASE Known(e) # {}
    BY <1>2, <1>4, <1>5, <1>6, <1>7, <1>8, <2>2
  <2> QED
    BY <2>1, <2>2
<1>10. ResolveThread(e) \in Id
  BY <1>2, <1>9 DEF Id
<1>11. /\ byHeader' \in [Header -> Nat]
       /\ \A h \in Header : byHeader'[h] = IF h = HeaderOf[e] THEN ResolveThread(e) ELSE byHeader[h]
  BY <1>2, <1>8, <1>9
<1>12. ASSUME NEW h \in Header PROVE byHeader'[h] \in 0 .. nextThread' - 1
  <2>1. nextThread' \in Nat
    BY <1>2, <1>9
  <2>2. CASE h = HeaderOf[e]
    BY <1>9, <1>11, <2>1, <2>2
  <2>3. CASE h # HeaderOf[e]
    BY <1>2, <1>9, <1>11, <2>1, <2>3
  <2> QED
    BY <2>2, <2>3
<1>13. ASSUME refs # <<>>, byHeader[Head(refs)] # 0 PROVE ResolveThread(e) = byHeader[Head(refs)]
  <2>1. 1 \in 1 .. Len(refs) /\ Head(refs) = refs[1]
    BY <1>3, <1>13
  <2>2. 1 \in Known(e)
    BY <1>13, <2>1 DEF Known, refs
  <2>3. first = 1
    BY <1>3, <1>4, <1>5, <2>2
  <2> QED
    BY <1>6, <2>1, <2>2, <2>3
<1> QED
  BY <1>9, <1>10, <1>11, <1>12, <1>13 DEF refs

\* A message that is no repetition has no namesake.
LEMMA NoNamesake ==
  ASSUME MailboxInv, NEW e \in Env, ~Duplicate(e), NEW i \in live
  PROVE  HeaderAt(i) # HeaderOf[e] \/ HeaderOf[e] = NoHeader
<1>1. MailboxTypeOK /\ Indexed
  BY DEF MailboxInv
<1>2. i # 0 /\ HeaderOf[e] \in Header \cup {NoHeader}
  BY <1>1, Types, BoundAssumption DEF Id
<1> SUFFICES ASSUME HeaderAt(i) = HeaderOf[e], HeaderOf[e] # NoHeader PROVE FALSE
  OBVIOUS
<1>3. index[HeaderOf[e]] = i
  BY <1>1 DEF Indexed
<1> QED
  BY <1>2, <1>3 DEF Duplicate

\* A message that is known already.
LEMMA IngestAgainInv ==
  ASSUME MailboxInv, NEW e \in Env, IngestAgain(e)
  PROVE  MailboxInv'
<1>1. /\ Duplicate(e) /\ reply' = [id |-> index[HeaderOf[e]], header |-> HeaderOf[e]]
      /\ UNCHANGED <<live, message, labelSet, order, threads, index, byHeader, nextMsg, nextThread>>
  BY DEF IngestAgain
<1>2. HeaderOf[e] \in Header /\ index[HeaderOf[e]] # 0
  BY <1>1 DEF Duplicate
<1>3. MailboxTypeOK'
  <2>1. reply' \in [id : Nat, header : Header \cup {NoHeader}]
    BY <1>1, <1>2 DEF MailboxInv, MailboxTypeOK
  <2> QED
    BY <1>1, <2>1 DEF MailboxInv, MailboxTypeOK, message
<1>4. Drawn' /\ Indexed' /\ Threaded' /\ RepliesJoin'
  BY <1>1 DEF MailboxInv, Drawn, Indexed, Threaded, RepliesJoin, HeaderAt, message
<1>5. Placed'
  BY <1>1 DEF MailboxInv, Placed, InThread, message
<1>6. ReplyIsHere'
  BY <1>1, <1>2 DEF MailboxInv, Indexed, ReplyIsHere, HeaderAt, message
<1> QED
  BY <1>3, <1>4, <1>5, <1>6 DEF MailboxInv

\* A refused append has moved the threader: only for a header that nothing live has.
LEMMA IngestFailsInv ==
  ASSUME MailboxInv, NEW e \in Env, IngestFails(e)
  PROVE  MailboxInv'
<1>1. /\ ~Duplicate(e) /\ nextMsg <= MaxMsgs /\ nextThread <= MaxMsgs /\ Resolve(e)
      /\ nextMsg' = nextMsg + 1 /\ reply' = NoReply
      /\ UNCHANGED <<live, message, labelSet, order, threads, index>>
  BY DEF IngestFails
<1>2. /\ nextThread' \in 1 .. MaxMsgs + 1 /\ nextThread <= nextThread'
      /\ byHeader' \in [Header -> Nat]
      /\ \A h \in Header : byHeader'[h] \in 0 .. nextThread' - 1
      /\ \A h \in Header : byHeader'[h] = IF h = HeaderOf[e] THEN ResolveThread(e) ELSE byHeader[h]
  BY <1>1, Resolves
<1>3. MailboxTypeOK
  BY DEF MailboxInv
<1>4. nextMsg' \in 1 .. MaxMsgs + 1 /\ nextMsg \in Nat /\ nextThread \in Nat /\ nextThread' \in Nat
  BY <1>1, <1>2, <1>3, Types, BoundAssumption
<1>5. MailboxTypeOK'
  <2>1. reply' \in [id : Nat, header : Header \cup {NoHeader}]
    BY <1>1 DEF NoReply
  <2> QED
    BY <1>1, <1>2, <1>3, <1>4, <2>1 DEF MailboxTypeOK, message
<1>6. Drawn'
  <2>1. ASSUME NEW i \in live PROVE i < nextMsg' /\ threadOf'[i] \in 1 .. nextThread' - 1
    <3>1. i < nextMsg /\ threadOf[i] \in 1 .. nextThread - 1 /\ i \in Nat
      BY <1>3, Types DEF MailboxInv, Drawn, Id
    <3> QED
      BY <1>1, <1>2, <1>4, <3>1 DEF message
  <2> QED
    BY <1>1, <1>2, <2>1 DEF Drawn
<1>7. Indexed' /\ RepliesJoin'
  BY <1>1 DEF MailboxInv, Indexed, RepliesJoin, HeaderAt, message
<1>8. Threaded'
  <2> SUFFICES ASSUME NEW i \in live, HeaderAt(i) # NoHeader
               PROVE  byHeader'[HeaderAt(i)] = threadOf[i]
    BY <1>1 DEF Threaded, HeaderAt, message
  <2>1. HeaderAt(i) # HeaderOf[e] /\ HeaderAt(i) \in Header
    BY <1>1, <1>3, NoNamesake, Types
  <2> QED
    BY <1>2, <2>1 DEF MailboxInv, Threaded
<1>9. Placed'
  BY <1>1 DEF MailboxInv, Placed, InThread, message
<1>10. ReplyIsHere'
  BY <1>1 DEF ReplyIsHere
<1> QED
  BY <1>5, <1>6, <1>7, <1>8, <1>9, <1>10 DEF MailboxInv

\* A message that arrives is put into every place at once.
LEMMA IngestInv ==
  ASSUME MailboxInv, NEW e \in Env, NEW ls \in SUBSET Label, NEW fs \in SUBSET Flag, Ingest(e, ls, fs)
  PROVE  MailboxInv'
<1> DEFINE n == nextMsg
           t == ResolveThread(e)
           h == HeaderOf[e]
<1>1. /\ ~Duplicate(e) /\ n <= MaxMsgs /\ nextThread <= MaxMsgs /\ Resolve(e)
      /\ live' = live \cup {n} /\ envOf' = [envOf EXCEPT ![n] = e]
      /\ threadOf' = [threadOf EXCEPT ![n] = t]
      /\ labels' = [labels EXCEPT ![n] = ls] /\ flags' = [flags EXCEPT ![n] = fs]
      /\ order' = Append(order, n) /\ threads' = [threads EXCEPT ![t] = Append(@, n)]
      /\ index' = [g \in Header |-> IF g = h /\ index[g] = 0 THEN n ELSE index[g]]
      /\ nextMsg' = n + 1 /\ reply' = [id |-> n, header |-> h] /\ labelSet' = labelSet
  BY DEF Ingest
<1>2. /\ t \in Id /\ t \in 1 .. nextThread' - 1
      /\ nextThread' \in 1 .. MaxMsgs + 1 /\ nextThread <= nextThread'
      /\ byHeader' \in [Header -> Nat]
      /\ \A g \in Header : byHeader'[g] \in 0 .. nextThread' - 1
      /\ \A g \in Header : byHeader'[g] = IF g = h THEN t ELSE byHeader[g]
      /\ RefsOf[e] # <<>> /\ byHeader[Head(RefsOf[e])] # 0 => t = byHeader[Head(RefsOf[e])]
  BY <1>1, Resolves
<1>3. MailboxTypeOK
  BY DEF MailboxInv
<1>4. /\ live \in SUBSET Id /\ envOf \in [Id -> Env] /\ threadOf \in [Id -> Nat]
      /\ order \in Seq(Id) /\ threads \in [Id -> Seq(Id)] /\ index \in [Header -> Nat]
      /\ n \in Nat /\ 1 <= n /\ nextThread \in Nat /\ MaxMsgs \in Nat /\ nextThread' \in Nat
      /\ h \in Header \cup {NoHeader}
  <2>1. nextThread' \in 1 .. MaxMsgs + 1
    BY <1>2, Zenon
  <2>2. nextThread' \in Nat
    BY <2>1
  <2> HIDE DEF n, t, h
  <2>3. n \in Nat /\ 1 <= n /\ h \in Header \cup {NoHeader}
    BY <1>3, Types DEF n, h
  <2> QED
    BY <1>3, <2>2, <2>3, Types, BoundAssumption
<1>5. n \in Id /\ t \in Nat /\ n # 0
  <2>1. n <= MaxMsgs /\ n \in Nat /\ 1 <= n /\ MaxMsgs \in Nat
    BY <1>1, <1>4, Zenon
  <2>2. t \in Id
    BY <1>2, Zenon
  <2> HIDE DEF n, t
  <2> QED
    BY <2>1, <2>2 DEF Id
<1>6. \A i \in live : i < n /\ i # n /\ i \in Nat /\ i \in Id /\ threadOf[i] \in 1 .. nextThread - 1
  <2>1. \A i \in live : i \in Id /\ i < n /\ threadOf[i] \in 1 .. nextThread - 1
    BY <1>4 DEF MailboxInv, Drawn
  <2>2. \A i \in Id : i \in Nat
    BY DEF Id
  <2> QED
    BY <1>4, <2>1, <2>2
<1> HIDE DEF n, t, h
<1>7. /\ envOf'[n] = e /\ threadOf'[n] = t
      /\ \A i \in live : envOf'[i] = envOf[i] /\ threadOf'[i] = threadOf[i]
  BY <1>1, <1>4, <1>5, <1>6
<1>8. HeaderOf[envOf'[n]] = h /\ \A i \in live : HeaderOf[envOf'[i]] = HeaderAt(i)
  BY <1>7 DEF HeaderAt, h
<1>9. \A i \in live : HeaderAt(i) # h \/ h = NoHeader
  BY <1>1, NoNamesake DEF h
<1>10. \A i \in live : HeaderAt(i) \in Header \cup {NoHeader}
  BY <1>3, Types
<1>11. MailboxTypeOK'
  <2>1. reply' \in [id : Nat, header : Header \cup {NoHeader}]
    BY <1>1, <1>4
  <2>2. live' \in SUBSET Id /\ envOf' \in [Id -> Env] /\ threadOf' \in [Id -> Nat]
    BY <1>1, <1>4, <1>5
  <2>3. labels' \in [Id -> SUBSET Label] /\ flags' \in [Id -> SUBSET Flag] /\ labelSet' \in SUBSET Label
    BY <1>1, <1>3 DEF MailboxTypeOK
  <2>4. order' \in Seq(Id)
    BY <1>1, <1>4, <1>5
  <2>5. threads' \in [Id -> Seq(Id)]
    <3>1. threads[t] \in Seq(Id)
      BY <1>2, <1>4
    <3>2. Append(threads[t], n) \in Seq(Id)
      BY <1>5, <3>1
    <3> QED
      BY <1>1, <1>2, <1>4, <3>2
  <2>6. index' \in [Header -> Nat]
    BY <1>1, <1>4
  <2>7. nextMsg' \in 1 .. MaxMsgs + 1
    BY <1>1, <1>4
  <2> QED
    BY <1>2, <2>1, <2>2, <2>3, <2>4, <2>5, <2>6, <2>7 DEF MailboxTypeOK
<1>12. Drawn'
  <2>1. ASSUME NEW i \in live' PROVE i < nextMsg' /\ threadOf'[i] \in 1 .. nextThread' - 1
    <3>0. /\ nextMsg' = n + 1 /\ n \in Nat /\ threadOf'[n] = t /\ t \in 1 .. nextThread' - 1
          /\ nextThread <= nextThread' /\ nextThread \in Nat /\ nextThread' \in Nat
      BY <1>1, <1>2, <1>4, <1>7, Zenon
    <3>1. CASE i = n
      <4>1. i < nextMsg'
        BY <3>0, <3>1
      <4>2. threadOf'[i] \in 1 .. nextThread' - 1
        BY <3>0, <3>1, Zenon
      <4> QED
        BY <4>1, <4>2
    <3>2. CASE i \in live
      <4>1. i < n /\ i \in Nat /\ threadOf'[i] \in 1 .. nextThread - 1
        BY <1>6, <1>7, <3>2, Zenon
      <4> QED
        BY <3>0, <4>1
    <3> QED
      BY <1>1, <3>1, <3>2
  <2> QED
    BY <1>2, <2>1 DEF Drawn
<1>13. Indexed'
  <2>1. \A g \in Header : index[g] # 0 => index[g] \in live /\ HeaderAt(index[g]) = g
    BY DEF MailboxInv, Indexed
  <2>2. \A i \in live : HeaderAt(i) # NoHeader => index[HeaderAt(i)] = i
    BY DEF MailboxInv, Indexed
  <2>3. h \in Header => index[h] = 0
    BY <1>1, <1>4 DEF Duplicate, h
  <2>4. \A g \in Header : index'[g] = IF g = h THEN n ELSE index[g]
    BY <1>1, <2>3
  <2>5. ASSUME NEW g \in Header, index'[g] # 0 PROVE index'[g] \in live' /\ HeaderOf[envOf'[index'[g]]] = g
    <3>1. CASE g = h
      BY <1>1, <1>8, <2>4, <3>1
    <3>2. CASE g # h
      <4>1. index'[g] = index[g] /\ index[g] \in live /\ HeaderAt(index[g]) = g
        BY <2>1, <2>4, <2>5, <3>2
      <4> QED
        BY <1>1, <1>8, <4>1
    <3> QED
      BY <3>1, <3>2
  <2>6. ASSUME NEW i \in live', HeaderOf[envOf'[i]] # NoHeader PROVE index'[HeaderOf[envOf'[i]]] = i
    <3>1. CASE i = n
      BY <1>4, <1>8, <2>4, <2>6, <3>1
    <3>2. CASE i \in live
      <4>1. HeaderOf[envOf'[i]] = HeaderAt(i) /\ HeaderAt(i) \in Header
        BY <1>8, <1>10, <2>6, <3>2
      <4>2. HeaderAt(i) # h
        BY <1>9, <2>6, <3>2, <4>1
      <4> QED
        BY <2>2, <2>4, <2>6, <3>2, <4>1, <4>2
    <3> QED
      BY <1>1, <3>1, <3>2
  <2> QED
    BY <2>5, <2>6 DEF Indexed, HeaderAt
<1>14. Threaded'
  <2> SUFFICES ASSUME NEW i \in live', HeaderOf[envOf'[i]] # NoHeader
               PROVE  byHeader'[HeaderOf[envOf'[i]]] = threadOf'[i]
    BY DEF Threaded, HeaderAt
  <2>1. CASE i = n
    BY <1>2, <1>4, <1>7, <1>8, <2>1
  <2>2. CASE i \in live
    <3>1. HeaderOf[envOf'[i]] = HeaderAt(i) /\ HeaderAt(i) \in Header
      BY <1>8, <1>10, <2>2
    <3>2. HeaderAt(i) # h /\ byHeader[HeaderAt(i)] = threadOf[i]
      BY <1>9, <2>2, <3>1 DEF MailboxInv, Threaded
    <3> QED
      BY <1>2, <1>7, <2>2, <3>1, <3>2
  <2> QED
    BY <1>1, <2>1, <2>2
<1>15. Placed'
  <2>1. n \notin live /\ ListOf(order, live)
    BY <1>6 DEF MailboxInv, Placed
  <2>2. ListOf(order', live')
    BY <1>1, <1>4, <1>5, <2>1, AppendListOf
  <2>3. ASSUME NEW j \in 1 .. Len(order'), NEW k \in 1 .. Len(order'), j < k PROVE order'[j] < order'[k]
    <3>1. /\ Len(order') = Len(order) + 1 /\ order'[Len(order) + 1] = n /\ Len(order) \in Nat
          /\ \A i \in 1 .. Len(order) : order'[i] = order[i]
      BY <1>1, <1>4, <1>5
    <3>2. j \in 1 .. Len(order)
      BY <2>3, <3>1
    <3>3. CASE k = Len(order) + 1
      <4>1. order[j] \in live
        BY <2>1, <3>2 DEF ListOf
      <4> QED
        BY <1>6, <3>1, <3>2, <3>3, <4>1
    <3>4. CASE k \in 1 .. Len(order)
      BY <2>3, <3>1, <3>2, <3>4 DEF MailboxInv, Placed
    <3> QED
      BY <3>1, <3>3, <3>4
  <2>4. ASSUME NEW u \in Id PROVE ListOf(threads'[u], InThread(u)')
    <3>1. ListOf(threads[u], InThread(u)) /\ threads[u] \in Seq(Id)
      BY <1>4 DEF MailboxInv, Placed
    <3>2. n \notin InThread(u)
      BY <2>1 DEF InThread
    <3>3. CASE u = t
      <4>1. InThread(u)' = InThread(u) \cup {n}
        BY <1>1, <1>7, <3>3 DEF InThread
      <4>2. threads'[u] = Append(threads[u], n)
        BY <1>1, <1>4, <3>3
      <4> QED
        BY <1>5, <3>1, <3>2, <4>1, <4>2, AppendListOf
    <3>4. CASE u # t
      <4>1. InThread(u)' = InThread(u)
        BY <1>1, <1>7, <3>4 DEF InThread
      <4>2. threads'[u] = threads[u]
        BY <1>1, <1>4, <3>4
      <4> QED
        BY <3>1, <4>1, <4>2
    <3> QED
      BY <3>3, <3>4
  <2> QED
    BY <2>2, <2>3, <2>4 DEF Placed
<1>16. ReplyIsHere'
  <2>1. reply'.id = n /\ reply'.header = h
    BY <1>1
  <2> QED
    BY <1>1, <1>8, <2>1 DEF ReplyIsHere, HeaderAt
<1>17. RepliesJoin'
  <2> SUFFICES ASSUME NEW i \in live', NEW j \in live', j < i, RefsOf[envOf'[i]] # <<>>,
                      HeaderOf[envOf'[j]] = Head(RefsOf[envOf'[i]])
               PROVE  threadOf'[i] = threadOf'[j]
    BY DEF RepliesJoin
  <2>1. CASE i \in live
    <3>1. j \in live
      BY <1>1, <1>4, <1>6, <2>1
    <3> QED
      BY <1>7, <2>1, <3>1 DEF MailboxInv, RepliesJoin
  <2>2. CASE i = n
    <3>1. j \in live
      BY <1>1, <1>4, <2>2
    <3>2. envOf'[i] = e /\ envOf'[j] = envOf[j]
      BY <1>7, <2>2, <3>1
    <3>3. HeaderAt(j) = Head(RefsOf[e]) /\ RefsOf[e] # <<>>
      BY <3>2 DEF HeaderAt
    <3>4. Head(RefsOf[e]) \in Header
      BY <3>3, EnvAssumption
    <3>5. byHeader[HeaderAt(j)] = threadOf[j]
      BY <3>1, <3>3, <3>4, HeaderAssumption DEF MailboxInv, Threaded
    <3>6. threadOf[j] # 0
      BY <1>4, <1>6, <3>1
    <3>7. t = threadOf[j]
      BY <1>2, <3>3, <3>5, <3>6
    <3> QED
      BY <1>7, <2>2, <3>1, <3>7
  <2> QED
    BY <1>1, <2>1, <2>2
<1> QED
  BY <1>11, <1>12, <1>13, <1>14, <1>15, <1>16, <1>17 DEF MailboxInv

\* Restore rebuilds the index that the events built, and Open seeds the threader with
\* the thread of every live message.
LEMMA Rebuilt ==
  ASSUME MailboxInv
  PROVE  /\ IndexOver(live, envOf) = index
         /\ \A h \in Header : Seed(live, envOf, threadOf)[h] \in 0 .. nextThread - 1
         /\ \A i \in live : HeaderAt(i) # NoHeader => Seed(live, envOf, threadOf)[HeaderAt(i)] = threadOf[i]
<1>1. MailboxTypeOK /\ Indexed /\ Drawn
  BY DEF MailboxInv
<1>2. /\ live \in SUBSET Id /\ index \in [Header -> Nat] /\ nextThread \in Nat /\ 1 <= nextThread
      /\ \A i \in live : HeaderAt(i) \in Header \cup {NoHeader}
  BY <1>1, Types
<1> DEFINE Named(h) == {i \in live : HeaderOf[envOf[i]] = h}
           one(h) == CHOOSE i \in live : HeaderOf[envOf[i]] = h
<1>3. \A h \in Header : Named(h) # {} => one(h) \in live /\ HeaderAt(one(h)) = h /\ index[h] = one(h)
  <2> SUFFICES ASSUME NEW h \in Header, NEW i \in live, HeaderOf[envOf[i]] = h
               PROVE  one(h) \in live /\ HeaderAt(one(h)) = h /\ index[h] = one(h)
    OBVIOUS
  <2>1. one(h) \in live /\ HeaderOf[envOf[one(h)]] = h
    BY Zenon
  <2> HIDE DEF one
  <2>2. HeaderAt(one(h)) # NoHeader
    BY <2>1, HeaderAssumption DEF HeaderAt
  <2> QED
    BY <1>1, <2>1, <2>2 DEF Indexed, HeaderAt
<1>4. \A h \in Header : Named(h) = {} => index[h] = 0
  BY <1>1 DEF Indexed, HeaderAt
<1>5. \A h \in Header : IndexOver(live, envOf)[h] = IF Named(h) # {} THEN one(h) ELSE 0
  BY DEF IndexOver
<1>6. \A h \in Header : Seed(live, envOf, threadOf)[h] = IF Named(h) # {} THEN threadOf[one(h)] ELSE 0
  BY DEF Seed
<1>7. \A i \in live : HeaderAt(i) # NoHeader => Named(HeaderAt(i)) # {} /\ HeaderAt(i) \in Header
  BY <1>2 DEF HeaderAt
<1> HIDE DEF one, Named
<1>8. IndexOver(live, envOf) = index
  <2>1. \A h \in Header : IndexOver(live, envOf)[h] = index[h]
    BY <1>3, <1>4, <1>5
  <2>2. IndexOver(live, envOf) = [h \in Header |-> IndexOver(live, envOf)[h]]
    BY DEF IndexOver
  <2> QED
    BY <1>2, <2>1, <2>2
<1>9. \A h \in Header : Seed(live, envOf, threadOf)[h] \in 0 .. nextThread - 1
  BY <1>1, <1>2, <1>3, <1>6 DEF Drawn
<1>10. ASSUME NEW i \in live, HeaderAt(i) # NoHeader
       PROVE  Seed(live, envOf, threadOf)[HeaderAt(i)] = threadOf[i]
  <2>1. index[HeaderAt(i)] = i
    BY <1>1, <1>10 DEF Indexed
  <2>2. one(HeaderAt(i)) = i
    BY <1>3, <1>7, <1>10, <2>1
  <2> QED
    BY <1>6, <1>7, <1>10, <2>2
<1> QED
  BY <1>8, <1>9, <1>10

\* The projection is loaded again.
LEMMA ReopenInv ==
  ASSUME MailboxInv, Reopen
  PROVE  MailboxInv'
<1>1. /\ index' = index /\ byHeader' = Seed(live, envOf, threadOf) /\ reply' = NoReply
      /\ UNCHANGED <<live, message, labelSet, order, threads, nextMsg, nextThread>>
  BY Rebuilt DEF Reopen
<1>2. MailboxTypeOK /\ nextThread \in Nat
  BY Types DEF MailboxInv
<1>3. \A h \in Header : byHeader'[h] \in 0 .. nextThread - 1
  BY <1>1, Rebuilt
<1>4. MailboxTypeOK'
  <2>1. reply' \in [id : Nat, header : Header \cup {NoHeader}]
    BY <1>1 DEF NoReply
  <2>2. byHeader' = [h \in Header |-> byHeader'[h]]
    BY <1>1 DEF Seed
  <2>3. byHeader' \in [Header -> Nat]
    BY <1>2, <1>3, <2>2
  <2> QED
    BY <1>1, <1>2, <2>1, <2>3 DEF MailboxTypeOK, message
<1>5. Drawn'
  BY <1>1, <1>3 DEF MailboxInv, Drawn, message
<1>6. Threaded'
  BY <1>1, Rebuilt DEF Threaded, HeaderAt, message
<1>7. Indexed' /\ RepliesJoin' /\ ReplyIsHere'
  BY <1>1 DEF MailboxInv, Indexed, RepliesJoin, ReplyIsHere, HeaderAt, message
<1>8. Placed'
  BY <1>1 DEF MailboxInv, Placed, InThread, message
<1> QED
  BY <1>4, <1>5, <1>6, <1>7, <1>8 DEF MailboxInv

\* An expunged message leaves every place it stood in.
LEMMA ExpungeInv ==
  ASSUME MailboxInv, NEW i \in Id, Expunge(i)
  PROVE  MailboxInv'
<1>1. reply' = NoReply /\ UNCHANGED <<envOf, threadOf, labelSet, byHeader, nextMsg, nextThread>>
  BY DEF Expunge
<1>2. MailboxTypeOK
  BY DEF MailboxInv
<1>3. CASE i \notin live
  <2>1. UNCHANGED <<live, order, threads, index, labels, flags>>
    BY <1>3 DEF Expunge
  <2>2. labels' \in [Id -> SUBSET Label] /\ flags' \in [Id -> SUBSET Flag] /\ labelSet' \in SUBSET Label
    BY <1>1, <1>2, <2>1 DEF MailboxTypeOK
  <2> QED
    BY <1>1, <2>1, <2>2, QuietInv
<1>4. CASE i \in live
  <2>1. /\ live' = live \ {i} /\ order' = Drop(order, i)
        /\ threads' = [t \in Id |-> Drop(threads[t], i)]
        /\ index' = [h \in Header |-> IF h = HeaderOf[envOf[i]] /\ index[h] = i THEN 0 ELSE index[h]]
        /\ labels' = [labels EXCEPT ![i] = {}] /\ flags' = [flags EXCEPT ![i] = {}]
    BY <1>4 DEF Expunge
  <2>2. /\ live \in SUBSET Id /\ order \in Seq(Id) /\ threads \in [Id -> Seq(Id)] /\ index \in [Header -> Nat]
        /\ \A j \in live : HeaderAt(j) \in Header \cup {NoHeader}
    BY <1>2, Types
  <2>3. ListOf(order, live) /\ \A t \in Id : ListOf(threads[t], InThread(t))
    BY DEF MailboxInv, Placed
  <2>4. order' \in Seq(Id) /\ ListOf(order', live')
    BY <2>1, <2>2, <2>3, DropListOf
  <2>5. \A t \in Id : threads'[t] \in Seq(Id) /\ ListOf(threads'[t], InThread(t) \ {i})
    BY <2>1, <2>2, <2>3, DropListOf
  <2>6. \A t \in Id : InThread(t)' = InThread(t) \ {i}
    BY <1>1, <2>1 DEF InThread
  <2>7. \A j, k \in 1 .. Len(order') : j < k => order'[j] < order'[k]
    <3>1. \A j, k \in 1 .. Len(order) : j < k => order[j] < order[k]
      BY DEF MailboxInv, Placed
    <3> QED
      BY <2>1, <2>2, <2>3, <3>1, DropListOf
  <2>8. Placed'
    BY <2>4, <2>5, <2>6, <2>7 DEF Placed
  <2>9. MailboxTypeOK'
    <3>1. reply' \in [id : Nat, header : Header \cup {NoHeader}]
      BY <1>1 DEF NoReply
    <3>2. threads' \in [Id -> Seq(Id)]
      BY <2>1, <2>5
    <3>3. labels' \in [Id -> SUBSET Label] /\ flags' \in [Id -> SUBSET Flag] /\ index' \in [Header -> Nat]
      BY <1>2, <2>1, <2>2 DEF MailboxTypeOK
    <3> QED
      BY <1>1, <1>2, <2>1, <2>4, <3>1, <3>2, <3>3 DEF MailboxTypeOK
  <2>10. Drawn' /\ Threaded' /\ RepliesJoin'
    BY <1>1, <2>1 DEF MailboxInv, Drawn, Threaded, RepliesJoin, HeaderAt
  <2>11. ReplyIsHere'
    BY <1>1 DEF ReplyIsHere
  <2>12. Indexed'
    <3>1. /\ \A h \in Header : index[h] # 0 => index[h] \in live /\ HeaderAt(index[h]) = h
          /\ \A j \in live : HeaderAt(j) # NoHeader => index[HeaderAt(j)] = j
      BY DEF MailboxInv, Indexed
    <3>2. \A h \in Header : index'[h] = IF h = HeaderAt(i) /\ index[h] = i THEN 0 ELSE index[h]
      BY <2>1 DEF HeaderAt
    <3>3. ASSUME NEW h \in Header, index'[h] # 0
          PROVE  index'[h] \in live' /\ HeaderOf[envOf[index'[h]]] = h
      <4>1. index'[h] = index[h] /\ index[h] \in live /\ HeaderAt(index[h]) = h
        BY <3>1, <3>2, <3>3
      <4>2. index[h] # i
        BY <3>2, <3>3, <4>1
      <4> QED
        BY <2>1, <4>1, <4>2 DEF HeaderAt
    <3>4. ASSUME NEW j \in live', HeaderAt(j) # NoHeader PROVE index'[HeaderAt(j)] = j
      <4>1. j \in live /\ j # i /\ HeaderAt(j) \in Header
        BY <2>1, <2>2, <3>4
      <4> QED
        BY <3>1, <3>2, <3>4, <4>1
    <3> QED
      BY <1>1, <3>3, <3>4 DEF Indexed, HeaderAt
  <2> QED
    BY <2>8, <2>9, <2>10, <2>11, <2>12 DEF MailboxInv
<1> QED
  BY <1>3, <1>4

\* Every operation keeps the invariant of the mailbox.
LEMMA MailboxStep ==
  MailboxInv /\ [MailboxNext]_mailboxVars => MailboxInv'
<1> SUFFICES ASSUME MailboxInv, [MailboxNext]_mailboxVars PROVE MailboxInv'
  OBVIOUS
<1>0. /\ labels \in [Id -> SUBSET Label] /\ flags \in [Id -> SUBSET Flag] /\ labelSet \in SUBSET Label
  BY DEF MailboxInv, MailboxTypeOK
<1>a. Given \subseteq Id
  BY DEF Given
<1>1. CASE UNCHANGED mailboxVars
  BY <1>1 DEF mailboxVars, message, MailboxInv, MailboxTypeOK, Drawn, Indexed, Threaded, Placed, ReplyIsHere,
              RepliesJoin, HeaderAt, InThread
<1>2. ASSUME NEW e \in Env, IngestAgain(e) PROVE MailboxInv'
  BY <1>2, IngestAgainInv
<1>3. ASSUME NEW e \in Env, NEW ls \in SUBSET Label, NEW fs \in SUBSET Flag, Ingest(e, ls, fs)
      PROVE  MailboxInv'
  BY <1>3, IngestInv
<1>4. ASSUME NEW e \in Env, IngestFails(e) PROVE MailboxInv'
  BY <1>4, IngestFailsInv
<1>5. ASSUME NEW i \in Given, NEW l \in Label, LabelMsg(i, l) PROVE MailboxInv'
  <2>1. labels' \in [Id -> SUBSET Label]
    BY <1>0, <1>a, <1>5 DEF LabelMsg
  <2>2. /\ reply' = NoReply
        /\ UNCHANGED <<live, envOf, threadOf, flags, labelSet, order, threads, index, byHeader, nextMsg, nextThread>>
    BY <1>5 DEF LabelMsg
  <2> QED
    BY <1>0, <2>1, <2>2, QuietInv
<1>6. ASSUME NEW i \in Given, NEW l \in Label, Unlabel(i, l) PROVE MailboxInv'
  <2>1. labels' \in [Id -> SUBSET Label]
    BY <1>0, <1>a, <1>6 DEF Unlabel
  <2>2. /\ reply' = NoReply
        /\ UNCHANGED <<live, envOf, threadOf, flags, labelSet, order, threads, index, byHeader, nextMsg, nextThread>>
    BY <1>6 DEF Unlabel
  <2> QED
    BY <1>0, <2>1, <2>2, QuietInv
<1>7. ASSUME NEW i \in Given, NEW f \in Flag, NEW value \in BOOLEAN, SetFlag(i, f, value) PROVE MailboxInv'
  <2>1. flags' \in [Id -> SUBSET Flag]
    BY <1>0, <1>a, <1>7 DEF SetFlag
  <2>2. /\ reply' = NoReply
        /\ UNCHANGED <<live, envOf, threadOf, labels, labelSet, order, threads, index, byHeader, nextMsg, nextThread>>
    BY <1>7 DEF SetFlag
  <2> QED
    BY <1>0, <2>1, <2>2, QuietInv
<1>8. ASSUME NEW l \in Label, CreateLabel(l) \/ DeleteLabel(l) PROVE MailboxInv'
  <2>1. labels' \in [Id -> SUBSET Label] /\ labelSet' \in SUBSET Label /\ flags' = flags
    BY <1>0, <1>8 DEF CreateLabel, DeleteLabel, message
  <2>2. /\ reply' = NoReply
        /\ UNCHANGED <<live, envOf, threadOf, order, threads, index, byHeader, nextMsg, nextThread>>
    BY <1>8 DEF CreateLabel, DeleteLabel, message
  <2> QED
    BY <1>0, <2>1, <2>2, QuietInv
<1>9. ASSUME NEW i \in Given, Expunge(i) PROVE MailboxInv'
  BY <1>9, <1>a, ExpungeInv
<1>10. CASE Reopen
  BY <1>10, ReopenInv
<1> QED
  BY <1>1, <1>2, <1>3, <1>4, <1>5, <1>6, <1>7, <1>8, <1>9, <1>10 DEF MailboxNext

-----------------------------------------------------------------------------
(* What holds of every account.                                            *)

\* The inductive invariant of the projection and the threader.
THEOREM MailboxInvariant ==
  MailboxSpec => []MailboxInv
BY MailboxStart, MailboxStep, PTL DEF MailboxSpec

\* Runtime.Ingest, projection.Apply and Restore: however deliveries, retries, refused
\* appends, expunges and restarts interleave, an account holds a message once, the
\* index is the one a snapshot restores, and the listing and the conversations hold
\* the live messages and nothing else.
THEOREM EveryMessageOnce ==
  MailboxSpec => []MailboxAgrees
<1>1. ASSUME MailboxInv PROVE MailboxAgrees
  <2>1. Idempotent
    <3>1. ASSUME NEW i \in live, NEW j \in live, HeaderAt(i) # NoHeader, HeaderAt(i) = HeaderAt(j) PROVE i = j
      <4>1. index[HeaderAt(i)] = i /\ index[HeaderAt(j)] = j
        BY <1>1, <3>1 DEF MailboxInv, Indexed
      <4> QED
        BY <3>1, <4>1
    <3> QED
      BY <1>1, <3>1 DEF MailboxInv, ReplyIsHere, Idempotent, HeaderAt
  <2>2. PlacesAgree
    <3>1. ASSUME NEW i \in Id, NEW t \in Id
          PROVE  Cardinality(Occurrences(threads[t], i)) = (IF i \in live /\ threadOf[i] = t THEN 1 ELSE 0)
      <4>1. ListOf(threads[t], InThread(t))
        BY <1>1 DEF MailboxInv, Placed
      <4>2. Cardinality(Occurrences(threads[t], i)) = IF i \in InThread(t) THEN 1 ELSE 0
        BY <4>1, ListCounts
      <4> QED
        BY <4>2 DEF InThread
    <3>2. ListOf(order, live) /\ \A j, k \in 1 .. Len(order) : j < k => order[j] < order[k]
      BY <1>1 DEF MailboxInv, Placed
    <3> QED
      BY <3>1, <3>2 DEF PlacesAgree, ListOf
  <2>3. IndexIsRestored
    BY <1>1, Rebuilt DEF IndexIsRestored
  <2> QED
    BY <2>1, <2>2, <2>3 DEF MailboxAgrees
<1> QED
  BY <1>1, MailboxInvariant, PTL

\* Threader.Resolve and its seed at Open: a reply is in the conversation of the message
\* its first reference names, restarts and refused deliveries in between or not.
THEOREM ConversationsHold ==
  MailboxSpec => []RepliesJoin
<1>1. MailboxInv => RepliesJoin
  BY DEF MailboxInv
<1> QED
  BY <1>1, MailboxInvariant, PTL
-----------------------------------------------------------------------------
(* Gates: the counters of the day.                                          *)

\* A request on its way has a sender, and no request has read a later date.
IsRequest(r, d) ==
  /\ r = [at |-> r.at, from |-> r.from, stamp |-> r.stamp]
  /\ r.at # <<>> => r.from \in Spelling
  /\ r.stamp \in 0 .. d

Dated ==
  /\ today \in Nat
  /\ sends \in [PlanKeys -> [day : 0 .. today, n : 0 .. MaxSendPerDay]]
  /\ usage \in [Tenants -> [day : 0 .. today, n : 0 .. MaxQuota, bytes : 0 .. MaxBytes]]
  /\ mess = [m \in Sending |-> mess[m]] /\ \A m \in Sending : IsRequest(mess[m], today)

\* A counter of today has what it let pass today; one of an earlier day let nothing pass.
Tallies ==
  /\ counted = [plan |-> counted.plan, quota |-> counted.quota]
  /\ counted.quota = [t \in Tenants |-> IF usage[t].day = today THEN [n |-> usage[t].n, bytes |-> usage[t].bytes]
                                       ELSE [n |-> 0, bytes |-> 0]]
  /\ counted.plan \in [PlanKeys -> Nat]
  /\ ~late => \A k \in PlanKeys : counted.plan[k] = IF sends[k].day = today THEN sends[k].n ELSE 0

GatesInv == Dated /\ late \in BOOLEAN /\ Tallies

\* Nothing is counted on the first day.
LEMMA GatesStart == GatesInit => GatesInv
<1> SUFFICES ASSUME GatesInit PROVE GatesInv
  OBVIOUS
<1>1. IsRequest(Out, today)
  <2>1. today = 0
    BY DEF GatesInit
  <2> QED
    BY <2>1 DEF IsRequest, Out
<1>2. Dated
  <2>1. \A m \in Sending : mess[m] = Out
    BY DEF GatesInit
  <2>2. mess = [m \in Sending |-> mess[m]]
    BY DEF GatesInit
  <2>3. usage \in [Tenants -> [day : 0 .. today, n : 0 .. MaxQuota, bytes : 0 .. MaxBytes]] /\ today \in Nat
    BY GatesAssumption DEF GatesInit
  <2>4. sends \in [PlanKeys -> [day : 0 .. today, n : 0 .. MaxSendPerDay]]
    BY GatesAssumption DEF GatesInit
  <2> QED
    BY <1>1, <2>1, <2>2, <2>3, <2>4 DEF Dated
<1>3. Tallies
  BY DEF GatesInit, Tallies, Uncounted
<1> QED
  BY <1>2, <1>3 DEF GatesInit, GatesInv

\* A step of one request leaves requests.
LEMMA OneRequest ==
  ASSUME Dated, NEW m \in Sending, NEW r, IsRequest(r, today), mess' = [mess EXCEPT ![m] = r], today' = today
  PROVE  mess' = [x \in Sending |-> mess'[x]] /\ \A x \in Sending : IsRequest(mess'[x], today')
<1>1. mess = [x \in Sending |-> mess[x]] /\ \A x \in Sending : IsRequest(mess[x], today)
  BY DEF Dated
<1>2. mess' = [x \in Sending |-> IF x = m THEN r ELSE mess[x]]
  BY <1>1
<1>3. \A x \in Sending : mess'[x] = r \/ mess'[x] = mess[x]
  BY <1>2
<1>4. \A x \in Sending : IsRequest(mess'[x], today)
  BY <1>1, <1>3
<1>5. mess' = [x \in Sending |-> mess'[x]]
  BY <1>2
<1> QED
  BY <1>4, <1>5

\* A request with its way, or its date, replaced.
LEMMA AtGoesOn ==
  ASSUME NEW f, f = [at |-> f.at, from |-> f.from, stamp |-> f.stamp], NEW a
  PROVE  /\ [f EXCEPT !.at = a] = [at |-> a, from |-> f.from, stamp |-> f.stamp]
         /\ [f EXCEPT !.stamp = a] = [at |-> f.at, from |-> f.from, stamp |-> a]
<1>1. PICK x, y, z : f = [at |-> x, from |-> y, stamp |-> z]
  OBVIOUS
<1>2. f.at = x /\ f.from = y /\ f.stamp = z
  BY <1>1
<1>3. [[at |-> x, from |-> y, stamp |-> z] EXCEPT !.at = a] = [at |-> a, from |-> y, stamp |-> z]
      /\ [[at |-> x, from |-> y, stamp |-> z] EXCEPT !.stamp = a] = [at |-> x, from |-> y, stamp |-> a]
  OBVIOUS
<1> QED
  BY <1>1, <1>2, <1>3

\* What Pass, Refuse and the first gates make of a request.
LEMMA RequestsMove ==
  ASSUME Dated, NEW m \in Sending
  PROVE  /\ Pass(m) /\ mess[m].at # <<>> => \E r : IsRequest(r, today) /\ mess' = [mess EXCEPT ![m] = r]
         /\ Refuse(m) => \E r : IsRequest(r, today) /\ mess' = [mess EXCEPT ![m] = r]
         /\ \A gates : \A s \in Spelling :
              mess' = [mess EXCEPT ![m] = [at |-> gates, from |-> s, stamp |-> 0]]
              => \E r : IsRequest(r, today) /\ mess' = [mess EXCEPT ![m] = r]
<1>1. today \in Nat /\ mess = [x \in Sending |-> mess[x]] /\ IsRequest(mess[m], today)
  BY DEF Dated
<1>2. IsRequest(Out, today)
  BY <1>1 DEF IsRequest, Out
<1>3. ASSUME Pass(m), mess[m].at # <<>> PROVE \E r : IsRequest(r, today) /\ mess' = [mess EXCEPT ![m] = r]
  <2> DEFINE r == [at |-> Tail(mess[m].at), from |-> mess[m].from, stamp |-> mess[m].stamp]
  <2>1. IsRequest(r, today)
    BY <1>1, <1>3 DEF IsRequest
  <2>2. [mess[m] EXCEPT !.at = Tail(mess[m].at)] = r
    <3>1. mess[m] = [at |-> mess[m].at, from |-> mess[m].from, stamp |-> mess[m].stamp]
      BY <1>1 DEF IsRequest
    <3> QED
      BY <3>1, AtGoesOn, Zenon
  <2>3. mess' = [mess EXCEPT ![m] = r] \/ mess' = [mess EXCEPT ![m] = Out]
    BY <1>1, <1>3, <2>2 DEF Pass
  <2> QED
    BY <1>2, <2>1, <2>3
<1>4. ASSUME NEW gates, NEW s \in Spelling PROVE IsRequest([at |-> gates, from |-> s, stamp |-> 0], today)
  BY <1>1 DEF IsRequest
<1> QED
  BY <1>2, <1>3, <1>4 DEF Refuse

\* The gates that count nothing: a step of one request at most.
LEMMA UncountedInv ==
  ASSUME GatesInv, UNCHANGED <<today, sends, usage, counted, late>>,
         \/ mess' = mess
         \/ \E m \in Sending : \E r : IsRequest(r, today) /\ mess' = [mess EXCEPT ![m] = r]
  PROVE  GatesInv'
<1> DEFINE Still == mess' = [x \in Sending |-> mess'[x]] /\ \A x \in Sending : IsRequest(mess'[x], today')
<1>1. Still
  <2>1. CASE mess' = mess
    BY <2>1 DEF GatesInv, Dated
  <2>2. ASSUME NEW m \in Sending, NEW r, IsRequest(r, today), mess' = [mess EXCEPT ![m] = r]
        PROVE  Still
    BY <2>2, OneRequest DEF GatesInv
  <2> QED
    BY <2>1, <2>2
<1>2. Dated'
  BY <1>1 DEF GatesInv, Dated
<1>3. Tallies'
  BY DEF GatesInv, Tallies
<1> QED
  BY <1>2, <1>3 DEF GatesInv

\* planFor, each of its four answers.
LEMMA PlanForMoves ==
  ASSUME Dated, NEW m \in Sending, NEW plan, PlanFor(m, plan)
  PROVE  \E r : IsRequest(r, today) /\ mess' = [mess EXCEPT ![m] = r]
<1>1. /\ today \in Nat /\ mess = [x \in Sending |-> mess[x]] /\ IsRequest(mess[m], today)
      /\ mess[m].at # <<>>
  BY DEF Dated, PlanFor, At
<1>2. mess[m] = [at |-> mess[m].at, from |-> mess[m].from, stamp |-> mess[m].stamp] /\ mess[m].from \in Spelling
      /\ mess[m].stamp \in 0 .. today
  BY <1>1 DEF IsRequest
<1>3. CASE plan = "capped"
  <2> DEFINE a == Tail(mess[m].at)
             r == [at |-> a, from |-> mess[m].from, stamp |-> today]
  <2>1. IsRequest(r, today)
    <3> HIDE DEF a
    <3> QED
      BY <1>1, <1>2 DEF IsRequest
  <2>2. mess' = [mess EXCEPT ![m].at = Tail(@), ![m].stamp = today]
    BY <1>3 DEF PlanFor
  <2>3. [[mess[m] EXCEPT !.at = a] EXCEPT !.stamp = today] = r
    <3>1. [mess[m] EXCEPT !.at = a] = [at |-> a, from |-> mess[m].from, stamp |-> mess[m].stamp]
      BY <1>2, AtGoesOn, Zenon
    <3> DEFINE f == [mess[m] EXCEPT !.at = a]
    <3>2. f.at = a /\ f.from = mess[m].from
      BY <3>1
    <3>3. f = [at |-> f.at, from |-> f.from, stamp |-> f.stamp]
      BY <3>1
    <3> HIDE DEF f, a
    <3>4. [f EXCEPT !.stamp = today] = r
      BY <3>2, <3>3, AtGoesOn, Zenon
    <3> QED
      BY <3>4 DEF f
  <2>4. mess' = [mess EXCEPT ![m] = [[mess[m] EXCEPT !.at = a] EXCEPT !.stamp = today]]
    <3> HIDE DEF r
    <3> QED
      BY <1>1, <2>2
  <2> QED
    BY <2>1, <2>3, <2>4
<1>4. CASE plan = "suspended"
  <2>1. Refuse(m)
    BY <1>4 DEF PlanFor
  <2> QED
    BY <2>1, RequestsMove
<1>5. CASE plan \notin {"capped", "suspended"}
  <2> DEFINE a == Tail(Tail(mess[m].at))
             r == [at |-> a, from |-> mess[m].from, stamp |-> mess[m].stamp]
  <2>1. mess' = [mess EXCEPT ![m].at = Tail(Tail(@))]
    BY <1>5 DEF PlanFor
  <2>2. [mess[m] EXCEPT !.at = a] = r
    BY <1>2, AtGoesOn, Zenon
  <2>3. mess' = [mess EXCEPT ![m] = r]
    BY <1>1, <2>1, <2>2
  <2>4. IsRequest(r, today)
    <3> HIDE DEF a
    <3> QED
      BY <1>2 DEF IsRequest
  <2> QED
    BY <2>3, <2>4
<1> QED
  BY <1>3, <1>4, <1>5

\* The plan's counter, for the day that the request read.
LEMMA AllowPlanSendInv ==
  ASSUME GatesInv, NEW m \in Sending, AllowPlanSend(m)
  PROVE  GatesInv'
<1> DEFINE k == PlanKey[mess[m].from]
           d == mess[m].stamp
           c == IF sends[k].day = d THEN sends[k].n ELSE 0
<1>1. IsRequest(mess[m], today) /\ mess[m].at # <<>> /\ Dated /\ Tallies /\ late \in BOOLEAN
  BY DEF GatesInv, Dated, AllowPlanSend, At
<1>2. k \in PlanKeys /\ d \in 0 .. today /\ today \in Nat
  BY <1>1 DEF IsRequest, PlanKeys, Dated
<1>3. /\ sends \in [PlanKeys -> [day : 0 .. today, n : 0 .. MaxSendPerDay]] /\ MaxSendPerDay \in Nat
      /\ sends[k] = [day |-> sends[k].day, n |-> sends[k].n]
      /\ sends[k].n \in 0 .. MaxSendPerDay /\ sends[k].day \in 0 .. today
  BY <1>1, <1>2, GatesAssumption DEF Dated
<1>4. c \in 0 .. MaxSendPerDay
  BY <1>3
<1>5. (IF sends[k].day = d THEN sends[k] ELSE [day |-> d, n |-> 0]) = [day |-> d, n |-> c]
  <2>1. sends[k] = [day |-> sends[k].day, n |-> sends[k].n]
    BY <1>3, Zenon
  <2> HIDE DEF k, d
  <2> QED
    BY <2>1
<1>6. /\ late' = (late \/ d # today) /\ UNCHANGED <<today, usage, recent, suspended>>
      /\ \/ c >= MaxSendPerDay /\ Refuse(m) /\ sends' = [sends EXCEPT ![k] = [day |-> d, n |-> c]] /\ counted' = counted
         \/ /\ ~(c >= MaxSendPerDay) /\ Pass(m) /\ sends' = [sends EXCEPT ![k] = [day |-> d, n |-> c + 1]]
            /\ counted' = [counted EXCEPT !.plan[k] = @ + 1]
  <2>1. [[day |-> d, n |-> c] EXCEPT !.n = @ + 1] = [day |-> d, n |-> c + 1]
    <3> HIDE DEF c, d
    <3> QED
      OBVIOUS
  <2>2. [day |-> d, n |-> c].n = c
    OBVIOUS
  <2> HIDE DEF c, d
  <2> QED
    BY <1>5, <2>1, <2>2, Zenon DEF AllowPlanSend, c, d
<1> HIDE DEF k, d, c
<1>7. mess' = [x \in Sending |-> mess'[x]] /\ \A x \in Sending : IsRequest(mess'[x], today')
  <2>1. PICK r : IsRequest(r, today) /\ mess' = [mess EXCEPT ![m] = r]
    BY <1>1, <1>6, RequestsMove
  <2> QED
    BY <1>1, <1>6, <2>1, OneRequest
<1>8. PICK n \in 0 .. MaxSendPerDay :
        /\ sends' = [sends EXCEPT ![k] = [day |-> d, n |-> n]]
        /\ (n = c /\ counted' = counted) \/ (n = c + 1 /\ counted' = [counted EXCEPT !.plan[k] = @ + 1])
  BY <1>3, <1>4, <1>6
<1>9. [day |-> d, n |-> n] \in [day : 0 .. today, n : 0 .. MaxSendPerDay]
  BY <1>2
<1>10. sends' \in [PlanKeys -> [day : 0 .. today, n : 0 .. MaxSendPerDay]]
  BY <1>2, <1>3, <1>8, <1>9
<1>11. Dated'
  BY <1>1, <1>6, <1>7, <1>10 DEF Dated
<1>12. /\ counted' = [plan |-> counted'.plan, quota |-> counted.quota] /\ counted'.plan \in [PlanKeys -> Nat]
       /\ counted'.plan = [counted.plan EXCEPT ![k] = IF n = c THEN @ ELSE @ + 1]
  <2>1. PICK p, q : counted = [plan |-> p, quota |-> q] /\ p \in [PlanKeys -> Nat]
    BY <1>1 DEF Tallies
  <2>2. CASE n = c /\ counted' = counted
    BY <1>2, <2>1, <2>2
  <2>3. CASE n = c + 1 /\ counted' = [counted EXCEPT !.plan[k] = @ + 1]
    <3>1. counted' = [plan |-> [p EXCEPT ![k] = @ + 1], quota |-> q]
      BY <2>1, <2>3
    <3>2. n # c
      BY <1>4, <2>3
    <3> QED
      BY <1>2, <2>1, <3>1, <3>2
  <2> QED
    BY <1>8, <2>2, <2>3
<1>13. ASSUME ~late', NEW j \in PlanKeys
       PROVE  counted'.plan[j] = IF sends'[j].day = today THEN sends'[j].n ELSE 0
  <2>1. d = today /\ ~late
    BY <1>6, <1>13
  <2>2. \A i \in PlanKeys : counted.plan[i] = IF sends[i].day = today THEN sends[i].n ELSE 0
    BY <1>1, <2>1 DEF Tallies
  <2>3. counted.plan \in [PlanKeys -> Nat]
    BY <1>1 DEF Tallies
  <2>4. CASE j # k
    BY <1>2, <1>3, <1>8, <1>12, <2>2, <2>3, <2>4
  <2>5. CASE j = k
    <3>1. counted.plan[k] = c
      BY <1>2, <2>1, <2>2 DEF c
    <3>2. counted'.plan[k] = n
      BY <1>2, <1>8, <1>12, <2>3, <3>1
    <3>3. sends'[k] = [day |-> today, n |-> n]
      BY <1>2, <1>3, <1>8, <2>1
    <3> QED
      BY <2>5, <3>2, <3>3
  <2> QED
    BY <2>4, <2>5
<1>14. Tallies'
  BY <1>1, <1>6, <1>12, <1>13 DEF Tallies
<1>15. late' \in BOOLEAN
  BY <1>1, <1>6
<1> QED
  BY <1>11, <1>14, <1>15 DEF GatesInv

\* The tenant's counter, for the day on which it is asked.
LEMMA AllowInv ==
  ASSUME GatesInv, NEW m \in Sending, NEW size \in {1, 2}, Allow(m, size)
  PROVE  GatesInv'
<1> DEFINE t == TenantFor[mess[m].from]
           n == IF usage[t].day = today THEN usage[t].n ELSE 0
           b == IF usage[t].day = today THEN usage[t].bytes ELSE 0
           u == IF usage[t].day = today THEN usage[t] ELSE [day |-> today, n |-> 0, bytes |-> 0]
<1>1. /\ Dated /\ Tallies /\ late \in BOOLEAN /\ mess[m].at # <<>> /\ today \in Nat
      /\ IsRequest(mess[m], today)
  BY DEF GatesInv, Dated, Allow, At
<1>t. t \in Tenants
  BY <1>1 DEF IsRequest, Tenants
<1>2. /\ usage \in [Tenants -> [day : 0 .. today, n : 0 .. MaxQuota, bytes : 0 .. MaxBytes]]
      /\ usage[t] = [day |-> usage[t].day, n |-> usage[t].n, bytes |-> usage[t].bytes]
      /\ usage[t].n \in 0 .. MaxQuota /\ usage[t].bytes \in 0 .. MaxBytes /\ MaxQuota \in Nat /\ MaxBytes \in Nat
  BY <1>1, <1>t, GatesAssumption DEF Dated
<1>5. /\ UNCHANGED <<today, sends, recent, suspended, late>>
      /\ \/ Refuse(m) /\ usage' = [usage EXCEPT ![t] = u] /\ counted' = counted
         \/ /\ ~(u.n >= MaxQuota \/ u.bytes + size > MaxBytes) /\ Pass(m)
            /\ usage' = [usage EXCEPT ![t] = [day |-> today, n |-> u.n + 1, bytes |-> u.bytes + size]]
            /\ counted' = [counted EXCEPT !.quota[t] = [n |-> @.n + 1, bytes |-> @.bytes + size]]
  BY DEF Allow, QuotaDay
<1> HIDE DEF t
<1>3. n \in 0 .. MaxQuota /\ b \in 0 .. MaxBytes /\ u = [day |-> today, n |-> n, bytes |-> b] /\ u.n = n /\ u.bytes = b
  BY <1>2
<1>4. /\ counted = [plan |-> counted.plan, quota |-> counted.quota]
      /\ counted.quota = [x \in Tenants |-> counted.quota[x]] /\ counted.quota[t] = [n |-> n, bytes |-> b]
      /\ \A x \in Tenants : counted.quota[x] = IF usage[x].day = today THEN [n |-> usage[x].n, bytes |-> usage[x].bytes]
                                               ELSE [n |-> 0, bytes |-> 0]
  BY <1>1, <1>t DEF Tallies
<1> HIDE DEF n, b, u
<1>6. mess' = [x \in Sending |-> mess'[x]] /\ \A x \in Sending : IsRequest(mess'[x], today')
  <2>1. PICK r : IsRequest(r, today) /\ mess' = [mess EXCEPT ![m] = r]
    BY <1>1, <1>5, RequestsMove
  <2> QED
    BY <1>1, <1>5, <2>1, OneRequest
<1>7. PICK i \in 0 .. MaxQuota, j \in 0 .. MaxBytes :
        /\ usage' = [usage EXCEPT ![t] = [day |-> today, n |-> i, bytes |-> j]]
        /\ counted' = [plan |-> counted.plan, quota |-> [counted.quota EXCEPT ![t] = [n |-> i, bytes |-> j]]]
  <2>1. CASE Refuse(m) /\ usage' = [usage EXCEPT ![t] = u] /\ counted' = counted
    <3>1. counted.quota = [counted.quota EXCEPT ![t] = [n |-> n, bytes |-> b]]
      BY <1>4, <1>t
    <3>2. counted' = [plan |-> counted.plan, quota |-> [counted.quota EXCEPT ![t] = [n |-> n, bytes |-> b]]]
      BY <1>4, <2>1, <3>1
    <3> QED
      BY <1>3, <2>1, <3>2
  <2>2. CASE /\ ~(u.n >= MaxQuota \/ u.bytes + size > MaxBytes)
             /\ usage' = [usage EXCEPT ![t] = [day |-> today, n |-> u.n + 1, bytes |-> u.bytes + size]]
             /\ counted' = [counted EXCEPT !.quota[t] = [n |-> @.n + 1, bytes |-> @.bytes + size]]
    <3>1. n + 1 \in 0 .. MaxQuota /\ b + size \in 0 .. MaxBytes
      BY <1>2, <1>3, <2>2
    <3>2. usage' = [usage EXCEPT ![t] = [day |-> today, n |-> n + 1, bytes |-> b + size]]
      BY <1>3, <2>2
    <3>3. counted' = [plan |-> counted.plan, quota |-> [counted.quota EXCEPT ![t] = [n |-> n + 1, bytes |-> b + size]]]
      <4>1. PICK p, q : counted = [plan |-> p, quota |-> q]
        BY <1>4
      <4>2. counted' = [plan |-> p, quota |-> [q EXCEPT ![t] = [n |-> q[t].n + 1, bytes |-> q[t].bytes + size]]]
        BY <2>2, <4>1
      <4>3. q = counted.quota /\ p = counted.plan /\ q[t].n = n /\ q[t].bytes = b
        BY <1>4, <4>1
      <4> QED
        BY <4>2, <4>3
    <3> QED
      BY <3>1, <3>2, <3>3
  <2> QED
    BY <1>5, <2>1, <2>2
<1>8. Dated'
  <2>1. [day |-> today, n |-> i, bytes |-> j] \in [day : 0 .. today, n : 0 .. MaxQuota, bytes : 0 .. MaxBytes]
    BY <1>1
  <2>2. usage' \in [Tenants -> [day : 0 .. today, n : 0 .. MaxQuota, bytes : 0 .. MaxBytes]]
    BY <1>2, <1>7, <1>t, <2>1
  <2> QED
    BY <1>1, <1>5, <1>6, <2>2 DEF Dated
<1>9. Tallies'
  <2>1. /\ counted'.plan = counted.plan /\ counted'.quota = [counted.quota EXCEPT ![t] = [n |-> i, bytes |-> j]]
        /\ counted' = [plan |-> counted'.plan, quota |-> counted'.quota]
    BY <1>7
  <2>2. counted'.quota = [x \in Tenants |-> IF x = t THEN [n |-> i, bytes |-> j] ELSE counted.quota[x]]
    BY <1>4, <2>1
  <2>3. ASSUME NEW x \in Tenants
        PROVE  (IF x = t THEN [n |-> i, bytes |-> j] ELSE counted.quota[x])
                 = IF usage'[x].day = today THEN [n |-> usage'[x].n, bytes |-> usage'[x].bytes] ELSE [n |-> 0, bytes |-> 0]
    <3>1. CASE x = t
      <4>1. usage'[x] = [day |-> today, n |-> i, bytes |-> j]
        BY <1>2, <1>7, <3>1
      <4> QED
        BY <3>1, <4>1
    <3>2. CASE x # t
      BY <1>2, <1>4, <1>7, <3>2
    <3> QED
      BY <3>1, <3>2
  <2>4. counted'.quota = [x \in Tenants |-> IF usage'[x].day = today THEN [n |-> usage'[x].n, bytes |-> usage'[x].bytes]
                                            ELSE [n |-> 0, bytes |-> 0]]
    BY <2>2, <2>3
  <2> QED
    BY <1>1, <1>5, <2>1, <2>4 DEF Tallies
<1> QED
  BY <1>1, <1>5, <1>8, <1>9 DEF GatesInv

\* Midnight: every counter is of an earlier day.
LEMMA NextDayInv == GatesInv /\ NextDay => GatesInv'
<1> SUFFICES ASSUME GatesInv, NextDay PROVE GatesInv'
  OBVIOUS
<1>1. /\ today' = today + 1 /\ counted' = Uncounted /\ late' = FALSE
      /\ UNCHANGED <<sends, usage, recent, suspended, mess>>
  BY DEF NextDay
<1>2. today \in Nat /\ \A i \in 0 .. today : i \in 0 .. today' /\ i # today'
  BY <1>1 DEF GatesInv, Dated
<1>3. Dated'
  <2>1. sends' \in [PlanKeys -> [day : 0 .. today', n : 0 .. MaxSendPerDay]]
    BY <1>1, <1>2 DEF GatesInv, Dated
  <2>2. usage' \in [Tenants -> [day : 0 .. today', n : 0 .. MaxQuota, bytes : 0 .. MaxBytes]]
    BY <1>1, <1>2 DEF GatesInv, Dated
  <2>3. \A x \in Sending : IsRequest(mess'[x], today')
    BY <1>1, <1>2 DEF GatesInv, Dated, IsRequest
  <2>4. mess' = [x \in Sending |-> mess'[x]] /\ today' \in Nat
    BY <1>1, <1>2 DEF GatesInv, Dated
  <2> QED
    BY <2>1, <2>2, <2>3, <2>4 DEF Dated
<1>4. Tallies'
  <2>1. (\A t \in Tenants : usage'[t].day # today') /\ \A k \in PlanKeys : sends'[k].day # today'
    BY <1>1, <1>2 DEF GatesInv, Dated
  <2>2. counted' = [plan |-> [k \in PlanKeys |-> 0], quota |-> [t \in Tenants |-> [n |-> 0, bytes |-> 0]]]
    BY <1>1 DEF Uncounted
  <2> QED
    BY <1>1, <2>1, <2>2 DEF Tallies
<1> QED
  BY <1>1, <1>3, <1>4 DEF GatesInv

\* The counters have the right day's numbers, whatever messages do at once.
THEOREM GatesInvariant == GatesSpec => []GatesInv
<1>1. ASSUME GatesInv, [GatesNext]_gateVars PROVE GatesInv'
  <2>1. CASE NextDay
    BY <1>1, <2>1, NextDayInv
  <2>2. ASSUME NEW m \in Sending, AllowPlanSend(m) PROVE GatesInv'
    BY <1>1, <2>2, AllowPlanSendInv
  <2>3. ASSUME NEW m \in Sending, NEW size \in {1, 2}, Allow(m, size) PROVE GatesInv'
    BY <1>1, <2>3, AllowInv
  <2>4. ASSUME NEW s \in Spelling, Leaves(s) PROVE GatesInv'
    BY <1>1, <2>4, UncountedInv DEF Leaves
  <2>5. CASE UNCHANGED gateVars
    BY <1>1, <2>5, UncountedInv DEF gateVars
  <2>6. ASSUME NEW m \in Sending, NEW burst \in BOOLEAN, Check(m, burst) PROVE GatesInv'
    <3>1. UNCHANGED <<today, sends, usage, counted, late>> /\ (Refuse(m) \/ Pass(m)) /\ mess[m].at # <<>>
      BY <2>6 DEF Check, At
    <3>2. \E r : IsRequest(r, today) /\ mess' = [mess EXCEPT ![m] = r]
      BY <1>1, <3>1, RequestsMove DEF GatesInv
    <3> QED
      BY <1>1, <3>1, <3>2, UncountedInv
  <2>7. ASSUME NEW m \in Sending, NEW plan, PlanFor(m, plan) PROVE GatesInv'
    <3>1. UNCHANGED <<today, sends, usage, counted, late>>
      BY <2>7 DEF PlanFor
    <3>2. \E r : IsRequest(r, today) /\ mess' = [mess EXCEPT ![m] = r]
      BY <1>1, <2>7, PlanForMoves DEF GatesInv
    <3> QED
      BY <1>1, <3>1, <3>2, UncountedInv
  <2>8. ASSUME NEW m \in Sending, NEW s \in Spelling, Data(m, s) \/ SendRaw(m, s) \/ HandleSend(m, s)
        PROVE  GatesInv'
    <3>1. PICK gates : Begin(m, s, gates)
      BY <2>8 DEF Data, SendRaw, HandleSend
    <3>2. /\ UNCHANGED <<today, sends, usage, counted, late>>
          /\ mess' = [mess EXCEPT ![m] = [at |-> gates, from |-> s, stamp |-> 0]]
      BY <3>1 DEF Begin
    <3>3. \E r : IsRequest(r, today) /\ mess' = [mess EXCEPT ![m] = r]
      BY <1>1, <3>2, RequestsMove DEF GatesInv
    <3> QED
      BY <1>1, <3>2, <3>3, UncountedInv
  <2> QED
    BY <1>1, <2>1, <2>2, <2>3, <2>4, <2>5, <2>6, <2>7, <2>8, GatesAssumption DEF GatesNext
<1> QED
  BY GatesStart, <1>1, PTL DEF GatesSpec

\* The daily limits hold for every number of senders, messages and days, each for what
\* the code makes of a sender's spelling: the tenant's wherever midnight falls, the
\* plan's on a day on which no message that read the date before midnight is counted.
THEOREM LimitsHold == GatesSpec => []DailyLimits
<1>1. ASSUME GatesInv PROVE DailyLimits
  <2>1. /\ MaxQuota \in Nat /\ MaxBytes \in Nat /\ MaxSendPerDay \in Nat
        /\ \A t \in Tenants : usage[t].n \in 0 .. MaxQuota /\ usage[t].bytes \in 0 .. MaxBytes
        /\ \A k \in PlanKeys : sends[k].n \in 0 .. MaxSendPerDay
    BY <1>1, GatesAssumption DEF GatesInv, Dated
  <2>2. \A t \in Tenants : counted.quota[t].n <= MaxQuota /\ counted.quota[t].bytes <= MaxBytes
    BY <1>1, <2>1 DEF GatesInv, Tallies
  <2>3. ~late => \A k \in PlanKeys : counted.plan[k] <= MaxSendPerDay
    BY <1>1, <2>1 DEF GatesInv, Tallies
  <2> QED
    BY <2>2, <2>3 DEF DailyLimits
<1> QED
  BY GatesInvariant, <1>1, PTL

-----------------------------------------------------------------------------
(* CalQuery: what a time range finds.                                       *)

\* The last answer is about the last question.
QueryInv ==
  /\ report.ev \in Event
  /\ report.tr \in TimeRange
  /\ (report.tr.start = 0 /\ report.tr.end = 0) \/ report.found = Matches(report.ev, report.tr)

\* No instance of an event is before its time 1, or beyond what the library is asked for.
LEMMA InstancesAreNear ==
  ASSUME NEW ev \in Event, NEW o \in Instances(ev)
  PROVE  o \in Nat /\ 1 <= o /\ o <= 3 * Horizon
<1>1. Horizon \in Nat /\ 1 <= Horizon
  BY HorizonAssumption
<1>2. ev.start \in 1 .. Horizon /\ ev.every \in 0 .. 2 /\ ev.count \in 1 .. 2
  BY DEF Event
<1>3. CASE o = ev.start
  BY <1>1, <1>2, <1>3
<1>4. ASSUME NEW i \in 0 .. ev.count - 1, o = ev.start + i * ev.every PROVE o \in Nat /\ 1 <= o /\ o <= 3 * Horizon
  <2>1. i \in {0, 1} /\ ev.every \in {0, 1, 2}
    BY <1>2
  <2>2. i * ev.every \in {0, 1, 2}
    BY <2>1
  <2> QED
    BY <1>1, <1>2, <1>4, <2>2
<1> QED
  BY <1>3, <1>4 DEF Instances

\* Of one instance, the filter asks what its moments say.
LEMMA OverlapIsShared ==
  ASSUME NEW tr \in TimeRange, NEW o \in Nat, 1 <= o, NEW d \in Nat,
         tr.start < tr.end \/ (tr.start > 0 /\ tr.end = 0)
  PROVE  LET In(t) == (tr.start = 0 \/ tr.start <= t) /\ (tr.end = 0 \/ t < tr.end)
         IN  Overlaps(tr, o, o + d) <=> IF d = 0 THEN In(o) /\ o # tr.start ELSE \E t \in o .. o + d - 1 : In(t)
<1> DEFINE In(t) == (tr.start = 0 \/ tr.start <= t) /\ (tr.end = 0 \/ t < tr.end)
<1>1. tr.start \in Nat /\ tr.end \in Nat
  BY HorizonAssumption DEF TimeRange
<1>2. CASE d = 0
  BY <1>1, <1>2 DEF Overlaps
<1>3. CASE d # 0
  <2>1. ASSUME Overlaps(tr, o, o + d) PROVE \E t \in o .. o + d - 1 : In(t)
    <3>1. CASE tr.start <= o
      <4>1. o \in o .. o + d - 1 /\ In(o)
        BY <1>1, <1>3, <2>1, <3>1 DEF Overlaps
      <4> QED
        BY <4>1
    <3>2. CASE ~(tr.start <= o)
      <4>1. tr.start \in o .. o + d - 1 /\ In(tr.start)
        BY <1>1, <1>3, <2>1, <3>2 DEF Overlaps
      <4> QED
        BY <4>1
    <3> QED
      BY <3>1, <3>2
  <2>2. ASSUME NEW t \in o .. o + d - 1, In(t) PROVE Overlaps(tr, o, o + d)
    BY <1>1, <1>3, <2>2 DEF Overlaps
  <2> QED
    BY <1>3, <2>1, <2>2
<1> QED
  BY <1>2, <1>3

\* Nothing is lost by asking the library for instances near the range only.
LEMMA MatchesIsOverlap ==
  ASSUME NEW ev \in Event, NEW tr \in TimeRange, ~(tr.start = 0 /\ tr.end = 0)
  PROVE  Matches(ev, tr) <=> \E o \in Instances(ev) : Overlaps(tr, o, o + EventDuration(ev))
<1> DEFINE d == EventDuration(ev)
<1>1. d \in Nat /\ tr.start \in Nat /\ tr.end \in Nat
  BY HorizonAssumption DEF TimeRange, Event, EventDuration
<1> HIDE DEF d
<1>2. CASE ev.every > 0
  <2>1. ASSUME NEW o \in Instances(ev), Overlaps(tr, o, o + d)
        PROVE  o \in Between(ev, After(ev, tr), IF tr.end = 0 THEN 3 * Horizon ELSE tr.end)
    <3>1. o \in Nat /\ 1 <= o /\ o <= 3 * Horizon
      BY InstancesAreNear
    <3>2. After(ev, tr) = IF tr.start <= d THEN 0 ELSE tr.start - d
      BY DEF After, d
    <3>3. o >= After(ev, tr)
      BY <1>1, <2>1, <3>1, <3>2 DEF Overlaps
    <3>4. o <= IF tr.end = 0 THEN 3 * Horizon ELSE tr.end
      BY <1>1, <2>1, <3>1 DEF Overlaps
    <3> QED
      BY <3>3, <3>4 DEF Between
  <2>2. Matches(ev, tr) <=> RecurrenceOverlaps(ev, tr)
    BY <1>2 DEF Matches, EventOverlaps
  <2>3. RecurrenceOverlaps(ev, tr) <=> \E o \in Instances(ev) : Overlaps(tr, o, o + d)
    <3>1. \A o \in Between(ev, After(ev, tr), IF tr.end = 0 THEN 3 * Horizon ELSE tr.end) : o \in Instances(ev)
      BY DEF Between
    <3> QED
      BY <2>1, <3>1, Zenon DEF RecurrenceOverlaps, d
  <2> QED
    BY <2>2, <2>3 DEF d
<1>3. CASE ~(ev.every > 0)
  <2>1. ev.every = 0
    BY <1>3 DEF Event
  <2>2. Instances(ev) = {ev.start}
    BY <2>1 DEF Instances
  <2>3. Matches(ev, tr) <=> Overlaps(tr, ev.start, ev.start + d)
    BY <1>3 DEF Matches, EventOverlaps, d
  <2> QED
    BY <2>2, <2>3 DEF d
<1> QED
  BY <1>2, <1>3

\* A calendar-query finds an event exactly if one of its instances lies in the range, for
\* every horizon.
THEOREM QueriesAreExact == QuerySpec => []QueryIsExact
<1>1. QueryInit => QueryInv
  <2> SUFFICES ASSUME NEW ev \in Event, report = [ev |-> ev, tr |-> [start |-> 0, end |-> 0], found |-> TRUE]
               PROVE  QueryInv
    BY DEF QueryInit
  <2> DEFINE all == [start |-> 0, end |-> 0]
  <2>1. all \in TimeRange /\ all.start = 0 /\ all.end = 0
    BY HorizonAssumption DEF TimeRange
  <2>2. report.ev = ev /\ report.tr = all
    OBVIOUS
  <2> QED
    BY <2>1, <2>2 DEF QueryInv
<1>2. QueryInv /\ [QueryNext]_queryVars => QueryInv'
  <2> SUFFICES ASSUME QueryInv, [QueryNext]_queryVars PROVE QueryInv'
    OBVIOUS
  <2>1. ASSUME NEW tr \in TimeRange, report' = [ev |-> report.ev, tr |-> tr, found |-> Matches(report.ev, tr)] PROVE QueryInv'
    BY <2>1 DEF QueryInv
  <2>2. CASE UNCHANGED queryVars
    BY <2>2 DEF QueryInv, queryVars
  <2> QED
    BY <2>1, <2>2 DEF QueryNext
<1>3. QueryInv => QueryIsExact
  <2> SUFFICES ASSUME QueryInv PROVE QueryIsExact
    OBVIOUS
  <2> DEFINE ev == report.ev
             tr == report.tr
             d == EventDuration(ev)
             In(t) == (tr.start = 0 \/ tr.start <= t) /\ (tr.end = 0 \/ t < tr.end)
             Shared(o) == IF d = 0 THEN In(o) /\ o # tr.start ELSE \E t \in o .. o + d - 1 : In(t)
  <2> SUFFICES ASSUME tr.start < tr.end \/ (tr.start > 0 /\ tr.end = 0)
               PROVE  report.found <=> \E o \in Instances(ev) : Shared(o)
    BY DEF QueryIsExact
  <2>1. ev \in Event /\ tr \in TimeRange /\ tr.start \in Nat /\ tr.end \in Nat /\ d \in Nat
    BY HorizonAssumption DEF QueryInv, TimeRange, Event, EventDuration
  <2>2. ~(tr.start = 0 /\ tr.end = 0)
    BY <2>1
  <2>3. report.found = Matches(ev, tr)
    BY <2>2 DEF QueryInv
  <2>4. Matches(ev, tr) <=> \E o \in Instances(ev) : Overlaps(tr, o, o + d)
    BY <2>1, <2>2, MatchesIsOverlap
  <2>5. \A o \in Instances(ev) : Overlaps(tr, o, o + d) <=> Shared(o)
    <3> SUFFICES ASSUME NEW o \in Instances(ev) PROVE Overlaps(tr, o, o + d) <=> Shared(o)
      OBVIOUS
    <3>1. o \in Nat /\ 1 <= o
      BY <2>1, InstancesAreNear
    <3> HIDE DEF tr, d
    <3> QED
      BY <2>1, <3>1, OverlapIsShared
  <2> QED
    BY <2>3, <2>4, <2>5
<1> QED
  BY <1>1, <1>2, <1>3, PTL DEF QuerySpec

-----------------------------------------------------------------------------
(* Jmap: what concurrent updates of messages come to.                       *)

Paths == [path : {"mailboxIds", "mailboxIds/"}, want : SUBSET Mailbox, on : BOOLEAN]
           \cup [path : {"keywords", "keywords/"}, want : SUBSET Keyword, on : BOOLEAN]
Content == [labels : SUBSET Mailbox, flags : SUBSET Keyword]
Call == [at : {"idle", "patch", "send"}, id : Msg, asked : SUBSET Paths, left : SUBSET Paths, drop : SUBSET Mailbox,
         add : SUBSET Mailbox, put : SUBSET [flag : Keyword, on : BOOLEAN], alone : BOOLEAN]

JmapTypes ==
  /\ listing \in Seq(Msg)
  /\ mail \in [Msg -> Content]
  /\ set \in [JClient -> Call]
  /\ broken \in SUBSET Msg

\* A call has appends to make only while it patches, and never two of one flag.
Sane(r) ==
  /\ r.at # "patch" => r.left = r.asked /\ r.drop = {} /\ r.add = {} /\ r.put = {}
  /\ r.left \subseteq r.asked
  /\ \A d, e \in r.put : d.flag = e.flag => d = e

\* What the appends that are left make of a message.
LabelsTo(r, ls) == (ls \ r.drop) \cup r.add
FlagsTo(put, fs) ==
  {f \in Keyword : [flag |-> f, on |-> TRUE] \in put \/ (f \in fs /\ [flag |-> f, on |-> FALSE] \notin put)}

\* The paths that were taken hold once those appends are made.
OnCourse(r, has) ==
  \A p \in r.asked \ r.left :
    (\A q \in r.asked \ {p} : Apart(p, q)) => Holds(p, LabelsTo(r, has.labels), FlagsTo(r.put, has.flags))

\* Labels that are to be dropped make room for others.
Refills == \A c \in JClient : set[c].id \notin broken /\ set[c].drop # {} => set[c].add # {}

\* A message without a label is about to get one.
NotLost ==
  \A m \in ToSet(listing) \ broken :
    mail[m].labels = {} => \E c \in JClient : set[c].at = "patch" /\ set[c].id = m /\ set[c].add # {}

Undisturbed ==
  \A c \in JClient : set[c].at # "idle" /\ set[c].alone => Here(set[c].id) /\ OnCourse(set[c], mail[set[c].id])

UpdateInv == JmapTypes /\ (\A c \in JClient : Sane(set[c])) /\ Refills /\ NotLost /\ Undisturbed

Distinct(s) == \A i, j \in 1 .. Len(s) : i # j => s[i] # s[j]

\* The order of a mailbox: the messages with the label that are after x.
NewerIn(s, S, x) == {y \in S : \E i, j \in 1 .. Len(s) : i < j /\ s[i] = x /\ s[j] = y}

InDrafts == {m \in Msg : Drafts \in mail[m].labels}

\* What the client has not seen is further down than it has come.
PagerInv ==
  /\ Distinct(listing)
  /\ pager \in [pos : Nat, seen : SUBSET Msg, due : SUBSET Msg, on : BOOLEAN]
  /\ pager.on =>
       \A x \in pager.due \ pager.seen :
         /\ Here(x) /\ x \in InDrafts
         /\ pager.pos <= Cardinality(NewerIn(listing, InDrafts, x))

\* One append brings a message one step closer to the same end.
LEMMA DropKeepsCourse ==
  ASSUME NEW r \in Call, NEW has \in Content, NEW l \in r.drop
  PROVE  /\ [r EXCEPT !.drop = @ \ {l}] \in Call /\ [has EXCEPT !.labels = @ \ {l}] \in Content
         /\ OnCourse(r, has) => OnCourse([r EXCEPT !.drop = @ \ {l}], [has EXCEPT !.labels = @ \ {l}])
<1> DEFINE q == [r EXCEPT !.drop = @ \ {l}]
           new == [has EXCEPT !.labels = @ \ {l}]
<1>1. q \in Call /\ new \in Content
  BY DEF Call, Content
<1>2. q.asked = r.asked /\ q.left = r.left /\ q.put = r.put /\ q.add = r.add /\ q.drop = r.drop \ {l}
  BY DEF Call
<1>3. new.flags = has.flags /\ new.labels = has.labels \ {l}
  BY DEF Content
<1>4. LabelsTo(q, new.labels) = LabelsTo(r, has.labels)
  BY <1>2, <1>3 DEF LabelsTo
<1> HIDE DEF q, new
<1> QED
  BY <1>1, <1>2, <1>3, <1>4 DEF OnCourse, q, new

\* A label that is added.
LEMMA AddKeepsCourse ==
  ASSUME NEW r \in Call, NEW has \in Content, NEW l \in r.add, r.drop = {}
  PROVE  /\ [r EXCEPT !.add = @ \ {l}] \in Call /\ [has EXCEPT !.labels = @ \cup {l}] \in Content
         /\ OnCourse(r, has) => OnCourse([r EXCEPT !.add = @ \ {l}], [has EXCEPT !.labels = @ \cup {l}])
<1> DEFINE q == [r EXCEPT !.add = @ \ {l}]
           new == [has EXCEPT !.labels = @ \cup {l}]
<1>1. q \in Call /\ new \in Content
  BY DEF Call, Content
<1>2. q.asked = r.asked /\ q.left = r.left /\ q.put = r.put /\ q.add = r.add \ {l} /\ q.drop = r.drop
  BY DEF Call
<1>3. new.flags = has.flags /\ new.labels = has.labels \cup {l}
  BY DEF Content
<1>4. LabelsTo(q, new.labels) = LabelsTo(r, has.labels)
  BY <1>2, <1>3 DEF LabelsTo
<1> HIDE DEF q, new
<1> QED
  BY <1>1, <1>2, <1>3, <1>4 DEF OnCourse, q, new

\* A flag that is set or cleared: no other append is about it.
LEMMA PutKeepsCourse ==
  ASSUME NEW r \in Call, NEW has \in Content, NEW e \in r.put, Sane(r)
  PROVE  LET new == [has EXCEPT !.flags = IF e.on THEN @ \cup {e.flag} ELSE @ \ {e.flag}]
         IN  /\ [r EXCEPT !.put = @ \ {e}] \in Call /\ new \in Content
             /\ OnCourse(r, has) => OnCourse([r EXCEPT !.put = @ \ {e}], new)
<1> DEFINE q == [r EXCEPT !.put = @ \ {e}]
           new == [has EXCEPT !.flags = IF e.on THEN @ \cup {e.flag} ELSE @ \ {e.flag}]
<1>1. e.flag \in Keyword /\ e.on \in BOOLEAN /\ e = [flag |-> e.flag, on |-> e.on]
  BY DEF Call
<1>2. q.asked = r.asked /\ q.left = r.left /\ q.put = r.put \ {e} /\ q.add = r.add /\ q.drop = r.drop /\ q \in Call
  BY DEF Call
<1>3. new.flags = (IF e.on THEN has.flags \cup {e.flag} ELSE has.flags \ {e.flag}) /\ new.labels = has.labels /\ new \in Content
  BY <1>1 DEF Content
<1> HIDE DEF q, new
<1>4. LabelsTo(q, new.labels) = LabelsTo(r, has.labels)
  BY <1>2, <1>3 DEF LabelsTo
<1>5. FlagsTo(q.put, new.flags) = FlagsTo(r.put, has.flags)
  <2> SUFFICES ASSUME NEW f \in Keyword PROVE f \in FlagsTo(q.put, new.flags) <=> f \in FlagsTo(r.put, has.flags)
    BY DEF FlagsTo
  <2> DEFINE T == [flag |-> f, on |-> TRUE]
             F == [flag |-> f, on |-> FALSE]
  <2>0. T.flag = f /\ F.flag = f /\ T # F
    OBVIOUS
  <2>1. CASE f # e.flag
    <3>1. T # e /\ F # e
      BY <2>0, <2>1
    <3> QED
      BY <1>2, <1>3, <2>1, <3>1 DEF FlagsTo
  <2>2. CASE f = e.flag /\ e.on
    <3>1. e = T
      BY <1>1, <2>2
    <3>2. F \notin r.put
      BY <2>0, <3>1 DEF Sane
    <3> QED
      BY <1>2, <1>3, <2>2, <3>1, <3>2 DEF FlagsTo
  <2>3. CASE f = e.flag /\ ~e.on
    <3>1. e = F
      BY <1>1, <2>3
    <3>2. T \notin r.put
      BY <2>0, <3>1 DEF Sane
    <3> QED
      BY <1>2, <1>3, <2>3, <3>1, <3>2 DEF FlagsTo
  <2> QED
    BY <2>1, <2>2, <2>3
<1> QED
  BY <1>2, <1>3, <1>4, <1>5 DEF OnCourse, q, new

\* So does the step that works out the next appends.
LEMMA TakingKeepsCourse ==
  ASSUME JmapTypes, NEW r \in Call, Sane(r), r.drop = {}, r.add = {}, r.put = {}, NEW p \in r.left, Here(r.id)
  PROVE  LET q == [at |-> "patch", id |-> r.id, asked |-> r.asked, left |-> r.left \ {p}, drop |-> ToDrop(r.id, p),
                   add |-> ToAdd(r.id, p), put |-> ToPut(r.id, p), alone |-> r.alone]
         IN  OnCourse(r, mail[r.id]) => OnCourse(q, mail[r.id])
<1> DEFINE q == [at |-> "patch", id |-> r.id, asked |-> r.asked, left |-> r.left \ {p}, drop |-> ToDrop(r.id, p),
                 add |-> ToAdd(r.id, p), put |-> ToPut(r.id, p), alone |-> r.alone]
           has == mail[r.id]
<1>0. p \in Paths /\ r.id \in Msg /\ has \in Content /\ r.asked \subseteq Paths /\ p \in r.asked
  BY DEF Call, Sane, JmapTypes
<1>1. q.asked = r.asked /\ q.left = r.left \ {p} /\ q.drop = ToDrop(r.id, p) /\ q.add = ToAdd(r.id, p) /\ q.put = ToPut(r.id, p)
  OBVIOUS
<1> DEFINE L == LabelsTo(q, has.labels)
           F == FlagsTo(q.put, has.flags)
<1>2. has.labels \subseteq Mailbox /\ has.flags \subseteq Keyword
  BY <1>0 DEF Content
<1>3. LabelsTo(r, has.labels) = has.labels /\ FlagsTo(r.put, has.flags) = has.flags
  BY <1>2 DEF LabelsTo, FlagsTo
<1> HIDE DEF q, has
<1>4. OfMailboxes(p) => F = has.flags /\ (IF Whole(p) THEN L = p.want ELSE L = IF p.on THEN has.labels \cup p.want ELSE has.labels \ p.want)
  <2> SUFFICES ASSUME OfMailboxes(p)
               PROVE  F = has.flags /\ (IF Whole(p) THEN L = p.want ELSE L = IF p.on THEN has.labels \cup p.want ELSE has.labels \ p.want)
    OBVIOUS
  <2>1. q.put = {}
    BY <1>1 DEF ToPut, OfMailboxes
  <2>2. F = has.flags
    BY <1>2, <2>1 DEF FlagsTo
  <2>3. CASE p.path = "mailboxIds"
    BY <1>1, <2>2, <2>3 DEF ToDrop, ToAdd, MailboxesToAdd, LabelsTo, Whole, has
  <2>4. CASE p.path = "mailboxIds/"
    BY <1>1, <2>2, <2>4 DEF ToDrop, ToAdd, LabelsTo, Whole
  <2> QED
    BY <2>3, <2>4 DEF OfMailboxes
<1>5. ~OfMailboxes(p) => L = has.labels /\ (IF Whole(p) THEN F = p.want ELSE F = IF p.on THEN has.flags \cup p.want ELSE has.flags \ p.want)
  <2> SUFFICES ASSUME ~OfMailboxes(p)
               PROVE  L = has.labels /\ (IF Whole(p) THEN F = p.want ELSE F = IF p.on THEN has.flags \cup p.want ELSE has.flags \ p.want)
    OBVIOUS
  <2>1. p.path \in {"keywords", "keywords/"} /\ p.want \subseteq Keyword /\ p.on \in BOOLEAN
    BY <1>0 DEF Paths, OfMailboxes
  <2>2. q.drop = {} /\ q.add = {}
    BY <1>1, <2>1 DEF ToDrop, ToAdd
  <2>3. L = has.labels
    BY <2>2 DEF LabelsTo
  <2>4. CASE p.path = "keywords"
    <3>1. q.put = {[flag |-> f, on |-> f \in p.want] : f \in {g \in Keyword : (g \in p.want) # (g \in has.flags)}}
      BY <1>1, <2>4 DEF ToPut, KeywordsToPut, has
    <3>2. F = p.want
      <4> SUFFICES ASSUME NEW f \in Keyword PROVE f \in F <=> f \in p.want
        BY <2>1 DEF FlagsTo
      <4>1. [flag |-> f, on |-> TRUE] \in q.put <=> f \in p.want /\ f \notin has.flags
        BY <3>1
      <4>2. [flag |-> f, on |-> FALSE] \in q.put <=> f \notin p.want /\ f \in has.flags
        <5>1. ASSUME f \notin p.want, f \in has.flags PROVE [flag |-> f, on |-> FALSE] \in q.put
          <6>0. (f \in p.want) = FALSE
            BY <5>1
          <6>1. [flag |-> f, on |-> FALSE] = [flag |-> f, on |-> f \in p.want]
            BY <6>0, Zenon
          <6>2. f \in {g \in Keyword : (g \in p.want) # (g \in has.flags)}
            BY <5>1
          <6> QED
            BY <3>1, <6>1, <6>2, Zenon
        <5>2. ASSUME [flag |-> f, on |-> FALSE] \in q.put PROVE f \notin p.want /\ f \in has.flags
          <6>1. PICK g \in Keyword : (g \in p.want) # (g \in has.flags) /\ [flag |-> f, on |-> FALSE] = [flag |-> g, on |-> g \in p.want]
            BY <3>1, <5>2
          <6>2. g = f /\ (g \in p.want) = FALSE
            BY <6>1
          <6> QED
            BY <6>1, <6>2
        <5> QED
          BY <5>1, <5>2
      <4> QED
        BY <4>1, <4>2 DEF FlagsTo
    <3> QED
      BY <2>3, <2>4, <3>2 DEF Whole
  <2>5. CASE p.path = "keywords/"
    <3>1. q.put = {[flag |-> f, on |-> p.on] : f \in p.want}
      BY <1>1, <2>5 DEF ToPut
    <3>2. \A f \in Keyword : /\ [flag |-> f, on |-> TRUE] \in q.put <=> p.on /\ f \in p.want
                             /\ [flag |-> f, on |-> FALSE] \in q.put <=> ~p.on /\ f \in p.want
      BY <2>1, <3>1
    <3>3. F = IF p.on THEN has.flags \cup p.want ELSE has.flags \ p.want
      BY <1>2, <2>1, <3>2 DEF FlagsTo
    <3> QED
      BY <2>3, <2>5, <3>3 DEF Whole
  <2> QED
    BY <2>1, <2>4, <2>5
<1> HIDE DEF L, F
<1>6. Holds(p, L, F)
  BY <1>4, <1>5 DEF Holds
<1>7. ASSUME NEW o \in Paths, Apart(o, p), Holds(o, has.labels, has.flags) PROVE Holds(o, L, F)
  <2>1. CASE OfMailboxes(o) /\ ~OfMailboxes(p)
    BY <1>5, <1>7, <2>1 DEF Holds
  <2>2. CASE ~OfMailboxes(o) /\ OfMailboxes(p)
    BY <1>4, <1>7, <2>2 DEF Holds
  <2>3. CASE OfMailboxes(o) <=> OfMailboxes(p)
    <3>1. ~Whole(o) /\ ~Whole(p) /\ o.want \cap p.want = {}
      BY <1>7, <2>3 DEF Apart, OfMailboxes
    <3> QED
      BY <1>4, <1>5, <1>7, <2>3, <3>1 DEF Holds
  <2> QED
    BY <2>1, <2>2, <2>3
<1> SUFFICES ASSUME OnCourse(r, has) PROVE OnCourse(q, has)
  BY DEF has, q
<1> SUFFICES ASSUME NEW o \in r.asked \ (r.left \ {p}), \A x \in r.asked \ {o} : Apart(o, x) PROVE Holds(o, L, F)
  BY <1>1 DEF OnCourse, L, F
<1>8. CASE o = p
  BY <1>6, <1>8
<1>9. CASE o # p
  BY <1>0, <1>3, <1>7, <1>9 DEF OnCourse
<1> QED
  BY <1>8, <1>9

\* A client without a call has nothing to do.
LEMMA NoPatchIsSane ==
  NoPatch \in Call /\ Sane(NoPatch) /\ NoPatch.at = "idle" /\ NoPatch.drop = {} /\ NoPatch.add = {}
<1>1. (CHOOSE m \in Msg : TRUE) \in Msg
  BY JmapAssumption
<1> QED
  BY <1>1 DEF NoPatch, Patching, Call, Sane

\* A call may end when its message has no other call to wait for, or when it failed.
LEMMA EndKeepsUpdates ==
  ASSUME UpdateInv, NEW c \in JClient, set' = [set EXCEPT ![c] = NoPatch],
         UNCHANGED <<listing, mail>>,
         \/ set[c].add = {} /\ broken' = broken
         \/ broken' = broken \cup {set[c].id}
  PROVE  UpdateInv'
<1> HIDE DEF NoPatch
<1>1. JmapTypes /\ set[c].id \in Msg /\ set'[c] = NoPatch /\ \A d \in JClient \ {c} : set'[d] = set[d]
  BY DEF UpdateInv, JmapTypes, Call
<1>2. JmapTypes'
  <2>1. set' \in [JClient -> Call]
    BY <1>1, NoPatchIsSane DEF JmapTypes
  <2>2. broken' \in SUBSET Msg
    BY <1>1 DEF JmapTypes
  <2> QED
    BY <1>1, <2>1, <2>2 DEF JmapTypes
<1>3. \A d \in JClient : Sane(set'[d])
  BY <1>1, NoPatchIsSane DEF UpdateInv
<1>4. Refills'
  BY <1>1, NoPatchIsSane DEF UpdateInv, Refills
<1>5. NotLost'
  <2> SUFFICES ASSUME NEW x \in ToSet(listing), x \notin broken', mail[x].labels = {}
               PROVE  \E d \in JClient : set'[d].at = "patch" /\ set'[d].id = x /\ set'[d].add # {}
    BY DEF NotLost
  <2>1. PICK d \in JClient : set[d].at = "patch" /\ set[d].id = x /\ set[d].add # {}
    BY DEF UpdateInv, NotLost
  <2>2. d # c
    BY <2>1
  <2> QED
    BY <1>1, <2>1, <2>2
<1>6. Undisturbed'
  BY <1>1, NoPatchIsSane DEF UpdateInv, Undisturbed, Here
<1> QED
  BY <1>2, <1>3, <1>4, <1>5, <1>6 DEF UpdateInv

\* A call's work, apart from whether it was alone.
Alike(q, r) ==
  /\ q.at = r.at /\ q.id = r.id /\ q.asked = r.asked /\ q.left = r.left
  /\ q.drop = r.drop /\ q.add = r.add /\ q.put = r.put

\* Whether a call was alone says nothing about its work.
LEMMA AlikeWorks ==
  ASSUME NEW q, NEW r, Alike(q, r)
  PROVE  /\ Sane(q) <=> Sane(r)
         /\ \A has : OnCourse(q, has) <=> OnCourse(r, has)
BY DEF Alike, Sane, OnCourse, LabelsTo

\* An append of one call disturbs those that work on the same message.
LEMMA SeenDisturbs ==
  ASSUME JmapTypes, NEW c \in JClient, NEW m \in Msg, NEW r \in Call, set' = Seen(c, m, r)
  PROVE  /\ set' \in [JClient -> Call] /\ set'[c] = r
         /\ \A d \in JClient \ {c} :
              /\ Alike(set'[d], set[d])
              /\ set'[d].alone => set[d].alone
              /\ set'[d].at # "idle" /\ set'[d].alone => set[d].id # m
<1>1. \A d \in JClient : set[d] \in Call /\ [set[d] EXCEPT !.alone = FALSE] \in Call
  BY DEF JmapTypes, Call
<1>2. set' \in [JClient -> Call] /\ set'[c] = r
  BY <1>1 DEF Seen
<1>3. ASSUME NEW d \in JClient \ {c}
      PROVE  /\ Alike(set'[d], set[d])
             /\ set'[d].alone => set[d].alone
             /\ set'[d].at # "idle" /\ set'[d].alone => set[d].id # m
  <2>1. CASE set[d].at # "idle" /\ set[d].id = m
    <3>1. set'[d] = [set[d] EXCEPT !.alone = FALSE]
      BY <2>1 DEF Seen
    <3> DEFINE q == [set[d] EXCEPT !.alone = FALSE]
    <3>2. q.alone = FALSE /\ Alike(q, set[d])
      BY <1>1 DEF Alike, Call
    <3> QED
      BY <3>1, <3>2
  <2>2. CASE ~(set[d].at # "idle" /\ set[d].id = m)
    <3>1. set'[d] = set[d]
      BY <2>2 DEF Seen
    <3> QED
      BY <2>2, <3>1 DEF Alike
  <2> QED
    BY <2>1, <2>2
<1> QED
  BY <1>2, <1>3

\* An append that was made keeps the invariant when its call stays on course.
LEMMA AppendKeepsUpdates ==
  ASSUME UpdateInv, NEW c \in JClient, set[c].at = "patch", NEW r \in Call, NEW after \in Content,
         NEW ok \in BOOLEAN, Append1(c, ok, r, after),
         r.at = "patch", r.id = set[c].id, r.alone = set[c].alone, Sane(r),
         OnCourse(set[c], mail[set[c].id]) => OnCourse(r, after),
         set[c].id \notin broken /\ r.drop # {} => r.add # {},
         set[c].id \notin broken /\ after.labels = {} =>
           r.add # {} \/ (mail[set[c].id].labels = {} /\ r.add = set[c].add)
  PROVE  UpdateInv'
<1> DEFINE m == set[c].id
<1>0. JmapTypes /\ m \in Msg /\ set[c] \in Call /\ listing' = listing
  BY DEF UpdateInv, JmapTypes, Call, Append1
<1>1. CASE ok
  <2>1. mail' = (IF Here(m) THEN [mail EXCEPT ![m] = after] ELSE mail) /\ set' = Seen(c, m, r) /\ broken' = broken
    BY <1>1 DEF Append1
  <2> HIDE DEF m
  <2>2. /\ set' \in [JClient -> Call] /\ set'[c] = r
        /\ \A d \in JClient \ {c} :
             /\ Alike(set'[d], set[d])
             /\ set'[d].alone => set[d].alone
             /\ set'[d].at # "idle" /\ set'[d].alone => set[d].id # m
    BY <1>0, <2>1, SeenDisturbs
  <2>3. mail' \in [Msg -> Content] /\ (\A x \in Msg : x # m => mail'[x] = mail[x]) /\ (Here(m) => mail'[m] = after)
    BY <1>0, <2>1 DEF JmapTypes
  <2>4. JmapTypes'
    BY <1>0, <2>1, <2>2, <2>3 DEF JmapTypes
  <2>5. \A d \in JClient : Sane(set'[d])
    BY <2>2, AlikeWorks DEF UpdateInv
  <2>6. Refills'
    <3> SUFFICES ASSUME NEW d \in JClient, set'[d].id \notin broken, set'[d].drop # {} PROVE set'[d].add # {}
      BY <2>1 DEF Refills
    <3>1. CASE d = c
      BY <2>2, <3>1 DEF m
    <3>2. CASE d # c
      BY <2>2, <3>2 DEF UpdateInv, Refills, Alike
    <3> QED
      BY <3>1, <3>2
  <2>7. NotLost'
    <3> SUFFICES ASSUME NEW x \in ToSet(listing) \ broken, mail'[x].labels = {}
                 PROVE  \E d \in JClient : set'[d].at = "patch" /\ set'[d].id = x /\ set'[d].add # {}
      BY <1>0, <2>1 DEF NotLost
    <3>0. x \in Msg
      BY <1>0 DEF ToSet, JmapTypes
    <3>1. CASE x = m /\ r.add # {}
      BY <2>2, <3>1 DEF m
    <3>2. CASE x = m /\ r.add = {}
      <4>1. mail[m].labels = {} /\ set[c].add = {}
        <5>1. mail'[m] = after
          BY <2>3, <3>2 DEF Here
        <5> QED
          BY <3>2, <5>1 DEF m
      <4>2. PICK d \in JClient : set[d].at = "patch" /\ set[d].id = m /\ set[d].add # {}
        BY <3>2, <4>1 DEF UpdateInv, NotLost
      <4>3. d # c
        BY <4>1, <4>2
      <4> QED
        BY <2>2, <3>2, <4>2, <4>3 DEF Alike
    <3>3. CASE x # m
      <4>1. PICK d \in JClient : set[d].at = "patch" /\ set[d].id = x /\ set[d].add # {}
        BY <2>3, <3>0, <3>3 DEF UpdateInv, NotLost
      <4>2. d # c
        BY <3>3, <4>1 DEF m
      <4> QED
        BY <2>2, <4>1, <4>2 DEF Alike
    <3> QED
      BY <3>1, <3>2, <3>3
  <2>8. Undisturbed'
    <3> SUFFICES ASSUME NEW d \in JClient, set'[d].at # "idle", set'[d].alone
                 PROVE  set'[d].id \in ToSet(listing) /\ OnCourse(set'[d], mail'[set'[d].id])
      BY <1>0 DEF Undisturbed, Here
    <3>1. CASE d = c
      <4>1. Here(m) /\ OnCourse(set[c], mail[m])
        BY <2>2, <3>1 DEF UpdateInv, Undisturbed, m
      <4> QED
        BY <2>2, <2>3, <3>1, <4>1 DEF m, Here
    <3>2. CASE d # c
      <4>1. Here(set[d].id) /\ OnCourse(set[d], mail[set[d].id])
        BY <2>2, <3>2 DEF UpdateInv, Undisturbed, Alike
      <4>2. set'[d].id = set[d].id /\ set[d].id # m /\ set[d].id \in Msg
        BY <1>0, <2>2, <3>2 DEF Alike, JmapTypes, Call
      <4> QED
        BY <2>2, <2>3, <3>2, <4>1, <4>2, AlikeWorks DEF Here
    <3> QED
      BY <3>1, <3>2
  <2> QED
    BY <2>4, <2>5, <2>6, <2>7, <2>8 DEF UpdateInv
<1>2. CASE ~ok
  <2>1. mail' = mail /\ set' = [set EXCEPT ![c] = NoPatch] /\ broken' = broken \cup {m}
    BY <1>2 DEF Append1
  <2> QED
    BY <1>0, <2>1, EndKeepsUpdates
<1> QED
  BY <1>1, <1>2

\* What is filtered, as a set.
LEMMA KeepInSet ==
  ASSUME NEW E, NEW s \in Seq(E), NEW S
  PROVE  KeepIn(s, S) \in Seq(E) /\ ToSet(KeepIn(s, S)) = ToSet(s) \cap S
<1> DEFINE t == KeepIn(s, S)
<1>1. t \in Seq(E) /\ Filters(s, S, Len(s), t)
  BY KeepInKeeps
<1> HIDE DEF t
<1>2. DOMAIN s = 1 .. Len(s) /\ DOMAIN t = 1 .. Len(t)
  BY <1>1
<1>3. ASSUME NEW x \in ToSet(t) PROVE x \in ToSet(s) \cap S
  <2>1. PICK k \in 1 .. Len(t) : x = t[k]
    BY <1>2 DEF ToSet
  <2>2. PICK a \in 1 .. Len(s) : t[k] = s[a] /\ s[a] \in S
    BY <1>1 DEF Filters
  <2> QED
    BY <1>2, <2>1, <2>2 DEF ToSet
<1>4. ASSUME NEW x \in ToSet(s) \cap S PROVE x \in ToSet(t)
  <2>1. PICK a \in 1 .. Len(s) : x = s[a]
    BY <1>2 DEF ToSet
  <2>2. PICK k \in 1 .. Len(t) : t[k] = s[a]
    BY <1>1, <2>1 DEF Filters
  <2> QED
    BY <1>2, <2>1, <2>2 DEF ToSet
<1> QED
  BY <1>1, <1>3, <1>4 DEF t

\* What an append adds, as a set.
LEMMA AppendedSet ==
  ASSUME NEW E, NEW s \in Seq(E), NEW x \in E
  PROVE  Append(s, x) \in Seq(E) /\ ToSet(Append(s, x)) = ToSet(s) \cup {x}
<1> DEFINE t == Append(s, x)
<1>1. t \in Seq(E) /\ Len(t) = Len(s) + 1 /\ Len(s) \in Nat /\ t[Len(s) + 1] = x /\ \A k \in 1 .. Len(s) : t[k] = s[k]
  OBVIOUS
<1>2. DOMAIN s = 1 .. Len(s) /\ DOMAIN t = 1 .. Len(t)
  BY <1>1
<1> HIDE DEF t
<1>3. \A k \in 1 .. Len(t) : k \in 1 .. Len(s) \/ k = Len(s) + 1
  BY <1>1
<1>4. \A k \in 1 .. Len(s) : k \in 1 .. Len(t)
  BY <1>1
<1>5. Len(s) + 1 \in 1 .. Len(t)
  BY <1>1
<1>6. ToSet(t) = ToSet(s) \cup {x}
  BY <1>1, <1>2, <1>3, <1>4, <1>5 DEF ToSet
<1> QED
  BY <1>1, <1>6 DEF t

\* A new message has a label, and no call is about it yet.
LEMMA CreateKeepsUpdates ==
  ASSUME UpdateInv, NEW c \in JClient, NEW m \in Msg, NEW ls \in SUBSET Mailbox, NEW fs \in SUBSET Keyword,
         CreateEmail(c, m, ls, fs)
  PROVE  UpdateInv'
<1> DEFINE has == [labels |-> IF ls = {} THEN {Drafts} ELSE ls, flags |-> fs]
<1>0. has \in Content /\ has.labels # {}
  BY JmapAssumption DEF Content
<1>1. /\ JmapTypes /\ listing' = Append(listing, m) /\ mail' = [mail EXCEPT ![m] = has] /\ broken' = broken \ {m}
      /\ set' = set /\ \A d \in JClient : set[d].at = "idle" \/ set[d].id # m
  BY DEF UpdateInv, CreateEmail
<1> HIDE DEF has
<1>2. listing' \in Seq(Msg) /\ ToSet(listing') = ToSet(listing) \cup {m}
  BY <1>1, AppendedSet DEF JmapTypes
<1>3. mail' \in [Msg -> Content] /\ mail'[m] = has /\ \A x \in Msg : x # m => mail'[x] = mail[x]
  BY <1>0, <1>1 DEF JmapTypes
<1>4. JmapTypes'
  BY <1>1, <1>2, <1>3 DEF JmapTypes
<1>5. \A d \in JClient : Sane(set'[d])
  BY <1>1 DEF UpdateInv
<1>6. Refills'
  <2> SUFFICES ASSUME NEW d \in JClient, set[d].id \notin broken \ {m}, set[d].drop # {} PROVE set[d].add # {}
    BY <1>1 DEF Refills
  <2>1. set[d].id # m
    BY <1>1 DEF UpdateInv, Sane
  <2> QED
    BY <2>1 DEF UpdateInv, Refills
<1>7. NotLost'
  <2> SUFFICES ASSUME NEW x \in ToSet(listing) \cup {m}, x \notin broken \ {m}, mail'[x].labels = {}
               PROVE  \E d \in JClient : set[d].at = "patch" /\ set[d].id = x /\ set[d].add # {}
    BY <1>1, <1>2 DEF NotLost
  <2>1. x # m
    BY <1>0, <1>3
  <2>2. x \in Msg /\ x \in ToSet(listing) \ broken
    BY <1>1, <2>1 DEF ToSet, JmapTypes
  <2> QED
    BY <1>3, <2>1, <2>2 DEF UpdateInv, NotLost
<1>8. Undisturbed'
  <2> SUFFICES ASSUME NEW d \in JClient, set[d].at # "idle", set[d].alone
               PROVE  set[d].id \in ToSet(listing') /\ OnCourse(set[d], mail'[set[d].id])
    BY <1>1 DEF Undisturbed, Here
  <2>1. set[d].id # m /\ set[d].id \in Msg
    BY <1>1 DEF JmapTypes, Call
  <2> QED
    BY <1>2, <1>3, <2>1 DEF UpdateInv, Undisturbed, Here
<1> QED
  BY <1>4, <1>5, <1>6, <1>7, <1>8 DEF UpdateInv

\* A message that goes leaves no call about it alone.
LEMMA DestroyKeepsUpdates ==
  ASSUME UpdateInv, NEW c \in JClient, NEW m \in Msg, Destroy(c, m)
  PROVE  UpdateInv'
<1>1. /\ JmapTypes /\ listing' = KeepIn(listing, Msg \ {m}) /\ mail' = [mail EXCEPT ![m] = Blank] /\ broken' = broken
      /\ set' = Seen(c, m, set[c]) /\ set[c].at = "idle" /\ set[c] \in Call
  BY DEF UpdateInv, Destroy, JmapTypes
<1>2. listing' \in Seq(Msg) /\ ToSet(listing') = ToSet(listing) \ {m}
  <2>1. listing' \in Seq(Msg) /\ ToSet(listing') = ToSet(listing) \cap (Msg \ {m})
    BY <1>1, KeepInSet DEF JmapTypes
  <2>2. ToSet(listing) \subseteq Msg
    BY <1>1 DEF JmapTypes, ToSet
  <2> QED
    BY <2>1, <2>2
<1>3. mail' \in [Msg -> Content] /\ \A x \in Msg : x # m => mail'[x] = mail[x]
  <2>1. Blank \in Content
    BY DEF Blank, Content
  <2> QED
    BY <1>1, <2>1 DEF JmapTypes
<1>4. /\ set' \in [JClient -> Call] /\ set'[c] = set[c]
      /\ \A d \in JClient \ {c} :
           /\ Alike(set'[d], set[d])
           /\ set'[d].alone => set[d].alone
           /\ set'[d].at # "idle" /\ set'[d].alone => set[d].id # m
  BY <1>1, SeenDisturbs
<1>5. JmapTypes'
  BY <1>1, <1>2, <1>3, <1>4 DEF JmapTypes
<1>6. \A d \in JClient : Sane(set'[d])
  BY <1>4, AlikeWorks DEF UpdateInv
<1>7. \A d \in JClient : Alike(set'[d], set[d])
  BY <1>4 DEF Alike
<1>8. Refills'
  BY <1>1, <1>7 DEF UpdateInv, Refills, Alike
<1>9. NotLost'
  <2> SUFFICES ASSUME NEW x \in ToSet(listing) \ {m}, x \notin broken, mail'[x].labels = {}
               PROVE  \E d \in JClient : set'[d].at = "patch" /\ set'[d].id = x /\ set'[d].add # {}
    BY <1>1, <1>2 DEF NotLost
  <2>1. x \in Msg
    BY <1>1 DEF ToSet, JmapTypes
  <2>2. PICK d \in JClient : set[d].at = "patch" /\ set[d].id = x /\ set[d].add # {}
    BY <1>3, <2>1 DEF UpdateInv, NotLost
  <2> QED
    BY <1>7, <2>2 DEF Alike
<1>10. Undisturbed'
  <2> SUFFICES ASSUME NEW d \in JClient, set'[d].at # "idle", set'[d].alone
               PROVE  set'[d].id \in ToSet(listing') /\ OnCourse(set'[d], mail'[set'[d].id])
    BY DEF Undisturbed, Here
  <2>1. d # c
    BY <1>1, <1>4
  <2>2. Here(set[d].id) /\ OnCourse(set[d], mail[set[d].id])
    BY <1>4, <2>1 DEF UpdateInv, Undisturbed, Alike
  <2>3. set'[d].id = set[d].id /\ set[d].id # m /\ set[d].id \in Msg
    BY <1>1, <1>4, <2>1 DEF Alike, JmapTypes, Call
  <2> QED
    BY <1>2, <1>3, <1>4, <2>1, <2>2, <2>3, AlikeWorks DEF Here
<1> QED
  BY <1>5, <1>6, <1>8, <1>9, <1>10 DEF UpdateInv

\* A call that begins, or goes on, without an append.
LEMMA QuietKeepsUpdates ==
  ASSUME UpdateInv, NEW c \in JClient, NEW r \in Call, set' = [set EXCEPT ![c] = r],
         UNCHANGED <<listing, mail>>, broken' \in SUBSET Msg, broken \subseteq broken',
         Sane(r), set[c].add = {}, r.id \notin broken' /\ r.drop # {} => r.add # {},
         r.at # "idle" /\ r.alone => Here(r.id) /\ OnCourse(r, mail[r.id])
  PROVE  UpdateInv'
<1>1. JmapTypes /\ set'[c] = r /\ \A d \in JClient \ {c} : set'[d] = set[d]
  BY DEF UpdateInv, JmapTypes
<1>2. JmapTypes'
  BY <1>1 DEF JmapTypes
<1>3. \A d \in JClient : Sane(set'[d])
  BY <1>1 DEF UpdateInv
<1>4. Refills'
  BY <1>1 DEF UpdateInv, Refills
<1>5. NotLost'
  <2> SUFFICES ASSUME NEW x \in ToSet(listing), x \notin broken', mail[x].labels = {}
               PROVE  \E d \in JClient : set'[d].at = "patch" /\ set'[d].id = x /\ set'[d].add # {}
    BY DEF NotLost
  <2>1. PICK d \in JClient : set[d].at = "patch" /\ set[d].id = x /\ set[d].add # {}
    BY DEF UpdateInv, NotLost
  <2> QED
    BY <1>1, <2>1
<1>6. Undisturbed'
  BY <1>1 DEF UpdateInv, Undisturbed, Here
<1> QED
  BY <1>2, <1>3, <1>4, <1>5, <1>6 DEF UpdateInv

\* A call that begins has promised nothing.
LEMMA BeginKeepsUpdates ==
  ASSUME UpdateInv, NEW c \in JClient, NEW m \in Msg, NEW patch \in Patches,
         Update(c, m, patch) \/ SubmitRead(c, m, patch)
  PROVE  UpdateInv'
<1>1. PICK at \in {"patch", "send"} : set' = [set EXCEPT ![c] = Patching(at, m, patch)]
  BY DEF Update, SubmitRead
<1> DEFINE r == Patching(at, m, patch)
<1>2. set[c].at = "idle" /\ Here(m) /\ UNCHANGED <<listing, mail, broken>>
  BY DEF Update, SubmitRead
<1>3. patch \in SUBSET Paths
  BY JmapAssumption DEF Paths
<1>4. r \in Call /\ r.at = at /\ r.id = m /\ r.asked = patch /\ r.left = patch /\ r.drop = {} /\ r.add = {} /\ r.put = {}
  BY <1>3 DEF Patching, Call
<1> HIDE DEF r
<1>5. Sane(r) /\ OnCourse(r, mail[m])
  BY <1>4 DEF Sane, OnCourse
<1>6. set[c].add = {} /\ broken \in SUBSET Msg
  BY <1>2 DEF UpdateInv, Sane, JmapTypes
<1> QED
  BY <1>1, <1>2, <1>4, <1>5, <1>6, QuietKeepsUpdates DEF r

\* A submission goes on to its patch, or ends.
LEMMA SubmitKeepsUpdates ==
  ASSUME UpdateInv, NEW c \in JClient, NEW ok \in BOOLEAN, Submit(c, ok)
  PROVE  UpdateInv'
<1>1. set[c].at = "send" /\ UNCHANGED <<listing, mail, broken>> /\ set[c] \in Call /\ Sane(set[c])
  BY DEF Submit, UpdateInv, JmapTypes
<1>2. CASE ok
  <2> DEFINE r == [set[c] EXCEPT !.at = "patch"]
  <2>1. set' = [set EXCEPT ![c] = r]
    BY <1>2 DEF Submit
  <2>2. /\ r \in Call /\ r.at = "patch" /\ r.id = set[c].id /\ r.asked = set[c].asked /\ r.left = set[c].left
        /\ r.drop = set[c].drop /\ r.add = set[c].add /\ r.put = set[c].put /\ r.alone = set[c].alone
    BY <1>1 DEF Call
  <2> HIDE DEF r
  <2>3. Sane(r) /\ r.drop = {} /\ set[c].add = {}
    BY <1>1, <2>2 DEF Sane
  <2>4. OnCourse(r, mail[r.id]) <=> OnCourse(set[c], mail[set[c].id])
    BY <2>2 DEF OnCourse, LabelsTo
  <2>5. r.alone => Here(r.id) /\ OnCourse(r, mail[r.id])
    BY <1>1, <2>2, <2>4 DEF UpdateInv, Undisturbed
  <2>6. broken \in SUBSET Msg
    BY DEF UpdateInv, JmapTypes
  <2> QED
    BY <1>1, <2>1, <2>2, <2>3, <2>5, <2>6, QuietKeepsUpdates
<1>3. CASE ~ok
  <2>1. set' = [set EXCEPT ![c] = NoPatch] /\ set[c].add = {}
    BY <1>1, <1>3 DEF Submit, Sane
  <2> QED
    BY <1>1, <2>1, EndKeepsUpdates
<1> QED
  BY <1>2, <1>3

\* The next path is taken: labels are dropped only where others follow.
LEMMA TakePathKeepsUpdates ==
  ASSUME UpdateInv, NEW c \in JClient, NEW p \in set[c].left, TakePath(c, p)
  PROVE  UpdateInv'
<1> DEFINE m == set[c].id
           r == [at |-> "patch", id |-> m, asked |-> set[c].asked, left |-> set[c].left \ {p},
                 drop |-> ToDrop(m, p), add |-> ToAdd(m, p), put |-> ToPut(m, p), alone |-> set[c].alone]
<1>1. /\ set[c].at = "patch" /\ set[c].drop = {} /\ set[c].add = {} /\ set[c].put = {}
      /\ set' = [set EXCEPT ![c] = r] /\ UNCHANGED <<listing, mail>>
      /\ broken' = IF OnlyRemoves(p) THEN broken \cup {m} ELSE broken
  BY DEF TakePath, Ready
<1>2. set[c] \in Call /\ m \in Msg /\ Sane(set[c]) /\ JmapTypes /\ p \in Paths /\ mail[m] \in Content
  BY DEF UpdateInv, JmapTypes, Call
<1>3. ToDrop(m, p) \in SUBSET Mailbox /\ ToAdd(m, p) \in SUBSET Mailbox
  <2>1. mail[m].labels \subseteq Mailbox
    BY <1>2 DEF Content
  <2>2. p.path \in {"mailboxIds", "mailboxIds/"} => p.want \subseteq Mailbox
    BY <1>2 DEF Paths
  <2> QED
    BY <2>1, <2>2 DEF ToDrop, ToAdd, MailboxesToAdd
<1>4. /\ ToPut(m, p) \in SUBSET [flag : Keyword, on : BOOLEAN]
      /\ \A d, e \in ToPut(m, p) : d.flag = e.flag => d = e
  <2>1. CASE p.path = "keywords" /\ Here(m)
    <3>1. ToPut(m, p) = {[flag |-> f, on |-> f \in p.want] : f \in {g \in Keyword : (g \in p.want) # (g \in mail[m].flags)}}
      BY <2>1 DEF ToPut, KeywordsToPut
    <3>2. \A f : (f \in p.want) \in BOOLEAN
      OBVIOUS
    <3>3. \A e \in ToPut(m, p) : \E f \in Keyword : e = [flag |-> f, on |-> f \in p.want]
      BY <3>1, Zenon
    <3>4. \A f \in Keyword : [flag |-> f, on |-> f \in p.want] \in [flag : Keyword, on : BOOLEAN]
      BY <3>2
    <3>5. \A e \in ToPut(m, p) : e \in [flag : Keyword, on : BOOLEAN]
      BY <3>3, <3>4, Zenon
    <3>7. ASSUME NEW d \in ToPut(m, p), NEW e \in ToPut(m, p), d.flag = e.flag PROVE d = e
      <4>1. PICK f \in Keyword : d = [flag |-> f, on |-> f \in p.want]
        BY <3>3, Zenon
      <4>2. PICK g \in Keyword : e = [flag |-> g, on |-> g \in p.want]
        BY <3>3, Zenon
      <4>3. f = g
        <5>1. d.flag = f /\ e.flag = g
          BY <4>1, <4>2
        <5> QED
          BY <3>7, <5>1
      <4> QED
        BY <4>1, <4>2, <4>3, Zenon
    <3> QED
      BY <3>5, <3>7
  <2>2. CASE p.path = "keywords/"
    <3>1. ToPut(m, p) = {[flag |-> f, on |-> p.on] : f \in p.want}
      BY <2>2 DEF ToPut
    <3>2. p.want \subseteq Keyword /\ p.on \in BOOLEAN
      BY <1>2, <2>2 DEF Paths
    <3> QED
      BY <3>1, <3>2
  <2>3. CASE ~(p.path = "keywords" /\ Here(m)) /\ p.path # "keywords/"
    BY <2>3 DEF ToPut
  <2> QED
    BY <2>1, <2>2, <2>3
<1>5. r \in Call
  BY <1>2, <1>3, <1>4 DEF Call
<1>6. /\ r.at = "patch" /\ r.id = m /\ r.asked = set[c].asked /\ r.left = set[c].left \ {p} /\ r.drop = ToDrop(m, p)
      /\ r.add = ToAdd(m, p) /\ r.put = ToPut(m, p) /\ r.alone = set[c].alone
  OBVIOUS
<1>7. set[c].alone => Here(m) /\ OnCourse(r, mail[m])
  <2> SUFFICES ASSUME set[c].alone PROVE Here(m) /\ OnCourse(r, mail[m])
    OBVIOUS
  <2>1. Here(m) /\ OnCourse(set[c], mail[m])
    BY <1>1 DEF UpdateInv, Undisturbed
  <2> QED
    BY <1>1, <1>2, <2>1, TakingKeepsCourse
<1> HIDE DEF r, m
<1>8. Sane(r)
  BY <1>2, <1>4, <1>6 DEF Sane
<1>9. broken' \in SUBSET Msg /\ broken \subseteq broken'
  BY <1>1, <1>2 DEF JmapTypes
<1>10. m \notin broken' /\ r.drop # {} => r.add # {}
  <2> SUFFICES ASSUME ~OnlyRemoves(p), ToDrop(m, p) # {} PROVE ToAdd(m, p) # {}
    BY <1>1, <1>6
  <2>1. p.path = "mailboxIds" /\ Here(m) /\ p.want # {}
    BY DEF OnlyRemoves, ToDrop
  <2> QED
    BY <2>1 DEF ToAdd, MailboxesToAdd
<1> QED
  BY <1>1, <1>5, <1>6, <1>7, <1>8, <1>9, <1>10, QuietKeepsUpdates

\* A label is dropped: the same call has one to add.
LEMMA DropLabelKeepsUpdates ==
  ASSUME UpdateInv, NEW c \in JClient, NEW l \in Mailbox, NEW ok \in BOOLEAN, DropLabel(c, l, ok)
  PROVE  UpdateInv'
<1> DEFINE has == mail[set[c].id]
           r == [set[c] EXCEPT !.drop = @ \ {l}]
           after == [has EXCEPT !.labels = @ \ {l}]
<1>1. set[c].at = "patch" /\ l \in set[c].drop /\ Append1(c, ok, r, after)
  BY DEF DropLabel
<1>2. set[c] \in Call /\ has \in Content /\ Sane(set[c])
  BY DEF UpdateInv, JmapTypes, Call
<1>3. r \in Call /\ after \in Content /\ (OnCourse(set[c], has) => OnCourse(r, after))
  BY <1>1, <1>2, DropKeepsCourse
<1>4. /\ r.at = set[c].at /\ r.id = set[c].id /\ r.asked = set[c].asked /\ r.left = set[c].left /\ r.drop = set[c].drop \ {l}
      /\ r.add = set[c].add /\ r.put = set[c].put /\ r.alone = set[c].alone
  BY <1>2 DEF Call
<1> HIDE DEF r, after
<1>5. Sane(r)
  BY <1>1, <1>2, <1>4 DEF Sane
<1>6. set[c].id \notin broken => r.add # {}
  BY <1>1, <1>4 DEF UpdateInv, Refills
<1> QED
  BY <1>1, <1>3, <1>4, <1>5, <1>6, AppendKeepsUpdates

\* A label is added.
LEMMA AddLabelKeepsUpdates ==
  ASSUME UpdateInv, NEW c \in JClient, NEW l \in Mailbox, NEW ok \in BOOLEAN, AddLabel(c, l, ok)
  PROVE  UpdateInv'
<1> DEFINE has == mail[set[c].id]
           r == [set[c] EXCEPT !.add = @ \ {l}]
           after == [has EXCEPT !.labels = @ \cup {l}]
<1>1. set[c].at = "patch" /\ set[c].drop = {} /\ l \in set[c].add /\ Append1(c, ok, r, after)
  BY DEF AddLabel
<1>2. set[c] \in Call /\ has \in Content /\ Sane(set[c])
  BY DEF UpdateInv, JmapTypes, Call
<1>3. r \in Call /\ after \in Content /\ (OnCourse(set[c], has) => OnCourse(r, after))
  BY <1>1, <1>2, AddKeepsCourse
<1>4. /\ r.at = set[c].at /\ r.id = set[c].id /\ r.asked = set[c].asked /\ r.left = set[c].left /\ r.drop = set[c].drop
      /\ r.add = set[c].add \ {l} /\ r.put = set[c].put /\ r.alone = set[c].alone /\ l \in after.labels
  BY <1>2 DEF Call, Content
<1> HIDE DEF r, after
<1>5. Sane(r)
  BY <1>1, <1>2, <1>4 DEF Sane
<1> QED
  BY <1>1, <1>3, <1>4, <1>5, AppendKeepsUpdates

\* A flag is set or cleared; the labels stay.
LEMMA PutFlagKeepsUpdates ==
  ASSUME UpdateInv, NEW c \in JClient, NEW e \in set[c].put, NEW ok \in BOOLEAN, PutFlag(c, e, ok)
  PROVE  UpdateInv'
<1> DEFINE has == mail[set[c].id]
           r == [set[c] EXCEPT !.put = @ \ {e}]
           after == [has EXCEPT !.flags = IF e.on THEN @ \cup {e.flag} ELSE @ \ {e.flag}]
<1>1. set[c].at = "patch" /\ Append1(c, ok, r, after)
  BY DEF PutFlag
<1>2. set[c] \in Call /\ has \in Content /\ Sane(set[c])
  BY DEF UpdateInv, JmapTypes, Call
<1>3. r \in Call /\ after \in Content /\ (OnCourse(set[c], has) => OnCourse(r, after))
  BY <1>2, PutKeepsCourse
<1>4. /\ r.at = set[c].at /\ r.id = set[c].id /\ r.asked = set[c].asked /\ r.left = set[c].left /\ r.drop = set[c].drop
      /\ r.add = set[c].add /\ r.put = set[c].put \ {e} /\ r.alone = set[c].alone /\ after.labels = has.labels
  BY <1>2 DEF Call, Content
<1> HIDE DEF r, after
<1>5. Sane(r)
  BY <1>1, <1>2, <1>4 DEF Sane
<1>6. set[c].id \notin broken /\ r.drop # {} => r.add # {}
  BY <1>4 DEF UpdateInv, Refills
<1> QED
  BY <1>1, <1>3, <1>4, <1>5, <1>6, AppendKeepsUpdates

\* The inductive invariant of Email/set and EmailSubmission/set, for any clients, messages and patches.
THEOREM UpdateInvariant == JmapSpec => []UpdateInv
<1>1. JmapInit => UpdateInv
  <2> SUFFICES ASSUME JmapInit PROVE UpdateInv
    OBVIOUS
  <2>1. listing = <<>> /\ ToSet(listing) = {} /\ broken = {} /\ \A c \in JClient : set[c] = NoPatch
    BY DEF JmapInit, ToSet
  <2>2. JmapTypes
    <3>1. Blank \in Content
      BY DEF Blank, Content
    <3>2. mail \in [Msg -> Content]
      BY <3>1 DEF JmapInit
    <3>3. set \in [JClient -> Call]
      BY NoPatchIsSane DEF JmapInit
    <3> QED
      BY <2>1, <3>2, <3>3 DEF JmapTypes
  <2> QED
    BY <2>1, <2>2, NoPatchIsSane DEF UpdateInv, Refills, NotLost, Undisturbed
<1>2. UpdateInv /\ [ListNext \/ JmapNext(JClient, Msg)]_jmapVars => UpdateInv'
  <2> SUFFICES ASSUME UpdateInv, [ListNext \/ JmapNext(JClient, Msg)]_jmapVars PROVE UpdateInv'
    OBVIOUS
  <2>1. CASE JmapNext(JClient, Msg)
    <3>1. PICK c \in JClient :
            \/ Updated(c)
            \/ \E ok \in BOOLEAN : Submit(c, ok)
            \/ \E m \in Msg : Destroy(c, m) \/ \E ls \in SUBSET Mailbox, fs \in SUBSET Keyword : CreateEmail(c, m, ls, fs)
            \/ \E m \in Msg, patch \in Patches : Update(c, m, patch) \/ SubmitRead(c, m, patch)
            \/ \E p \in set[c].left : TakePath(c, p)
            \/ \E l \in Mailbox, ok \in BOOLEAN : DropLabel(c, l, ok) \/ AddLabel(c, l, ok)
            \/ \E e \in set[c].put, ok \in BOOLEAN : PutFlag(c, e, ok)
      BY <2>1, Zenon DEF JmapNext
    <3>2. CASE Updated(c)
      BY <3>2, EndKeepsUpdates DEF Updated, Complete, Ready
    <3> QED
      BY <3>1, <3>2, SubmitKeepsUpdates, DestroyKeepsUpdates, CreateKeepsUpdates, BeginKeepsUpdates, TakePathKeepsUpdates,
         DropLabelKeepsUpdates, AddLabelKeepsUpdates, PutFlagKeepsUpdates, Zenon
  <2>2. CASE UNCHANGED <<listing, mail, set, broken>>
    BY <2>2 DEF UpdateInv, JmapTypes, Refills, NotLost, Undisturbed, Here, Sane, OnCourse
  <2> QED
    BY <2>1, <2>2 DEF ListNext, List, Page, jmapVars
<1> QED
  BY <1>1, <1>2, PTL DEF JmapSpec

\* Clients that move a message at the same time never leave it in no mailbox, and an update
\* that was alone with its message has done what it asked for.
THEOREM UpdatesDoWell == JmapSpec => []UpdatesEndWell
<1>1. UpdateInv => UpdatesEndWell
  <2> SUFFICES ASSUME UpdateInv PROVE UpdatesEndWell
    OBVIOUS
  <2>1. NeverNowhere
    BY DEF UpdateInv, NotLost, NeverNowhere
  <2>2. UpdateTakes
    <3> SUFFICES ASSUME NEW c \in JClient, Complete(c), set[c].alone, NEW p \in set[c].asked,
                        \A q \in set[c].asked \ {p} : Apart(p, q)
                 PROVE  Holds(p, mail[set[c].id].labels, mail[set[c].id].flags)
      BY DEF UpdateTakes
    <3> DEFINE has == mail[set[c].id]
    <3>1. OnCourse(set[c], has)
      BY DEF UpdateInv, Undisturbed, Complete, Ready
    <3>2. set[c].left = {} /\ set[c].drop = {} /\ set[c].add = {} /\ set[c].put = {}
      BY DEF Complete, Ready
    <3>3. has.flags \subseteq Keyword
      BY DEF UpdateInv, JmapTypes, Call, Content
    <3> HIDE DEF has
    <3>4. LabelsTo(set[c], has.labels) = has.labels /\ FlagsTo(set[c].put, has.flags) = has.flags
      BY <3>2, <3>3 DEF LabelsTo, FlagsTo
    <3>5. Holds(p, has.labels, has.flags)
      BY <3>1, <3>2, <3>4 DEF OnCourse
    <3> QED
      BY <3>5 DEF has
  <2> QED
    BY <2>1, <2>2 DEF UpdatesEndWell
<1> QED
  BY <1>1, UpdateInvariant, PTL

-----------------------------------------------------------------------------
(* Jmap: paging.                                                            *)

\* Among finitely many messages, finitely many are newer.
LEMMA NewerIsFinite ==
  ASSUME NEW s \in Seq(Msg), NEW S, NEW x
  PROVE  IsFiniteSet(NewerIn(s, S, x)) /\ Cardinality(NewerIn(s, S, x)) \in Nat
<1>0. Len(s) \in Nat /\ s \in [1 .. Len(s) -> Msg]
  OBVIOUS
<1> DEFINE T == {s[i] : i \in 1 .. Len(s)}
<1>1. s \in Surjection(1 .. Len(s), T)
  BY <1>0 DEF Surjection
<1>2. IsFiniteSet(1 .. Len(s))
  BY <1>0, FS_Interval
<1>3. IsFiniteSet(T)
  BY <1>1, <1>2, FS_Surjection
<1>4. NewerIn(s, S, x) \in SUBSET T
  BY DEF NewerIn
<1> HIDE DEF T
<1>5. IsFiniteSet(NewerIn(s, S, x))
  BY <1>3, <1>4, FS_Subset
<1> QED
  BY <1>5, FS_CardinalityType

\* A message's place in its mailbox, newest first, is given by how many are newer.
LEMMA PlaceIsCount ==
  ASSUME NEW s \in Seq(Msg), Distinct(s), NEW S, NEW k \in 1 .. Len(KeepIn(s, S))
  PROVE  Cardinality(NewerIn(s, S, KeepIn(s, S)[k])) = Len(KeepIn(s, S)) - k
<1> DEFINE t == KeepIn(s, S)
           N == NewerIn(s, S, t[k])
           D == k + 1 .. Len(t)
           f == [j \in D |-> t[j]]
<1>1. t \in Seq(Msg) /\ Filters(s, S, Len(s), t) /\ Len(t) \in Nat /\ k \in 1 .. Len(t)
  BY KeepInKeeps
<1> HIDE DEF t
<1>2. \A j \in D : j \in 1 .. Len(t) /\ k < j
  BY <1>1
<1>3. \A i, j \in 1 .. Len(t) : i < j => t[i] # t[j]
  <2> SUFFICES ASSUME NEW i \in 1 .. Len(t), NEW j \in 1 .. Len(t), i < j PROVE t[i] # t[j]
    OBVIOUS
  <2>1. PICK a, b \in 1 .. Len(s) : a < b /\ t[i] = s[a] /\ t[j] = s[b]
    BY <1>1 DEF Filters
  <2> QED
    BY <2>1 DEF Distinct
<1>4. ASSUME NEW j \in D PROVE t[j] \in N
  <2>1. PICK a, b \in 1 .. Len(s) : a < b /\ t[k] = s[a] /\ t[j] = s[b]
    BY <1>1, <1>2 DEF Filters
  <2>2. t[j] \in S
    BY <1>1, <1>2 DEF Filters
  <2> QED
    BY <2>1, <2>2 DEF NewerIn
<1>5. ASSUME NEW y \in N PROVE \E j \in D : y = t[j]
  <2>1. PICK i, j \in 1 .. Len(s) : i < j /\ s[i] = t[k] /\ s[j] = y
    BY DEF NewerIn
  <2>2. y \in S
    BY DEF NewerIn
  <2>3. PICK l \in 1 .. Len(t) : t[l] = s[j]
    BY <1>1, <2>1, <2>2 DEF Filters
  <2>4. l # k
    BY <2>1, <2>3 DEF Distinct
  <2>5. ~(l < k)
    <3> SUFFICES ASSUME l < k PROVE FALSE
      OBVIOUS
    <3>1. PICK a, b \in 1 .. Len(s) : a < b /\ t[l] = s[a] /\ t[k] = s[b]
      BY <1>1 DEF Filters
    <3>2. a = j /\ b = i
      BY <2>1, <2>3, <3>1 DEF Distinct
    <3> QED
      BY <2>1, <3>1, <3>2
  <2>6. l \in D
    BY <1>1, <2>4, <2>5
  <2> QED
    BY <2>1, <2>3, <2>6
<1> HIDE DEF N
<1>6. f \in Bijection(D, N)
  <2>1. f \in [D -> N]
    BY <1>4
  <2>2. \A i, j \in D : f[i] = f[j] => i = j
    BY <1>1, <1>2, <1>3
  <2>3. \A y \in N : \E j \in D : f[j] = y
    BY <1>5
  <2> QED
    BY <2>1, <2>2, <2>3 DEF Bijection, Injection, Surjection, IsInjective
<1>7. IsFiniteSet(D) /\ Cardinality(D) = Len(t) - k
  <2>1. k + 1 \in Int /\ Len(t) \in Int
    BY <1>1
  <2>2. IsFiniteSet(D) /\ Cardinality(D) = IF k + 1 > Len(t) THEN 0 ELSE Len(t) - (k + 1) + 1
    BY <2>1, FS_Interval
  <2> QED
    BY <1>1, <2>2
<1>8. ExistsBijection(D, N)
  BY <1>6 DEF ExistsBijection
<1>9. Cardinality(N) = Cardinality(D)
  BY <1>7, <1>8, FS_Bijection
<1> QED
  BY <1>7, <1>9 DEF N, t

\* What a page shows.
LEMMA PageShows ==
  ASSUME NEW t \in Seq(Msg), NEW a \in Nat, NEW b \in Nat, b <= Len(t), NEW i \in a + 1 .. b
  PROVE  /\ Reverse(t)[i] = t[Len(t) - i + 1]
         /\ Reverse(t)[i] \in ToSet(SubSeq(Reverse(t), a + 1, b))
<1> DEFINE u == Reverse(t)
           v == SubSeq(u, a + 1, b)
<1>1. u \in Seq(Msg) /\ Len(u) = Len(t) /\ \A j \in 1 .. Len(t) : u[j] = t[Len(t) - j + 1]
  BY DEF Reverse
<1> HIDE DEF u
<1>2. /\ i - a \in 1 .. b - a /\ i \in 1 .. Len(t) /\ (i - a) + (a + 1) - 1 = i
      /\ a + 1 \in 1 .. Len(u) /\ b \in 1 .. Len(u) /\ b - (a + 1) + 1 = b - a
  BY <1>1
<1>3. v = [k \in 1 .. b - a |-> u[k + (a + 1) - 1]]
  BY <1>1, <1>2, SMTT(30) DEF v
<1> HIDE DEF v
<1>4. DOMAIN v = 1 .. b - a /\ v[i - a] = u[i]
  BY <1>2, <1>3
<1>5. u[i] \in ToSet(v)
  BY <1>2, <1>4 DEF ToSet
<1> QED
  BY <1>1, <1>2, <1>5 DEF u, v

\* A message of the mailbox that is not before pos is on the page at pos or after it.
LEMMA PageOrLater ==
  ASSUME JmapTypes, Distinct(listing), NEW pos \in Nat, NEW x, x \in ToSet(listing), x \in InDrafts,
         pos <= Cardinality(NewerIn(listing, InDrafts, x))
  PROVE  /\ EmailQuery(Drafts, pos) # <<>>
         /\ x \in ToSet(EmailQuery(Drafts, pos)) \/ pos + Limit <= Cardinality(NewerIn(listing, InDrafts, x))
<1> DEFINE t == KeepIn(listing, InDrafts)
           n == IF pos + Limit < Len(t) THEN pos + Limit ELSE Len(t)
<1>1. t \in Seq(Msg) /\ ToSet(t) = ToSet(listing) \cap InDrafts
  BY KeepInSet DEF JmapTypes
<1>2. EmailQuery(Drafts, pos) = SubSeq(Reverse(t), pos + 1, n)
  <2>1. Len(Reverse(t)) = Len(t)
    BY <1>1 DEF Reverse
  <2> QED
    BY <2>1 DEF EmailQuery, InBox, InDrafts
<1>3. PICK k \in 1 .. Len(t) : x = t[k]
  BY <1>1 DEF ToSet
<1>4. Cardinality(NewerIn(listing, InDrafts, x)) = Len(t) - k
  BY <1>3, PlaceIsCount DEF JmapTypes
<1> HIDE DEF t
<1>5. Len(t) \in Nat /\ Limit \in Nat /\ Limit > 0 /\ n \in Nat /\ n <= Len(t)
  BY <1>1, JmapAssumption
<1>6. pos + 1 \in pos + 1 .. n
  BY <1>3, <1>4, <1>5
<1>7. EmailQuery(Drafts, pos) # <<>>
  <2>1. Reverse(t)[pos + 1] \in ToSet(EmailQuery(Drafts, pos))
    BY <1>1, <1>2, <1>5, <1>6, PageShows
  <2>2. ToSet(<<>>) = {}
    BY DEF ToSet
  <2> QED
    BY <2>1, <2>2
<1>8. CASE pos + Limit <= Len(t) - k
  BY <1>4, <1>7, <1>8
<1>9. CASE ~(pos + Limit <= Len(t) - k)
  <2> DEFINE i == Len(t) - k + 1
  <2>1. i \in pos + 1 .. n /\ Len(t) - i + 1 = k
    BY <1>3, <1>4, <1>5, <1>9
  <2> HIDE DEF i, n
  <2>2. Reverse(t)[i] = t[k] /\ Reverse(t)[i] \in ToSet(SubSeq(Reverse(t), pos + 1, n))
    BY <1>1, <1>5, <2>1, PageShows
  <2> QED
    BY <1>2, <1>3, <1>7, <2>2
<1> QED
  BY <1>8, <1>9

\* What is due stays as far down as it was when others arrive, and others than it go.
LEMMA ArrivalsKeepPlaces ==
  ASSUME JmapTypes, PagerInv, JmapTypes', Distinct(listing)',
         pager' = pager \/ pager' = [pager EXCEPT !.on = FALSE],
         pager'.on =>
           \A x \in ToSet(listing) \cap InDrafts :
             /\ x \in ToSet(listing') /\ x \in InDrafts'
             /\ NewerIn(listing, InDrafts, x) \subseteq NewerIn(listing', InDrafts', x)
  PROVE  PagerInv'
<1>1. pager' \in [pos : Nat, seen : SUBSET Msg, due : SUBSET Msg, on : BOOLEAN]
  BY DEF PagerInv
<1>2. ASSUME pager'.on PROVE pager' = pager /\ pager.on
  BY <1>2 DEF PagerInv
<1>3. ASSUME pager'.on, NEW x \in pager.due \ pager.seen
      PROVE  x \in ToSet(listing') /\ x \in InDrafts' /\ pager.pos <= Cardinality(NewerIn(listing', InDrafts', x))
  <2>1. x \in ToSet(listing) /\ x \in InDrafts /\ pager.pos <= Cardinality(NewerIn(listing, InDrafts, x)) /\ pager.pos \in Nat
    BY <1>2, <1>3 DEF PagerInv, Here
  <2>2. /\ x \in ToSet(listing') /\ x \in InDrafts'
        /\ NewerIn(listing, InDrafts, x) \in SUBSET NewerIn(listing', InDrafts', x)
    BY <1>3, <2>1
  <2>3. IsFiniteSet(NewerIn(listing', InDrafts', x)) /\ Cardinality(NewerIn(listing', InDrafts', x)) \in Nat
    BY NewerIsFinite DEF JmapTypes
  <2>4. Cardinality(NewerIn(listing, InDrafts, x)) \in Nat
    BY NewerIsFinite DEF JmapTypes
  <2>5. Cardinality(NewerIn(listing, InDrafts, x)) <= Cardinality(NewerIn(listing', InDrafts', x))
    BY <2>2, <2>3, FS_Subset
  <2> QED
    BY <2>1, <2>2, <2>3, <2>4, <2>5
<1> QED
  BY <1>1, <1>2, <1>3 DEF PagerInv, Here

\* A client that lists goes on only while nothing is taken out of the mailbox.
LEMMA ShorterStops ==
  ASSUME NEW m \in Msg, NEW ls
  PROVE  /\ Shorter(m, ls) = pager \/ Shorter(m, ls) = [pager EXCEPT !.on = FALSE]
         /\ PagerInv /\ Shorter(m, ls).on => (Drafts \in mail[m].labels => Drafts \in ls)
BY DEF Shorter, PagerInv

\* A new message comes before all that is due.
LEMMA CreateKeepsPager ==
  ASSUME JmapTypes, PagerInv, JmapTypes', NEW c \in JClient, NEW m \in Msg, NEW ls, NEW fs,
         CreateEmail(c, m, ls, fs)
  PROVE  PagerInv'
<1>1. listing' = Append(listing, m) /\ m \notin ToSet(listing) /\ pager' = pager /\ listing \in Seq(Msg)
  BY DEF CreateEmail, Here, JmapTypes
<1>2. \A x \in Msg : x # m => mail'[x] = mail[x]
  BY DEF CreateEmail, JmapTypes
<1>3. /\ Len(listing') = Len(listing) + 1 /\ Len(listing) \in Nat /\ listing'[Len(listing) + 1] = m
      /\ \A i \in 1 .. Len(listing) : listing'[i] = listing[i] /\ listing[i] # m /\ i \in 1 .. Len(listing')
  BY <1>1 DEF ToSet
<1>4. Distinct(listing)'
  <2> SUFFICES ASSUME NEW i \in 1 .. Len(listing) + 1, NEW j \in 1 .. Len(listing) + 1, i # j PROVE listing'[i] # listing'[j]
    BY <1>3 DEF Distinct
  <2>1. CASE i = Len(listing) + 1
    BY <1>3, <2>1
  <2>2. CASE j = Len(listing) + 1
    BY <1>3, <2>2
  <2>3. CASE i # Len(listing) + 1 /\ j # Len(listing) + 1
    <3>1. i \in 1 .. Len(listing) /\ j \in 1 .. Len(listing)
      BY <1>3, <2>3
    <3> QED
      BY <1>3, <3>1 DEF PagerInv, Distinct
  <2> QED
    BY <2>1, <2>2, <2>3
<1>5. \A x \in InDrafts : x # m => x \in InDrafts'
  BY <1>2 DEF InDrafts
<1>6. ASSUME NEW x \in ToSet(listing) \cap InDrafts
      PROVE  /\ x \in ToSet(listing') /\ x \in InDrafts'
             /\ NewerIn(listing, InDrafts, x) \subseteq NewerIn(listing', InDrafts', x)
  <2>1. x \in ToSet(listing') /\ x # m
    BY <1>1, AppendedSet
  <2>2. ASSUME NEW y \in NewerIn(listing, InDrafts, x) PROVE y \in NewerIn(listing', InDrafts', x)
    <3>1. PICK i, j \in 1 .. Len(listing) : i < j /\ listing[i] = x /\ listing[j] = y
      BY DEF NewerIn
    <3>2. y \in InDrafts'
      BY <1>3, <1>5, <3>1 DEF NewerIn
    <3>3. i \in 1 .. Len(listing') /\ j \in 1 .. Len(listing') /\ listing'[i] = x /\ listing'[j] = y
      BY <1>3, <3>1
    <3> QED
      BY <3>1, <3>2, <3>3 DEF NewerIn
  <2> QED
    BY <1>5, <2>1, <2>2
<1> QED
  BY <1>1, <1>4, <1>6, ArrivalsKeepPlaces

\* A message outside the mailbox goes, and the order of the others stays.
LEMMA DestroyKeepsPager ==
  ASSUME JmapTypes, PagerInv, JmapTypes', NEW c \in JClient, NEW m \in Msg, Destroy(c, m)
  PROVE  PagerInv'
<1> DEFINE t == KeepIn(listing, Msg \ {m})
<1>1. listing' = t /\ pager' = Shorter(m, {}) /\ listing \in Seq(Msg)
  BY DEF Destroy, JmapTypes
<1>2. \A x \in Msg : x # m => mail'[x] = mail[x]
  BY DEF Destroy, JmapTypes
<1>3. t \in Seq(Msg) /\ Filters(listing, Msg \ {m}, Len(listing), t) /\ ToSet(t) = ToSet(listing) \cap (Msg \ {m})
  BY <1>1, KeepInKeeps, KeepInSet
<1> HIDE DEF t
<1>4. Distinct(listing)'
  <2>1. ASSUME NEW i \in 1 .. Len(t), NEW j \in 1 .. Len(t), i < j PROVE t[i] # t[j]
    <3>1. PICK a, b \in 1 .. Len(listing) : a < b /\ t[i] = listing[a] /\ t[j] = listing[b]
      BY <1>3, <2>1 DEF Filters
    <3> QED
      BY <3>1 DEF PagerInv, Distinct
  <2>2. Distinct(t)
    <3> SUFFICES ASSUME NEW i \in 1 .. Len(t), NEW j \in 1 .. Len(t), i # j PROVE t[i] # t[j]
      BY DEF Distinct
    <3>1. i < j \/ j < i
      OBVIOUS
    <3> QED
      BY <2>1, <3>1
  <2> QED
    BY <1>1, <2>2
<1>5. \A x \in InDrafts : x # m => x \in InDrafts'
  BY <1>2 DEF InDrafts
<1>6. pager'.on => m \notin InDrafts
  BY <1>1, ShorterStops DEF InDrafts
<1>7. ASSUME pager'.on, NEW x \in ToSet(listing) \cap InDrafts
      PROVE  /\ x \in ToSet(listing') /\ x \in InDrafts'
             /\ NewerIn(listing, InDrafts, x) \subseteq NewerIn(listing', InDrafts', x)
  <2>1. x \in ToSet(t) /\ x # m /\ x \in Msg
    BY <1>3, <1>6, <1>7 DEF InDrafts
  <2>2. ASSUME NEW y \in NewerIn(listing, InDrafts, x) PROVE y \in NewerIn(t, InDrafts', x)
    <3>1. PICK i, j \in 1 .. Len(listing) : i < j /\ listing[i] = x /\ listing[j] = y
      BY DEF NewerIn
    <3>2. y \in InDrafts /\ y # m /\ y \in Msg /\ y \in InDrafts'
      BY <1>5, <1>6, <1>7 DEF NewerIn, InDrafts
    <3>3. PICK k \in 1 .. Len(t) : t[k] = listing[i]
      BY <1>3, <2>1, <3>1 DEF Filters
    <3>4. PICK l \in 1 .. Len(t) : t[l] = listing[j]
      BY <1>3, <3>1, <3>2 DEF Filters
    <3>5. k # l
      BY <3>1, <3>3, <3>4 DEF PagerInv, Distinct
    <3>6. ~(l < k)
      <4> SUFFICES ASSUME l < k PROVE FALSE
        OBVIOUS
      <4>1. PICK a, b \in 1 .. Len(listing) : a < b /\ t[l] = listing[a] /\ t[k] = listing[b]
        BY <1>3 DEF Filters
      <4>2. a = j /\ b = i
        BY <3>3, <3>4, <4>1 DEF PagerInv, Distinct
      <4> QED
        BY <3>1, <4>1, <4>2
    <3>7. k < l
      BY <3>5, <3>6
    <3> QED
      BY <3>1, <3>2, <3>3, <3>4, <3>7 DEF NewerIn
  <2> QED
    BY <1>1, <1>5, <1>7, <2>1, <2>2
<1>8. pager' = pager \/ pager' = [pager EXCEPT !.on = FALSE]
  BY <1>1, ShorterStops
<1> QED
  BY <1>4, <1>7, <1>8, ArrivalsKeepPlaces

\* A step elsewhere.
LEMMA IdleKeepsPager ==
  ASSUME PagerInv, UNCHANGED <<listing, mail, pager>> PROVE PagerInv'
<1>1. listing' = listing /\ pager' = pager /\ InDrafts' = InDrafts
  BY DEF InDrafts
<1> QED
  BY <1>1 DEF PagerInv, Here

\* An append about one message: its labels grow, or the client gives up.
LEMMA AppendKeepsPager ==
  ASSUME JmapTypes, PagerInv, JmapTypes', NEW c \in JClient, NEW ok \in BOOLEAN, NEW r, NEW after, Append1(c, ok, r, after)
  PROVE  PagerInv'
<1> DEFINE m == set[c].id
<1>1. listing' = listing /\ m \in Msg
  BY DEF Append1, JmapTypes, Call
<1>2. CASE ok
  <2>1. mail' = (IF Here(m) THEN [mail EXCEPT ![m] = after] ELSE mail) /\ pager' = Shorter(m, after.labels)
    BY <1>2 DEF Append1
  <2> HIDE DEF m
  <2>2. pager' = pager \/ pager' = [pager EXCEPT !.on = FALSE]
    BY <1>1, <2>1, ShorterStops
  <2>3. pager'.on => (Drafts \in mail[m].labels => Drafts \in after.labels)
    BY <1>1, <2>1, ShorterStops
  <2>4. pager'.on => InDrafts \subseteq InDrafts'
    <3> SUFFICES ASSUME pager'.on, NEW x \in Msg, Drafts \in mail[x].labels PROVE Drafts \in mail'[x].labels
      BY DEF InDrafts
    <3>1. mail'[x] = mail[x] \/ (x = m /\ mail'[x] = after)
      BY <1>1, <2>1 DEF JmapTypes
    <3> QED
      BY <2>3, <3>1
  <2>5. pager'.on => \A x : NewerIn(listing, InDrafts, x) \subseteq NewerIn(listing', InDrafts', x)
    BY <1>1, <2>4 DEF NewerIn
  <2>6. Distinct(listing)'
    BY <1>1 DEF PagerInv, Distinct
  <2> QED
    BY <1>1, <2>2, <2>4, <2>5, <2>6, ArrivalsKeepPlaces
<1>3. CASE ~ok
  <2>1. UNCHANGED <<listing, mail, pager>>
    BY <1>1, <1>3 DEF Append1
  <2> QED
    BY <2>1, IdleKeepsPager
<1> QED
  BY <1>2, <1>3

\* A client that begins has everything before it.
LEMMA ListKeepsPager ==
  ASSUME JmapTypes, PagerInv, List PROVE PagerInv'
<1>1. /\ pager' = [pos |-> 0, seen |-> {}, due |-> ToSet(InBox(Drafts)), on |-> TRUE]
      /\ UNCHANGED <<listing, mail>> /\ InDrafts' = InDrafts
  BY DEF List, InDrafts
<1>2. ToSet(InBox(Drafts)) = ToSet(listing) \cap InDrafts
  BY KeepInSet DEF InBox, InDrafts, JmapTypes
<1>3. \A x : Cardinality(NewerIn(listing, InDrafts, x)) \in Nat
  BY NewerIsFinite DEF JmapTypes
<1>4. /\ pager' \in [pos : Nat, seen : SUBSET Msg, due : SUBSET Msg, on : BOOLEAN]
      /\ pager'.pos = 0 /\ pager'.due = ToSet(listing) \cap InDrafts
  BY <1>1, <1>2 DEF InDrafts
<1> QED
  BY <1>1, <1>3, <1>4 DEF PagerInv, Distinct, Here

\* What was next is on the page, and the rest is at least a page further down.
LEMMA PageKeepsPager ==
  ASSUME JmapTypes, PagerInv, Page PROVE PagerInv'
<1> DEFINE ids == EmailQuery(Drafts, pager.pos)
<1>1. /\ pager' = [pos |-> pager.pos + Limit, seen |-> pager.seen \cup ToSet(ids), due |-> pager.due, on |-> TRUE]
      /\ pager.on /\ UNCHANGED <<listing, mail>> /\ InDrafts' = InDrafts
  BY DEF Page, InDrafts
<1>2. pager.pos \in Nat /\ Limit \in Nat /\ pager.seen \subseteq Msg /\ pager.due \subseteq Msg
  BY JmapAssumption DEF PagerInv
<1>3. ASSUME NEW x \in pager.due \ (pager.seen \cup ToSet(ids))
      PROVE  Here(x) /\ x \in InDrafts /\ pager.pos + Limit <= Cardinality(NewerIn(listing, InDrafts, x))
  <2>1. Here(x) /\ x \in InDrafts /\ pager.pos <= Cardinality(NewerIn(listing, InDrafts, x))
    BY <1>1 DEF PagerInv
  <2> QED
    BY <1>2, <2>1, PageOrLater DEF PagerInv, Here
<1>4. ToSet(ids) \subseteq Msg
  <2> DEFINE t == InBox(Drafts)
  <2>1. t \in Seq(Msg)
    BY KeepInSet DEF InBox, JmapTypes
  <2> HIDE DEF t
  <2>2. Reverse(t) \in Seq(Msg) /\ Len(Reverse(t)) = Len(t) /\ Len(t) \in Nat
    BY <2>1 DEF Reverse
  <2> DEFINE n == IF pager.pos + Limit < Len(Reverse(t)) THEN pager.pos + Limit ELSE Len(Reverse(t))
  <2>3. n \in Nat /\ n <= Len(Reverse(t))
    BY <1>2, <2>2
  <2>4. ids = SubSeq(Reverse(t), pager.pos + 1, n)
    BY DEF EmailQuery, t
  <2> HIDE DEF n, ids
  <2>5. ids \in Seq(Msg)
    BY <1>2, <2>2, <2>3, <2>4
  <2> QED
    BY <2>5 DEF ToSet
<1> HIDE DEF ids
<1>5. /\ pager' \in [pos : Nat, seen : SUBSET Msg, due : SUBSET Msg, on : BOOLEAN]
      /\ pager'.pos = pager.pos + Limit /\ pager'.due = pager.due /\ pager'.seen = pager.seen \cup ToSet(ids)
  BY <1>1, <1>2, <1>4
<1> QED
  BY <1>1, <1>3, <1>5 DEF PagerInv, Distinct, Here

\* The inductive invariant of a client that lists a mailbox while others change it.
THEOREM PagerInvariant == JmapSpec => []PagerInv
<1>1. JmapInit => PagerInv
  BY DEF JmapInit, PagerInv, NotListing, Distinct
<1>2. UpdateInv /\ UpdateInv' /\ PagerInv /\ [ListNext \/ JmapNext(JClient, Msg)]_jmapVars => PagerInv'
  <2> SUFFICES ASSUME JmapTypes, JmapTypes', PagerInv, [ListNext \/ JmapNext(JClient, Msg)]_jmapVars PROVE PagerInv'
    BY DEF UpdateInv
  <2>1. CASE UNCHANGED <<listing, mail, pager>>
    BY <2>1, IdleKeepsPager
  <2>2. CASE JmapNext(JClient, Msg)
    <3>1. PICK c \in JClient :
            \/ Updated(c)
            \/ \E ok \in BOOLEAN : Submit(c, ok)
            \/ \E m \in Msg : Destroy(c, m) \/ \E ls \in SUBSET Mailbox, fs \in SUBSET Keyword : CreateEmail(c, m, ls, fs)
            \/ \E m \in Msg, patch \in Patches : Update(c, m, patch) \/ SubmitRead(c, m, patch)
            \/ \E p \in set[c].left : TakePath(c, p)
            \/ \E l \in Mailbox, ok \in BOOLEAN : DropLabel(c, l, ok) \/ AddLabel(c, l, ok)
            \/ \E e \in set[c].put, ok \in BOOLEAN : PutFlag(c, e, ok)
      BY <2>2, Zenon DEF JmapNext
    <3>2. CASE UNCHANGED <<listing, mail, pager>>
      BY <2>1, <3>2
    <3>3. CASE \E m \in Msg : Destroy(c, m) \/ \E ls \in SUBSET Mailbox, fs \in SUBSET Keyword : CreateEmail(c, m, ls, fs)
      BY <3>3, DestroyKeepsPager, CreateKeepsPager, Zenon
    <3>4. CASE \E ok \in BOOLEAN : \E r, after : Append1(c, ok, r, after)
      BY <3>4, AppendKeepsPager, Zenon
    <3>5. ASSUME \E ok \in BOOLEAN : Submit(c, ok) PROVE UNCHANGED <<listing, mail, pager>>
      BY <3>5 DEF Submit
    <3>6. ASSUME \E p \in set[c].left : TakePath(c, p) PROVE UNCHANGED <<listing, mail, pager>>
      BY <3>6 DEF TakePath
    <3>7. ASSUME \E m \in Msg, patch \in Patches : Update(c, m, patch) \/ SubmitRead(c, m, patch) PROVE UNCHANGED <<listing, mail, pager>>
      BY <3>7 DEF Update, SubmitRead
    <3>8. ASSUME \E l \in Mailbox, ok \in BOOLEAN : DropLabel(c, l, ok) \/ AddLabel(c, l, ok)
          PROVE  \E ok \in BOOLEAN : \E r, after : Append1(c, ok, r, after)
      BY <3>8, Zenon DEF DropLabel, AddLabel
    <3>9. ASSUME \E e \in set[c].put, ok \in BOOLEAN : PutFlag(c, e, ok)
          PROVE  \E ok \in BOOLEAN : \E r, after : Append1(c, ok, r, after)
      BY <3>9, Zenon DEF PutFlag
    <3>10. ASSUME Updated(c) PROVE UNCHANGED <<listing, mail, pager>>
      BY <3>10 DEF Updated
    <3> QED
      BY <3>1, <3>2, <3>3, <3>4, <3>5, <3>6, <3>7, <3>8, <3>9, <3>10, Zenon
  <2> QED
    BY <2>1, <2>2, ListKeepsPager, PageKeepsPager DEF ListNext, jmapVars
<1> QED
  BY <1>1, <1>2, UpdateInvariant, PTL DEF JmapSpec

\* A client that pages through a mailbox has seen all that was there when a page is empty,
\* for any page size and any number of clients that add, change and remove elsewhere.
THEOREM PagingIsComplete == JmapSpec => []PagingMissesNothing
<1>1. UpdateInv /\ PagerInv => PagingMissesNothing
  <2> SUFFICES ASSUME JmapTypes, PagerInv, pager.on, EmailQuery(Drafts, pager.pos) = <<>>, NEW x \in pager.due \ pager.seen
               PROVE  FALSE
    BY DEF PagingMissesNothing, UpdateInv
  <2>1. Here(x) /\ x \in InDrafts /\ pager.pos <= Cardinality(NewerIn(listing, InDrafts, x)) /\ pager.pos \in Nat
    BY DEF PagerInv
  <2> QED
    BY <2>1, PageOrLater DEF PagerInv, Here
<1> QED
  BY <1>1, UpdateInvariant, PagerInvariant, PTL

-----------------------------------------------------------------------------
(* Dav: what an import that reports no errors has stored.                   *)

Place == Kind \X Account \X Name

\* The items an import is through with, and among them those without a UID.
Past(q) == 1 .. q.next - 1
Unnamed(q) == {i \in Past(q) : q.items[i].uid = NoUid}

\* The last of those that share a name.
Latest(q, i) == \A j \in Past(q) : j > i => q.items[j].uid = NoUid \/ ItemName(q, j) # ItemName(q, i)

\* What an import has stored is there, or someone else changed it since.
Stored(q, mark, stored) ==
  \A i \in Past(q) :
    q.items[i].uid # NoUid /\ Latest(q, i) =>
      LET f == <<q.kind, q.acct, ItemName(q, i)>>
      IN  f \in mark.lost \/ (f \in mark.mine /\ stored[f] = q.items[i].body)

Sound(q) ==
  q.at = "import" =>
    /\ q.kind \in Kind /\ q.acct \in Account /\ q.items \in Batch
    /\ q.next \in Nat /\ 1 <= q.next /\ q.next <= Len(q.items) + 1
    /\ q.errors \in Nat /\ Cardinality(Unnamed(q)) <= q.errors

DavInv ==
  /\ DOMAIN files = Place /\ DOMAIN call = Caller /\ DOMAIN own = Caller
  /\ \A c \in Caller : Sound(call[c])
  /\ \A c \in Caller :
       call[c].at = "import" /\ call[c].errors = Cardinality(Unnamed(call[c])) /\ c \notin slipped => Stored(call[c], own[c], files)

\* The file of an item has a place.
LEMMA ItemsHavePlaces ==
  ASSUME NEW q, Sound(q), q.at = "import", NEW i \in 1 .. Len(q.items), q.items[i].uid # NoUid
  PROVE  <<q.kind, q.acct, ItemName(q, i)>> \in Place /\ q.items[i].body \in Body
<1>1. q.kind \in Kind /\ q.acct \in Account /\ q.items \in Batch
  BY DEF Sound
<1>2. i \in DOMAIN q.items
  BY <1>1, BatchAssumption
<1>3. ItemName(q, i) \in Name /\ q.items[i].body \in Body
  BY <1>1, <1>2, BatchAssumption DEF ItemName
<1> QED
  BY <1>1, <1>3 DEF Place

\* What is past is among the items.
LEMMA PastIsItems ==
  ASSUME NEW q, Sound(q), q.at = "import"
  PROVE  /\ \A i \in Past(q) : i \in 1 .. Len(q.items)
         /\ Len(q.items) \in Nat /\ q.next \in Nat
         /\ IsFiniteSet(Unnamed(q)) /\ Cardinality(Unnamed(q)) \in Nat
<1>1. q.items \in Batch /\ q.next \in Nat /\ 1 <= q.next /\ q.next <= Len(q.items) + 1
  BY DEF Sound
<1>2. Len(q.items) \in Nat
  BY <1>1, BatchAssumption
<1>3. IsFiniteSet(1 .. q.next - 1)
  <2>1. 1 \in Int /\ q.next - 1 \in Int
    BY <1>1
  <2> QED
    BY <2>1, FS_Interval
<1>4. Unnamed(q) \in SUBSET (1 .. q.next - 1)
  BY DEF Unnamed, Past
<1>5. IsFiniteSet(Unnamed(q))
  BY <1>3, <1>4, FS_Subset
<1>6. Cardinality(Unnamed(q)) \in Nat
  BY <1>5, FS_CardinalityType
<1>7. \A i \in Past(q) : i \in 1 .. Len(q.items)
  BY <1>1, <1>2 DEF Past
<1> QED
  BY <1>1, <1>2, <1>5, <1>6, <1>7

\* A request that begins has stored nothing.
LEMMA RequestIsSound ==
  ASSUME NEW at \in {"idle", "put", "import"}, NEW k \in Kind, NEW a, NEW n, NEW b, NEW items,
         at = "import" => a \in Account /\ items \in Batch
  PROVE  LET q == Request(at, k, a, n, b, items)
         IN  /\ Sound(q) /\ q.at = at
             /\ \A mark, stored : Stored(q, mark, stored)
<1> DEFINE q == Request(at, k, a, n, b, items)
<1>1. q.at = at /\ q.kind = k /\ q.acct = a /\ q.items = items /\ q.next = 1 /\ q.errors = 0
  BY DEF Request
<1> HIDE DEF q
<1>2. Past(q) = {} /\ Unnamed(q) = {}
  BY <1>1 DEF Past, Unnamed
<1>3. Cardinality(Unnamed(q)) = 0
  BY <1>2, FS_EmptySet
<1>4. Sound(q)
  <2> SUFFICES ASSUME at = "import" PROVE Sound(q)
    BY <1>1 DEF Sound
  <2>1. Len(items) \in Nat
    BY BatchAssumption
  <2> QED
    BY <1>1, <1>3, <2>1 DEF Sound
<1>5. \A mark, stored : Stored(q, mark, stored)
  BY <1>2 DEF Stored
<1> QED
  BY <1>1, <1>4, <1>5 DEF q

\* A caller at rest.
LEMMA RestingIsSound ==
  Sound(Resting) /\ Resting.at = "idle"
BY RequestIsSound DEF Resting, Kind

\* What one caller does to a file, another's import knows about.
LEMMA TouchedIsKnown ==
  ASSUME NEW c \in Caller, NEW f, own' = Touched(c, f), \A g \in Place : g # f => files'[g] = files[g],
         NEW d \in Caller, d # c, call[d].at = "import", Sound(call[d]), Stored(call[d], own[d], files)
  PROVE  Stored(call[d], own'[d], files')
<1> DEFINE q == call[d]
<1>1. own'[d] = IF f \in own[d].mine THEN [mine |-> own[d].mine \ {f}, lost |-> own[d].lost \cup {f}] ELSE own[d]
  BY DEF Touched
<1> SUFFICES ASSUME NEW i \in Past(q), q.items[i].uid # NoUid, Latest(q, i)
             PROVE  LET g == <<q.kind, q.acct, ItemName(q, i)>>
                    IN  g \in own'[d].lost \/ (g \in own'[d].mine /\ files'[g] = q.items[i].body)
  BY DEF Stored
<1> DEFINE g == <<q.kind, q.acct, ItemName(q, i)>>
<1>2. g \in own[d].lost \/ (g \in own[d].mine /\ files[g] = q.items[i].body)
  BY DEF Stored
<1>3. g \in Place
  BY PastIsItems, ItemsHavePlaces
<1> HIDE DEF g, q
<1>4. CASE f \in own[d].mine
  <2>1. own'[d].mine = own[d].mine \ {f} /\ own'[d].lost = own[d].lost \cup {f}
    BY <1>1, <1>4
  <2>2. g \in own'[d].lost \/ (g \in own'[d].mine /\ files'[g] = q.items[i].body)
    BY <1>2, <1>3, <2>1
  <2> QED
    BY <2>2 DEF g
<1>5. CASE f \notin own[d].mine
  <2>1. g \in own'[d].lost \/ (g \in own'[d].mine /\ files'[g] = q.items[i].body)
    BY <1>1, <1>2, <1>3, <1>5
  <2> QED
    BY <2>1 DEF g
<1> QED
  BY <1>4, <1>5

\* A file is written or removed by a caller that does not import.
LEMMA TouchKeepsDav ==
  ASSUME DavInv, NEW c \in Caller, NEW f, own' = Touched(c, f), DOMAIN files' = Place,
         \A g \in Place : g # f => files'[g] = files[g], slipped' = slipped,
         DOMAIN call' = Caller, \A d \in Caller \ {c} : call'[d] = call[d], Sound(call'[c]), call'[c].at # "import"
  PROVE  DavInv'
<1>1. DOMAIN own' = Caller
  BY DEF Touched
<1>2. \A d \in Caller : Sound(call'[d])
  BY DEF DavInv
<1>3. ASSUME NEW d \in Caller, call'[d].at = "import", call'[d].errors = Cardinality(Unnamed(call'[d])), d \notin slipped
      PROVE  Stored(call'[d], own'[d], files')
  <2>1. d # c /\ call'[d] = call[d]
    BY <1>3
  <2>2. Stored(call[d], own[d], files) /\ Sound(call[d])
    BY <1>3, <2>1 DEF DavInv
  <2> QED
    BY <1>3, <2>1, <2>2, TouchedIsKnown
<1> QED
  BY <1>1, <1>2, <1>3 DEF DavInv

\* A request begins.
LEMMA AskKeepsDav ==
  ASSUME DavInv, NEW c \in Caller, NEW at \in {"put", "import"}, NEW k \in Kind, NEW a \in Account, NEW n, NEW b, NEW items,
         at = "import" => items \in Batch, Ask(c, Request(at, k, a, n, b, items))
  PROVE  DavInv'
<1> DEFINE r == Request(at, k, a, n, b, items)
<1>1. call' = [call EXCEPT ![c] = r] /\ UNCHANGED <<files, own, slipped>>
  BY DEF Ask
<1>2. Sound(r) /\ r.at = at /\ \A mark, stored : Stored(r, mark, stored)
  BY RequestIsSound, Zenon
<1> HIDE DEF r
<1>3. DOMAIN call' = Caller /\ call'[c] = r /\ \A d \in Caller \ {c} : call'[d] = call[d]
  BY <1>1 DEF DavInv
<1> QED
  BY <1>1, <1>2, <1>3 DEF DavInv

\* What os.WriteFile leaves alone.
LEMMA WriteFileElsewhere ==
  ASSUME DavInv, NEW c \in Caller, NEW k, NEW a, NEW n, NEW body, NEW outcome \in Outcome, WriteFile(c, k, a, n, body, outcome)
  PROVE  /\ own' = Touched(c, <<k, a, n>>) /\ DOMAIN files' = Place
         /\ \A g \in Place : g # <<k, a, n>> => files'[g] = files[g]
         /\ outcome = "stored" /\ <<k, a, n>> \in Place => files'[<<k, a, n>>] = body
BY DEF WriteFile, DavInv

\* The next item is counted: what stays, and what Count makes of the others.
LEMMA CountGoesOn ==
  ASSUME DavInv, NEW c \in Caller, call[c].at = "import", call[c].next <= Len(call[c].items), NEW ok \in BOOLEAN, Count(c, ok)
  PROVE  LET q == call[c]
             r == call'[c]
         IN  /\ DOMAIN call' = Caller /\ \A d \in Caller \ {c} : call'[d] = call[d]
             /\ r.at = "import" /\ r.kind = q.kind /\ r.acct = q.acct /\ r.items = q.items /\ r.next = q.next + 1
             /\ r.errors = IF ok THEN q.errors ELSE q.errors + 1
             /\ Past(r) = Past(q) \cup {q.next} /\ q.next \notin Past(q) /\ q.next \in 1 .. Len(q.items)
             /\ \A i : ItemName(r, i) = ItemName(q, i)
             /\ Unnamed(r) = IF q.items[q.next].uid = NoUid THEN Unnamed(q) \cup {q.next} ELSE Unnamed(q)
             /\ Cardinality(Unnamed(r)) = IF q.items[q.next].uid = NoUid THEN Cardinality(Unnamed(q)) + 1 ELSE Cardinality(Unnamed(q))
<1> DEFINE q == call[c]
           r == call'[c]
<1>1. /\ DOMAIN call' = Caller /\ (\A d \in Caller \ {c} : call'[d] = call[d])
      /\ r.at = "import" /\ r.kind = q.kind /\ r.acct = q.acct /\ r.items = q.items /\ r.next = q.next + 1
      /\ r.errors = IF ok THEN q.errors ELSE q.errors + 1
  BY DEF Count, DavInv
<1>2. q.next \in Nat /\ 1 <= q.next /\ Len(q.items) \in Nat /\ IsFiniteSet(Unnamed(q)) /\ Cardinality(Unnamed(q)) \in Nat
  BY PastIsItems DEF DavInv, Sound
<1> HIDE DEF q, r
<1>3. Past(r) = Past(q) \cup {q.next} /\ q.next \notin Past(q) /\ q.next \in 1 .. Len(q.items)
  <2>1. q.next \in 1 .. Len(q.items)
    BY <1>2 DEF q
  <2> QED
    BY <1>1, <1>2, <2>1 DEF Past
<1>4. \A i : ItemName(r, i) = ItemName(q, i)
  BY <1>1 DEF ItemName
<1>5. Unnamed(r) = IF q.items[q.next].uid = NoUid THEN Unnamed(q) \cup {q.next} ELSE Unnamed(q)
  BY <1>1, <1>3 DEF Unnamed
<1>6. q.next \notin Unnamed(q)
  BY <1>3 DEF Unnamed
<1>7. Cardinality(Unnamed(r)) = IF q.items[q.next].uid = NoUid THEN Cardinality(Unnamed(q)) + 1 ELSE Cardinality(Unnamed(q))
  BY <1>2, <1>5, <1>6, FS_AddElement
<1> QED
  BY <1>1, <1>3, <1>4, <1>5, <1>7 DEF q, r

\* An item without a UID is an error that everyone can count.
LEMMA SkipKeepsDav ==
  ASSUME DavInv, NEW c \in Caller, NEW k, SkipItem(c, k)
  PROVE  DavInv'
<1> DEFINE q == call[c]
           r == call'[c]
<1>1. q.at = "import" /\ q.next <= Len(q.items) /\ q.items[q.next].uid = NoUid /\ Count(c, FALSE) /\ UNCHANGED <<files, own, slipped>>
  BY DEF SkipItem, Importing, Item
<1>2. /\ DOMAIN call' = Caller /\ (\A d \in Caller \ {c} : call'[d] = call[d])
      /\ r.at = "import" /\ r.kind = q.kind /\ r.acct = q.acct /\ r.items = q.items /\ r.next = q.next + 1
      /\ r.errors = q.errors + 1
      /\ Past(r) = Past(q) \cup {q.next} /\ q.next \notin Past(q) /\ q.next \in 1 .. Len(q.items)
      /\ (\A i : ItemName(r, i) = ItemName(q, i))
      /\ Cardinality(Unnamed(r)) = Cardinality(Unnamed(q)) + 1
  BY <1>1, CountGoesOn
<1>3. Sound(q) /\ Len(q.items) \in Nat /\ Cardinality(Unnamed(q)) \in Nat
  BY <1>1, PastIsItems DEF DavInv
<1>4. q.errors = Cardinality(Unnamed(q)) /\ c \notin slipped => Stored(q, own[c], files)
  BY <1>1 DEF DavInv
<1> HIDE DEF q, r
<1>5. Sound(r)
  BY <1>1, <1>2, <1>3, SMTT(30) DEF Sound
<1>6. Stored(q, own[c], files) => Stored(r, own[c], files)
  <2> SUFFICES ASSUME Stored(q, own[c], files), NEW i \in Past(r), r.items[i].uid # NoUid, Latest(r, i)
               PROVE  i \in Past(q) /\ Latest(q, i)
    BY <1>2 DEF Stored
  <2> QED
    BY <1>1, <1>2 DEF Latest
<1>7. q.errors \in Nat
  BY <1>1, <1>3 DEF Sound
<1>8. r.errors = Cardinality(Unnamed(r)) /\ c \notin slipped => Stored(r, own[c], files)
  BY <1>2, <1>3, <1>4, <1>6, <1>7
<1> QED
  BY <1>1, <1>2, <1>5, <1>8 DEF DavInv, r

\* An item is stored; or it is counted among the errors, or the import has slipped.
LEMMA ItemKeepsDav ==
  ASSUME DavInv, NEW c \in Caller, NEW k \in Kind, NEW outcome \in Outcome, NEW ok \in BOOLEAN,
         Importing(c, k), Item(c).uid # NoUid,
         WriteFile(c, k, call[c].acct, ItemName(call[c], call[c].next), Item(c).body, outcome), Count(c, ok),
         slipped \subseteq slipped', slipped' \subseteq slipped \cup {c},
         outcome # "stored" => ~ok \/ c \in slipped'
  PROVE  DavInv'
<1> DEFINE q == call[c]
           r == call'[c]
           f == <<k, q.acct, ItemName(q, q.next)>>
<1>1. q.at = "import" /\ q.kind = k /\ q.next <= Len(q.items) /\ q.items[q.next].uid # NoUid
  BY DEF Importing, Item
<1>2. /\ DOMAIN call' = Caller /\ (\A d \in Caller \ {c} : call'[d] = call[d])
      /\ r.at = "import" /\ r.kind = q.kind /\ r.acct = q.acct /\ r.items = q.items /\ r.next = q.next + 1
      /\ r.errors = (IF ok THEN q.errors ELSE q.errors + 1)
      /\ Past(r) = Past(q) \cup {q.next} /\ q.next \notin Past(q) /\ q.next \in 1 .. Len(q.items)
      /\ (\A i : ItemName(r, i) = ItemName(q, i))
      /\ Cardinality(Unnamed(r)) = Cardinality(Unnamed(q))
  BY <1>1, CountGoesOn
<1>3. /\ own' = Touched(c, f) /\ DOMAIN files' = Place
      /\ \A g \in Place : g # f => files'[g] = files[g]
      /\ outcome = "stored" /\ f \in Place => files'[f] = q.items[q.next].body
  BY WriteFileElsewhere DEF Item
<1>4. Sound(q) /\ Len(q.items) \in Nat /\ Cardinality(Unnamed(q)) \in Nat /\ \A i \in Past(q) : i \in 1 .. Len(q.items)
  BY <1>1, PastIsItems DEF DavInv
<1>5. q.errors = Cardinality(Unnamed(q)) /\ c \notin slipped => Stored(q, own[c], files)
  BY <1>1 DEF DavInv
<1>6. own'[c] = [mine |-> own[c].mine \cup {f}, lost |-> own[c].lost \ {f}] /\ DOMAIN own' = Caller
  BY <1>1, <1>3 DEF Touched
<1>7. f \in Place
  BY <1>1, <1>2, <1>4, ItemsHavePlaces
<1> HIDE DEF q, r
<1>8. q.errors \in Nat /\ Cardinality(Unnamed(q)) <= q.errors /\ q.next \in Nat
  BY <1>1, <1>4 DEF Sound
<1>9. Sound(r)
  BY <1>1, <1>2, <1>4, <1>8 DEF Sound
<1>10. ASSUME outcome = "stored", Stored(q, own[c], files) PROVE Stored(r, own'[c], files')
  <2> SUFFICES ASSUME NEW i \in Past(r), r.items[i].uid # NoUid, Latest(r, i)
               PROVE  LET g == <<r.kind, r.acct, ItemName(r, i)>>
                      IN  g \in own'[c].lost \/ (g \in own'[c].mine /\ files'[g] = r.items[i].body)
    BY DEF Stored
  <2> DEFINE g == <<q.kind, q.acct, ItemName(q, i)>>
  <2>1. <<r.kind, r.acct, ItemName(r, i)>> = g
    BY <1>2
  <2>2. CASE i = q.next
    <3>1. g = f
      BY <1>1, <2>2
    <3> HIDE DEF g, f
    <3>2. g \in own'[c].mine /\ files'[g] = q.items[i].body
      BY <1>3, <1>6, <1>7, <1>10, <2>2, <3>1
    <3> QED
      BY <1>2, <2>1, <3>2
  <2>3. CASE i # q.next
    <3>1. i \in Past(q) /\ Latest(q, i) /\ q.items[i].uid # NoUid
      BY <1>2, <2>3 DEF Latest
    <3>2. q.next > i
      BY <1>8, <3>1 DEF Past
    <3>3. ItemName(q, q.next) # ItemName(q, i)
      BY <1>1, <1>2, <3>2 DEF Latest
    <3>4. g \in own[c].lost \/ (g \in own[c].mine /\ files[g] = q.items[i].body)
      BY <1>10, <3>1 DEF Stored
    <3>5. g \in Place
      BY <1>1, <1>4, <3>1, ItemsHavePlaces
    <3>6. g # f
      BY <3>3
    <3> HIDE DEF g, f
    <3>7. g \in own'[c].lost \/ (g \in own'[c].mine /\ files'[g] = q.items[i].body)
      BY <1>3, <1>6, <3>4, <3>5, <3>6
    <3> QED
      BY <1>2, <2>1, <3>7
  <2> QED
    BY <2>2, <2>3
<1>11. ASSUME r.errors = Cardinality(Unnamed(r)), c \notin slipped' PROVE Stored(r, own'[c], files')
  <2>1. ok /\ outcome = "stored" /\ q.errors = Cardinality(Unnamed(q)) /\ c \notin slipped
    BY <1>2, <1>4, <1>8, <1>11
  <2> QED
    BY <1>5, <1>10, <2>1
<1>12. ASSUME NEW d \in Caller, d # c, call'[d].at = "import", call'[d].errors = Cardinality(Unnamed(call'[d])), d \notin slipped'
       PROVE  Stored(call'[d], own'[d], files')
  <2>1. call'[d] = call[d] /\ d \notin slipped
    BY <1>2, <1>12
  <2>2. Stored(call[d], own[d], files) /\ Sound(call[d])
    BY <1>12, <2>1 DEF DavInv
  <2> HIDE DEF f
  <2> QED
    BY <1>3, <1>12, <2>1, <2>2, TouchedIsKnown
<1>13. \A d \in Caller : Sound(call'[d])
  BY <1>2, <1>9 DEF DavInv, r
<1> QED
  BY <1>2, <1>3, <1>6, <1>11, <1>12, <1>13 DEF DavInv, r

\* An import answers, and its caller is at rest.
LEMMA AnswerKeepsDav ==
  ASSUME DavInv, NEW c \in Caller, Answered(c)
  PROVE  DavInv'
<1>1. call' = [call EXCEPT ![c] = Resting] /\ own' = [own EXCEPT ![c] = NoMark] /\ slipped' = slipped \ {c} /\ UNCHANGED files
  BY DEF Answered
<1> HIDE DEF Resting, NoMark
<1>2. /\ DOMAIN call' = Caller /\ call'[c] = Resting /\ DOMAIN own' = Caller
      /\ \A d \in Caller \ {c} : call'[d] = call[d] /\ own'[d] = own[d]
  BY <1>1 DEF DavInv
<1> QED
  BY <1>1, <1>2, RestingIsSound DEF DavInv

\* After a crash nobody has a request.
LEMMA CrashKeepsDav ==
  ASSUME DavInv, NEW c \in Caller, Crash(c)
  PROVE  DavInv'
<1>1. call' = [d \in Caller |-> Resting] /\ own' = [d \in Caller |-> NoMark] /\ DOMAIN files' = DOMAIN files
  BY DEF Crash
<1> HIDE DEF Resting, NoMark
<1> QED
  BY <1>1, RestingIsSound DEF DavInv

\* A resource is removed.
LEMMA RemoveKeepsDav ==
  ASSUME DavInv, NEW c \in Caller, NEW k, NEW a, NEW h, RemoveFile(c, k, a, h)
  PROVE  DavInv'
<1> DEFINE f == <<k, a, File(k, h)>>
<1>1. call[c].at = "idle" /\ files' = [files EXCEPT ![f] = None] /\ own' = Touched(c, f) /\ UNCHANGED <<call, slipped>>
  BY DEF RemoveFile
<1> HIDE DEF f
<1>2. DOMAIN files' = Place /\ (\A g \in Place : g # f => files'[g] = files[g]) /\ DOMAIN call = Caller /\ Sound(call[c])
  BY <1>1 DEF DavInv
<1> QED
  BY <1>1, <1>2, TouchKeepsDav

\* A PUT stores, or does not.
LEMMA PutKeepsDav ==
  ASSUME DavInv, NEW c \in Caller, NEW outcome \in Outcome, PutEventWrite(c, outcome) \/ PutCardWrite(c, outcome)
  PROVE  DavInv'
<1> DEFINE q == call[c]
<1>1. call' = [call EXCEPT ![c] = Resting] /\ q.at = "put" /\ slipped' = slipped
  BY DEF PutEventWrite, PutCardWrite, Putting, CalPut, CardPut
<1>2. PICK k \in Kind : WriteFile(c, k, q.acct, q.name, q.body, outcome)
  BY DEF PutEventWrite, PutCardWrite, CalPut, CardPut, Kind
<1> HIDE DEF Resting, q
<1>3. DOMAIN call' = Caller /\ call'[c] = Resting /\ \A d \in Caller \ {c} : call'[d] = call[d]
  BY <1>1 DEF DavInv
<1>4. /\ own' = Touched(c, <<k, q.acct, q.name>>) /\ DOMAIN files' = Place
      /\ \A g \in Place : g # <<k, q.acct, q.name>> => files'[g] = files[g]
  BY <1>2, WriteFileElsewhere
<1> QED
  BY <1>1, <1>3, <1>4, RestingIsSound, TouchKeepsDav

\* An item of an import of contacts, or of events.
LEMMA ImportKeepsDav ==
  ASSUME DavInv, NEW c \in Caller, NEW outcome \in Outcome, ImportCard(c, outcome) \/ ImportEvent(c, outcome)
  PROVE  DavInv'
<1>1. CASE ImportCard(c, outcome)
  <2>1. "contacts" \in Kind /\ Counted(outcome) \in BOOLEAN /\ (outcome # "stored" => ~Counted(outcome))
    BY DEF Kind, Counted
  <2> QED
    BY <1>1, <2>1, ItemKeepsDav DEF ImportCard, CardPut
<1>2. CASE ImportEvent(c, outcome)
  <2>1. "calendar" \in Kind /\ TRUE \in BOOLEAN
    BY DEF Kind
  <2>2. slipped \subseteq slipped' /\ slipped' \subseteq slipped \cup {c} /\ (outcome # "stored" => c \in slipped')
    BY <1>2 DEF ImportEvent, CalPut, Importing
  <2> QED
    BY <1>2, <2>1, <2>2, ItemKeepsDav DEF ImportEvent, CalPut
<1> QED
  BY <1>1, <1>2

\* The inductive invariant of imports next to PUT, DELETE, failed writes and crashes.
THEOREM DavInvariant == DavSpec => []DavInv
<1>1. DavInit => DavInv
  <2> SUFFICES ASSUME DavInit PROVE DavInv
    OBVIOUS
  <2>1. DOMAIN files = Place /\ DOMAIN call = Caller /\ DOMAIN own = Caller /\ \A c \in Caller : call[c] = Resting
    BY DEF DavInit, Place
  <2> HIDE DEF Resting
  <2> QED
    BY <2>1, RestingIsSound DEF DavInv
<1>2. DavInv /\ [CalendarNext \/ ContactsNext]_davVars => DavInv'
  <2> SUFFICES ASSUME DavInv, [CalendarNext \/ ContactsNext]_davVars PROVE DavInv'
    OBVIOUS
  <2>1. ASSUME NEW c \in Caller, Always(c) PROVE DavInv'
    BY <2>1, AnswerKeepsDav, CrashKeepsDav DEF Always
  <2>2. ASSUME NEW c \in Caller, NEW k \in Kind, NEW a \in Account, NEW items \in Batch, Import(c, k, a, items) PROVE DavInv'
    BY <2>2, AskKeepsDav DEF Import
  <2>3. ASSUME NEW c \in Caller, NEW a \in Account, NEW h \in Href, NEW body \in Body, PutEvent(c, a, h, body) \/ PutCard(c, a, h, body)
        PROVE  DavInv'
    <3>1. "calendar" \in Kind /\ "contacts" \in Kind
      BY DEF Kind
    <3> QED
      BY <2>3, <3>1, AskKeepsDav DEF PutEvent, PutCard
  <2>4. CASE CalendarNext
    <3>1. "calendar" \in Kind
      BY DEF Kind
    <3> QED
      BY <2>1, <2>2, <2>3, <2>4, <3>1, SkipKeepsDav, PutKeepsDav, ImportKeepsDav, RemoveKeepsDav, Zenon DEF CalendarNext, DeleteEvent
  <2>5. CASE ContactsNext
    <3>1. "contacts" \in Kind
      BY DEF Kind
    <3> QED
      BY <2>1, <2>2, <2>3, <2>5, <3>1, SkipKeepsDav, PutKeepsDav, ImportKeepsDav, RemoveKeepsDav, Zenon DEF ContactsNext, DeleteCard
  <2>6. CASE UNCHANGED davVars
    BY <2>6 DEF davVars, DavInv
  <2> QED
    BY <2>4, <2>5, <2>6
<1> QED
  BY <1>1, <1>2, PTL DEF DavSpec

\* An import that reports no errors but the items without a UID has stored all of its items,
\* for any requests of others, unless a calendar write failed unseen.
THEOREM ImportsAreThere == DavSpec => []ImportIsThere
<1>1. DavInv => ImportIsThere
  <2> SUFFICES ASSUME DavInv, NEW c \in Caller, Imported(c), call[c].errors = NoUids(call[c]), c \notin slipped
               PROVE  AllThere(c)
    BY DEF ImportIsThere
  <2> DEFINE q == call[c]
  <2>1. q.at = "import" /\ q.next > Len(q.items) /\ Sound(q)
    BY DEF Imported, DavInv
  <2>2. q.next \in Nat /\ 1 <= q.next /\ q.next <= Len(q.items) + 1 /\ Len(q.items) \in Nat /\ DOMAIN q.items = 1 .. Len(q.items)
    BY <2>1, BatchAssumption DEF Sound
  <2>3. Past(q) = DOMAIN q.items
    BY <2>1, <2>2 DEF Past
  <2>4. Unnamed(q) = {i \in DOMAIN q.items : q.items[i].uid = NoUid}
    BY <2>3 DEF Unnamed
  <2>5. Stored(q, own[c], files)
    BY <2>1, <2>4 DEF DavInv, NoUids
  <2> SUFFICES ASSUME NEW i \in DOMAIN q.items, q.items[i].uid # NoUid
               PROVE  LET n == ItemName(q, i)
                          last == Max({j \in DOMAIN q.items : q.items[j].uid # NoUid /\ ItemName(q, j) = n})
                      IN  \/ <<q.kind, q.acct, n>> \in own[c].lost
                          \/ <<q.kind, q.acct, n>> \in own[c].mine /\ n \in DOMAIN Listed(q.kind, q.acct)
                             /\ Listed(q.kind, q.acct)[n] = q.items[last].body
    BY DEF AllThere
  <2> DEFINE n == ItemName(q, i)
             J == {j \in DOMAIN q.items : q.items[j].uid # NoUid /\ ItemName(q, j) = n}
             last == Max(J)
             f == <<q.kind, q.acct, n>>
  <2>6. last \in J /\ \A j \in J : j <= last
    <3>1. J \in SUBSET (0 .. Len(q.items)) /\ J # {}
      BY <2>2
    <3> HIDE DEF J
    <3>2. \E m \in J : \A y \in J : y <= m
      BY <2>2, <3>1, HighestNumber, Zenon
    <3>3. \A x, y \in J : x >= y <=> y <= x
      BY <2>2, <3>1
    <3>4. \E m \in J : \A y \in J : m >= y
      BY <3>2, <3>3
    <3>5. last \in J /\ \A y \in J : last >= y
      BY <3>4, Zenon DEF Max
    <3> QED
      BY <3>3, <3>5
  <2>7. last \in Past(q) /\ q.items[last].uid # NoUid /\ ItemName(q, last) = n
    BY <2>3, <2>6
  <2>8. Latest(q, last)
    <3> HIDE DEF last
    <3> SUFFICES ASSUME NEW j \in Past(q), j > last, q.items[j].uid # NoUid, ItemName(q, j) = n PROVE FALSE
      BY <2>7 DEF Latest
    <3>1. j \in J
      BY <2>3
    <3>2. j \in Nat /\ last \in Nat
      BY <2>2, <2>3, <2>7
    <3> QED
      BY <2>6, <3>1, <3>2
  <2>9. f \in own[c].lost \/ (f \in own[c].mine /\ files[f] = q.items[last].body)
    BY <2>5, <2>7, <2>8 DEF Stored
  <2>10. f \in Place /\ q.items[last].body \in Body
    BY <2>1, <2>2, <2>3, <2>7, ItemsHavePlaces
  <2>11. n \in Name /\ q.items[last].body # None
    BY <2>10, DavAssumption DEF Place
  <2> HIDE DEF n, last, q
  <2>12. files[f] = q.items[last].body => n \in DOMAIN Listed(q.kind, q.acct) /\ Listed(q.kind, q.acct)[n] = q.items[last].body
    BY <2>11 DEF Listed
  <2> QED
    BY <2>9, <2>12 DEF n, last
<1> QED
  BY <1>1, DavInvariant, PTL
=============================================================================
