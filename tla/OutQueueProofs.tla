--------------------------- MODULE OutQueueProofs ---------------------------
(***************************************************************************)
(* Proofs about OutQueue.  The argument about mail follows one message     *)
(* through Enqueue, the passes of Tick and the restarts: QueueInv says, at *)
(* every point inside a pass too, where it stands, what its file holds and *)
(* how many sends are accounted for there.  The argument about the gates   *)
(* is separate (GateInv): the counters in memory and those in the state    *)
(* file move apart only in one direction.                                  *)
(***************************************************************************)
EXTENDS OutQueue, FiniteSetTheorems, TLAPS

-----------------------------------------------------------------------------
(* Sequences without repetition, by the set of what stands in them.        *)

Distinct(s) == \A i, j \in 1 .. Len(s) : s[i] = s[j] => i = j

\* The empty queue holds nothing.
LEMMA EmptyElements == Elements(<<>>) = {} /\ Distinct(<<>>)
BY DEF Elements, Distinct

\* What a queue holds, by its positions.
LEMMA ElementsIn ==
  ASSUME NEW S, NEW s \in Seq(S)
  PROVE  Elements(s) \subseteq S
BY DEF Elements

\* Appending adds one element.
LEMMA AppendElements ==
  ASSUME NEW S, NEW s \in Seq(S), NEW e \in S
  PROVE  /\ Append(s, e) \in Seq(S)
         /\ Elements(Append(s, e)) = Elements(s) \cup {e}
         /\ Distinct(s) /\ e \notin Elements(s) => Distinct(Append(s, e))
<1>1. /\ Append(s, e) \in Seq(S) /\ Len(s) \in Nat
      /\ Len(Append(s, e)) = Len(s) + 1
      /\ \A i \in 1 .. Len(s) : Append(s, e)[i] = s[i]
      /\ Append(s, e)[Len(s) + 1] = e
  OBVIOUS
<1>2. Elements(Append(s, e)) = Elements(s) \cup {e}
  <2>1. 1 .. Len(s) + 1 = 1 .. Len(s) \cup {Len(s) + 1}
    BY <1>1
  <2> QED
    BY <1>1, <2>1 DEF Elements
<1>3. ASSUME Distinct(s), e \notin Elements(s)
      PROVE  Distinct(Append(s, e))
  <2> SUFFICES ASSUME NEW i \in 1 .. Len(s) + 1, NEW j \in 1 .. Len(s) + 1,
                      Append(s, e)[i] = Append(s, e)[j]
               PROVE  i = j
    BY <1>1 DEF Distinct
  <2>1. CASE i \in 1 .. Len(s) /\ j \in 1 .. Len(s)
    BY <1>1, <1>3, <2>1 DEF Distinct
  <2>2. CASE i = Len(s) + 1 /\ j \in 1 .. Len(s)
    BY <1>1, <1>3, <2>2 DEF Elements
  <2>3. CASE j = Len(s) + 1 /\ i \in 1 .. Len(s)
    BY <1>1, <1>3, <2>3 DEF Elements
  <2> QED
    BY <1>1, <2>1, <2>2, <2>3
<1> QED
  BY <1>1, <1>2, <1>3

\* The tail holds nothing new.
LEMMA TailElements ==
  ASSUME NEW S, NEW s \in Seq(S), s # <<>>
  PROVE  /\ Head(s) \in S /\ Tail(s) \in Seq(S)
         /\ Elements(s) = Elements(Tail(s)) \cup {Head(s)}
         /\ Distinct(s) => Distinct(Tail(s)) /\ Head(s) \notin Elements(Tail(s))
<1>1. /\ Head(s) \in S /\ Tail(s) \in Seq(S) /\ Len(s) \in Nat \ {0}
      /\ Head(s) = s[1] /\ Len(Tail(s)) = Len(s) - 1
      /\ \A i \in 1 .. Len(s) - 1 : Tail(s)[i] = s[i + 1]
  OBVIOUS
<1>2. Elements(s) = Elements(Tail(s)) \cup {Head(s)}
  <2>1. ASSUME NEW i \in 1 .. Len(s) PROVE s[i] \in Elements(Tail(s)) \cup {Head(s)}
    <3>1. CASE i = 1
      BY <1>1, <3>1
    <3>2. CASE i # 1
      <4>1. i - 1 \in 1 .. Len(s) - 1 /\ Tail(s)[i - 1] = s[i]
        BY <1>1, <3>2
      <4> QED
        BY <1>1, <4>1 DEF Elements
    <3> QED
      BY <3>1, <3>2
  <2>2. ASSUME NEW i \in 1 .. Len(s) - 1 PROVE Tail(s)[i] \in Elements(s)
    BY <1>1 DEF Elements
  <2> QED
    BY <1>1, <2>1, <2>2 DEF Elements
<1>3. ASSUME Distinct(s) PROVE Distinct(Tail(s))
  BY <1>1, <1>3 DEF Distinct
<1>4. ASSUME Distinct(s) PROVE Head(s) \notin Elements(Tail(s))
  BY <1>1, <1>4 DEF Distinct, Elements
<1> QED
  BY <1>1, <1>2, <1>3, <1>4

\* Two lists without repetition and without a common element make one list
\* without repetition.
LEMMA ConcatDistinct ==
  ASSUME NEW S, NEW s \in Seq(S), NEW t \in Seq(S),
         Distinct(s), Distinct(t), Elements(s) \cap Elements(t) = {}
  PROVE  Distinct(s \o t)
<1>1. /\ Len(s) \in Nat /\ Len(t) \in Nat /\ Len(s \o t) = Len(s) + Len(t)
      /\ \A i \in 1 .. Len(s) : (s \o t)[i] = s[i]
      /\ \A i \in Len(s) + 1 .. Len(s) + Len(t) :
           i - Len(s) \in 1 .. Len(t) /\ (s \o t)[i] = t[i - Len(s)]
  OBVIOUS
<1> SUFFICES ASSUME NEW i \in 1 .. Len(s) + Len(t), NEW j \in 1 .. Len(s) + Len(t),
                    (s \o t)[i] = (s \o t)[j]
             PROVE  i = j
  BY <1>1 DEF Distinct
<1>2. CASE i \in 1 .. Len(s) /\ j \in 1 .. Len(s)
  BY <1>1, <1>2 DEF Distinct
<1>3. CASE i \in Len(s) + 1 .. Len(s) + Len(t) /\ j \in Len(s) + 1 .. Len(s) + Len(t)
  BY <1>1, <1>3 DEF Distinct
<1>4. /\ \A k \in 1 .. Len(s) : (s \o t)[k] \in Elements(s)
      /\ \A k \in Len(s) + 1 .. Len(s) + Len(t) : (s \o t)[k] \in Elements(t)
  BY <1>1 DEF Elements
<1>5. CASE i \in 1 .. Len(s) /\ j \in Len(s) + 1 .. Len(s) + Len(t)
  BY <1>4, <1>5
<1>6. CASE j \in 1 .. Len(s) /\ i \in Len(s) + 1 .. Len(s) + Len(t)
  BY <1>4, <1>6
<1> QED
  BY <1>1, <1>2, <1>3, <1>5, <1>6

\* Load lists every file once: a list of as many entries as there are files, in
\* which every file occurs, has none of them twice.
LEMMA OrdersAreDistinct ==
  ASSUME NEW S \in SUBSET Msg, NEW q \in Orders(S)
  PROVE  q \in Seq(Msg) /\ Elements(q) = S /\ Distinct(q)
<1> DEFINE n == Cardinality(S)
<1>1. IsFiniteSet(S) /\ n \in Nat
  BY MsgAssumption, FS_Subset, FS_CardinalityType
<1>2. q \in [1 .. n -> S] /\ \A m \in S : \E i \in 1 .. n : q[i] = m
  BY DEF Orders
<1>3. q \in Seq(Msg) /\ Len(q) = n
  BY <1>1, <1>2
<1>4. Elements(q) = S
  BY <1>2, <1>3 DEF Elements
<1>5. Distinct(q)
  <2>1. q \in Surjection(1 .. n, S)
    BY <1>2 DEF Surjection
  <2>2. IsFiniteSet(1 .. n) /\ Cardinality(1 .. n) = n
    BY <1>1, FS_Interval
  <2>3. q \in Injection(1 .. n, S)
    BY <2>1, <2>2, FS_SurjSameCardinalityImpliesInj
  <2> QED
    BY <1>3, <2>3 DEF Injection, IsInjective, Distinct
<1> QED
  BY <1>3, <1>4, <1>5
-----------------------------------------------------------------------------
(* The inductive invariants.                                               *)

\* Where the scheduler is tells what it holds.
Shape ==
  /\ pc \in {"idle", "report", "down"} => todo = <<>>
  /\ pc = "sent" => todo # <<>>
  /\ pc = "report" => bounces # <<>>
  /\ pc \in {"idle", "down"} => bounces = <<>>
  /\ pc = "down" => queue = <<>>

\* A message stands in one place, once.
Once == Distinct(queue) /\ Distinct(todo) /\ Elements(queue) \cap Elements(todo) = {}

\* A file belongs to a message that was handed in and may still be tried; one whose
\* Enqueue waits for the lock has its file and is not scheduled yet.
Entered ==
  /\ \A m \in files : client[m] # "new" /\ sAttempts[m] < MaxAttempts
  /\ \A m \in Msg : client[m] = "added" =>
       m \in files /\ m \notin Work /\ sAttempts[m] = 0 /\ pc # "down"
  /\ \A m \in Msg : client[m] = "new" => tries[m] = 0

\* The file of a message never says more attempts than the memory does.
Ahead ==
  /\ Work \subseteq files
  /\ \A m \in Work : sAttempts[m] <= attempts[m] /\ attempts[m] < MaxAttempts

\* A send the scheduler has not dealt with yet.
Unsettled(m) == IF pc = "sent" /\ m = Head(todo) THEN 1 ELSE 0

\* The sends of a message that its file does not count are paid for by faults, but
\* for the one that is not dealt with yet.
Budget ==
  /\ \A m \in files : tries[m] <= sAttempts[m] + faults + Unsettled(m)
  /\ RetriesBounded

\* When the remote side accepted the message of the send in hand, that is recorded.
SentIsKnown == pc = "sent" /\ result = "Delivered" => Head(todo) \in delivered

QueueInv == TypeOK /\ Shape /\ Once /\ Entered /\ Ahead /\ Budget /\ SentIsKnown /\ AckedIsKept

RampOK(w) == w.used <= capFor(w.day) /\ (~w.seen => w.used = 0 /\ w.day = 0)

\* b is at least as far as a.
NotBehind(a, b) ==
  a.seen => b.seen /\ b.day >= a.day /\ (b.day = a.day => b.used >= a.used)

\* Both copies of a ramp keep the cap, the one in memory is never behind the saved
\* one, and the send in hand is for a tenant that was not throttled.
GateInv ==
  /\ Schedule # <<>> => \A t \in Tenants :
       /\ RampOK(gates.warm[t]) /\ RampOK(saved.warm[t])
       /\ pc # "down" => NotBehind(saved.warm[t], gates.warm[t])
  /\ pc = "sent" => ~Throttled(gates.rep[Tenant[Head(todo)]])
  /\ ThrottleSurvives

-----------------------------------------------------------------------------
(* Types, and the shape of a pass.                                         *)

Gate == [warm : Ramps, rep : Stats]

\* What Tick and the clock do to the gates leaves them gates.
LEMMA GateTypes ==
  /\ NoGates \in Gate
  /\ \A g \in Gate, t \in Tenants :
       /\ [g EXCEPT !.warm[t] = RecordSend(@)] \in Gate
       /\ [g EXCEPT !.warm[t] = NextDay(@)] \in Gate
       /\ [g EXCEPT !.rep[t] = RecordDelivered(@)] \in Gate
       /\ [g EXCEPT !.rep[t] = RecordBounced(@)] \in Gate
<1> DEFINE Ramp == [seen : BOOLEAN, day : Nat, used : Nat]
           Stat == [delivered : Nat, bounced : Nat]
<1>1. NoGates \in Gate
  BY DEF Gate, NoGates, NoRamp, NoStat, Ramps, Stats
<1>2. ASSUME NEW w \in Ramp PROVE RecordSend(w) \in Ramp /\ NextDay(w) \in Ramp
  <2> DEFINE d == IF w.day < Len(Schedule) THEN w.day + 1 ELSE w.day
             u == w.used + 1
  <2>1. u \in Nat /\ d \in Nat /\ 0 \in Nat
    BY ScheduleAssumption
  <2> HIDE DEF d, u
  <2>2. [w EXCEPT !.seen = TRUE, !.used = u] \in Ramp /\ [w EXCEPT !.day = d, !.used = 0] \in Ramp
    BY <2>1, Zenon
  <2> QED
    BY <2>2, Zenon DEF RecordSend, NextDay, d, u
<1>3. \A r \in Stat : RecordDelivered(r) \in Stat /\ RecordBounced(r) \in Stat
  BY DEF RecordDelivered, RecordBounced
<1>4. ASSUME NEW g \in Gate, NEW t \in Tenants
      PROVE  /\ [g EXCEPT !.warm[t] = RecordSend(@)] \in Gate
             /\ [g EXCEPT !.warm[t] = NextDay(@)] \in Gate
             /\ [g EXCEPT !.rep[t] = RecordDelivered(@)] \in Gate
             /\ [g EXCEPT !.rep[t] = RecordBounced(@)] \in Gate
  <2>1. g.warm[t] \in Ramp /\ g.rep[t] \in Stat
    BY DEF Gate, Ramps, Stats
  <2>2. /\ RecordSend(g.warm[t]) \in Ramp /\ NextDay(g.warm[t]) \in Ramp
        /\ RecordDelivered(g.rep[t]) \in Stat /\ RecordBounced(g.rep[t]) \in Stat
    BY <1>2, <1>3, <2>1
  <2> QED
    BY <2>2 DEF Gate, Ramps, Stats
<1> QED
  BY <1>1, <1>4

\* The types hold at the start.
LEMMA TypeInit == Init => TypeOK /\ Shape
BY GateTypes DEF Init, TypeOK, Shape, Gate

\* Every step keeps the types.
LEMMA TypeStep ==
  ASSUME TypeOK, Shape, [Next]_vars
  PROVE  TypeOK' /\ Shape'
<1> USE DEF store, memory, pass, history
<1>a. /\ files \in SUBSET Msg /\ sWait \in SUBSET Msg /\ wait \in SUBSET Msg /\ delivered \in SUBSET Msg
      /\ sAttempts \in [Msg -> Nat] /\ attempts \in [Msg -> Nat] /\ tries \in [Msg -> Nat]
      /\ perDomain \in [Domains -> Nat] /\ faults \in Nat
  BY DEF TypeOK
<1>b. /\ queue \in Seq(Msg) /\ todo \in Seq(Msg) /\ bounces \in Seq(Msg)
      /\ pc = "sent" => todo # <<>>
      /\ pc = "report" => bounces # <<>>
  BY DEF TypeOK, Shape
<1>c. gates \in Gate /\ saved \in Gate
  BY DEF TypeOK, Gate
<1>d. ASSUME NEW b \in BOOLEAN, Fault(b) PROVE faults' \in Nat
  BY <1>a, <1>d DEF Fault
<1>e. ASSUME todo # <<>>
      PROVE  /\ Head(todo) \in Msg /\ Tail(todo) \in Seq(Msg)
             /\ Tenant[Head(todo)] \in Tenants /\ RcptDomain[Head(todo)] \in Domains
  BY <1>b, <1>e, TailElements DEF Tenants, Domains
<1>f. ASSUME NEW m \in Msg, NEW ok \in BOOLEAN, RemoveDurable(m, ok)
      PROVE  files' \in SUBSET Msg /\ sWait' \in SUBSET Msg /\ sAttempts' \in [Msg -> Nat] /\ faults' \in Nat
  <2>1. /\ files' = files \/ files' = files \ {m}
        /\ sWait' = sWait \/ sWait' = sWait \ {m}
        /\ sAttempts' = sAttempts
    BY <1>f, Zenon DEF RemoveDurable
  <2>2. faults' \in Nat
    BY <1>d, <1>f DEF RemoveDurable
  <2> QED
    BY <1>a, <2>1, <2>2
<1>1. ASSUME NEW m \in Msg, Add(m) PROVE TypeOK' /\ Shape'
  BY <1>1 DEF TypeOK, Shape, Add
<1>2. ASSUME NEW m \in Msg, NEW renamed \in BOOLEAN, AddFails(m, renamed)
      PROVE  TypeOK' /\ Shape'
  <2>1. faults' \in Nat
    BY <1>d, <1>2 DEF AddFails
  <2>2. files' \in SUBSET Msg /\ sWait' \in SUBSET Msg /\ sAttempts' \in [Msg -> Nat]
    <3>1. /\ files' = files \/ files' = files \cup {m}
          /\ sWait' = sWait \/ sWait' = sWait \ {m}
          /\ sAttempts' = sAttempts \/ sAttempts' = [sAttempts EXCEPT ![m] = 0]
      BY <1>2, Zenon DEF AddFails
    <3> QED
      BY <1>a, <3>1
  <2> QED
    BY <1>2, <2>1, <2>2 DEF TypeOK, Shape, AddFails
<1>3. ASSUME NEW m \in Msg, Accept(m) PROVE TypeOK' /\ Shape'
  <2>1. queue' \in Seq(Msg) /\ attempts' \in [Msg -> Nat]
    BY <1>a, <1>b, <1>3, AppendElements DEF Accept
  <2> QED
    BY <1>3, <2>1 DEF TypeOK, Shape, Accept
<1>4. CASE TickBegin
  BY <1>4 DEF TypeOK, Shape, TickBegin
<1>5. CASE Hold
  <2>1. queue' \in Seq(Msg) /\ todo' \in Seq(Msg)
    BY <1>b, <1>e, <1>5, AppendElements DEF Hold
  <2> QED
    BY <1>5, <2>1 DEF TypeOK, Shape, Hold
<1>6. ASSUME NEW r \in {"Delivered", "TempFail", "PermFail"}, Send(r)
      PROVE  TypeOK' /\ Shape'
  <2>1. Head(todo) \in Msg /\ Tenant[Head(todo)] \in Tenants /\ RcptDomain[Head(todo)] \in Domains
    BY <1>e, <1>6 DEF Send
  <2>2. gates' \in Gate
    BY <1>c, <1>6, <2>1, GateTypes DEF Send
  <2>3. perDomain' \in [Domains -> Nat]
    BY <1>a, <1>6, <2>1 DEF Send
  <2>4. tries' \in [Msg -> Nat] /\ delivered' \in SUBSET Msg
    BY <1>a, <1>6, <2>1 DEF Send
  <2> QED
    BY <1>6, <2>2, <2>3, <2>4 DEF TypeOK, Shape, Send, Gate
<1>7. ASSUME NEW ok \in BOOLEAN, Settle(ok) PROVE TypeOK' /\ Shape'
  <2>1. /\ Head(todo) \in Msg /\ Tail(todo) \in Seq(Msg) /\ Tenant[Head(todo)] \in Tenants
        /\ RemoveDurable(Head(todo), ok)
        /\ gates' = [gates EXCEPT !.rep[Tenant[Head(todo)]] = RecordDelivered(@)]
    BY <1>b, <1>e, <1>7, Zenon DEF Settle
  <2>2. gates' \in Gate
    BY <1>c, <2>1, GateTypes
  <2>3. files' \in SUBSET Msg /\ sWait' \in SUBSET Msg /\ sAttempts' \in [Msg -> Nat] /\ faults' \in Nat
    BY <1>f, <2>1
  <2> QED
    BY <1>7, <2>1, <2>2, <2>3 DEF TypeOK, Shape, Settle, Gate
<1>8. ASSUME NEW ok \in BOOLEAN, Bounce(ok) PROVE TypeOK' /\ Shape'
  <2>1. /\ Head(todo) \in Msg /\ Tail(todo) \in Seq(Msg) /\ Tenant[Head(todo)] \in Tenants
        /\ RemoveDurable(Head(todo), ok)
        /\ gates' = [gates EXCEPT !.rep[Tenant[Head(todo)]] = RecordBounced(@)]
        /\ bounces' = Append(bounces, Head(todo))
        /\ attempts' = attempts \/ attempts' = [attempts EXCEPT ![Head(todo)] = @ + 1]
    BY <1>b, <1>e, <1>8, Zenon DEF Bounce
  <2>2. gates' \in Gate
    BY <1>c, <2>1, GateTypes
  <2>3. attempts' \in [Msg -> Nat] /\ bounces' \in Seq(Msg)
    <3>1. attempts[Head(todo)] + 1 \in Nat /\ bounces' \in Seq(Msg)
      BY <1>a, <1>b, <2>1, SMTT(30)
    <3> QED
      BY <1>a, <2>1, <3>1, Zenon
  <2>4. files' \in SUBSET Msg /\ sWait' \in SUBSET Msg /\ sAttempts' \in [Msg -> Nat] /\ faults' \in Nat
    BY <1>f, <2>1
  <2> QED
    BY <1>8, <2>1, <2>2, <2>3, <2>4 DEF TypeOK, Shape, Bounce, Gate
<1>9. ASSUME NEW ok \in BOOLEAN, Defer(ok) PROVE TypeOK' /\ Shape'
  <2>1. Head(todo) \in Msg /\ Tail(todo) \in Seq(Msg)
    BY <1>b, <1>e, <1>9 DEF Defer
  <2>2. attempts' \in [Msg -> Nat] /\ queue' \in Seq(Msg) /\ wait' \in SUBSET Msg
    BY <1>a, <1>b, <1>9, <2>1, SMTT(30) DEF Defer
  <2>3. files' \in SUBSET Msg /\ sWait' \in SUBSET Msg /\ sAttempts' \in [Msg -> Nat]
    <3>1. /\ files' = files \/ files' = files \cup {Head(todo)}
          /\ sWait' = sWait \/ sWait' = sWait \cup {Head(todo)}
          /\ \/ sAttempts' = sAttempts
             \/ sAttempts' = [sAttempts EXCEPT ![Head(todo)] = attempts[Head(todo)] + 1]
      BY <1>9, Zenon DEF Defer, UpdateDurable
    <3>2. attempts[Head(todo)] + 1 \in Nat
      BY <1>a, <2>1
    <3>3. sAttempts' \in [Msg -> Nat]
      BY <1>a, <2>1, <3>1, <3>2, Zenon
    <3> QED
      BY <1>a, <2>1, <3>1, <3>3
  <2>4. faults' \in Nat
    BY <1>d, <1>9 DEF Defer, UpdateDurable
  <2> QED
    BY <1>9, <2>1, <2>2, <2>3, <2>4 DEF TypeOK, Shape, Defer
<1>10. CASE TickEnd
  BY <1>10 DEF TypeOK, Shape, TickEnd
<1>11. CASE Report
  <2>1. Head(bounces) \in Msg /\ Tail(bounces) \in Seq(Msg)
    BY <1>b, <1>11, TailElements DEF Report
  <2> QED
    BY <1>11, <2>1 DEF TypeOK, Shape, Report
<1>12. CASE SaveState
  BY <1>12 DEF TypeOK, Shape, SaveState
<1>13. ASSUME NEW m \in Msg, Elapse(m) PROVE TypeOK' /\ Shape'
  BY <1>13 DEF TypeOK, Shape, Elapse
<1>14. ASSUME NEW t \in Tenants, NewDay(t) PROVE TypeOK' /\ Shape'
  <2>1. gates' \in Gate /\ saved' \in Gate
    BY <1>c, <1>14, GateTypes DEF NewDay
  <2> QED
    BY <1>14, <2>1 DEF TypeOK, Shape, NewDay, Gate
<1>15. CASE Crash
  <2>1. Elements(bounces) \subseteq Msg /\ faults' \in Nat
    BY <1>b, <1>d, <1>15, ElementsIn DEF Crash
  <2> QED
    BY <1>15, <2>1, GateTypes, SMTT(30) DEF TypeOK, Shape, Crash, Gate
<1>16. CASE Recover
  BY <1>16, OrdersAreDistinct DEF TypeOK, Shape, Recover
<1>17. CASE UNCHANGED vars
  BY <1>17 DEF TypeOK, Shape, vars
<1> QED
  BY <1>1, <1>2, <1>3, <1>4, <1>5, <1>6, <1>7, <1>8, <1>9, <1>10, <1>11, <1>12,
     <1>13, <1>14, <1>15, <1>16, <1>17 DEF Next, Scheduler

\* The variables of the queue keep their types, and a pass its shape.
THEOREM Typing == Spec => [](TypeOK /\ Shape)
<1>1. (TypeOK /\ Shape) /\ [Next]_vars => (TypeOK /\ Shape)'
  BY TypeStep
<1> QED
  BY <1>1, TypeInit, PTL DEF Spec

-----------------------------------------------------------------------------
(* Mail.                                                                   *)

\* The queue is empty at the start.
LEMMA QueueInit == Init => QueueInv
BY TypeInit, EmptyElements, LimitAssumption
   DEF Init, QueueInv, Once, Entered, Ahead, Budget, RetriesBounded, Unsettled, SentIsKnown, AckedIsKept, Work

\* Every step keeps what is queued on disk.
LEMMA QueueStep ==
  ASSUME QueueInv, [Next]_vars
  PROVE  QueueInv'
<1> USE DEF store, memory, pass, history
<1> DEFINE Goal == Once /\ Entered /\ Ahead /\ Budget /\ SentIsKnown /\ AckedIsKept
<1>t. TypeOK' /\ Shape'
  BY TypeStep DEF QueueInv
<1>a. /\ files \in SUBSET Msg /\ MaxAttempts \in Nat \ {0} /\ faults \in Nat
      /\ sAttempts \in [Msg -> Nat] /\ attempts \in [Msg -> Nat] /\ tries \in [Msg -> Nat]
      /\ client \in [Msg -> {"new", "added", "acked", "refused", "gone"}]
  BY LimitAssumption DEF QueueInv, TypeOK
<1>b. /\ queue \in Seq(Msg) /\ todo \in Seq(Msg) /\ bounces \in Seq(Msg)
      /\ Elements(queue) \subseteq Msg /\ Elements(todo) \subseteq Msg
      /\ Elements(bounces) \subseteq Msg
  BY ElementsIn DEF QueueInv, TypeOK
<1>s. Shape
  BY DEF QueueInv
<1>g. Goal
  BY DEF QueueInv
<1> HIDE DEF Goal
<1>d. ASSUME NEW b \in BOOLEAN, Fault(b)
      PROVE  faults' \in Nat /\ faults' >= faults /\ (b => faults' = faults + 1)
  BY <1>a, <1>d DEF Fault
\* The message in hand.
<1>h. ASSUME todo # <<>>
      PROVE  /\ Head(todo) \in Msg /\ Tail(todo) \in Seq(Msg)
             /\ Elements(todo) = Elements(Tail(todo)) \cup {Head(todo)}
             /\ Distinct(Tail(todo)) /\ Head(todo) \notin Elements(Tail(todo))
             /\ Head(todo) \notin Elements(queue) /\ Head(todo) \in files /\ Head(todo) \in Work
             /\ client[Head(todo)] \notin {"new", "added"}
             /\ sAttempts[Head(todo)] <= attempts[Head(todo)]
             /\ attempts[Head(todo)] < MaxAttempts
  <2>1. /\ Head(todo) \in Msg /\ Tail(todo) \in Seq(Msg)
        /\ Elements(todo) = Elements(Tail(todo)) \cup {Head(todo)}
        /\ Distinct(Tail(todo)) /\ Head(todo) \notin Elements(Tail(todo))
    BY <1>b, <1>g, <1>h, TailElements DEF Goal, Once
  <2> QED
    BY <1>g, <2>1 DEF Goal, Once, Entered, Ahead, Work
<1>1. ASSUME NEW m \in Msg, Add(m) PROVE Goal'
  <2>1. m \notin files /\ m \notin Work /\ tries[m] = 0
    BY <1>1, <1>g DEF Add, Goal, Entered, Ahead
  <2>2. Once' /\ SentIsKnown' /\ AckedIsKept'
    BY <1>1, <1>g DEF Add, Goal, Once, SentIsKnown, AckedIsKept, Answered
  <2>3. Entered' /\ Ahead'
    BY <1>1, <1>a, <1>g, <2>1 DEF Add, Goal, Entered, Ahead, Work
  <2>4. Budget'
    BY <1>1, <1>a, <1>g, <2>1 DEF Add, Goal, Budget, RetriesBounded, Unsettled
  <2> QED
    BY <2>2, <2>3, <2>4 DEF Goal
<1>2. ASSUME NEW m \in Msg, NEW renamed \in BOOLEAN, AddFails(m, renamed) PROVE Goal'
  <2>1. m \notin files /\ m \notin Work /\ tries[m] = 0 /\ client[m] = "new"
    BY <1>2, <1>g DEF AddFails, Goal, Entered, Ahead
  <2>2. faults' \in Nat /\ faults' >= faults
    BY <1>2, <1>d DEF AddFails
  <2>3. \/ files' = files /\ sAttempts' = sAttempts
        \/ files' = files \cup {m} /\ sAttempts' = [sAttempts EXCEPT ![m] = 0]
    BY <1>2, Zenon DEF AddFails
  <2>4. /\ client' = [client EXCEPT ![m] = "refused"]
        /\ UNCHANGED <<queue, todo, bounces, attempts, pc, result, delivered, reported, dropped, tries>>
    BY <1>2 DEF AddFails
  <2>5. Once' /\ SentIsKnown' /\ AckedIsKept'
    BY <1>a, <1>g, <2>3, <2>4 DEF Goal, Once, SentIsKnown, AckedIsKept, Answered
  <2>6. CASE files' = files /\ sAttempts' = sAttempts
    <3>1. Entered' /\ Ahead'
      BY <1>a, <1>g, <2>1, <2>4, <2>6 DEF Goal, Entered, Ahead, Work
    <3>2. Budget'
      BY <1>a, <1>g, <2>1, <2>2, <2>4, <2>6 DEF Goal, Budget, RetriesBounded, Unsettled
    <3> QED
      BY <2>5, <3>1, <3>2 DEF Goal
  <2>7. CASE files' = files \cup {m} /\ sAttempts' = [sAttempts EXCEPT ![m] = 0]
    <3>1. Entered' /\ Ahead'
      BY <1>a, <1>g, <2>1, <2>4, <2>7 DEF Goal, Entered, Ahead, Work
    <3>2. Budget'
      BY <1>a, <1>g, <2>1, <2>2, <2>4, <2>7 DEF Goal, Budget, RetriesBounded, Unsettled
    <3> QED
      BY <2>5, <3>1, <3>2 DEF Goal
  <2> QED
    BY <2>3, <2>6, <2>7
<1>3. ASSUME NEW m \in Msg, Accept(m) PROVE Goal'
  <2>1. m \in files /\ m \notin Work /\ sAttempts[m] = 0 /\ pc # "sent"
    BY <1>3, <1>g DEF Accept, Goal, Entered
  <2>2. /\ Elements(queue') = Elements(queue) \cup {m}
        /\ Distinct(queue')
    BY <1>3, <1>b, <1>g, <2>1, AppendElements DEF Accept, Goal, Once, Work
  <2>3. Once'
    BY <1>3, <1>g, <2>1, <2>2 DEF Accept, Goal, Once, Work
  <2>4. Work' = Work \cup {m}
    BY <1>3, <2>2 DEF Accept, Work
  <2>5. Entered'
    BY <1>3, <1>a, <1>g, <2>1, <2>4 DEF Accept, Goal, Entered
  <2>6. Ahead'
    BY <1>3, <1>a, <1>g, <2>1, <2>4 DEF Accept, Goal, Ahead
  <2>7. Budget'
    BY <1>3, <1>a, <1>g, <2>1 DEF Accept, Goal, Budget, RetriesBounded, Unsettled
  <2>8. SentIsKnown' /\ AckedIsKept'
    BY <1>3, <1>a, <1>g, <2>1 DEF Accept, Goal, SentIsKnown, AckedIsKept, Answered
  <2> QED
    BY <2>3, <2>5, <2>6, <2>7, <2>8 DEF Goal
<1>4. ASSUME TickBegin PROVE Goal'
  <2>1. todo = <<>> /\ bounces = <<>>
    BY <1>4, <1>s DEF TickBegin, Shape
  <2>2. Elements(queue') = {} /\ Distinct(queue') /\ Elements(todo) = {}
    BY <1>4, <2>1, EmptyElements DEF TickBegin
  <2>3. Once'
    BY <1>4, <1>g, <2>2 DEF TickBegin, Goal, Once
  <2>4. Work' = Work /\ bounces' = bounces
    BY <1>4, <2>1, <2>2 DEF TickBegin, Work
  <2>5. Entered' /\ Ahead'
    BY <1>4, <1>g, <2>4 DEF TickBegin, Goal, Entered, Ahead
  <2>6. Budget'
    BY <1>4, <1>a, <1>g DEF TickBegin, Goal, Budget, RetriesBounded, Unsettled
  <2>7. SentIsKnown' /\ AckedIsKept'
    BY <1>4, <1>g, <2>4 DEF TickBegin, Goal, SentIsKnown, AckedIsKept, Answered
  <2> QED
    BY <2>3, <2>5, <2>6, <2>7 DEF Goal
<1>5. ASSUME Hold PROVE Goal'
  <2>1. todo # <<>> /\ queue' = Append(queue, Head(todo)) /\ todo' = Tail(todo) /\ pc = "tick"
    BY <1>5 DEF Hold
  <2>2. Elements(queue') = Elements(queue) \cup {Head(todo)} /\ Distinct(queue')
    BY <1>b, <1>g, <1>h, <2>1, AppendElements DEF Goal, Once
  <2>3. Once'
    BY <1>g, <1>h, <2>1, <2>2 DEF Goal, Once
  <2>4. Work' = Work
    BY <1>h, <2>1, <2>2 DEF Work
  <2>5. Entered' /\ Ahead'
    BY <1>5, <1>g, <2>4 DEF Hold, Goal, Entered, Ahead
  <2>6. Budget'
    BY <1>5, <1>a, <1>g DEF Hold, Goal, Budget, RetriesBounded, Unsettled
  <2>7. SentIsKnown' /\ AckedIsKept'
    BY <1>5, <1>g DEF Hold, Goal, SentIsKnown, AckedIsKept, Answered
  <2> QED
    BY <2>3, <2>5, <2>6, <2>7 DEF Goal
<1>6. ASSUME NEW r \in {"Delivered", "TempFail", "PermFail"}, Send(r) PROVE Goal'
  <2> DEFINE h == Head(todo)
  <2>1. /\ todo # <<>> /\ pc = "tick" /\ pc' = "sent" /\ result' = r
        /\ tries' = [tries EXCEPT ![h] = @ + 1]
        /\ delivered' = IF r = "Delivered" THEN delivered \cup {h} ELSE delivered
        /\ UNCHANGED <<client, files, sAttempts, queue, attempts, todo, bounces, reported, dropped, faults>>
    BY <1>6 DEF Send
  <2>2. Once' /\ Ahead' /\ SentIsKnown' /\ AckedIsKept'
    BY <1>g, <2>1 DEF Goal, Once, Ahead, SentIsKnown, AckedIsKept, Answered, Work
  <2>3. Entered'
    BY <1>a, <1>g, <1>h, <2>1 DEF Goal, Entered, Work
  <2>4. h \in files /\ tries[h] <= sAttempts[h] + faults /\ sAttempts[h] < MaxAttempts
    BY <1>a, <1>g, <1>h, <2>1 DEF Goal, Entered, Budget, Unsettled
  <2>5. \A m \in files : tries'[m] <= sAttempts[m] + faults + IF m = h THEN 1 ELSE 0
    BY <1>a, <1>g, <2>1, <2>4 DEF Goal, Budget, Unsettled
  <2>6. Budget'
    BY <1>a, <1>g, <2>1, <2>4, <2>5 DEF Goal, Budget, Unsettled, RetriesBounded
  <2> QED
    BY <2>2, <2>3, <2>6 DEF Goal
\* What the end of a send does: the message leaves the pass, its file goes or a fault
\* is counted.
<1>r. ASSUME pc = "sent", pc' = "tick", todo' = Tail(todo), UNCHANGED <<client, queue, tries>>,
             \A m \in Msg : m # Head(todo) => attempts'[m] = attempts[m],
             NEW ok \in BOOLEAN, RemoveDurable(Head(todo), ok)
      PROVE  /\ Once' /\ Entered' /\ Ahead' /\ Budget'
             /\ files' = files \/ files' = files \ {Head(todo)}
  <2> DEFINE h == Head(todo)
  <2>1. todo # <<>>
    BY <1>r, <1>s DEF Shape
  <2>2. h \in Msg /\ h \in files /\ h \notin Elements(Tail(todo)) /\ h \notin Elements(queue)
    BY <1>h, <2>1
  <2>3. /\ faults' \in Nat /\ faults' >= faults /\ sAttempts' = sAttempts
        /\ \/ files' = files /\ faults' = faults + 1
           \/ files' = files \ {h}
    <3>1. CASE ok
      BY <1>r, <1>d, <3>1 DEF RemoveDurable
    <3>2. CASE ~ok
      BY <1>r, <1>d, <3>2 DEF RemoveDurable
    <3> QED
      BY <3>1, <3>2
  <2>4. Work' = Elements(queue) \cup Elements(Tail(todo)) /\ Work' \subseteq Work /\ h \notin Work'
    BY <1>r, <1>h, <2>1 DEF Work
  <2>5. Once'
    BY <1>r, <1>g, <1>h, <2>1 DEF Goal, Once
  <2>6. Entered'
    BY <1>r, <1>a, <1>g, <1>h, <2>1, <2>2, <2>3, <2>4 DEF Goal, Entered
  <2>7. Ahead'
    BY <1>r, <1>a, <1>g, <2>2, <2>3, <2>4 DEF Goal, Ahead
  <2>8. Budget'
    <3>1. ASSUME NEW m \in files' PROVE tries'[m] <= sAttempts'[m] + faults' + Unsettled(m)'
      <4>1. m \in files /\ m \in Msg /\ Unsettled(m)' = 0
        BY <1>r, <1>a, <2>3 DEF Unsettled
      <4>2. CASE m = h
        BY <1>r, <1>a, <1>g, <2>3, <4>1, <4>2 DEF Goal, Budget, Unsettled
      <4>3. CASE m # h
        BY <1>r, <1>a, <1>g, <2>3, <4>1, <4>3 DEF Goal, Budget, Unsettled
      <4> QED
        BY <4>2, <4>3
    <3>2. RetriesBounded'
      BY <1>r, <1>a, <1>g, <2>3 DEF Goal, Budget, RetriesBounded
    <3> QED
      BY <3>1, <3>2 DEF Budget
  <2> QED
    BY <2>3, <2>5, <2>6, <2>7, <2>8
<1>7. ASSUME NEW ok \in BOOLEAN, Settle(ok) PROVE Goal'
  <2>1. /\ pc = "sent" /\ pc' = "tick" /\ result = "Delivered" /\ todo' = Tail(todo)
        /\ UNCHANGED <<client, queue, attempts, tries, bounces, delivered, reported, dropped>>
        /\ RemoveDurable(Head(todo), ok)
    BY <1>7, Zenon DEF Settle
  <2>2. Once' /\ Entered' /\ Ahead' /\ Budget' /\ (files' = files \/ files' = files \ {Head(todo)})
    BY <1>r, <2>1
  <2>3. Head(todo) \in delivered
    BY <1>g, <2>1 DEF Goal, SentIsKnown
  <2>4. SentIsKnown' /\ AckedIsKept'
    BY <1>g, <2>1, <2>2, <2>3 DEF Goal, SentIsKnown, AckedIsKept, Answered
  <2> QED
    BY <2>2, <2>4 DEF Goal
<1>8. ASSUME NEW ok \in BOOLEAN, Bounce(ok) PROVE Goal'
  <2>1. /\ pc = "sent" /\ pc' = "tick" /\ todo' = Tail(todo)
        /\ UNCHANGED <<client, queue, tries, delivered, reported, dropped>>
        /\ RemoveDurable(Head(todo), ok)
        /\ bounces' = Append(bounces, Head(todo))
        /\ attempts' = attempts \/ attempts' = [attempts EXCEPT ![Head(todo)] = @ + 1]
    BY <1>8, Zenon DEF Bounce
  <2>2. \A m \in Msg : m # Head(todo) => attempts'[m] = attempts[m]
    BY <1>a, <2>1
  <2>3. Once' /\ Entered' /\ Ahead' /\ Budget' /\ (files' = files \/ files' = files \ {Head(todo)})
    BY <1>r, <2>1, <2>2
  <2>4. Elements(bounces') = Elements(bounces) \cup {Head(todo)}
    BY <1>b, <1>h, <1>s, <2>1, AppendElements DEF Shape
  <2>5. SentIsKnown' /\ AckedIsKept'
    BY <1>g, <2>1, <2>3, <2>4 DEF Goal, SentIsKnown, AckedIsKept, Answered
  <2> QED
    BY <2>3, <2>5 DEF Goal
<1>9. ASSUME NEW ok \in BOOLEAN, Defer(ok) PROVE Goal'
  <2> DEFINE h == Head(todo)
  <2>1. /\ pc = "sent" /\ pc' = "tick" /\ todo' = Tail(todo) /\ queue' = Append(queue, h)
        /\ attempts[h] + 1 < MaxAttempts /\ attempts' = [attempts EXCEPT ![h] = @ + 1]
        /\ UNCHANGED <<client, tries, bounces, delivered, reported, dropped>>
        /\ UpdateDurable(h, attempts[h] + 1, ok)
    BY <1>9, Zenon DEF Defer
  <2>2. todo # <<>>
    BY <1>s, <2>1 DEF Shape
  <2>3. /\ faults' \in Nat /\ faults' >= faults /\ files' = files
        /\ \/ sAttempts' = sAttempts /\ faults' = faults + 1
           \/ sAttempts' = [sAttempts EXCEPT ![h] = attempts[h] + 1]
    <3>1. CASE ok
      BY <1>d, <1>h, <2>1, <2>2, <3>1 DEF UpdateDurable
    <3>2. CASE ~ok
      BY <1>d, <2>1, <3>2 DEF UpdateDurable
    <3> QED
      BY <3>1, <3>2
  <2>4. Elements(queue') = Elements(queue) \cup {h} /\ Distinct(queue')
    BY <1>b, <1>g, <1>h, <2>1, <2>2, AppendElements DEF Goal, Once
  <2>5. Once'
    BY <1>g, <1>h, <2>1, <2>2, <2>4 DEF Goal, Once
  <2>6. Work' = Work
    BY <1>h, <2>1, <2>2, <2>4 DEF Work
  \* The count in the file: the old one and a fault more, or the new one.
  <2>7. /\ \A m \in Msg : m # h => sAttempts'[m] = sAttempts[m] /\ attempts'[m] = attempts[m]
        /\ attempts'[h] = attempts[h] + 1 /\ h \in Msg /\ sAttempts'[h] \in Nat
        /\ sAttempts'[h] <= attempts[h] + 1
        /\ sAttempts'[h] + faults' >= sAttempts[h] + faults + 1
    <3>1. h \in Msg /\ sAttempts[h] <= attempts[h]
      BY <1>h, <2>2
    <3>2. CASE sAttempts' = sAttempts /\ faults' = faults + 1
      BY <1>a, <2>1, <2>3, <3>1, <3>2
    <3>3. CASE sAttempts' = [sAttempts EXCEPT ![h] = attempts[h] + 1]
      BY <1>a, <2>1, <2>3, <3>1, <3>3
    <3> QED
      BY <2>3, <3>2, <3>3
  <2>8. Entered'
    BY <1>a, <1>g, <1>h, <2>1, <2>2, <2>3, <2>6, <2>7 DEF Goal, Entered
  <2>9. Ahead'
    BY <1>a, <1>g, <2>1, <2>3, <2>6, <2>7 DEF Goal, Ahead
  <2>10. Budget'
    <3>1. ASSUME NEW m \in files PROVE tries[m] <= sAttempts'[m] + faults'
      <4>1. m \in Msg /\ tries[m] <= sAttempts[m] + faults + Unsettled(m)
        BY <1>a, <1>g DEF Goal, Budget
      <4>2. CASE m = h
        <5>1. tries[h] <= sAttempts[h] + faults + 1 /\ tries[h] \in Nat /\ sAttempts[h] \in Nat
          BY <1>a, <2>1, <4>1, <4>2 DEF Unsettled
        <5> QED
          BY <1>a, <2>3, <2>7, <4>2, <5>1
      <4>3. CASE m # h
        <5>1. tries[m] <= sAttempts[m] + faults /\ tries[m] \in Nat /\ sAttempts[m] \in Nat
          BY <1>a, <4>1, <4>3 DEF Unsettled
        <5>2. sAttempts'[m] = sAttempts[m]
          BY <2>7, <4>1, <4>3
        <5> QED
          BY <1>a, <2>3, <5>1, <5>2
      <4> QED
        BY <4>2, <4>3
    <3>2. RetriesBounded'
      BY <1>a, <1>g, <2>1, <2>3 DEF Goal, Budget, RetriesBounded
    <3> QED
      BY <1>t, <2>1, <2>3, <3>1, <3>2 DEF Budget, Unsettled, TypeOK
  <2>11. SentIsKnown' /\ AckedIsKept'
    BY <1>g, <2>1, <2>3 DEF Goal, SentIsKnown, AckedIsKept, Answered
  <2> QED
    BY <2>5, <2>8, <2>9, <2>10, <2>11 DEF Goal
\* Steps that leave alone the files, the queue and what is known of the messages.
<1>u. ASSUME UNCHANGED <<client, files, sAttempts, queue, attempts, todo, bounces, tries, faults,
                         result, delivered, reported, dropped>>,
             pc' = pc \/ (pc # "sent" /\ pc' \notin {"sent", "down"})
      PROVE  Goal'
  <2>1. Work' = Work
    BY <1>u DEF Work
  <2>2. Once' /\ Entered' /\ Ahead'
    BY <1>u, <1>g, <2>1 DEF Goal, Once, Entered, Ahead
  <2>3. Budget' /\ SentIsKnown'
    BY <1>u, <1>a, <1>g DEF Goal, Budget, RetriesBounded, Unsettled, SentIsKnown
  <2>4. AckedIsKept'
    BY <1>u, <1>g DEF Goal, AckedIsKept, Answered
  <2> QED
    BY <2>2, <2>3, <2>4 DEF Goal
<1>10. ASSUME TickEnd PROVE Goal'
  BY <1>10, <1>u DEF TickEnd
<1>11. ASSUME Report PROVE Goal'
  <2>1. bounces # <<>> /\ Elements(bounces) = Elements(bounces') \cup {Head(bounces)}
    BY <1>11, <1>b, <1>s, TailElements DEF Report, Shape
  <2>2. Work' = Work
    BY <1>11 DEF Report, Work
  <2>3. Once' /\ Entered' /\ Ahead'
    BY <1>11, <1>g, <2>2 DEF Report, Goal, Once, Entered, Ahead
  <2>4. Budget' /\ SentIsKnown'
    BY <1>11, <1>a, <1>g DEF Report, Goal, Budget, RetriesBounded, Unsettled, SentIsKnown
  <2>5. AckedIsKept'
    BY <1>11, <1>g, <2>1 DEF Report, Goal, AckedIsKept, Answered
  <2> QED
    BY <2>3, <2>4, <2>5 DEF Goal
<1>12. ASSUME SaveState PROVE Goal'
  BY <1>12, <1>u DEF SaveState
<1>13. ASSUME NEW m \in Msg, Elapse(m) PROVE Goal'
  BY <1>13, <1>u DEF Elapse
<1>14. ASSUME NEW t \in Tenants, NewDay(t) PROVE Goal'
  BY <1>14, <1>u DEF NewDay
<1>15. ASSUME Crash PROVE Goal'
  <2>1. faults' = faults + 1
    BY <1>15, <1>d DEF Crash
  <2>2. /\ Elements(queue') = {} /\ Elements(todo') = {} /\ Distinct(queue') /\ Distinct(todo')
        /\ dropped' = dropped \cup Elements(bounces)
        /\ UNCHANGED <<files, sAttempts, delivered, reported, tries, result>> /\ pc' = "down"
        /\ client' = [m \in Msg |-> IF client[m] = "added" THEN "gone" ELSE client[m]]
    BY <1>15, EmptyElements DEF Crash
  <2>3. Once' /\ SentIsKnown'
    BY <2>2 DEF Once, SentIsKnown
  <2>4. Entered' /\ Ahead'
    BY <1>a, <1>g, <2>2 DEF Goal, Entered, Ahead, Work
  <2>5. Budget'
    BY <1>a, <1>g, <2>1, <2>2 DEF Goal, Budget, RetriesBounded, Unsettled
  <2>6. AckedIsKept'
    BY <1>a, <1>g, <2>2 DEF Goal, AckedIsKept, Answered
  <2> QED
    BY <2>3, <2>4, <2>5, <2>6 DEF Goal
<1>16. ASSUME Recover PROVE Goal'
  <2>1. /\ queue' \in Orders(files) /\ attempts' = sAttempts /\ pc = "down" /\ pc' = "idle"
        /\ UNCHANGED <<client, files, sAttempts, todo, bounces, delivered, reported, dropped, tries, faults>>
    BY <1>16 DEF Recover
  <2>2. Elements(queue') = files /\ Distinct(queue')
    BY <1>a, <2>1, OrdersAreDistinct
  <2>3. todo = <<>> /\ Elements(todo) = {}
    BY <1>s, <2>1, EmptyElements DEF Shape
  <2>4. Work' = files
    BY <2>1, <2>2, <2>3 DEF Work
  <2>5. Once'
    BY <1>g, <2>1, <2>2, <2>3 DEF Goal, Once
  <2>6. Entered' /\ Ahead'
    BY <1>a, <1>g, <2>1, <2>4 DEF Goal, Entered, Ahead
  <2>7. Budget' /\ SentIsKnown'
    BY <1>a, <1>g, <2>1 DEF Goal, Budget, RetriesBounded, Unsettled, SentIsKnown
  <2>8. AckedIsKept'
    BY <1>g, <2>1 DEF Goal, AckedIsKept, Answered
  <2> QED
    BY <2>5, <2>6, <2>7, <2>8 DEF Goal
<1>17. ASSUME UNCHANGED vars PROVE Goal'
  BY <1>17, <1>u DEF vars
<1>18. Goal'
  BY <1>1, <1>2, <1>3, <1>4, <1>5, <1>6, <1>7, <1>8, <1>9, <1>10, <1>11, <1>12,
     <1>13, <1>14, <1>15, <1>16, <1>17 DEF Next, Scheduler
<1> QED
  BY <1>t, <1>18 DEF QueueInv, Goal

\* At every point of Enqueue, Tick, crash and restart QueueInv holds.
THEOREM QueueInvariant == Spec => []QueueInv
<1>1. QueueInv /\ [Next]_vars => QueueInv'
  BY QueueStep
<1> QED
  BY <1>1, QueueInit, PTL DEF Spec

\* However many messages there are and wherever the process dies: acknowledged mail
\* is on disk until it is answered for, and what would be sent is on disk, once, and
\* no further along there than in memory.
THEOREM MailStaysOnDisk == Spec => []MailIsOnDisk
<1>1. QueueInv => MailIsOnDisk
  <2> SUFFICES ASSUME QueueInv PROVE WorkIsOnDisk
    BY DEF QueueInv, MailIsOnDisk
  <2>1. Distinct(queue \o todo)
    BY ConcatDistinct DEF QueueInv, TypeOK, Once
  <2> QED
    BY <2>1 DEF QueueInv, Ahead, WorkIsOnDisk, Distinct
<1> QED
  BY <1>1, QueueInvariant, PTL

\* A message is sent at most MaxAttempts times, and once more for every crash and
\* every write that the file system refused.
THEOREM SendsAreBounded == Spec => []RetriesBounded
<1>1. QueueInv => RetriesBounded
  BY DEF QueueInv, Budget
<1> QED
  BY <1>1, QueueInvariant, PTL

\* A deleted queue file never comes back: only Enqueue makes files.
THEOREM FinishedStaysFinished == Spec => NoRevival
<1>1. QueueInv /\ [Next]_vars => [\A m \in Msg : m \in files' \ files => client[m] = "new"]_vars
  <2> SUFFICES ASSUME QueueInv, Next, NEW m \in Msg, m \in files', m \notin files
               PROVE  client[m] = "new"
    OBVIOUS
  <2> USE DEF store, memory, pass, history
  <2>1. ASSUME NEW n \in Msg, Add(n) PROVE client[m] = "new"
    BY <2>1 DEF Add
  <2>2. ASSUME NEW n \in Msg, NEW renamed \in BOOLEAN, AddFails(n, renamed) PROVE client[m] = "new"
    <3>1. (files' = files \/ files' = files \cup {n}) /\ client[n] = "new"
      BY <2>2, Zenon DEF AddFails
    <3> QED
      BY <3>1
  <2>3. ASSUME NEW ok \in BOOLEAN, Settle(ok) \/ Bounce(ok) PROVE client[m] = "new"
    <3>1. files' = files \/ files' = files \ {Head(todo)}
      BY <2>3, Zenon DEF Settle, Bounce, RemoveDurable
    <3> QED
      BY <3>1
  <2>4. ASSUME NEW ok \in BOOLEAN, Defer(ok) PROVE client[m] = "new"
    <3>1. (files' = files \/ files' = files \cup {Head(todo)}) /\ todo # <<>>
      BY <2>4, Zenon DEF Defer, UpdateDurable, QueueInv, Shape
    <3>2. Head(todo) \in files
      BY <3>1, TailElements DEF QueueInv, TypeOK, Ahead, Work
    <3> QED
      BY <3>1, <3>2
  <2>5. CASE files' = files
    BY <2>5
  <2>6. \/ files' = files
        \/ \E n \in Msg : Add(n)
        \/ \E n \in Msg, renamed \in BOOLEAN : AddFails(n, renamed)
        \/ \E ok \in BOOLEAN : Settle(ok) \/ Bounce(ok) \/ Defer(ok)
    BY DEF Next, Scheduler, Accept, TickBegin, Hold, Send, TickEnd, Report, SaveState, Elapse, NewDay,
           Crash, Recover
  <2> QED
    BY <2>1, <2>2, <2>3, <2>4, <2>5, <2>6
<1> QED
  BY <1>1, QueueInvariant, PTL DEF Spec, NoRevival

-----------------------------------------------------------------------------
(* The gates.                                                              *)

\* Every day of a ramp has a positive cap.
LEMMA CapIsPositive ==
  ASSUME Schedule # <<>>, NEW day \in Nat
  PROVE  capFor(day) \in Nat \ {0}
BY ScheduleAssumption DEF capFor

\* A send the gate allows keeps the cap and is remembered, and a new day starts both
\* copies of the counter at zero.
LEMMA RampMoves ==
  ASSUME Schedule # <<>>,
         NEW w \in [seen : BOOLEAN, day : Nat, used : Nat], RampOK(w),
         NEW o \in [seen : BOOLEAN, day : Nat, used : Nat], RampOK(o)
  PROVE  /\ Allow(w) => RampOK(RecordSend(w))
         /\ RampOK(NextDay(w))
         /\ NotBehind(o, w) => NotBehind(o, RecordSend(w)) /\ NotBehind(NextDay(o), NextDay(w))
<1>1. /\ w.seen \in BOOLEAN /\ w.day \in Nat /\ w.used \in Nat
      /\ o.seen \in BOOLEAN /\ o.day \in Nat /\ o.used \in Nat
      /\ Len(Schedule) \in Nat
      /\ capFor(w.day) \in Nat \ {0} /\ capFor(w.day + 1) \in Nat \ {0}
  <2>1. /\ w.seen \in BOOLEAN /\ w.day \in Nat /\ w.used \in Nat
        /\ o.seen \in BOOLEAN /\ o.day \in Nat /\ o.used \in Nat
    OBVIOUS
  <2>2. Len(Schedule) \in Nat /\ w.day + 1 \in Nat
    BY <2>1, ScheduleAssumption
  <2> QED
    BY <2>1, <2>2, CapIsPositive
<1>2. /\ RecordSend(w).seen = TRUE /\ RecordSend(w).day = w.day /\ RecordSend(w).used = w.used + 1
  BY DEF RecordSend
<1>3. ASSUME NEW v \in [seen : BOOLEAN, day : Nat, used : Nat]
      PROVE  /\ NextDay(v).seen = v.seen
             /\ v.seen => /\ NextDay(v).day = IF v.day < Len(Schedule) THEN v.day + 1 ELSE v.day
                          /\ NextDay(v).used = 0
             /\ ~v.seen => NextDay(v) = v
  BY DEF NextDay
<1>4. Allow(w) => RampOK(RecordSend(w))
  BY <1>1, <1>2 DEF Allow, RampOK
<1>5. RampOK(NextDay(w))
  <2>1. CASE w.seen
    BY <1>1, <1>3, <2>1 DEF RampOK
  <2>2. CASE ~w.seen
    BY <1>3, <2>2
  <2> QED
    BY <2>1, <2>2
<1>6. ASSUME NotBehind(o, w) PROVE NotBehind(o, RecordSend(w))
  BY <1>1, <1>2, <1>6 DEF NotBehind
<1>7. ASSUME NotBehind(o, w) PROVE NotBehind(NextDay(o), NextDay(w))
  BY <1>1, <1>3, <1>7 DEF NotBehind
<1> QED
  BY <1>4, <1>5, <1>6, <1>7

\* The gates at the start.
LEMMA GateInit == Init => GateInv
<1> SUFFICES ASSUME Init PROVE GateInv
  OBVIOUS
<1>1. ASSUME NEW t \in Tenants
      PROVE  gates.warm[t] = NoRamp /\ saved.warm[t] = NoRamp /\ gates.rep[t] = saved.rep[t]
  BY DEF Init, NoGates
<1>2. Schedule # <<>> => RampOK(NoRamp) /\ NotBehind(NoRamp, NoRamp)
  <2>1. Schedule # <<>> => capFor(0) \in Nat \ {0}
    BY CapIsPositive
  <2> QED
    BY <2>1 DEF RampOK, NotBehind, NoRamp
<1>3. pc = "idle"
  BY DEF Init
<1> QED
  BY <1>1, <1>2, <1>3 DEF GateInv, ThrottleSurvives

\* Every step keeps the gates.
LEMMA GateStep ==
  ASSUME TypeOK, Shape, GateInv, [Next]_vars
  PROVE  GateInv'
<1> USE DEF store, memory, pass, history
<1>a. /\ gates \in Gate /\ saved \in Gate
      /\ \A t \in Tenants :
           /\ gates.warm[t] \in [seen : BOOLEAN, day : Nat, used : Nat]
           /\ saved.warm[t] \in [seen : BOOLEAN, day : Nat, used : Nat]
  BY DEF TypeOK, Gate, Ramps
<1>h. ASSUME todo # <<>> PROVE Tenant[Head(todo)] \in Tenants
  BY <1>h, TailElements DEF TypeOK, Tenants
\* Outside Send, Settle and Bounce no send is in hand afterwards, or it is the same.
<1>u. ASSUME UNCHANGED <<gates, saved>>, pc' # "sent", pc = "down" => pc' = "down"
      PROVE  GateInv'
  BY <1>u DEF GateInv, ThrottleSurvives
<1>v. ASSUME UNCHANGED <<gates, saved, pc, todo>> PROVE GateInv'
  BY <1>v DEF GateInv, ThrottleSurvives
<1>1. ASSUME NEW r \in {"Delivered", "TempFail", "PermFail"}, Send(r) PROVE GateInv'
  <2> DEFINE x == Tenant[Head(todo)]
  <2>1. /\ x \in Tenants /\ ~Throttled(gates.rep[x]) /\ Allow(gates.warm[x])
        /\ gates' = [gates EXCEPT !.warm[x] = RecordSend(@)]
        /\ saved' = saved /\ todo' = todo /\ pc = "tick" /\ pc' = "sent"
    BY <1>1, <1>h DEF Send, Held
  <2>2. gates'.rep = gates.rep
    BY <1>a, <2>1 DEF Gate
  <2>3. \A t \in Tenants : gates'.warm[t] = IF t = x THEN RecordSend(gates.warm[x]) ELSE gates.warm[t]
    BY <1>a, <2>1 DEF Gate, Ramps
  <2>4. ASSUME Schedule # <<>>, NEW t \in Tenants
        PROVE  RampOK(gates'.warm[t]) /\ NotBehind(saved.warm[t], gates'.warm[t])
    BY <1>a, <2>1, <2>3, <2>4, RampMoves DEF GateInv
  <2> QED
    BY <2>1, <2>2, <2>4 DEF GateInv, ThrottleSurvives
\* The outcome of a send counts for its tenant, who was not throttled.
<1>2. ASSUME pc = "sent", pc' = "tick", saved' = saved, NEW n,
             gates' = [gates EXCEPT !.rep[Tenant[Head(todo)]] = n]
      PROVE  GateInv'
  <2> DEFINE x == Tenant[Head(todo)]
  <2>1. x \in Tenants
    BY <1>2, <1>h DEF Shape
  <2>2. gates'.warm = gates.warm /\ \A t \in Tenants : t # x => gates'.rep[t] = gates.rep[t]
    BY <1>a, <1>2 DEF Gate, Stats
  <2>3. ~Throttled(saved.rep[x])
    BY <1>2, <2>1 DEF GateInv, ThrottleSurvives
  <2> QED
    BY <1>2, <2>1, <2>2, <2>3 DEF GateInv, ThrottleSurvives
<1>3. ASSUME NEW ok \in BOOLEAN, Settle(ok) PROVE GateInv'
  BY <1>2, <1>3 DEF Settle
<1>4. ASSUME NEW ok \in BOOLEAN, Bounce(ok) PROVE GateInv'
  BY <1>2, <1>4 DEF Bounce
<1>5. ASSUME SaveState PROVE GateInv'
  <2>1. saved' = gates /\ gates' = gates /\ pc' = "idle"
    BY <1>5 DEF SaveState
  <2>2. \A t \in Tenants : NotBehind(gates.warm[t], gates.warm[t])
    BY <1>a DEF NotBehind
  <2> QED
    BY <2>1, <2>2 DEF GateInv, ThrottleSurvives
<1>6. ASSUME NEW d \in Tenants, NewDay(d) PROVE GateInv'
  <2>1. /\ gates' = [gates EXCEPT !.warm[d] = NextDay(@)] /\ saved' = [saved EXCEPT !.warm[d] = NextDay(@)]
        /\ pc' = pc /\ pc # "sent"
    BY <1>6 DEF NewDay
  <2>2. /\ gates'.rep = gates.rep /\ saved'.rep = saved.rep
        /\ \A t \in Tenants :
             /\ gates'.warm[t] = IF t = d THEN NextDay(gates.warm[d]) ELSE gates.warm[t]
             /\ saved'.warm[t] = IF t = d THEN NextDay(saved.warm[d]) ELSE saved.warm[t]
    BY <1>a, <2>1 DEF Gate, Ramps
  <2>3. ASSUME Schedule # <<>>, NEW t \in Tenants
        PROVE  /\ RampOK(gates'.warm[t]) /\ RampOK(saved'.warm[t])
               /\ pc # "down" => NotBehind(saved'.warm[t], gates'.warm[t])
    <3>1. RampOK(gates.warm[t]) /\ RampOK(saved.warm[t])
      BY <2>3 DEF GateInv
    <3>2. RampOK(NextDay(gates.warm[t])) /\ RampOK(NextDay(saved.warm[t]))
      BY <1>a, <2>3, <3>1, RampMoves
    <3>3. pc # "down" => /\ NotBehind(saved.warm[t], gates.warm[t])
                         /\ NotBehind(NextDay(saved.warm[t]), NextDay(gates.warm[t]))
      BY <1>a, <2>3, <3>1, RampMoves DEF GateInv
    <3> QED
      BY <2>2, <3>1, <3>2, <3>3
  <2> QED
    BY <2>1, <2>2, <2>3 DEF GateInv, ThrottleSurvives
<1>7. ASSUME Crash PROVE GateInv'
  <2>1. gates' = NoGates /\ saved' = saved /\ pc' = "down"
    BY <1>7 DEF Crash
  <2>2. Schedule # <<>> => \A t \in Tenants : RampOK(gates'.warm[t])
    <3>1. Schedule # <<>> => capFor(0) \in Nat \ {0}
      BY CapIsPositive
    <3>2. \A t \in Tenants : gates'.warm[t] = NoRamp
      BY <2>1 DEF NoGates
    <3> QED
      BY <3>1, <3>2 DEF RampOK, NoRamp
  <2> QED
    BY <2>1, <2>2 DEF GateInv, ThrottleSurvives
<1>8. ASSUME Recover PROVE GateInv'
  <2>1. gates' = saved /\ saved' = saved /\ pc' = "idle"
    BY <1>8 DEF Recover
  <2>2. \A t \in Tenants : NotBehind(saved.warm[t], saved.warm[t])
    BY <1>a DEF NotBehind
  <2> QED
    BY <2>1, <2>2 DEF GateInv, ThrottleSurvives
<1>9. ASSUME NEW m \in Msg, Add(m) \/ Accept(m) \/ Elapse(m) PROVE GateInv'
  BY <1>9, <1>v DEF Add, Accept, Elapse
<1>10. ASSUME NEW m \in Msg, NEW renamed \in BOOLEAN, AddFails(m, renamed) PROVE GateInv'
  BY <1>10, <1>v DEF AddFails
<1>11. ASSUME TickBegin \/ Hold \/ TickEnd \/ Report PROVE GateInv'
  BY <1>11, <1>u DEF TickBegin, Hold, TickEnd, Report
<1>12. ASSUME NEW ok \in BOOLEAN, Defer(ok) PROVE GateInv'
  BY <1>12, <1>u DEF Defer
<1>13. ASSUME UNCHANGED vars PROVE GateInv'
  BY <1>13, <1>v DEF vars
<1> QED
  BY <1>1, <1>3, <1>4, <1>5, <1>6, <1>7, <1>8, <1>9, <1>10, <1>11, <1>12, <1>13 DEF Next, Scheduler

\* Whatever the schedule, the tenants and the thresholds: no day's sends pass the
\* day's cap, a restart never falls behind the state file, and a tenant saved as
\* throttled is throttled in every later process.
THEOREM GatesAreKept == Spec => []GatesSurvive
<1>1. (TypeOK /\ Shape) /\ GateInv /\ [Next]_vars => GateInv'
  BY GateStep
<1>2. GateInv => GatesSurvive
  BY DEF GateInv, GatesSurvive, RampHonoured, RampOK, NotBehind
<1> QED
  BY <1>1, <1>2, Typing, GateInit, PTL DEF Spec
=============================================================================
